------------------------------ MODULE Messages ------------------------------
(***************************************************************************)
(* The messages of the directory and authentication commands: what each    *)
(* encoder writes and each decoder accepts (protocol/node_*.c, auth_*.c),  *)
(* over the fields of a body (tlv.c), the header of a frame, its checksum  *)
(* and the body of a chunk (protocol.c, codec.c, chunk.c).  A behaviour    *)
(* encodes one message; on the wire its bytes may be changed, with or      *)
(* without the checksum and the lengths being put right again.             *)
(*                                                                         *)
(* A body is a sequence of fields [type, bytes], with what is left of a    *)
(* field that was cut off at its end.  The bytes of a number are its big   *)
(* endian digits; those of a text are the text; of other byte strings the  *)
(* length and whether they are all zero are kept.  CRC-32C is taken to     *)
(* tell any two frames apart: a checksum is the content it was computed    *)
(* over.                                                                   *)
(***************************************************************************)
EXTENDS Integers, Sequences, FiniteSets, SequencesExt, FiniteSetsExt

CONSTANTS Radix,        \* values a byte takes: 256 in the code
          MaxBody,      \* VIREO_PROTOCOL_MAX_BODY_SIZE
          MaxOffset,    \* UINT64_MAX of a chunk offset
          MaxEdits,     \* changes to a frame on its way
          MaxText       \* bytes of a text

Header == 4      \* VIREO_TLV_HEADER_SIZE

-----------------------------------------------------------------------------
(* Numbers. *)

write_be(v, n) == [i \in 1..n |-> (v \div Radix^(n - i)) % Radix]
read_be(digits) == FoldLeft(LAMBDA v, d : v * Radix + d, 0, digits)

(* A byte string by its length and content: numbers and raw strings. *)
Number(v, n) == [len |-> n, kind |-> "number", digits |-> write_be(v, n), zero |-> v = 0]
Raw(n, zero) == [len |-> n, kind |-> "raw", digits |-> <<>>, zero |-> zero]
Text(class, n) == [len |-> n, kind |-> class, digits |-> <<>>, zero |-> FALSE]

-----------------------------------------------------------------------------
(* Texts.  byte values are those of the code. *)

tlv_utf8_is_continuation(byte) == byte \div 64 = 2

(* The length of the well formed character at the head of s, or 0. *)
Utf8Head(s) ==
    LET first == s[1]
        Continues(n) == Len(s) >= n /\ \A i \in 2..n : tlv_utf8_is_continuation(s[i])
    IN CASE first <= 127 -> 1
         [] first \in 194..223 /\ Continues(2) -> 2
         [] first \in 224..239 /\ Continues(3) /\ ~(first = 224 /\ s[2] < 160) /\ ~(first = 237 /\ s[2] > 159)
              -> 3
         [] first \in 240..244 /\ Continues(4) /\ ~(first = 240 /\ s[2] < 144) /\ ~(first = 244 /\ s[2] > 143)
              -> 4
         [] OTHER -> 0

(* ok[i]: the text is well formed from its i-th byte on. *)
tlv_utf8_is_valid(s) ==
    LET ok[i \in 1..(Len(s) + 1)] ==
          IF i = Len(s) + 1 THEN TRUE
          ELSE LET n == Utf8Head(SubSeq(s, i, Len(s))) IN n # 0 /\ ok[i + n]
    IN ok[1]

tlv_name_is_valid(s) ==
    /\ s \notin {<<>>, <<46>>, <<46, 46>>}
    /\ \A i \in 1..Len(s) : /\ s[i] > 31 /\ s[i] \notin {127, 47}
                            /\ ~(s[i] = 194 /\ i < Len(s) /\ s[i + 1] \in 128..159)

-----------------------------------------------------------------------------
(* Writing. *)

tlv_writer_init(capacity) == [rc |-> "OK", capacity |-> capacity, used |-> 0, fields |-> <<>>]
tlv_writer_put(w, type, bytes) ==
    LET used == w.used + Header + bytes.len
    IN CASE w.rc # "OK" -> w
         [] w.rc = "OK" /\ used > w.capacity -> [w EXCEPT !.rc = "RANGE"]
         [] OTHER -> [w EXCEPT !.used = used, !.fields = Append(@, [type |-> type, bytes |-> bytes])]
(* All the fields of a message, in order. *)
Written(capacity, fields) ==
    FoldLeft(LAMBDA w, f : tlv_writer_put(w, f[1], f[2]), tlv_writer_init(capacity), fields)

-----------------------------------------------------------------------------
(* Reading. *)

(* cut: the bytes that are left of a last, incomplete field. *)
Body(fields, cut) == [fields |-> fields, cut |-> cut]
BodySize(body) == FoldLeft(LAMBDA n, f : n + Header + f.bytes.len, body.cut, body.fields)
Truncation(body) == CASE body.cut = 0 -> "NONE" [] body.cut \in 1..3 -> "TRUNCATED_HEADER"
                      [] OTHER -> "TRUNCATED_VALUE"

Rule(type, min, max, kind, required, repeatable) ==
    [type |-> type, min |-> min, max |-> max, kind |-> kind, required |-> required,
     repeatable |-> repeatable]
Width == [U16 |-> 2, U32 |-> 4, U64 |-> 8]

tlv_value_validate(rule, f) ==
    CASE f.bytes.len < rule.min \/ f.bytes.len > rule.max -> "INVALID_LENGTH"
      [] f.bytes.len \in rule.min..rule.max ->
           CASE rule.kind \in DOMAIN Width -> IF f.bytes.len = Width[rule.kind] THEN "NONE" ELSE "INVALID_LENGTH"
             [] rule.kind = "NAME" -> CASE f.bytes.kind = "bad_utf8" -> "INVALID_UTF8"
                                        [] f.bytes.kind = "bad_name" -> "INVALID_NAME"
                                        [] OTHER -> "NONE"
             [] OTHER -> "NONE"

(* Mutant: fields are not checked for duplicates. *)
FieldIssueTwice(rules, fields, i) ==
    LET known == {r \in Range(rules) : r.type = fields[i].type}
    IN IF known = {} THEN "UNKNOWN_TYPE" ELSE tlv_value_validate(CHOOSE r \in known : TRUE, fields[i])

(* The issue of the i-th field, given the ones before it. *)
FieldIssue(rules, fields, i) ==
    LET f == fields[i]
        under(rule) == IF ~rule.repeatable /\ \E j \in 1..(i - 1) : fields[j].type = f.type
                       THEN "DUPLICATE_FIELD" ELSE tlv_value_validate(rule, f)
    IN IF \A r \in Range(rules) : r.type # f.type THEN "UNKNOWN_TYPE"
       ELSE under(CHOOSE r \in Range(rules) : r.type = f.type)

(* VIREO_TLV_UNKNOWN_REJECT, the policy of every caller: the first issue   *)
(* of the fields, then a truncation, then a field that is missing.         *)
tlv_schema_validate(body, rules) ==
    LET missing == \E r \in Range(rules) : r.required /\ \A f \in Range(body.fields) : f.type # r.type
        first(issues) ==
          LET k == SelectInSeq(issues, LAMBDA issue : issue # "NONE")
          IN IF k # 0 THEN issues[k]
             ELSE IF Truncation(body) # "NONE" THEN Truncation(body)
             ELSE IF missing THEN "MISSING_REQUIRED_FIELD" ELSE "NONE"
    IN first([i \in 1..Len(body.fields) |-> FieldIssue(rules, body.fields, i)])

(* The bytes of the last field of a type, or none. *)
FieldOf(body, type, none) ==
    LET at == {i \in 1..Len(body.fields) : body.fields[i].type = type}
    IN IF at = {} THEN none ELSE body.fields[Max(at)].bytes

-----------------------------------------------------------------------------
(* The header of a frame. *)

HeaderSize == 32        \* VIREO_PROTOCOL_HEADER_SIZE
Flags == {"RESPONSE", "LONG_COMMAND", "CHUNK", "END", "NEED_ACK", "MORE"}

NodeCommands == {"NODE_LIST", "NODE_STAT", "NODE_MKDIR", "NODE_REMOVE", "NODE_MOVE", "NODE_ROOT"}
AuthCommands == {"REGISTER", "LOGIN", "LOGOUT", "SESSION_RESUME"}
KnownCommands == NodeCommands \cup AuthCommands \cup
    {"PING", "SERVER_INFO", "UPLOAD_INIT", "UPLOAD_CHUNK", "UPLOAD_COMMIT", "UPLOAD_ABORT", "UPLOAD_STATUS",
     "DOWNLOAD_INIT", "DOWNLOAD_CHUNK", "DOWNLOAD_ACK", "DOWNLOAD_FINISH", "DOWNLOAD_ABORT",
     "DOWNLOAD_SOURCES", "TASK_LIST", "TASK_STATUS", "TASK_CANCEL", "STORAGE_REGISTER",
     "STORAGE_HEARTBEAT", "STORAGE_GET_CHUNK", "STORAGE_DELETE_CHUNK"}
command_is_known(c) == c \in KnownCommands
command_is_reserved(c) == c = "STORAGE_PUT_RESERVED"
KnownStatuses ==
    {"OK", "ACCEPTED", "BAD_REQUEST", "UNSUPPORTED", "VERSION_MISMATCH", "CRC_MISMATCH", "BODY_TOO_LARGE",
     "INVALID_FLAGS", "DUPLICATE_REQUEST", "RATE_LIMITED", "UNAUTHORIZED", "FORBIDDEN", "INVALID_TOKEN",
     "AUTHENTICATION_FAILED", "SESSION_EXPIRED", "USER_EXISTS", "USER_DISABLED", "WEAK_CREDENTIAL",
     "NOT_FOUND", "ALREADY_EXISTS", "INVALID_PATH", "NOT_DIRECTORY", "DIRECTORY_NOT_EMPTY", "CONFLICT",
     "UPLOAD_REJECTED", "TASK_NOT_FOUND", "CHUNK_MISMATCH", "HASH_MISMATCH", "INVALID_TASK_STATE",
     "TASK_EXPIRED", "RANGE_INVALID", "CHUNK_WINDOW_EXCEEDED", "TASK_CANCELLED", "SOURCE_UNAVAILABLE",
     "RESUME", "FAST_UPLOAD", "PARTIAL", "CHUNK_ALREADY_RECEIVED", "BUSY", "INTERNAL_ERROR",
     "STORAGE_NO_SPACE", "DB_ERROR", "IO_ERROR", "TIMEOUT", "OVERLOADED", "UNAVAILABLE"}
status_is_known(s) == s \in KnownStatuses
protocol_flags_have_unknown_bits(flags) == ~(flags \subseteq Flags)

(* A frame: its header, its body, and the number of bytes that arrived. *)
Plain == [magic |-> TRUE, version |-> 1, header_len |-> HeaderSize, command |-> "PING", flags |-> {},
          status |-> "OK", body_len |-> 0, sequence |-> 1, session_handle |-> 0, task_handle |-> 0,
          crc |-> <<>>]

Unsealed(h) == [h EXCEPT !.crc = <<>>]
protocol_frame_crc32c_calculate(h, body) == <<Unsealed(h), body>>

(* protocol_header_encode twice around the checksum. *)
publish(h, body) ==
    LET header == [h EXCEPT !.crc = protocol_frame_crc32c_calculate(h, body)]
    IN [header |-> header, body |-> body, size |-> HeaderSize + BodySize(body)]

protocol_header_decode(frame) ==
    LET h == frame.header
    IN CASE frame.size < HeaderSize -> "RANGE"
         [] frame.size >= HeaderSize /\ ~h.magic -> "INVALID_MAGIC"
         [] frame.size >= HeaderSize /\ h.magic /\ h.version # 1 -> "VERSION_MISMATCH"
         [] frame.size >= HeaderSize /\ h.magic /\ h.version = 1 /\ h.header_len # HeaderSize
              -> "INVALID_HEADER_LENGTH"
         [] OTHER -> IF h.body_len > MaxBody THEN "BODY_TOO_LARGE" ELSE "NONE"

HeaderIssue(h) ==
    CASE h.body_len > MaxBody -> "BODY_TOO_LARGE"
      [] h.body_len <= MaxBody /\ protocol_flags_have_unknown_bits(h.flags) -> "UNKNOWN_FLAGS"
      [] OTHER -> CASE command_is_reserved(h.command) -> "RESERVED_COMMAND"
                    [] ~command_is_reserved(h.command) /\ ~command_is_known(h.command) -> "UNKNOWN_COMMAND"
                    [] OTHER -> IF h.sequence = 0 THEN "INVALID_SEQUENCE" ELSE "NONE"
protocol_request_header_validate(h) ==
    CASE HeaderIssue(h) # "NONE" -> HeaderIssue(h)
      [] HeaderIssue(h) = "NONE" /\ "RESPONSE" \in h.flags -> "REQUEST_HAS_RESPONSE_FLAG"
      [] OTHER -> CASE "MORE" \in h.flags -> "REQUEST_HAS_MORE_FLAG"
                    [] "MORE" \notin h.flags /\ h.status # "OK" -> "INVALID_REQUEST_STATUS"
                    [] OTHER -> "NONE"
protocol_response_header_validate(h) ==
    CASE HeaderIssue(h) # "NONE" -> HeaderIssue(h)
      [] HeaderIssue(h) = "NONE" /\ "RESPONSE" \notin h.flags -> "RESPONSE_MISSING_RESPONSE_FLAG"
      [] OTHER -> IF status_is_known(h.status) THEN "NONE" ELSE "UNKNOWN_RESPONSE_STATUS"

protocol_frame_crc32c_verify(frame) ==
    CASE frame.header.body_len # BodySize(frame.body) -> "BODY_LENGTH_MISMATCH"
      [] OTHER -> IF frame.header.crc = protocol_frame_crc32c_calculate(frame.header, frame.body)
                  THEN "NONE" ELSE "CRC_MISMATCH"

-----------------------------------------------------------------------------
(* Chunks.  A chunk: [chunk_index, offset, data_len, crc]; crc names the   *)
(* data it was computed over.                                              *)

ChunkHeader == 56
MaxChunkData == MaxBody - ChunkHeader

chunk_data_crc32c_calculate(data) == <<data>>
chunk_body_encode(header, data, data_size, capacity) ==
    CASE data_size > MaxChunkData \/ header.data_len > MaxChunkData \/ data_size # header.data_len
           -> [rc |-> "RANGE"]
      [] data_size <= MaxChunkData /\ data_size = header.data_len /\ header.offset + data_size > MaxOffset
           -> [rc |-> "OVERFLOW"]
      [] OTHER -> IF ChunkHeader + data_size > capacity THEN [rc |-> "RANGE"]
                  ELSE [rc |-> "OK", body |-> [header |-> header, header_len |-> ChunkHeader, data |-> data,
                                               size |-> ChunkHeader + data_size]]
chunk_body_decode(body) ==
    CASE body.size > MaxBody -> "BODY_TOO_LARGE"
      [] body.size < ChunkHeader -> "TRUNCATED_HEADER"
      [] body.size \in ChunkHeader..MaxBody /\ body.header_len # ChunkHeader -> "INVALID_HEADER_LENGTH"
      [] OTHER -> CASE body.header.data_len > MaxChunkData -> "DATA_TOO_LARGE"
                    [] body.header.data_len <= MaxChunkData /\ body.header.data_len # body.size - ChunkHeader
                         -> "BODY_LENGTH_MISMATCH"
                    [] OTHER -> IF body.header.offset + body.header.data_len > MaxOffset
                                THEN "RANGE_OVERFLOW" ELSE "NONE"
chunk_data_crc32c_verify(body) ==
    IF body.header.crc = chunk_data_crc32c_calculate(body.data) THEN "NONE" ELSE "CRC_MISMATCH"

-----------------------------------------------------------------------------
VARIABLES kind,     \* which message
          value,    \* what the sender encodes
          frame,    \* the bytes, or NoFrame when the encoder refused
          edits,    \* changes made so far
          text,     \* a byte string for the text checks
          chunk     \* a chunk body, or NoFrame

vars == <<kind, value, frame, edits, text, chunk>>

NoFrame == [size |-> -1]
NoValue == [rc |-> "PROTOCOL"]
Abs(n) == IF n < 0 THEN -n ELSE n
NoBytes == [len |-> 0, kind |-> "none", digits |-> <<>>, zero |-> TRUE]

-----------------------------------------------------------------------------
(* Parts the codecs share. *)

CommonStatuses == {"OK", "BAD_REQUEST", "UNSUPPORTED", "CRC_MISMATCH", "BODY_TOO_LARGE", "INVALID_FLAGS",
                   "DUPLICATE_REQUEST", "RATE_LIMITED", "UNAUTHORIZED", "BUSY", "INTERNAL_ERROR",
                   "TIMEOUT", "OVERLOADED", "UNAVAILABLE"}
root_status_allowed == CommonStatuses
stat_status_allowed == CommonStatuses \cup {"NOT_FOUND"}
list_status_allowed == CommonStatuses \cup {"NOT_FOUND"}
mkdir_status_allowed == CommonStatuses \cup {"NOT_FOUND", "ALREADY_EXISTS", "INVALID_PATH", "CONFLICT", "DB_ERROR"}
move_status_allowed == CommonStatuses \cup {"NOT_FOUND", "FORBIDDEN", "INVALID_PATH", "CONFLICT", "DB_ERROR"}
remove_status_allowed == move_status_allowed \cup {"DIRECTORY_NOT_EMPTY"}

RequestHeader(command, v, body_len) ==
    [Plain EXCEPT !.command = command, !.body_len = body_len, !.sequence = v.sequence,
                  !.session_handle = v.session_handle]
ResponseHeader(command, v, body_len) ==
    [RequestHeader(command, v, body_len) EXCEPT !.flags = {"RESPONSE"}, !.status = v.status]

(* Encoders refuse a value that is not valid; the fields must fill the     *)
(* body to the byte.                                                       *)
Encode(valid, header, body_len, fields) ==
    LET sealed(w) == IF w.rc # "OK" THEN [rc |-> w.rc, frame |-> NoFrame]
                     ELSE [rc |-> "OK", frame |-> publish(header, Body(w.fields, body_len - w.used))]
    IN IF ~valid THEN [rc |-> "INVALID_ARGUMENT", frame |-> NoFrame] ELSE sealed(Written(body_len, fields))

(* envelope of a request and of a response: size, header, what the command *)
(* demands of the header, checksum.                                        *)
Envelope(f, header_issue, sized, demands) ==
    CASE f.size < HeaderSize -> "HEADER"
      [] f.size >= HeaderSize /\ ~sized -> "ENVELOPE"
      [] f.size >= HeaderSize /\ sized /\ (protocol_header_decode(f) # "NONE" \/ header_issue # "NONE")
           -> "HEADER"
      [] OTHER -> CASE ~demands \/ f.size # HeaderSize + f.header.body_len -> "ENVELOPE"
                    [] demands /\ f.size = HeaderSize + f.header.body_len ->
                         IF protocol_frame_crc32c_verify(f) = "NONE" THEN "NONE" ELSE "CRC"
RequestEnvelope(f, command, sized, body_ok) ==
    Envelope(f, protocol_request_header_validate(f.header), sized,
             f.header.command = command /\ f.header.task_handle = 0 /\ f.header.flags = {} /\ body_ok)
ResponseEnvelope(f, command, sized, flags, allowed, ok_body) ==
    Envelope(f, protocol_response_header_validate(f.header), sized,
             /\ f.header.command = command /\ f.header.task_handle = 0 /\ f.header.flags \in flags
             /\ f.header.status \in allowed
             /\ IF f.header.status = "OK" THEN f.header.session_handle # 0 /\ ok_body
                ELSE f.header.session_handle = 0 /\ f.header.body_len = 0 /\ f.header.flags = {"RESPONSE"})

(* The number, the name or the key of a field. *)
IdOf(b) == CASE b.kind = "none" -> 0 [] b.kind = "number" -> read_be(b.digits) [] OTHER -> 1
Id(body, type) == IdOf(FieldOf(body, type, NoBytes))
NameOf(b) == [class |-> IF b.len = 0 THEN "none" ELSE b.kind, len |-> b.len]
Named(body, type) == NameOf(FieldOf(body, type, NoBytes))
Keyed(body, type) == ~FieldOf(body, type, NoBytes).zero

(* Envelope, then fields, then their values. *)
Verdict(issue, schema, sense) ==
    IF issue # "NONE" THEN issue ELSE IF schema # "NONE" THEN "FIELDS" ELSE sense
Accept(issue, v) == IF issue # "NONE" THEN [rc |-> "PROTOCOL"] ELSE [rc |-> "OK", v |-> v]

-----------------------------------------------------------------------------
(* NODE_ROOT *)

root_rule == <<Rule("node_id", 8, 8, "U64", TRUE, FALSE)>>
root_request_encode(v) == Encode(v.sequence # 0, RequestHeader("NODE_ROOT", v, 0), 0, <<>>)
root_request_decode(f) ==
    Accept(RequestEnvelope(f, "NODE_ROOT", f.size <= 32, f.header.body_len = 0),
           [sequence |-> f.header.sequence, session_handle |-> f.header.session_handle])
root_response_valid(v) == /\ v.sequence # 0 /\ v.status \in root_status_allowed
                          /\ IF v.status = "OK" THEN v.session_handle # 0 /\ v.node_id # 0
                             ELSE v.session_handle = 0 /\ v.node_id = 0
root_response_encode(v) ==
    LET n == IF v.status = "OK" THEN 12 ELSE 0
    IN Encode(root_response_valid(v), ResponseHeader("NODE_ROOT", v, n), n,
              IF n = 0 THEN <<>> ELSE <<<<"node_id", Number(v.node_id, 8)>>>>)
root_response_decode(f) ==
    LET issue == ResponseEnvelope(f, "NODE_ROOT", f.size <= 44, {{"RESPONSE"}}, root_status_allowed, TRUE)
        ok == f.header.status = "OK"
        schema == IF ok THEN tlv_schema_validate(f.body, root_rule) ELSE "NONE"
        id == IF ok THEN Id(f.body, "node_id") ELSE 0
    IN Accept(Verdict(issue, schema, IF ok /\ id = 0 THEN "VALUE" ELSE "NONE"),
              [status |-> f.header.status, sequence |-> f.header.sequence,
               session_handle |-> f.header.session_handle, node_id |-> id])

-----------------------------------------------------------------------------
(* NODE_STAT *)

stat_rules == <<Rule("node_id", 8, 8, "U64", TRUE, FALSE), Rule("parent_id", 8, 8, "U64", FALSE, FALSE),
                Rule("name", 0, 255, "BYTES", TRUE, FALSE), Rule("type", 2, 2, "U16", TRUE, FALSE),
                Rule("size", 8, 8, "U64", TRUE, FALSE), Rule("created", 8, 8, "U64", TRUE, FALSE),
                Rule("updated", 8, 8, "U64", TRUE, FALSE), Rule("hash", 32, 32, "BYTES", FALSE, FALSE)>>
stat_request_rules == SubSeq(stat_rules, 1, 1)
DirectoryType == 1
FileType == 2
NoMetadata == [node_id |-> 0, has_parent |-> FALSE, parent_id |-> 0, name |-> [class |-> "none", len |-> 0],
               type |-> 0, size |-> 0, created |-> 0, updated |-> 0, has_hash |-> FALSE]
metadata_valid(m) ==
    /\ m.node_id # 0 /\ m.name.len <= 255 /\ m.updated >= m.created
    /\ IF m.has_parent THEN m.parent_id # 0 /\ m.name.len # 0
       ELSE m.parent_id = 0 /\ m.name.len = 0 /\ m.type = DirectoryType
    /\ m.name.class # "bad_name"
    /\ CASE m.type = DirectoryType -> m.size = 0 /\ ~m.has_hash
         [] OTHER -> m.type = FileType /\ m.has_hash

stat_request_encode(v) ==
    Encode(v.sequence # 0 /\ v.node_id # 0, RequestHeader("NODE_STAT", v, 12), 12,
           <<<<"node_id", Number(v.node_id, 8)>>>>)
stat_request_decode(f) ==
    LET issue == RequestEnvelope(f, "NODE_STAT", TRUE, f.header.body_len = 12)
        schema == tlv_schema_validate(f.body, stat_request_rules)
        id == Id(f.body, "node_id")
    IN Accept(Verdict(issue, schema, IF id = 0 THEN "VALUE" ELSE "NONE"),
              [sequence |-> f.header.sequence, session_handle |-> f.header.session_handle, node_id |-> id])

MetadataFields(m) ==
    <<<<"node_id", Number(m.node_id, 8)>>>>
      \o (IF m.has_parent THEN <<<<"parent_id", Number(m.parent_id, 8)>>>> ELSE <<>>)
      \o <<<<"name", Text(m.name.class, m.name.len)>>, <<"type", Number(m.type, 2)>>,
           <<"size", Number(m.size, 8)>>, <<"created", Number(m.created, 8)>>,
           <<"updated", Number(m.updated, 8)>>>>
      \o (IF m.has_hash THEN <<<<"hash", Raw(32, FALSE)>>>> ELSE <<>>)
Has(body, type) == \E f \in Range(body.fields) : f.type = type
read_metadata(body) ==
    [node_id |-> Id(body, "node_id"), has_parent |-> Has(body, "parent_id"),
     parent_id |-> Id(body, "parent_id"), name |-> Named(body, "name"), type |-> Id(body, "type"),
     size |-> Id(body, "size"), created |-> Id(body, "created"), updated |-> Id(body, "updated"),
     has_hash |-> Has(body, "hash")]

stat_response_encode(v) ==
    LET m == v.metadata
        n == IF v.status # "OK" THEN 0
             ELSE 58 + m.name.len + (IF m.has_parent THEN 12 ELSE 0) + (IF m.has_hash THEN 36 ELSE 0)
    IN Encode(/\ v.sequence # 0 /\ v.status \in stat_status_allowed
              /\ IF v.status = "OK" THEN v.session_handle # 0 /\ metadata_valid(m)
                 ELSE v.session_handle = 0 /\ m = NoMetadata,
              ResponseHeader("NODE_STAT", v, n), n, IF n = 0 THEN <<>> ELSE MetadataFields(m))
stat_response_decode(f) ==
    LET issue == ResponseEnvelope(f, "NODE_STAT", TRUE, {{"RESPONSE"}}, stat_status_allowed,
                                  f.header.body_len <= 361)
        ok == f.header.status = "OK"
        schema == IF ok THEN tlv_schema_validate(f.body, stat_rules) ELSE "NONE"
        m == IF ok THEN read_metadata(f.body) ELSE NoMetadata
    IN Accept(Verdict(issue, schema, IF ok /\ ~metadata_valid(m) THEN "VALUE" ELSE "NONE"),
              [status |-> f.header.status, sequence |-> f.header.sequence,
               session_handle |-> f.header.session_handle, metadata |-> m])

-----------------------------------------------------------------------------
(* NODE_MKDIR, NODE_MOVE and NODE_REMOVE.  A key is all zero or not. *)

IdRule(type) == Rule(type, 8, 8, "U64", TRUE, FALSE)
KeyRule == Rule("key", 16, 16, "BYTES", TRUE, FALSE)
NameRule == Rule("name", 1, 255, "NAME", TRUE, FALSE)
mkdir_request_rules == <<IdRule("parent_id"), NameRule, KeyRule>>
move_request_rules == <<IdRule("node_id"), KeyRule, IdRule("new_parent_id"), NameRule>>
remove_request_rules == <<IdRule("node_id"), KeyRule>>
write_response_rules == <<IdRule("node_id"), KeyRule>>

(* The encoders of the writes run the schema over what they wrote. *)
WriteRequest(command, v, valid, fields, n, rules) ==
    LET checked(e) == IF e.rc = "OK" /\ tlv_schema_validate(e.frame.body, rules) # "NONE"
                      THEN [rc |-> "INVALID_ARGUMENT", frame |-> NoFrame] ELSE e
    IN checked(Encode(valid, RequestHeader(command, v, n), n, fields))
WriteRequestDecode(command, f, sized, rules, next) ==
    LET issue == RequestEnvelope(f, command, sized, TRUE)
        schema == tlv_schema_validate(f.body, rules)
        ids == {next[k] : k \in DOMAIN next \cap {"parent_id", "node_id", "new_parent_id"}}
    IN Accept(Verdict(issue, schema, IF 0 \in ids \/ ~next.key THEN "VALUE" ELSE "NONE"), next)
Base(f) == [sequence |-> f.header.sequence, session_handle |-> f.header.session_handle]

mkdir_request_encode(v) ==
    WriteRequest("NODE_MKDIR", v, v.sequence # 0 /\ v.parent_id # 0 /\ v.name.len \in 1..255 /\ v.key,
                 <<<<"parent_id", Number(v.parent_id, 8)>>, <<"name", Text(v.name.class, v.name.len)>>,
                   <<"key", Raw(16, ~v.key)>>>>, 36 + v.name.len, mkdir_request_rules)

mkdir_request_decode(f) ==
    WriteRequestDecode("NODE_MKDIR", f, f.size \in 69..323, mkdir_request_rules,
        Base(f) @@ [parent_id |-> Id(f.body, "parent_id"), name |-> Named(f.body, "name"),
                    key |-> Keyed(f.body, "key")])
move_request_encode(v) ==
    WriteRequest("NODE_MOVE", v, /\ v.sequence # 0 /\ v.node_id # 0 /\ v.new_parent_id # 0
                                 /\ v.name.len \in 1..255 /\ v.key,
                 <<<<"node_id", Number(v.node_id, 8)>>, <<"key", Raw(16, ~v.key)>>,
                   <<"new_parent_id", Number(v.new_parent_id, 8)>>,
                   <<"name", Text(v.name.class, v.name.len)>>>>, 48 + v.name.len, move_request_rules)
move_request_decode(f) ==
    WriteRequestDecode("NODE_MOVE", f, f.size \in 81..335, move_request_rules,
        Base(f) @@ [node_id |-> Id(f.body, "node_id"), new_parent_id |-> Id(f.body, "new_parent_id"),
                    name |-> Named(f.body, "name"), key |-> Keyed(f.body, "key")])
remove_request_encode(v) ==
    WriteRequest("NODE_REMOVE", v, v.sequence # 0 /\ v.node_id # 0 /\ v.key,
                 <<<<"node_id", Number(v.node_id, 8)>>, <<"key", Raw(16, ~v.key)>>>>, 32,
                 remove_request_rules)
remove_request_decode(f) ==
    WriteRequestDecode("NODE_REMOVE", f, f.size = 64, remove_request_rules,
        Base(f) @@ [node_id |-> Id(f.body, "node_id"), key |-> Keyed(f.body, "key")])

WriteResponse(command, v, allowed) ==
    LET n == IF v.status = "OK" THEN 32 ELSE 0
    IN Encode(/\ v.sequence # 0 /\ v.status \in allowed
              /\ IF v.status = "OK" THEN v.session_handle # 0 /\ v.node_id # 0 /\ v.key
                 ELSE v.session_handle = 0 /\ v.node_id = 0 /\ ~v.key,
              ResponseHeader(command, v, n), n,
              IF n = 0 THEN <<>> ELSE <<<<"node_id", Number(v.node_id, 8)>>, <<"key", Raw(16, ~v.key)>>>>)
WriteResponseDecode(command, f, allowed) ==
    LET issue == ResponseEnvelope(f, command, f.size \in {32, 64}, {{"RESPONSE"}}, allowed,
                                  f.header.body_len = 32)
        ok == f.header.status = "OK"
        schema == IF ok THEN tlv_schema_validate(f.body, write_response_rules) ELSE "NONE"
        next == Base(f) @@ [status |-> f.header.status, node_id |-> IF ok THEN Id(f.body, "node_id") ELSE 0,
                            key |-> ok /\ Keyed(f.body, "key")]
    IN Accept(Verdict(issue, schema, IF ok /\ (next.node_id = 0 \/ ~next.key) THEN "VALUE" ELSE "NONE"), next)
mkdir_response_encode(v) == WriteResponse("NODE_MKDIR", v, mkdir_status_allowed)
mkdir_response_decode(f) == WriteResponseDecode("NODE_MKDIR", f, mkdir_status_allowed)
move_response_encode(v) == WriteResponse("NODE_MOVE", v, move_status_allowed)
move_response_decode(f) == WriteResponseDecode("NODE_MOVE", f, move_status_allowed)
remove_response_encode(v) == WriteResponse("NODE_REMOVE", v, remove_status_allowed)
remove_response_decode(f) == WriteResponseDecode("NODE_REMOVE", f, remove_status_allowed)

-----------------------------------------------------------------------------
(* NODE_LIST *)

list_request_rules == <<IdRule("directory_id"), Rule("page_size", 2, 2, "U16", TRUE, FALSE),
                        Rule("page_token", 96, 96, "BYTES", FALSE, FALSE)>>
list_response_rules == <<IdRule("directory_id"), Rule("page_size", 2, 2, "U16", TRUE, FALSE),
                         Rule("entry", 0, 361, "BYTES", FALSE, TRUE),
                         Rule("next_page_token", 96, 96, "BYTES", FALSE, FALSE)>>
entry_rules == <<IdRule("node_id"), IdRule("parent_id"), Rule("name", 1, 255, "BYTES", TRUE, FALSE),
                 Rule("type", 2, 2, "U16", TRUE, FALSE), IdRule("size"), IdRule("created"), IdRule("updated"),
                 Rule("hash", 32, 32, "BYTES", FALSE, FALSE)>>

list_request_valid(v) == /\ v.sequence # 0 /\ v.directory_id # 0 /\ v.page_size \in 1..64
                         /\ v.has_page_token \/ ~v.page_token
list_request_encode(v) ==
    LET n == IF v.has_page_token THEN 118 ELSE 18
    IN Encode(list_request_valid(v), RequestHeader("NODE_LIST", v, n), n,
              <<<<"directory_id", Number(v.directory_id, 8)>>, <<"page_size", Number(v.page_size, 2)>>>>
                \o IF v.has_page_token THEN <<<<"page_token", Raw(96, ~v.page_token)>>>> ELSE <<>>)
list_request_decode(f) ==
    LET issue == RequestEnvelope(f, "NODE_LIST", f.size <= 150, TRUE)
        schema == tlv_schema_validate(f.body, list_request_rules)
        next == Base(f) @@ [directory_id |-> Id(f.body, "directory_id"), page_size |-> Id(f.body, "page_size"),
                            has_page_token |-> Has(f.body, "page_token"),
                            page_token |-> Keyed(f.body, "page_token")]
    IN Accept(Verdict(issue, schema, IF list_request_valid(next) THEN "NONE" ELSE "VALUE"), next)

entry_valid(e) == metadata_valid(e) /\ e.has_parent
list_response_valid(v) ==
    /\ v.sequence # 0 /\ v.status \in list_status_allowed
    /\ IF v.status # "OK"
       THEN /\ v.session_handle = 0 /\ v.directory_id = 0 /\ v.page_size = 0 /\ v.entries = <<>>
            /\ ~v.has_more /\ ~v.token
       ELSE /\ v.session_handle # 0 /\ v.directory_id # 0 /\ v.page_size \in 1..64
            /\ Len(v.entries) <= v.page_size
            /\ IF v.has_more THEN Len(v.entries) = v.page_size ELSE ~v.token
            /\ \A i \in 1..Len(v.entries) :
                 /\ entry_valid(v.entries[i]) /\ v.entries[i].parent_id = v.directory_id
                 /\ v.entries[i].node_id # v.directory_id
                 /\ v.entries[i].node_id > (IF i = 1 THEN 0 ELSE v.entries[i - 1].node_id)

(* An entry is a field whose bytes are fields themselves. *)
write_entry(e) ==
    LET w == Written(361, MetadataFields(e))
    IN [len |-> w.used, kind |-> "entry", digits |-> w.fields, zero |-> FALSE]
list_response_encode(v) ==
    LET size[i \in 0..Len(v.entries)] ==
          IF i = 0 THEN 18 + (IF v.has_more THEN 100 ELSE 0)
          ELSE size[i - 1] + 74 + v.entries[i].name.len + (IF v.entries[i].has_hash THEN 36 ELSE 0)
        n == IF v.status = "OK" THEN size[Len(v.entries)] ELSE 0
    IN Encode(list_response_valid(v),
              [ResponseHeader("NODE_LIST", v, n) EXCEPT !.flags = {"RESPONSE"} \cup IF v.has_more THEN {"MORE"} ELSE {}],
              n, IF n = 0 THEN <<>>
                 ELSE <<<<"directory_id", Number(v.directory_id, 8)>>, <<"page_size", Number(v.page_size, 2)>>>>
                        \o [i \in 1..Len(v.entries) |-> <<"entry", write_entry(v.entries[i])>>]
                        \o IF v.has_more THEN <<<<"next_page_token", Raw(96, ~v.token)>>>> ELSE <<>>)
(* An entry that is not as long as its fields is cut. *)
EntryBody(bytes) == Body(bytes.digits, Abs(bytes.len - BodySize(Body(bytes.digits, 0))))
read_entry(bytes) == read_metadata(EntryBody(bytes))
list_response_decode(f) ==
    LET issue == ResponseEnvelope(f, "NODE_LIST", f.size <= 23510, {{"RESPONSE"}, {"RESPONSE", "MORE"}},
                                  list_status_allowed, TRUE)
        ok == f.header.status = "OK"
        schema == IF ok THEN tlv_schema_validate(f.body, list_response_rules) ELSE "NONE"
        inner == SelectSeq(f.body.fields, LAMBDA x : x.type = "entry")
        whole == \A i \in 1..Len(inner) : /\ inner[i].bytes.kind = "entry"
                                          /\ tlv_schema_validate(EntryBody(inner[i].bytes), entry_rules) = "NONE"
        none == [directory_id |-> 0, page_size |-> 0, entries |-> <<>>, has_more |-> FALSE, token |-> FALSE]
        page == [directory_id |-> Id(f.body, "directory_id"), page_size |-> Id(f.body, "page_size"),
                 entries |-> [i \in 1..Len(inner) |-> read_entry(inner[i].bytes)],
                 has_more |-> "MORE" \in f.header.flags, token |-> Keyed(f.body, "next_page_token")]
        next == Base(f) @@ [status |-> f.header.status] @@ IF ok THEN page ELSE none
        sense(v) == IF (ok /\ v.has_more # Has(f.body, "next_page_token")) \/ ~list_response_valid(v)
                    THEN "VALUE" ELSE "NONE"
    IN Accept(Verdict(issue, IF schema = "NONE" /\ ok /\ ~whole THEN "ENTRY" ELSE schema, sense(next)), next)

-----------------------------------------------------------------------------
(* Authentication.  A request is built by the client. *)

auth_rules == <<Rule("username", 3, 32, "BYTES", TRUE, FALSE), Rule("password", 8, 64, "BYTES", TRUE, FALSE),
                Rule("device", 16, 16, "BYTES", TRUE, FALSE)>>
token_rule == <<Rule("session_token", 32, 32, "BYTES", TRUE, FALSE)>>
AuthRules(command) == CASE command = "LOGIN" -> auth_rules [] command = "REGISTER" -> SubSeq(auth_rules, 1, 2)
                        [] command = "SESSION_RESUME" -> token_rule [] OTHER -> <<>>
AuthBodyMax(command) == CASE command = "LOGIN" -> 124 [] command = "SESSION_RESUME" -> 36
                          [] command = "LOGOUT" -> 0 [] OTHER -> 104
AuthFields(v) ==
    CASE v.command = "SESSION_RESUME" -> <<<<"session_token", Raw(32, FALSE)>>>>
      [] v.command = "LOGOUT" -> <<>>
      [] OTHER -> <<<<"username", Text(v.username.class, v.username.len)>>,
                    <<"password", Text(v.password.class, v.password.len)>>>>
                    \o IF v.command = "LOGIN" THEN <<<<"device", Raw(16, FALSE)>>>> ELSE <<>>
auth_request_client(v) ==
    LET w == Written(MaxBody, AuthFields(v))
    IN [rc |-> "OK", frame |-> publish(RequestHeader(v.command, v, w.used), Body(w.fields, 0))]
(* Absent, or a text of the characters its byte loop allows. *)
printable(credential) == credential.class \in {"none", "plain"}
auth_request_decode(f) ==
    LET h == f.header
        envelope == /\ h.command \in AuthCommands /\ h.flags = {} /\ h.task_handle = 0
                    /\ IF h.command = "LOGOUT" THEN h.session_handle # 0 ELSE h.session_handle = 0
                    /\ h.body_len <= AuthBodyMax(h.command)
        issue == Envelope(f, protocol_request_header_validate(f.header), TRUE, envelope)
        schema == IF h.command = "LOGOUT" THEN "NONE" ELSE tlv_schema_validate(f.body, AuthRules(h.command))
        view == Base(f) @@ [command |-> h.command,
                            username |-> Named(f.body, "username"), password |-> Named(f.body, "password")]
        sense(v) == CASE ~printable(v.username) -> "USERNAME"
                      [] printable(v.username) /\ ~printable(v.password) -> "PASSWORD"
                      [] OTHER -> "NONE"
    IN Accept(Verdict(issue, schema, sense(view)), view)

auth_response_valid(v) ==
    /\ v.command \in AuthCommands /\ v.sequence # 0 /\ v.status \in KnownStatuses
    /\ CASE v.status # "OK" \/ v.command = "LOGOUT" ->
              v.session_handle = 0 /\ v.user_id = 0 /\ v.root = 0 /\ v.issued = 0 /\ v.expires = 0 /\ ~v.token
         [] v.status = "OK" /\ v.command = "REGISTER" ->
              v.user_id # 0 /\ v.session_handle = 0 /\ v.root # 0 /\ v.issued = 0 /\ v.expires = 0 /\ ~v.token
         [] OTHER -> /\ v.user_id # 0 /\ v.session_handle # 0 /\ v.root = 0 /\ v.expires > v.issued
                     /\ v.command = "LOGIN" \/ ~v.token
auth_response_encode(v) ==
    LET full == v.status = "OK" /\ v.command # "LOGOUT"
        fields == <<<<"user_id", Number(v.user_id, 8)>>>>
                    \o IF v.command = "REGISTER" THEN <<<<"root", Number(v.root, 8)>>>>
                       ELSE (IF v.command = "LOGIN" THEN <<<<"token", Raw(32, ~v.token)>>>> ELSE <<>>)
                              \o <<<<"issued", Number(v.issued, 8)>>, <<"expires", Number(v.expires, 8)>>>>
        sealed(w) == IF w.rc # "OK" THEN [rc |-> w.rc, frame |-> NoFrame]
                     ELSE [rc |-> "OK", frame |-> publish(ResponseHeader(v.command, v, w.used), Body(w.fields, 0))]
    IN IF ~auth_response_valid(v) THEN [rc |-> "INVALID_ARGUMENT", frame |-> NoFrame]
       ELSE sealed(Written(72, IF full THEN fields ELSE <<>>))
AuthSeen(command) == CASE command = "REGISTER" -> {"user_id", "root"}
                       [] command = "LOGIN" -> {"user_id", "token", "issued", "expires"}
                       [] OTHER -> {"user_id", "issued", "expires"}
auth_response_decode(f) ==
    LET h == f.header
        full == h.status = "OK" /\ h.command # "LOGOUT"
        issue == Envelope(f, protocol_response_header_validate(f.header), f.size <= 104,
                          h.flags = {"RESPONSE"} /\ h.task_handle = 0 /\ h.command \in AuthCommands)
        types == [i \in 1..Len(f.body.fields) |-> f.body.fields[i].type]
        whole == /\ f.body.cut = 0 /\ IsInjective(types) /\ Range(types) = AuthSeen(h.command)
                 /\ \A x \in Range(f.body.fields) : x.bytes.len = (IF x.type = "token" THEN 32 ELSE 8)
        next == Base(f) @@ [command |-> h.command, status |-> h.status,
                            user_id |-> Id(f.body, "user_id"), root |-> Id(f.body, "root"),
                            issued |-> Id(f.body, "issued"), expires |-> Id(f.body, "expires"),
                            token |-> Keyed(f.body, "token")]
    IN IF issue # "NONE" \/ (full /\ ~whole) \/ (~full /\ h.body_len # 0) THEN Accept("PROTOCOL", <<>>)
       ELSE Accept(IF auth_response_valid(next) THEN "NONE" ELSE "PROTOCOL", next)

-----------------------------------------------------------------------------
(* All the messages. *)

Kinds == {"root_request", "root_response", "stat_request", "stat_response", "mkdir_request", "mkdir_response",
          "move_request", "move_response", "remove_request", "remove_response", "list_request",
          "list_response", "auth_request", "auth_response"}

EncodeOf(k, v) ==
    CASE k = "root_request" -> root_request_encode(v) [] k = "root_response" -> root_response_encode(v)
      [] k = "stat_request" -> stat_request_encode(v) [] k = "stat_response" -> stat_response_encode(v)
      [] k = "mkdir_request" -> mkdir_request_encode(v) [] k = "mkdir_response" -> mkdir_response_encode(v)
      [] k = "move_request" -> move_request_encode(v) [] k = "move_response" -> move_response_encode(v)
      [] k = "remove_request" -> remove_request_encode(v) [] k = "remove_response" -> remove_response_encode(v)
      [] k = "list_request" -> list_request_encode(v) [] k = "list_response" -> list_response_encode(v)
      [] k = "auth_request" -> auth_request_client(v) [] k = "auth_response" -> auth_response_encode(v)
DecodeOf(k, f) ==
    CASE k = "root_request" -> root_request_decode(f) [] k = "root_response" -> root_response_decode(f)
      [] k = "stat_request" -> stat_request_decode(f) [] k = "stat_response" -> stat_response_decode(f)
      [] k = "mkdir_request" -> mkdir_request_decode(f) [] k = "mkdir_response" -> mkdir_response_decode(f)
      [] k = "move_request" -> move_request_decode(f) [] k = "move_response" -> move_response_decode(f)
      [] k = "remove_request" -> remove_request_decode(f) [] k = "remove_response" -> remove_response_decode(f)
      [] k = "list_request" -> list_request_decode(f) [] k = "list_response" -> list_response_decode(f)
      [] k = "auth_request" -> auth_request_decode(f) [] k = "auth_response" -> auth_response_decode(f)

(* Small sets of values, in the corners of what the services and clients   *)
(* send.                                                                   *)
Ids == {1, 5}
Name(n) == [class |-> "plain", len |-> n]
NoName == [class |-> "none", len |-> 0]
Names == {Name(1), Name(255), [class |-> "bad_name", len |-> 2], [class |-> "bad_utf8", len |-> 2]}
Metadata == {[NoMetadata EXCEPT !.node_id = 1, !.type = DirectoryType, !.updated = 2],
             [NoMetadata EXCEPT !.node_id = 2, !.has_parent = TRUE, !.parent_id = 1, !.name = Name(255),
                                !.type = FileType, !.size = 3, !.created = 1, !.updated = 1, !.has_hash = TRUE],
             [NoMetadata EXCEPT !.node_id = 5, !.has_parent = TRUE, !.parent_id = 1, !.name = Name(1),
                                !.type = DirectoryType, !.updated = 1]}
Answers(extra, ok) ==
    {[sequence |-> 1, session_handle |-> 0, status |-> s] @@ extra : s \in {"NOT_FOUND", "TIMEOUT"}}
      \cup {[sequence |-> 1, session_handle |-> 1, status |-> "OK"] @@ x : x \in ok}
Asks(xs) == {[sequence |-> 1, session_handle |-> 1] @@ x : x \in xs}
NoPage == [directory_id |-> 0, page_size |-> 0, entries |-> <<>>, has_more |-> FALSE, token |-> FALSE]
Entry(i) == [NoMetadata EXCEPT !.node_id = 1 + i, !.has_parent = TRUE, !.parent_id = 1, !.name = Name(255),
                               !.type = FileType, !.has_hash = TRUE]
NoAuth == [user_id |-> 0, root |-> 0, issued |-> 0, expires |-> 0, token |-> FALSE]
ValuesOf(k) ==
    CASE k = "root_request" -> Asks({<<>>})
      [] k = "root_response" -> Answers([node_id |-> 0], {[node_id |-> i] : i \in Ids})
      [] k = "stat_request" -> Asks({[node_id |-> i] : i \in Ids})
      [] k = "stat_response" -> Answers([metadata |-> NoMetadata], {[metadata |-> x] : x \in Metadata})
      [] k = "mkdir_request" -> Asks([parent_id : {1}, name : Names, key : {TRUE}])
      [] k = "move_request" -> Asks([node_id : {5}, new_parent_id : Ids, name : Names, key : {TRUE}])
      [] k = "remove_request" -> Asks([node_id : Ids, key : {TRUE}])
      [] k \in {"mkdir_response", "move_response", "remove_response"} ->
           Answers([node_id |-> 0, key |-> FALSE], [node_id : Ids, key : {TRUE}])
      [] k = "list_request" -> {v \in Asks([directory_id : {5}, page_size : {1, 64, 65},
                                            has_page_token : BOOLEAN, page_token : BOOLEAN]) :
                                  v.page_token => v.has_page_token}
      [] k = "list_response" ->
           Answers(NoPage, {[directory_id |-> 1, page_size |-> p.size, entries |-> [i \in 1..p.n |-> Entry(i)],
                             has_more |-> p.more, token |-> p.more] :
                              p \in {[size |-> 2, n |-> 0, more |-> FALSE], [size |-> 2, n |-> 2, more |-> TRUE],
                                     [size |-> 64, n |-> 64, more |-> TRUE]}})
      [] k = "auth_request" ->
           {[sequence |-> 1, session_handle |-> IF c = "LOGOUT" THEN 1 ELSE 0, command |-> c,
             username |-> IF c \in {"LOGIN", "REGISTER"} THEN u ELSE NoName,
             password |-> IF c \in {"LOGIN", "REGISTER"} THEN Name(64) ELSE NoName] :
              c \in AuthCommands, u \in {Name(3), Name(32), Name(33)} \cup [class : {"bad_name", "bad_utf8"}, len : {3}]}
      [] k = "auth_response" ->
           {[sequence |-> 1, session_handle |-> 0, command |-> c, status |-> "UNAUTHORIZED"] @@ NoAuth : c \in AuthCommands}
             \cup {[sequence |-> 1, session_handle |-> IF c = "REGISTER" THEN 0 ELSE 5, command |-> c, status |-> "OK"]
                     @@ [NoAuth EXCEPT !.user_id = 5, !.root = IF c = "REGISTER" THEN 1 ELSE 0,
                                       !.issued = IF c = "REGISTER" THEN 0 ELSE 1,
                                       !.expires = IF c = "REGISTER" THEN 0 ELSE 2, !.token = c = "LOGIN"] :
                     c \in AuthCommands \ {"LOGOUT"}}

-----------------------------------------------------------------------------
(* The wire. *)

HeaderEdits(h) ==
    {[h EXCEPT !.command = c] : c \in {"NODE_STAT", "NODE_MKDIR", "LOGIN", "STORAGE_PUT_RESERVED", "NONE"}}
      \cup {[h EXCEPT !.flags = x] : x \in {{}, {"RESPONSE"}, {"RESPONSE", "MORE"}, {"MORE"}, {"BIT_9"}}}
      \cup {[h EXCEPT !.status = s] : s \in {"OK", "NOT_FOUND", "NONE"}}
      \cup {[h EXCEPT !.sequence = 0], [h EXCEPT !.session_handle = 0], [h EXCEPT !.session_handle = 1],
            [h EXCEPT !.task_handle = 1], [h EXCEPT !.version = 2], [h EXCEPT !.header_len = 31],
            [h EXCEPT !.magic = FALSE], [h EXCEPT !.body_len = MaxBody + 1]}
Types(fields) == {f.type : f \in Range(fields)} \cup {"unknown"}
Swapped(s) == IF Len(s) < 2 THEN s ELSE [s EXCEPT ![1] = s[2], ![2] = s[1]]
FieldEdits(fields) ==
    UNION {{RemoveAt(fields, i), Append(fields, fields[i])}
             \cup {[fields EXCEPT ![i].type = t] : t \in Types(fields)}
             \cup {[fields EXCEPT ![i].bytes.len = n] : n \in {fields[i].bytes.len + 1, fields[i].bytes.len - 1} \ {-1}}
             \cup {[fields EXCEPT ![i].bytes = Number(v, @.len)] :
                     v \in IF fields[i].bytes.kind = "number" THEN {0, 1, 5} ELSE {}}
             \cup {[fields EXCEPT ![i].bytes.zero = TRUE] : z \in {1} \cap (IF fields[i].bytes.kind = "raw" THEN {1} ELSE {})}
             \cup {[fields EXCEPT ![i].bytes.kind = c] :
                     c \in IF fields[i].bytes.kind = "plain" THEN {"bad_name", "bad_utf8"} ELSE {}}
             : i \in 1..Len(fields)} \cup {Swapped(fields)}
(* An entry is changed inside too. *)
EntryEdits(fields) ==
    UNION {{[fields EXCEPT ![i].bytes.digits = x,
                           ![i].bytes.len = BodySize(Body(x, 0))] : x \in FieldEdits(fields[i].bytes.digits)}
             : i \in {j \in 1..Len(fields) : fields[j].bytes.kind = "entry"} \cap {1, 2}}
BodyEdits(b) ==
    {Body(x, b.cut) : x \in FieldEdits(SubSeq(b.fields, 1, Min({Len(b.fields), 9}))) \cup EntryEdits(b.fields)}
      \cup {Body(b.fields, c) : c \in {3, 4}}

(* Mutated frames are as long as their content and sealed again, or only   *)
(* the bytes change.                                                       *)
Reseal(f) ==
    LET n == BodySize(f.body)
        h == [f.header EXCEPT !.body_len = IF @ > MaxBody THEN @ ELSE n]
    IN [publish(h, f.body) EXCEPT !.size = HeaderSize + n]
Edit ==
    /\ kind \in Kinds /\ frame # NoFrame /\ edits < MaxEdits
    /\ \E f \in {[frame EXCEPT !.header = h] : h \in HeaderEdits(frame.header)}
                 \cup {[frame EXCEPT !.body = b, !.size = HeaderSize + BodySize(b)] : b \in BodyEdits(frame.body)} :
         \/ frame' = Reseal(f) /\ edits' = edits + 1
         \/ frame' = f /\ edits' = MaxEdits
    /\ UNCHANGED <<kind, value, text, chunk>>
Shorten ==
    /\ kind \in Kinds /\ frame # NoFrame /\ edits < MaxEdits
    /\ \E n \in {HeaderSize - 1, frame.size - 1, frame.size + 1} :
         frame' = [frame EXCEPT !.size = n, !.body.cut = IF n >= HeaderSize THEN Max({0, @ + n - frame.size}) ELSE @]
    /\ edits' = MaxEdits
    /\ UNCHANGED <<kind, value, text, chunk>>

Alphabet == {31, 46, 47, 65, 127, 128, 143, 144, 159, 160, 191, 194, 224, 237, 240, 244}
Type ==
    /\ kind = "text" /\ Len(text) < MaxText
    /\ \E b \in Alphabet : text' = Append(text, b)
    /\ UNCHANGED <<kind, value, frame, edits, chunk>>

(* A chunk header as its sender fills it, and what may become of the body. *)
Chunks == [chunk_index : {0}, offset : {0, MaxOffset - 1, MaxOffset}, data_len : {0, 1, MaxChunkData, MaxChunkData + 1},
           crc : {<<"d">>, <<"e">>}]
Sent(c, n, capacity) == LET e == chunk_body_encode(c, "d", n, capacity)
                        IN IF e.rc = "OK" THEN e.body ELSE NoFrame
EditChunk ==
    /\ kind = "chunk" /\ chunk # NoFrame /\ edits = 0
    /\ \/ \E n \in {ChunkHeader - 1, chunk.size - 1, chunk.size + 1} : chunk' = [chunk EXCEPT !.size = n]
       \/ chunk' = [chunk EXCEPT !.header_len = ChunkHeader - 1]
       \/ \E n \in {0, 1, 2} : chunk' = [chunk EXCEPT !.header.data_len = n]
       \/ chunk' = [chunk EXCEPT !.header.offset = MaxOffset]
       \/ chunk' = [chunk EXCEPT !.data = "e"]
    /\ edits' = 1 /\ UNCHANGED <<kind, value, frame, text>>

Init ==
    /\ edits = 0 /\ text = <<>>
    /\ \/ /\ kind \in Kinds /\ value \in ValuesOf(kind) /\ frame = EncodeOf(kind, value).frame /\ chunk = NoFrame
       \/ kind = "text" /\ value = NoValue /\ frame = NoFrame /\ chunk = NoFrame
       \/ /\ kind = "chunk" /\ frame = NoFrame
          /\ value \in [header : Chunks, size : {0, 1, MaxChunkData}, capacity : {ChunkHeader, MaxBody}]
          /\ chunk = Sent(value.header, value.size, value.capacity)
Next == Edit \/ Shorten \/ Type \/ EditChunk
Spec == Init /\ [][Next]_vars

-----------------------------------------------------------------------------
(* Properties. *)

(* What a peer can mean to say: the services build only such values.       *)
Meant(k, v) ==
    CASE k \in {"mkdir_request", "move_request"} -> v.name.class = "plain"
      [] k = "list_request" -> v.page_size <= 64
      [] k = "auth_request" ->
           IF v.command \in {"LOGIN", "REGISTER"}
           THEN /\ v.username.class = "plain" /\ v.username.len \in 3..32
                /\ v.password.class = "plain" /\ v.password.len \in 8..64
           ELSE v.username = NoName /\ v.password = NoName
      [] k \in {"root_response", "stat_response", "list_response", "mkdir_response", "move_response",
                 "remove_response"} -> k = "root_response" => v.status # "NOT_FOUND"
      [] OTHER -> TRUE

(* Encoder and decoder of a message agree: a value that may be sent is     *)
(* encoded, its fields fill the announced length to the byte, the frame is *)
(* within the bounds of the receiving side, and the receiver reads back    *)
(* the value; every page of up to 64 entries with the longest names fits.  *)
(* A chunk that was encoded is read back with its length and its data.     *)
RoundTrip ==
    /\ (kind \in Kinds /\ edits = 0) =>
         /\ Meant(kind, value) <=> (frame # NoFrame /\ DecodeOf(kind, frame).rc = "OK")
         /\ Meant(kind, value) => /\ frame.body.cut = 0
                                  /\ frame.size = HeaderSize + frame.header.body_len
                                  /\ DecodeOf(kind, frame).v = value
    /\ (kind = "chunk" /\ edits = 0 /\ chunk # NoFrame) =>
         /\ chunk_body_decode(chunk) = "NONE" /\ chunk.header = value.header
         /\ chunk_data_crc32c_verify(chunk) = "NONE" <=> value.header.crc = <<"d">>

(* Whatever happened to the bytes, a frame the decoder accepts carries a   *)
(* value its own encoder would have sent, every field once, and sending it *)
(* again changes nothing; a frame changed in transit and not sealed again  *)
(* is never accepted.  The client does not check its AUTH requests, so of  *)
(* an accepted one the credentials are shown to be in their bounds.  An    *)
(* accepted chunk names the bytes that are there.                          *)
AcceptsOnlyValid ==
    /\ kind \in Kinds =>
         LET same(d, again) ==
               /\ again.rc = "OK" /\ DecodeOf(kind, again.frame) = d
               /\ again.frame.header = [frame.header EXCEPT !.crc = again.frame.header.crc]
               /\ frame.header.crc = protocol_frame_crc32c_calculate(frame.header, frame.body)
             accepted(d) == d.rc = "OK" => /\ same(d, EncodeOf(kind, d.v))
                                           /\ kind = "auth_request" => Meant(kind, d.v)
         IN frame # NoFrame => accepted(DecodeOf(kind, frame))
    /\ (kind = "chunk" /\ chunk # NoFrame /\ chunk_body_decode(chunk) = "NONE") =>
         /\ chunk.header.data_len = chunk.size - ChunkHeader
         /\ chunk.header.offset + chunk.header.data_len <= MaxOffset
         /\ (edits = 1 /\ chunk.data = "e") => (chunk_data_crc32c_verify(chunk) = "NONE" <=> chunk.header.crc = <<"e">>)

(* The code points of a text, or a negative one where it is malformed: a   *)
(* leading byte of n bytes, n - 1 continuation bytes, in the shortest form.*)
CodePoint(s) ==
    LET n == CASE s[1] < 128 -> 1 [] s[1] \in 192..223 -> 2 [] s[1] \in 224..239 -> 3
               [] s[1] \in 240..247 -> 4 [] OTHER -> 0
        lead == CASE n = 1 -> s[1] [] n = 2 -> s[1] - 192 [] n = 3 -> s[1] - 224 [] OTHER -> s[1] - 240
        point == FoldLeft(LAMBDA c, b : c * 64 + (b - 128), lead, SubSeq(s, 2, n))
        least == <<0, 128, 2048, 65536>>
    IN CASE n = 0 -> [n |-> 1, point |-> -1]
         [] n # 0 /\ (Len(s) < n \/ \E i \in 2..n : s[i] \notin 128..191) -> [n |-> 1, point |-> -1]
         [] OTHER -> [n |-> n, point |-> IF point < least[n] \/ point \in 55296..57343 \/ point > 1114111
                                         THEN -1 ELSE point]
CodePoints(s) ==
    LET at[i \in 1..(Len(s) + 1)] ==
          IF i = Len(s) + 1 THEN {}
          ELSE LET c == CodePoint(SubSeq(s, i, Len(s))) IN {c.point} \cup at[i + c.n]
    IN at[1]

(* The byte tests of the text checks are exactly Unicode's: a text passes  *)
(* when it is the shortest encoding of scalar values up to U+10FFFF, and   *)
(* as a name when moreover none of them is a control character or a slash  *)
(* and it is not a path step.                                              *)
Utf8Exact ==
    LET points == CodePoints(text)
    IN /\ tlv_utf8_is_valid(text) <=> -1 \notin points
       /\ -1 \notin points =>
            (tlv_name_is_valid(text) <=> /\ points \cap ((0..31) \cup (127..159) \cup {47}) = {}
                                         /\ text \notin {<<>>, <<46>>, <<46, 46>>})
=============================================================================
