--------------------------- MODULE Configuration ----------------------------
(***************************************************************************)
(* base/config.c: how a configuration comes about from the defaults, the   *)
(* lines of a file and a list of environment entries.  A text is a         *)
(* sequence of characters; a key, a unit and a word count as one of them,  *)
(* and the limits are scaled to that.  Null pointers as arguments are      *)
(* programming errors and are left out, except in an environment entry.    *)
(***************************************************************************)
EXTENDS Checked, SequencesExt

CONSTANTS Texts, Environments,          \* the files and entry lists of a run
          MaxText, MaxLine, MaxValue, MaxItems,   \* VIREO_CONFIG_MAX_*
          PathCapacity, SizeUnits, DurationUnits, \* units with their multipliers
          Limits,                       \* minimum and maximum of each number
          Defaults                      \* VIREO_CONFIG_DEFAULT_*

VARIABLES c_text, c_env,                \* the arguments; a text or "no file"
          c_pc, c_file,                 \* position in load, the FILE
          c_candidate, c_rc, c_error,   \* its locals and out_error
          c_out                         \* out_config

NoFile == <<"no file">>
(* What out_config held before: no configuration that load would return. *)
Untouched == [Defaults EXCEPT !.listen_port = 0]

Digit == [c \in {"0", "1", "2", "5", "9"} |->
            CASE c = "0" -> 0 [] c = "1" -> 1 [] c = "2" -> 2 [] c = "5" -> 5 [] c = "9" -> 9]
Control == {"CR", "LF", "TAB", "DEL"}

Counts == {"listen_port", "max_connections", "worker_count"}
Paths == {"data_dir", "log_dir"}
Fields == Counts \cup Paths
          \cup {"listen_address", "idle_timeout", "log_to_stderr", "log_max_file_size"}

NoError == [issue |-> "NONE", source |-> "NONE", field |-> "NONE", line |-> 0, entry |-> 0]
Error(issue, source, field) == [NoError EXCEPT !.issue = issue, !.source = source, !.field = field]

-----------------------------------------------------------------------------
(* Texts and numbers. *)

is_horizontal_space(c) == c \in {" ", "TAB"}
trim_horizontal_space(t) ==
  LET inner == {i \in DOMAIN t : ~is_horizontal_space(t[i])}
  IN IF inner = {} THEN <<>> ELSE SubSeq(t, Min(inner), Max(inner))

(* The stretches of t between the places where sep stands. *)
Pieces(t, sep) ==
  LET cut == SetToSortSeq({i \in DOMAIN t : t[i] = sep} \cup {0, Len(t) + 1}, LAMBDA i, j : i < j)
  IN [k \in 1..Len(cut) - 1 |-> SubSeq(t, cut[k] + 1, cut[k + 1] - 1)]

parse_u64_decimal(t) ==
  LET plus(tens, c) == IF IsOk(tens) THEN u64_add(tens.value, Digit[c]) ELSE tens
      next(a, c) == IF ~IsOk(a) THEN a
                    ELSE IF c \notin DOMAIN Digit THEN Failed("INVALID_ARGUMENT")
                    ELSE plus(u64_mul(a.value, 10), c)
  IN IF t = <<>> THEN Failed("INVALID_ARGUMENT") ELSE FoldLeft(next, Ok(0), t)

parse_boolean(t) ==
  IF t = <<"true">> THEN Ok(TRUE) ELSE IF t = <<"false">> THEN Ok(FALSE)
  ELSE Failed("INVALID_ARGUMENT")

(* The digits at the front of t, and the unit after them. *)
Digits(t) == LET stop == {i \in DOMAIN t : t[i] \notin DOMAIN Digit} \cup {Len(t) + 1}
             IN SubSeq(t, 1, Min(stop) - 1)
Scaled(value, suffix, units) ==
  IF Len(suffix) > 1 \/ (suffix # <<>> /\ suffix[1] \notin DOMAIN units) THEN Failed("INVALID_ARGUMENT")
  ELSE IF IsOk(value) /\ suffix # <<>> THEN u64_mul(value.value, units[suffix[1]]) ELSE value
WithUnit(t, number, units) ==
  Scaled(parse_u64_decimal(number), SubSeq(t, Len(number) + 1, Len(t)), units)
parse_size_bytes(t) == WithUnit(t, Digits(t), SizeUnits)
parse_duration_ms(t) == WithUnit(t, Digits(t), DurationUnits)

Octet(p) == /\ Len(p) \in 1..3 /\ \A i \in DOMAIN p : p[i] \in DOMAIN Digit
            /\ Len(p) > 1 => p[1] # "0"
            /\ parse_u64_decimal(p).value <= 255
ipv4_is_valid(t) == LET four(parts) == Len(parts) = 4 /\ \A k \in 1..4 : Octet(parts[k])
                    IN four(Pieces(t, "."))

path_is_valid(t) == t # <<>> /\ t[1] = "/" /\ \A i \in DOMAIN t : t[i] \notin Control

field_from_key(t) == IF Len(t) = 1 /\ t[1] \in Fields THEN t[1] ELSE "NONE"

(* The name of an environment entry is VIREO_ and the field in capitals. *)
field_from_environment_name(name) == IF name \in Fields THEN name ELSE "NONE"

-----------------------------------------------------------------------------
(* One value.  A failed assignment leaves the candidate as it is. *)

Refused(config, r, issue) == [r |-> r, issue |-> issue, config |-> config]
Assigned(config, f, v) == [r |-> "OK", issue |-> "NONE", config |-> [config EXCEPT ![f] = v]]

Number(f, t) == CASE f = "idle_timeout" -> parse_duration_ms(t)
                  [] f = "log_max_file_size" -> parse_size_bytes(t)
                  [] OTHER -> parse_u64_decimal(t)
InRange(f, v) == v >= Limits[f].min /\ v <= Limits[f].max

assign_number(config, f, n) ==
  IF n.result = "OVERFLOW" THEN Refused(config, "OVERFLOW", "NUMERIC_OVERFLOW")
  ELSE IF ~IsOk(n) THEN Refused(config, n.result, IF f \in Counts THEN "INVALID_INTEGER" ELSE "INVALID_UNIT")
  ELSE IF ~InRange(f, n.value) THEN Refused(config, "RANGE", "VALUE_OUT_OF_RANGE")
  ELSE Assigned(config, f, n.value)

assign_field(config, f, t) ==
  CASE t = <<>> -> Refused(config, "INVALID_ARGUMENT", "EMPTY_VALUE")
    [] Len(t) > MaxValue -> Refused(config, "RANGE", "VALUE_TOO_LONG")
    [] Len(t) \in 1..MaxValue /\ (\E i \in DOMAIN t : t[i] \in Control) ->
         Refused(config, "INVALID_ARGUMENT", "INVALID_CHARACTER")
    [] OTHER ->
         CASE f = "listen_address" ->
                IF ipv4_is_valid(t) THEN Assigned(config, f, t)
                ELSE Refused(config, "INVALID_ARGUMENT", "INVALID_ADDRESS")
           [] f \in Paths ->
                IF ~path_is_valid(t) THEN Refused(config, "INVALID_ARGUMENT", "INVALID_PATH")
                ELSE IF Len(t) >= PathCapacity THEN Refused(config, "RANGE", "VALUE_TOO_LONG")
                ELSE Assigned(config, f, t)
           [] f = "log_to_stderr" ->
                IF IsOk(parse_boolean(t)) THEN Assigned(config, f, parse_boolean(t).value)
                ELSE Refused(config, "INVALID_ARGUMENT", "INVALID_BOOLEAN")
           [] OTHER -> assign_number(config, f, Number(f, t))

(* The fields in the order in which validate looks at them. *)
Checks == <<"listen_address", "listen_port", "max_connections", "worker_count", "idle_timeout",
            "log_max_file_size", "data_dir", "log_dir">>
Issue(config, f) ==
  CASE f = "listen_address" -> IF ipv4_is_valid(config[f]) THEN "NONE" ELSE "INVALID_ADDRESS"
    [] f \in Paths -> IF Len(config[f]) >= PathCapacity THEN "VALUE_TOO_LONG"
                      ELSE IF path_is_valid(config[f]) THEN "NONE" ELSE "INVALID_PATH"
    [] OTHER -> IF InRange(f, config[f]) THEN "NONE" ELSE "VALUE_OUT_OF_RANGE"
validate(config) ==
  LET first(issues) ==
        LET k == SelectInSeq(issues, LAMBDA issue : issue # "NONE")
        IN IF k = 0 THEN [r |-> "OK", error |-> NoError]
           ELSE [r |-> IF issues[k] \in {"INVALID_ADDRESS", "INVALID_PATH"} THEN "INVALID_ARGUMENT" ELSE "RANGE",
                 error |-> Error(issues[k], "CONFIG", Checks[k])]
  IN first([k \in DOMAIN Checks |-> Issue(config, Checks[k])])

-----------------------------------------------------------------------------
(* Lines and entries.  The work is a candidate with the fields it has seen; *)
(* after an error nothing more is read.                                     *)

Work(base) == [r |-> "OK", config |-> base, seen |-> {}, error |-> NoError]
Fails(work, r, issue, source, f, line, entry) ==
  [work EXCEPT !.r = r, !.error = [issue |-> issue, source |-> source, field |-> f,
                                   line |-> line, entry |-> entry]]
Takes(work, f, a, source, line, entry) ==
  IF a.r # "OK" THEN Fails(work, a.r, a.issue, source, f, line, entry)
  ELSE [work EXCEPT !.config = a.config, !.seen = @ \cup {f}]

parse_line(work, raw, n) ==
  LET bad(issue) == Fails(work, "INVALID_ARGUMENT", issue, "TEXT", "NONE", n, 0)
      setting(f, value) ==
        IF f = "NONE" THEN bad("UNKNOWN_KEY")
        ELSE IF f \in work.seen THEN Fails(work, "INVALID_ARGUMENT", "DUPLICATE_KEY", "TEXT", f, n, 0)
        ELSE Takes(work, f, assign_field(work.config, f, value), "TEXT", n, 0)
      sides(key, value) == IF key = <<>> THEN bad("EMPTY_KEY") ELSE setting(field_from_key(key), value)
      trimmed(t) ==
        LET at == SelectInSeq(t, LAMBDA c : c = "=")
        IN IF t = <<>> \/ Head(t) = "#" THEN work
           ELSE IF at = 0 THEN bad("MISSING_SEPARATOR")
           ELSE sides(trim_horizontal_space(SubSeq(t, 1, at - 1)),
                      trim_horizontal_space(SubSeq(t, at + 1, Len(t))))
  IN IF Len(raw) > MaxLine THEN Fails(work, "RANGE", "LINE_TOO_LONG", "TEXT", "NONE", n, 0)
     ELSE IF \E i \in DOMAIN raw : raw[i] \in Control \ {"TAB"} THEN bad("INVALID_CHARACTER")
     ELSE trimmed(trim_horizontal_space(raw))

(* A line ends with LF or CR LF; the last one may end with the text, and   *)
(* then a CR at its end is part of it.                                     *)
Lines(text) ==
  LET ended(piece) == IF piece # <<>> /\ Last(piece) = "CR" THEN Front(piece) ELSE piece
      of(pieces) == [n \in DOMAIN Front(pieces) |-> ended(pieces[n])]
                      \o (IF Last(pieces) = <<>> THEN <<>> ELSE <<Last(pieces)>>)
  IN of(Pieces(text, "LF"))

(* What both sources do with a finished candidate. *)
Judged(work, v) == [work EXCEPT !.r = v.r, !.error = v.error]
Validated(work) == IF work.r # "OK" THEN work ELSE Judged(work, validate(work.config))

parse_lines(base, lines) ==
  LET next(work, n) == IF work.r # "OK" THEN work ELSE parse_line(work, lines[n], n)
  IN Validated(FoldLeftDomain(next, Work(base), lines))

parse_text(base, text) ==
  LET go(v) == IF v.r # "OK" THEN Judged(Work(base), v)
               ELSE IF Len(text) > MaxText
               THEN [Work(base) EXCEPT !.r = "RANGE", !.error = Error("TEXT_TOO_LARGE", "TEXT", "NONE")]
               ELSE parse_lines(base, Lines(text))
  IN go(validate(base))

apply_entry(work, entry, k) ==
  LET f == field_from_environment_name(entry.name)
      bad(issue, field) ==
        Fails(work, "INVALID_ARGUMENT", issue, "ENVIRONMENT", field, 0, k)
  IN IF entry.name = "NULL" THEN bad("INVALID_ARGUMENT", "NONE")
     ELSE IF f = "NONE" THEN bad("UNKNOWN_ENVIRONMENT", "NONE")
     ELSE IF f \in work.seen THEN bad("DUPLICATE_ENVIRONMENT", f)
     ELSE Takes(work, f, assign_field(work.config, f, trim_horizontal_space(entry.value)),
                "ENVIRONMENT", 0, k)

apply_environment(base, env) ==
  LET next(work, k) == IF work.r # "OK" THEN work ELSE apply_entry(work, env[k], k)
      go(v) == IF v.r # "OK" THEN Judged(Work(base), v)
               ELSE IF Len(env) > MaxItems
               THEN [Work(base) EXCEPT !.r = "RANGE",
                       !.error = Error("TOO_MANY_ENVIRONMENT_ITEMS", "ENVIRONMENT", "NONE")]
               ELSE Validated(FoldLeftDomain(next, Work(base), env))
  IN go(validate(base))

-----------------------------------------------------------------------------
(* load: one action per call of the C library. *)

vars == <<c_text, c_env, c_pc, c_file, c_candidate, c_rc, c_error, c_out>>

Init == /\ c_text \in Texts /\ c_env \in Environments
        /\ c_pc = "open" /\ c_file = "none"
        /\ c_candidate = Defaults /\ c_rc = "OK" /\ c_error = NoError
        /\ c_out = Untouched

Open == /\ c_pc = "open" /\ c_text # NoFile
        /\ c_file' = "open" /\ c_pc' = "read"
        /\ UNCHANGED <<c_text, c_env, c_candidate, c_rc, c_error, c_out>>

OpenFails == /\ c_pc = "open" /\ c_text # NoFile
             /\ \E r \in {"NOT_FOUND", "IO"} : c_rc' = r
             /\ c_error' = Error("FILE_OPEN_FAILED", "FILE", "NONE")
             /\ c_pc' = "done"
             /\ UNCHANGED <<c_text, c_env, c_file, c_candidate, c_out>>

(* fread asks for one byte more than the limit, which shows a longer file. *)
Read == /\ c_pc = "read"
        /\ \E parsed \in {parse_text(c_candidate, SubSeq(c_text, 1, Min({Len(c_text), MaxText + 1})))} :
              /\ c_rc' = parsed.r /\ c_error' = parsed.error
              /\ c_candidate' = IF parsed.r = "OK" THEN parsed.config ELSE c_candidate
        /\ c_pc' = "close"
        /\ UNCHANGED <<c_text, c_env, c_file, c_out>>

ReadFails == /\ c_pc = "read"
             /\ c_rc' = "IO" /\ c_error' = Error("FILE_READ_FAILED", "FILE", "NONE")
             /\ c_pc' = "close"
             /\ UNCHANGED <<c_text, c_env, c_file, c_candidate, c_out>>

(* A failed close is reported only when nothing failed before it. *)
Close == /\ c_pc = "close" /\ c_file' = "none"
         /\ \/ UNCHANGED <<c_rc, c_error>>
            \/ /\ c_rc' = IF c_rc = "OK" THEN "IO" ELSE c_rc
               /\ c_error' = IF c_rc = "OK" THEN Error("FILE_CLOSE_FAILED", "FILE", "NONE") ELSE c_error
         /\ c_pc' = IF c_rc' = "OK" THEN "environment" ELSE "done"
         /\ UNCHANGED <<c_text, c_env, c_candidate, c_out>>

Environment ==
    /\ c_pc = "environment" \/ (c_pc = "open" /\ c_text = NoFile)
    /\ \E next \in {Validated(apply_environment(c_candidate, c_env))} :
          /\ c_rc' = next.r /\ c_error' = next.error
          /\ c_out' = IF next.r = "OK" THEN next.config ELSE c_out
    /\ c_pc' = "done"
    /\ UNCHANGED <<c_text, c_env, c_file, c_candidate>>

Next == Open \/ OpenFails \/ Read \/ ReadFails \/ Close \/ Environment

Spec == Init /\ [][Next]_vars

-----------------------------------------------------------------------------
(* The reference: what a text means, without the parser. *)

Decimal(t) == MapThenSumSet(LAMBDA i : Digit[t[i]] * 10^(Len(t) - i), DOMAIN t)
Unit(f, t) == LET units == IF f = "idle_timeout" THEN DurationUnits ELSE SizeUnits
              IN IF Last(t) \in DOMAIN Digit THEN 1 ELSE units[Last(t)]
Means(f, t) ==
  CASE f \in Paths \cup {"listen_address"} -> t
    [] f = "log_to_stderr" -> t = <<"true">>
    [] OTHER -> Decimal(SelectSeq(t, LAMBDA c : c \in DOMAIN Digit)) * Unit(f, t)

Setting(line) == trim_horizontal_space(SubSeq(line, 1, SelectInSeq(line, LAMBDA c : c = "=") - 1))
InFile(f) ==
  IF c_text = NoFile THEN {}
  ELSE {n \in DOMAIN Lines(c_text) : "=" \in ToSet(Lines(c_text)[n]) /\ Setting(Lines(c_text)[n]) = <<f>>}
ValueOf(line) == trim_horizontal_space(SubSeq(line, SelectInSeq(line, LAMBDA c : c = "=") + 1, Len(line)))
InEnvironment(f) == {k \in DOMAIN c_env : c_env[k].name = f}

(* What load returns for a field: the environment before the file, the     *)
(* file before the default, and of each the one value given.               *)
Expected(f) ==
  IF InEnvironment(f) # {}
  THEN {Means(f, trim_horizontal_space(c_env[k].value)) : k \in InEnvironment(f)}
  ELSE IF InFile(f) # {} THEN {Means(f, ValueOf(Lines(c_text)[n])) : n \in InFile(f)}
  ELSE {Defaults[f]}

(* config.c, vireo_config_load: the result is the meaning of the given      *)
(* texts with the environment before the file before the defaults, and is   *)
(* valid; a failed call leaves out_config alone, names the first line or    *)
(* entry that is wrong and never blames the result; the file is closed.     *)
ConfigExact ==
  c_pc = "done" =>
    /\ c_file = "none"
    /\ c_rc = "OK" <=> c_out # Untouched
    /\ c_error.source # "CONFIG" /\ (c_rc = "OK" <=> c_error = NoError)
    /\ c_rc = "OK" => /\ validate(c_out).r = "OK"
                      /\ \A f \in Fields : Expected(f) = {c_out[f]}
                      /\ \A f \in Fields : Cardinality(InFile(f)) <= 1 /\ Cardinality(InEnvironment(f)) <= 1
    /\ c_error.line > 0 =>
         /\ parse_lines(Defaults, SubSeq(Lines(c_text), 1, c_error.line - 1)).r = "OK"
         /\ parse_lines(Defaults, SubSeq(Lines(c_text), 1, c_error.line)).r # "OK"
    /\ c_error.entry > 0 =>
         /\ apply_environment(c_candidate, SubSeq(c_env, 1, c_error.entry - 1)).r = "OK"
         /\ apply_environment(c_candidate, SubSeq(c_env, 1, c_error.entry)).r # "OK"
=============================================================================
