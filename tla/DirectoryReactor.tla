------------------------- MODULE DirectoryReactor -------------------------
(***************************************************************************)
(* How the reactor takes a directory request from a client's frame to its  *)
(* answer: net/directory_{stat,root,list,mkdir,move,remove}_reactor.c.  A  *)
(* handler may fail in the middle, at any call that consumes, queues,      *)
(* refreshes, schedules or destroys; the progress it recorded in the head  *)
(* of the slot or in the receipt of the command is what the next turn of   *)
(* net/auth_service.c resumes from.  The six files are one design: the     *)
(* operators below are the design, and each command instantiates them.     *)
(*                                                                         *)
(* One client is modelled.  Slots, generations, reused sequence numbers    *)
(* and the batched cleanup are in RequestReactor, the delivery of AUTH     *)
(* answers in AuthService.                                                 *)
(***************************************************************************)
EXTENDS Integers, Sequences, FiniteSets, SequencesExt

CONSTANTS
    Scripts,      \* sequences of frames a client may send
    StoreLimit,   \* records of the in-flight store
    ClientLimit,  \* max_client_requests
    MaxFaults     \* bound: failing calls

Commands == {"STAT", "ROOT", "LIST", "MKDIR", "MOVE", "REMOVE"}

\* The heads of a slot: one for each command, and that of an AUTH frame.
HeadKinds == Commands \cup {"AUTH"}

\* These three count a completion and mark a late one when its owner ends.
Writes == {"MKDIR", "MOVE", "REMOVE"}

VARIABLES
    script,    \* the frames of this run: command, session handle, well-formedness
    read,      \* frames taken out of the read buffer
    heads,     \* per command (AUTH included), what finish_head resumes from
    expected,  \* committed entries of the expected table
    records,   \* sequences on record in the in-flight store
    flight,    \* requests a worker owns
    queues,    \* per command, published completions
    owner,     \* per command, the popped completion, or 0
    receipt,   \* per command, state of the receipt: 0 .. 3
    session,   \* handle of the client's session, 0 when it has none
    expired,   \* requests whose deadline has passed
    carrier,   \* what transport() finds
    client,    \* "open", "closing" or "released"
    output,    \* frames in the client's write queue
    faults     \* failing calls so far

vars == <<script, read, heads, expected, records, flight, queues, owner, receipt, session,
          expired, carrier, client, output, faults>>

-----------------------------------------------------------------------------
Sequence == 1 .. Len(script)
Frame(n) == script[n]

EmptyHead ==
    [state |-> 0, sequence |-> 0, transferred |-> FALSE, retained |-> FALSE, fatal |-> FALSE,
     rejection |-> 0, status |-> "NONE"]

Init ==
    /\ script \in Scripts
    /\ read = 0
    /\ heads = [c \in HeadKinds |-> EmptyHead]
    /\ expected = {}
    /\ records = {}
    /\ flight = {}
    /\ queues = [c \in Commands |-> <<>>]
    /\ owner = [c \in Commands |-> 0]
    /\ receipt = [c \in Commands |-> 0]
    /\ session = 1
    /\ expired = {}
    /\ carrier = "OK"
    /\ client = "open"
    /\ output = <<>>
    /\ faults = 0

\* A call that fails; the model allows MaxFaults of them.
FaultIf(failed) ==
    IF failed THEN faults < MaxFaults /\ faults' = faults + 1 ELSE faults' = faults

\* BUSY while TLS closes, NOT_FOUND once the slot closes, CANCELLED after a stop.
transport == IF client # "open" THEN "NOT_FOUND" ELSE carrier

-----------------------------------------------------------------------------
(* The head of a slot: consume the frame, then answer a refusal once *)

\* Where a call of finish_head may end.  "blocked" is no failure: the write
\* queue is full and a later turn tries again.
Ends(h) ==
    (IF h.state = 1 THEN {"consume"} ELSE {}) \cup
    (IF h.fatal \/ (h.retained /\ ~h.transferred) THEN {"latched"}
     ELSE {"destroy"} \cup
          (IF h.transferred THEN {"done"}
           ELSE {"refresh", "done"} \cup (IF h.rejection = 0 THEN {"blocked", "enqueue"} ELSE {})))

\* What the head remembers of a call that ended there.
Progress(h, end) ==
    CASE end = "done" -> EmptyHead
      [] end = "consume" -> h
      [] end = "refresh" -> [h EXCEPT !.state = 2, !.rejection = 1]
      [] OTHER -> [h EXCEPT !.state = 2]

Refuses(h, end) == ~h.transferred /\ h.rejection = 0 /\ end \in {"refresh", "done"}

finish_head(c, h) ==
    \E end \in Ends(h) :
        /\ heads' = [heads EXCEPT ![c] = Progress(h, end)]
        /\ read' = IF h.state = 1 /\ end # "consume" THEN read + 1 ELSE read
        /\ output' = IF Refuses(h, end)
                     THEN Append(output, [sequence |-> h.sequence, status |-> h.status])
                     ELSE output
        /\ FaultIf(end \in {"consume", "destroy", "enqueue", "refresh"} \/ (h.fatal /\ heads[c].state = 0))

NewHead(n) == [EmptyHead EXCEPT !.state = 1, !.sequence = n, !.status = "BAD_REQUEST"]

\* reserve finds no entry for a client at its limit or for a full store.
NoEntry == Cardinality(expected) >= ClientLimit \/ Cardinality(records) >= StoreLimit

\* What becomes of a frame: the head that finish_head then works on.
Latched(h) == [h EXCEPT !.fatal = TRUE]
Refused(h, status) == [h EXCEPT !.status = status]
Retained(h) == [h EXCEPT !.retained = TRUE]
Transferred(h) == [h EXCEPT !.transferred = TRUE]

\* An allocation that fails is an overload, for STAT an internal error.
NoMemory(c) == IF c = "STAT" THEN "INTERNAL_ERROR" ELSE "OVERLOADED"

Decisions(c, n) ==
    LET h == NewHead(n) IN
    {Latched(h)} \cup
    (IF ~Frame(n).valid THEN {h}
     ELSE IF Frame(n).handle = 0 \/ Frame(n).handle # session THEN {Refused(h, "UNAUTHORIZED")}
     ELSE IF NoEntry \/ Cardinality(records) >= ClientLimit THEN {Refused(h, "OVERLOADED")}
     ELSE {Refused(h, NoMemory(c)),             \* no memory for the task, or the pool is full
           Refused(h, "OVERLOADED"),
           Latched(Retained(h)),                \* the record could not be taken back
           Latched(Transferred(h)),             \* handed over, then an error
           Transferred(h)})

Commit(n, h) ==
    /\ expected' = IF h.transferred \/ h.retained THEN expected \cup {n} ELSE expected
    /\ records' = IF h.transferred \/ h.retained THEN records \cup {n} ELSE records
    /\ flight' = IF h.transferred THEN flight \cup {n} ELSE flight

close_slot == client' = "closing"

\* The slot is free for a new frame when no command has an unfinished head.
Idle == \A c \in HeadKinds : heads[c].state = 0
NextFrame(command) == read < Len(script) /\ Frame(read + 1).command = command

head(c) ==
    /\ client = "open" /\ Idle /\ NextFrame(c)
    /\ \/ /\ transport # "OK"
          /\ close_slot
          /\ UNCHANGED <<heads, read, output, faults, expected, records, flight>>
       \/ /\ transport = "OK"
          /\ \E h \in Decisions(c, read + 1) : Commit(read + 1, h) /\ finish_head(c, h)
          /\ UNCHANGED client
    /\ UNCHANGED <<script, queues, owner, receipt, session, expired, carrier>>

resume_head(c) ==
    /\ client = "open" /\ heads[c].state # 0
    /\ finish_head(c, heads[c])
    /\ UNCHANGED <<script, expected, records, flight, queues, owner, receipt, session, expired,
                   carrier, client>>

\* An AUTH frame of a client without room is refused through the head of MKDIR.
reject_auth(n) ==
    /\ NoEntry
    /\ \E h \in {Latched(NewHead(n)),
                 Refused(NewHead(n), IF Frame(n).valid THEN "OVERLOADED" ELSE "BAD_REQUEST")} :
          finish_head("MKDIR", h)
    /\ UNCHANGED <<expected, records, flight>>

\* Otherwise net/auth_request_head.c takes it over, and the entry is committed
\* when the task was handed over or a record of it is retained.  An error with
\* either latches the service: the head then stays as it is.
commit_auth(n) ==
    /\ ~NoEntry
    /\ read' = read + 1
    /\ \E h \in {NewHead(n), Transferred(NewHead(n)),
                 Latched(Transferred(NewHead(n))), Latched(Retained(NewHead(n)))} :
          /\ Commit(n, h)
          /\ heads' = IF h.fatal THEN [heads EXCEPT !["AUTH"] = [h EXCEPT !.state = 2]] ELSE heads
          /\ output' = IF h.transferred \/ h.retained THEN output
                       ELSE Append(output, [sequence |-> n, status |-> "OVERLOADED"])
          /\ FaultIf(h.fatal)

auth_head ==
    /\ client = "open" /\ Idle /\ NextFrame("AUTH")
    /\ reject_auth(read + 1) \/ commit_auth(read + 1)
    /\ UNCHANGED <<script, queues, owner, receipt, session, expired, carrier, client>>

\* Its completion must find the entry; the answer itself is AuthService's.
check_auth(n) ==
    /\ n \in flight /\ Frame(n).command = "AUTH"
    /\ flight' = flight \ {n}
    /\ records' = records \ {n}
    /\ expected' = expected \ {n}
    /\ output' = IF n \in records /\ n \in expected /\ client = "open"
                 THEN Append(output, [sequence |-> n, status |-> "RESULT"])
                 ELSE output
    /\ UNCHANGED <<script, read, heads, queues, owner, receipt, session, expired, carrier, client, faults>>

-----------------------------------------------------------------------------
(* A completion: pop, take its record, send the answer, destroy *)

\* The entry of the request carries the command and the keys that were sent.
matches(c, n) == n \in expected /\ Frame(n).command = c

\* Mutant: a blocked answer is sent without looking at the session again.
DeliverableBlind(c, n) == transport = "OK"

\* The client can still take the answer, in the session that asked for it.
Deliverable(c, n) == transport = "OK" /\ session = Frame(n).handle

\* Where send_pending may end with the receipt in state r.
SendEnds(c, n, r) ==
    IF client = "closing" \/ r = 3 THEN {"destroy", "done"}
    ELSE IF r = 2 THEN {"refresh", "schedule", "destroy", "done"}
    ELSE IF ~matches(c, n) THEN {"mismatch"}
    ELSE IF transport # "OK" THEN {"destroy", "done"}
    ELSE IF ~Deliverable(c, n) THEN {"schedule", "destroy", "done"}
    ELSE {"blocked", "enqueue", "refresh", "schedule", "destroy", "done"}

ReceiptAfter(c, r, end) ==
    CASE end = "done" -> 0
      [] end \in {"mismatch", "blocked", "enqueue"} -> r
      [] end = "refresh" -> 2
      [] client = "closing" /\ c \notin Writes -> r
      [] OTHER -> 3

Sends(c, n, r, end) ==
    /\ r = 1 /\ client = "open"
    /\ matches(c, n) /\ Deliverable(c, n)
    /\ end \in {"refresh", "schedule", "destroy", "done"}

\* The keys of LIST, MKDIR and MOVE are wiped with the entry.  Those of a REMOVE
\* stay until the next REMOVE that reserves the entry writes its own, before it
\* is committed; matches reads them only through an entry of that command.
forget(n) == expected' = expected \ {n}

\* destroy the owner; only then is the entry forgotten and the receipt cleared.
discard(c, n, end) ==
    /\ owner' = [owner EXCEPT ![c] = IF end = "done" THEN 0 ELSE n]
    /\ IF end = "done" THEN forget(n) ELSE UNCHANGED expected

send_pending(c, n, r) ==
    \E end \in SendEnds(c, n, r) :
        /\ discard(c, n, end)
        /\ receipt' = [receipt EXCEPT ![c] = ReceiptAfter(c, r, end)]
        /\ output' = IF Sends(c, n, r, end)
                     THEN Append(output, [sequence |-> n,
                                          status |-> IF n \in expired THEN "TIMEOUT" ELSE "RESULT"])
                     ELSE output
        /\ FaultIf(end \in {"enqueue", "refresh", "schedule", "destroy"})

\* Decoding or the check of the record fails: the owner waits for another turn.
KeepOwner(c, n) ==
    /\ FaultIf(TRUE)
    /\ owner' = [owner EXCEPT ![c] = n]
    /\ UNCHANGED <<records, expected, receipt, output>>

\* No record, or no client any more: the completion is destroyed and forgotten.
DropLate(c, n) ==
    /\ n \notin records \/ client = "released"
    /\ records' = records \ {n}
    /\ \E end \in {"destroy", "done"} : discard(c, n, end) /\ FaultIf(end = "destroy")
    /\ UNCHANGED <<receipt, output>>

\* The record is taken before the answer is tried: it is never taken twice.
TakeAndSend(c, n) ==
    /\ n \in records /\ client # "released"
    /\ matches(c, n)
    /\ records' = records \ {n}
    /\ send_pending(c, n, 1)

\* One pass of the loop in completions; the limit on passes (for LIST the byte
\* budget too) only decides how many follow one another in a turn.
completions(c) ==
    /\ \/ /\ owner[c] = 0 /\ queues[c] # <<>>
          /\ queues' = [queues EXCEPT ![c] = Tail(@)]
          /\ LET n == Head(queues[c]) IN KeepOwner(c, n) \/ DropLate(c, n) \/ TakeAndSend(c, n)
       \/ /\ owner[c] # 0 /\ receipt[c] = 0
          /\ KeepOwner(c, owner[c]) \/ DropLate(c, owner[c]) \/ TakeAndSend(c, owner[c])
          /\ UNCHANGED queues
       \/ /\ owner[c] # 0 /\ receipt[c] # 0
          /\ send_pending(c, owner[c], receipt[c])
          /\ UNCHANGED <<queues, records>>
    /\ UNCHANGED <<script, read, heads, flight, session, expired, carrier, client>>

-----------------------------------------------------------------------------
(* The six reactors *)

stat_head == head("STAT") \/ resume_head("STAT")
stat_completions == completions("STAT")
root_head == head("ROOT") \/ resume_head("ROOT")
root_completions == completions("ROOT")
list_head == head("LIST") \/ resume_head("LIST")
list_completions == completions("LIST")
mkdir_head == head("MKDIR") \/ resume_head("MKDIR")
mkdir_completions == completions("MKDIR")
move_head == head("MOVE") \/ resume_head("MOVE")
move_completions == completions("MOVE")
remove_head == head("REMOVE") \/ resume_head("REMOVE")
remove_completions == completions("REMOVE")

-----------------------------------------------------------------------------
(* The workers, the clock, the session and the client *)

Publish(n) ==
    /\ n \in flight /\ Frame(n).command \in Commands
    /\ flight' = flight \ {n}
    /\ queues' = [queues EXCEPT ![Frame(n).command] = Append(@, n)]
    /\ UNCHANGED <<script, read, heads, expected, records, owner, receipt, session, expired,
                   carrier, client, output, faults>>

Expire(n) ==
    /\ n \in expected \ expired
    /\ expired' = expired \cup {n}
    /\ UNCHANGED <<script, read, heads, expected, records, flight, queues, owner, receipt,
                   session, carrier, client, output, faults>>

\* Logout, expiry or revocation; a later login has another handle.
SessionEnds ==
    /\ session = 1
    /\ session' \in {0, 2}
    /\ UNCHANGED <<script, read, heads, expected, records, flight, queues, owner, receipt,
                   expired, carrier, client, output, faults>>

CarrierFails ==
    /\ carrier = "OK"
    /\ carrier' \in {"BUSY", "CANCELLED"}
    /\ UNCHANGED <<script, read, heads, expected, records, flight, queues, owner, receipt,
                   session, expired, client, output, faults>>

Disconnect ==
    /\ client = "open"
    /\ close_slot
    /\ UNCHANGED <<script, read, heads, expected, records, flight, queues, owner, receipt,
                   session, expired, carrier, output, faults>>

\* cleanup of net/auth_service.c, its batches taken together.
Release ==
    /\ client = "closing"
    /\ client' = "released"
    /\ records' = {}
    /\ expected' = {}
    /\ heads' = [c \in HeadKinds |-> EmptyHead]
    /\ owner' = [c \in Commands |-> 0]
    /\ receipt' = [c \in Commands |-> 0]
    /\ UNCHANGED <<script, read, flight, queues, session, expired, carrier, output, faults>>

Next ==
    \/ stat_head \/ root_head \/ list_head \/ mkdir_head \/ move_head \/ remove_head
    \/ stat_completions \/ root_completions \/ list_completions
    \/ mkdir_completions \/ move_completions \/ remove_completions
    \/ auth_head
    \/ \E n \in Sequence : check_auth(n) \/ Publish(n) \/ Expire(n)
    \/ SessionEnds \/ CarrierFails \/ Disconnect \/ Release

Spec == Init /\ [][Next]_vars

-----------------------------------------------------------------------------
(* Properties *)

Answers(n) == {k \in 1 .. Len(output) : output[k].sequence = n}
Owned(n) == n \in flight \/ \E c \in Commands : owner[c] = n \/ Contains(queues[c], n)
Resumable(n) == \E c \in HeadKinds : heads[c].state # 0 /\ heads[c].sequence = n

\* Whatever call fails and however often a handler is resumed, a frame is
\* answered at most once, and a frame taken from an open client is answered,
\* still owned by a worker, a queue or a reactor, waiting in its slot's head,
\* or of a session that has ended since.
OneAnswer ==
    \A n \in Sequence :
        /\ Cardinality(Answers(n)) <= 1
        /\ n <= read /\ client = "open" /\ carrier = "OK" =>
              Answers(n) # {} \/ Owned(n) \/ Resumable(n) \/ Frame(n).handle # session

\* An entry of an open client lives exactly as long as somebody owns its
\* request: no path drops a completion and keeps its entry, which would use
\* up the client's limit, and none forgets an entry whose answer is due.
EntriesOwned ==
    client = "open" =>
        \A n \in Sequence : n \in expected <=>
            Owned(n) \/ \E c \in HeadKinds : heads[c].sequence = n /\ heads[c].retained

\* The result of a request is queued only for an open client, in the session
\* that issued it, and as a TIMEOUT once its deadline has passed, even when it
\* had to wait for room or for a failed call to be repeated.
AnswerStep ==
    \A n \in Sequence :
        /\ Len(output') > Len(output)
        /\ output'[Len(output')] \in [sequence : {n}, status : {"RESULT", "TIMEOUT"}]
        /\ Frame(n).command \in Commands
        => /\ client = "open" /\ session = Frame(n).handle
           /\ output'[Len(output')].status = "TIMEOUT" <=> n \in expired

=============================================================================
