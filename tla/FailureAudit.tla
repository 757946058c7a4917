--------------------------- MODULE FailureAudit ---------------------------
(***************************************************************************)
(* The queue of failed authentications (service/auth_failure_audit.c)      *)
(* and the thread that writes them to the database                         *)
(* (app/auth_failure_writer.c).  Workers and reactors offer events         *)
(* and never wait: a busy lock, a spent token bucket, a full or a closed   *)
(* queue drops the event and counts it.  The writer takes events at the    *)
(* bucket's rate; when it fails it disables the queue for good.            *)
(*                                                                         *)
(* A critical section of the mutex is one step.  A bucket keeps how long   *)
(* ago it was last refilled instead of a clock reading.                    *)
(***************************************************************************)
EXTENDS Naturals, Sequences, FiniteSets

CONSTANTS
  Events,     \* the events offered, in a behaviour at most once each
  Reactor,    \* those that a reactor offers: their identifier is made by the writer
  Capacity, Burst, Interval,   \* the options: capacity, burst, refill_ns
  MaxFaults   \* bound: calls that fail

VARIABLES
  queue,      \* the slots from head on
  closed, disabled, exists,
  offer, take,      \* the two buckets: [tokens, remainder, age]
  counters,   \* disposition -> count
  writer,     \* control state of the writer thread
  waits,      \* "no", "any": cond_wait, "until": cond_timedwait
  left,       \* ticks until a timed wait ends
  hand,       \* the event the writer works on, in a set
  report,     \* [committed, unknown, failed, disabled, created, joined]
  holds,      \* what the writer still holds: guard, repository
  tries,      \* attempts left for the cleanup step at hand
  fate,       \* history: event -> what became of it
  faults

object == <<queue, closed, disabled, exists, offer, take, counters>>
thread == <<writer, waits, left, hand, report, holds, tries>>
vars == <<object, thread, fate, faults>>

Counters == {"QUEUED", "TAKEN", "RATE", "FULL", "CONTENTION", "CLOSED", "DISABLED", "DISCARDED"}

Init ==
  /\ queue = <<>>
  /\ closed = FALSE /\ disabled = FALSE /\ exists = TRUE
  /\ offer = [tokens |-> Burst, remainder |-> 0, age |-> 0]
  /\ take = [tokens |-> Burst, remainder |-> 0, age |-> 0]
  /\ counters = [c \in Counters |-> 0]
  /\ writer = "none" /\ waits = "no" /\ left = 0 /\ hand = {}
  /\ report = [committed |-> 0, unknown |-> 0, failed |-> 0, disabled |-> FALSE, created |-> FALSE, joined |-> FALSE]
  /\ holds = {} /\ tries = 3
  /\ fate = [e \in Events |-> "none"]
  /\ faults = 0

Bump(c, n) == counters' = [counters EXCEPT ![c] = @ + n]
Fault == faults < MaxFaults /\ faults' = faults + 1

-----------------------------------------------------------------------------
(* Whole periods of the time since the last refill, the rest is kept; a    *)
(* bucket that is full drops the rest.                                     *)
bucket_refill(b) ==
  LET tail  == b.remainder + (b.age % Interval)
      whole == (b.age \div Interval) + (tail \div Interval)
  IN  IF whole >= Burst - b.tokens
      THEN [tokens |-> Burst, remainder |-> 0, age |-> 0]
      ELSE [tokens |-> b.tokens + whole, remainder |-> tail % Interval, age |-> 0]

(* Time passes; past Burst periods a bucket is full whatever the age.      *)
Older(b) == [b EXCEPT !.age = IF @ < Burst * Interval THEN @ + 1 ELSE @]

Tick ==
  /\ exists
  /\ offer' = Older(offer)
  /\ take' = Older(take)
  /\ left' = IF left = 0 THEN 0 ELSE left - 1
  /\ UNCHANGED <<queue, closed, disabled, exists, counters, writer, waits, hand, report, holds, tries, fate, faults>>

-----------------------------------------------------------------------------
\* Mutant: an event is queued without waking the writer.
signalNobody == UNCHANGED <<waits, left>>

signal == waits' = "no" /\ left' = 0

(* An offer: refused by the lock, by the state of the queue, by the bucket,*)
(* by the capacity, in this order.                                         *)
try_offer(e, busy) ==
  /\ exists /\ fate[e] = "none"
  /\ LET b == bucket_refill(offer)
     IN  CASE busy -> /\ Bump("CONTENTION", 1) /\ fate' = [fate EXCEPT ![e] = "dropped"]
                      /\ UNCHANGED <<queue, offer, waits, left>>
           [] ~busy /\ disabled -> /\ Bump("DISABLED", 1) /\ fate' = [fate EXCEPT ![e] = "dropped"]
                                   /\ UNCHANGED <<queue, offer, waits, left>>
           [] ~busy /\ closed /\ ~disabled -> /\ Bump("CLOSED", 1) /\ fate' = [fate EXCEPT ![e] = "dropped"]
                                              /\ UNCHANGED <<queue, offer, waits, left>>
           [] ~busy /\ ~closed /\ b.tokens = 0 ->
                 /\ Bump("RATE", 1) /\ fate' = [fate EXCEPT ![e] = "dropped"]
                 /\ offer' = b /\ UNCHANGED <<queue, waits, left>>
           [] ~busy /\ ~closed /\ b.tokens # 0 /\ Len(queue) = Capacity ->
                 /\ Bump("FULL", 1) /\ fate' = [fate EXCEPT ![e] = "dropped"]
                 /\ offer' = b /\ UNCHANGED <<queue, waits, left>>
           [] OTHER ->
                 /\ Bump("QUEUED", 1) /\ fate' = [fate EXCEPT ![e] = "queued"]
                 /\ queue' = Append(queue, e)
                 /\ offer' = [b EXCEPT !.tokens = @ - 1]
                 /\ signal
  /\ UNCHANGED <<closed, disabled, exists, take, writer, hand, report, holds, tries, faults>>

discarded(n) == n

(* close: what is queued is discarded, everybody waiting is woken.         *)
close(why) ==
  /\ closed' = TRUE
  /\ disabled' = (disabled \/ why = "DISABLE")
  /\ Bump("DISCARDED", discarded(Len(queue)))
  /\ fate' = [e \in Events |-> IF \E i \in DOMAIN queue : queue[i] = e THEN "discarded" ELSE fate[e]]
  /\ queue' = <<>>
  /\ waits' = "no" /\ left' = 0

-----------------------------------------------------------------------------
(* The writer thread.                                                      *)
disable(r) == close("DISABLE") /\ report' = [r EXCEPT !.disabled = TRUE]

start ==
  /\ writer = "none" /\ ~report.created /\ ~report.disabled /\ exists
  /\ \/ /\ writer' = "attach" /\ report' = [report EXCEPT !.created = TRUE]
        /\ UNCHANGED <<queue, closed, disabled, counters, fate, waits, left, faults>>
     \/ Fault /\ disable(report) /\ UNCHANGED writer
  /\ UNCHANGED <<exists, offer, take, hand, holds, tries>>

(* The guard and the repository; a failure of either disables the queue.   *)
attach(what, next) ==
  /\ writer = what
  /\ \/ /\ writer' = next /\ holds' = holds \cup {what}
        /\ UNCHANGED <<queue, closed, disabled, counters, fate, waits, left, report, faults>>
     \/ Fault /\ disable(report) /\ writer' = "cleanup" /\ UNCHANGED holds
  /\ UNCHANGED <<exists, offer, take, hand, tries>>

(* One turn of wait_take's loop: closed, an event and a token, or a wait:  *)
(* without limit on an empty queue, else until the next token is due.      *)
wait_take ==
  /\ writer = "take" /\ waits = "no"
  /\ LET b == bucket_refill(take)
     IN  CASE closed -> /\ writer' = "cleanup"
                        /\ UNCHANGED <<queue, take, counters, waits, left, hand, fate>>
           [] ~closed /\ queue # <<>> /\ b.tokens > 0 ->
                 /\ hand' = {Head(queue)} /\ queue' = Tail(queue)
                 /\ fate' = [fate EXCEPT ![Head(queue)] = "taken"]
                 /\ take' = [b EXCEPT !.tokens = @ - 1]
                 /\ Bump("TAKEN", 1)
                 /\ writer' = "append"
                 /\ UNCHANGED <<waits, left>>
           [] OTHER ->
                 /\ take' = b
                 /\ waits' = IF queue = <<>> THEN "any" ELSE "until"
                 /\ left' = IF queue = <<>> THEN 0 ELSE Interval - b.remainder
                 /\ UNCHANGED <<queue, counters, writer, hand, fate>>
  /\ UNCHANGED <<closed, disabled, exists, offer, report, holds, tries, faults>>

(* A wait ends by a signal (see signal), by its time, or for no reason.    *)
wakes ==
  /\ \/ waits = "until" /\ left = 0 /\ UNCHANGED faults
     \/ waits # "no" /\ Fault
  /\ waits' = "no" /\ left' = 0
  /\ UNCHANGED <<object, writer, hand, report, holds, tries, fate>>

(* The clock or the wait itself fails.                                     *)
wait_fails ==
  /\ writer = "take" /\ waits = "no" /\ Fault
  /\ disable(report) /\ writer' = "cleanup"
  /\ UNCHANGED <<exists, offer, take, hand, holds, tries>>

(* The event becomes an audit row in a transaction of its own.  A failure  *)
(* after a confirmed COMMIT still disables the queue.                      *)
append_auth_failure(e, o) ==
  /\ writer = "append" /\ hand = {e}
  /\ IF o = "COMMITTED" THEN UNCHANGED faults ELSE Fault
  /\ o = "NO_ID" => e \in Reactor
  /\ LET r == CASE o = "COMMITTED"   -> [report EXCEPT !.committed = @ + 1]
                [] o = "UNRELEASED"  -> [report EXCEPT !.committed = @ + 1, !.failed = @ + 1]
                [] o = "UNKNOWN"     -> [report EXCEPT !.unknown = @ + 1, !.failed = @ + 1]
                [] o \in {"NO_ID", "REFUSED"} -> [report EXCEPT !.failed = @ + 1]
         end == [fate EXCEPT ![e] = IF o \in {"COMMITTED", "UNRELEASED"} THEN "written"
                                    ELSE IF o = "UNKNOWN" THEN "unknown" ELSE "lost"]
     IN  IF o = "COMMITTED"
         THEN /\ report' = r /\ fate' = end /\ writer' = "take"
              /\ UNCHANGED <<queue, closed, disabled, counters, waits, left>>
         ELSE /\ closed' = TRUE /\ disabled' = TRUE /\ report' = [r EXCEPT !.disabled = TRUE]
              /\ Bump("DISCARDED", discarded(Len(queue))) /\ queue' = <<>>
              /\ fate' = [x \in Events |-> IF \E i \in DOMAIN queue : queue[i] = x THEN "discarded" ELSE end[x]]
              /\ writer' = "cleanup"
              /\ UNCHANGED <<waits, left>>
  /\ hand' = {}
  /\ UNCHANGED <<exists, offer, take, holds, tries>>

(* The repository, then the guard, three attempts each; then the thread    *)
(* ends, or the process does.                                              *)
held == IF "create" \in holds THEN "create" ELSE "attach"

cleanup ==
  /\ writer = "cleanup"
  /\ IF holds = {} THEN /\ writer' = "ended"
                        /\ UNCHANGED <<queue, closed, disabled, counters, fate, waits, left, report, holds, tries, faults>>
     ELSE IF tries = 0 THEN /\ writer' = "exit"
                            /\ UNCHANGED <<queue, closed, disabled, counters, fate, waits, left, report, holds, tries, faults>>
     ELSE \/ /\ holds' = holds \ {held} /\ tries' = 3
             /\ UNCHANGED <<queue, closed, disabled, counters, fate, waits, left, report, writer, faults>>
          \/ Fault /\ disable(report) /\ tries' = tries - 1 /\ UNCHANGED <<writer, holds>>
  /\ UNCHANGED <<exists, offer, take, hand>>

-----------------------------------------------------------------------------
(* The process: stop the queue, join the writer, destroy the queue.        *)
stop ==
  /\ exists /\ ~closed /\ writer # "exit"
  /\ close("STOP")
  /\ UNCHANGED <<exists, offer, take, writer, hand, report, holds, tries, faults>>

join ==
  /\ closed /\ report.created /\ ~report.joined /\ writer = "ended"
  /\ report' = [report EXCEPT !.joined = TRUE]
  /\ UNCHANGED <<object, writer, waits, left, hand, holds, tries, fate, faults>>

destroy ==
  /\ exists /\ closed
  /\ report.created => report.joined
  /\ exists' = FALSE
  /\ UNCHANGED <<queue, closed, disabled, offer, take, counters, thread, fate, faults>>

-----------------------------------------------------------------------------
Write ==
  \/ attach("attach", "create") \/ attach("create", "take")
  \/ wait_take \/ wakes \/ wait_fails
  \/ \E e \in Events, o \in {"COMMITTED", "UNRELEASED", "UNKNOWN", "NO_ID", "REFUSED"} : append_auth_failure(e, o)
  \/ cleanup

Next ==
  \/ Tick
  \/ \E e \in Events, busy \in BOOLEAN : try_offer(e, busy)
  \/ start
  \/ Write
  \/ stop
  \/ join
  \/ destroy

(* Time passes, the scheduler runs the writer, and the process that has    *)
(* begun to stop joins it.  Offers and the stop itself are not forced.     *)
Spec == Init /\ [][Next]_vars /\ WF_vars(Tick) /\ WF_vars(Write) /\ WF_vars(start) /\ WF_vars(join)

-----------------------------------------------------------------------------
Count(f) == Cardinality({e \in Events : fate[e] \in f})

(* Every event that was offered is counted once and in the right place,    *)
(* through closing and failures: the counters an operator reads add up to  *)
(* the offers, what was queued is what was taken, discarded or is queued,  *)
(* and what was taken is what the writer reports or has in hand            *)
(* (auth_failure_audit.c:144, auth_failure_writer.c:57).                   *)
EveryEventCounted ==
  /\ counters["QUEUED"] = counters["TAKEN"] + counters["DISCARDED"] + Len(queue)
  /\ counters["DISCARDED"] = Count({"discarded"})
  /\ counters["QUEUED"] + Count({"dropped"}) = Count({"queued", "taken", "discarded", "written", "unknown", "lost", "dropped"})
  /\ report.committed = Count({"written"}) /\ report.unknown = Count({"unknown"})
  /\ counters["TAKEN"] = Cardinality(hand) + Count({"written", "unknown", "lost"})
  /\ ~exists => queue = <<>> /\ hand = {} /\ holds = {}

(* The writer never sleeps on an event: whatever is queued is eventually   *)
(* taken or discarded, unless the process exits, and a closed queue lets   *)
(* the writer end (auth_failure_audit.c:101, 124).                         *)
QueueMoves ==
  /\ \A e \in Events : []<>(fate[e] # "queued" \/ writer \in {"none", "exit"})
  /\ []<>(closed => writer \in {"none", "ended", "exit"})

=============================================================================
