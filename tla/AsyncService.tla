---------------------------- MODULE AsyncService ----------------------------
(***************************************************************************)
(* The generic asynchronous service (net/async_*.c): one round polls the   *)
(* server, delivers finished completions, drives every ready client by one *)
(* frame and admits new clients.  The first error ends the round where it  *)
(* stands.  What the round has already done is not undone: a task that was *)
(* not handed over, a completion whose answer is half delivered, a frame   *)
(* that was submitted but not consumed and the clients that were polled    *)
(* but not reached are left to the caller, who resumes each one with the   *)
(* recovery call for it, from the step the report names.                   *)
(*                                                                         *)
(* The reactor thread takes one action per stage of the round; the workers *)
(* run between them.  Every call the stages make may fail, MaxFaults times *)
(* in all.  Frames are numbered in the order a client sends them; a read   *)
(* buffer is the interval of frames received and not consumed.             *)
(***************************************************************************)
EXTENDS Integers, FiniteSets, Sequences, SequencesExt, FiniteSetsExt

CONSTANTS
    Clients,         \* clients that may connect, one lease each
    MaxFrames,       \* frames a client sends
    Connections,     \* connection slots of the server
    StoreCapacity,   \* records of the in-flight store
    ClientLimit,     \* max_client_requests
    QueueCapacity,   \* tasks the pool's queue holds
    MaxItems,        \* max_completion_items
    BatchFrames,     \* max_response_batch_bytes in frames of the largest size
    WriteHigh,       \* answers that put a client under write pressure
    WriteCapacity,   \* answers its write buffer holds
    CleanupSlots,    \* store slots one cleanup call may scan
    Closable,        \* bound: clients the caller may ask to close
    MaxSent,         \* bound: frames all clients send
    MaxFaults        \* bound: failing calls

VARIABLES
    transport,   \* "tcp" or "tls"
    conn,        \* the server's clients
    store,       \* in-flight records, a request or None by slot
    queue,       \* tasks of the pool's queue
    running,     \* tasks a worker executes
    finished,    \* the completion queue
    hint,        \* the notifier is readable
    listening,   \* the listener's read interest
    round,       \* the round in progress
    pending,     \* per client, the frame submitted but not consumed, or 0
    tasks,       \* task_owner: the task that was not handed over, or None
    answer,      \* completion_owner: the completion not settled, or None
    recovery,    \* what the last reports left to the caller
    submitted,   \* history: times a request was handed to the pool
    answered,    \* history: times its answer entered a write buffer
    faults       \* failed calls so far

vars == <<transport, conn, store, queue, running, finished, hint, listening, round, pending,
          tasks, answer, recovery, submitted, answered, faults>>

-----------------------------------------------------------------------------
None == [none |-> TRUE]
Request == [client : Clients, frame : 1 .. MaxFrames]
Idle == [stage |-> "IDLE", ready |-> <<>>, listener |-> FALSE, items |-> 0]

\* A connection before and after its admission.
Backlog == [state |-> "BACKLOG", flow |-> FALSE, established |-> FALSE, scheduled |-> FALSE,
            read |-> FALSE, write |-> FALSE, pressure |-> FALSE,
            arrived |-> 0, received |-> 0, consumed |-> 0, outbox |-> <<>>, broken |-> FALSE,
            shut |-> "NONE"]

Init ==
    /\ transport \in {"tcp", "tls"}
    /\ conn = [c \in Clients |-> Backlog]
    /\ store = [i \in 1 .. StoreCapacity |-> None]
    /\ queue = <<>> /\ running = {} /\ finished = <<>>
    /\ hint = FALSE /\ listening = TRUE
    /\ round = Idle
    /\ pending = [c \in Clients |-> 0]
    /\ tasks = None /\ answer = None
    /\ recovery = [ready |-> {}, notify |-> FALSE, pending |-> [c \in Clients |-> "NONE"],
                   ending |-> [c \in Clients |-> "NONE"], cursor |-> [c \in Clients |-> 0]]
    /\ submitted = [r \in Request |-> 0]
    /\ answered = [r \in Request |-> 0]
    /\ faults = 0

\* One of the calls in points fails, or none does.
Fault(points) == {"NONE"} \cup (IF faults < MaxFaults THEN points ELSE {})
Count(fault) == faults' = IF fault = "NONE" THEN faults ELSE faults + 1

Live(c) == conn[c].state \in {"OPEN", "CLOSING"}
Room == Cardinality({c \in Clients : Live(c)}) < Connections

-----------------------------------------------------------------------------
(* The environment: clients connect, send and break; workers execute.      *)

Send(c) ==
    /\ conn[c].state # "GONE" /\ ~conn[c].broken /\ conn[c].arrived < MaxFrames
    /\ MapThenSumSet(LAMBDA k : conn[k].arrived, Clients) < MaxSent
    /\ conn' = [conn EXCEPT ![c].arrived = @ + 1]
    /\ UNCHANGED <<transport, store, queue, running, finished, hint, listening, round, pending,
                   tasks, answer, recovery, submitted, answered, faults>>

Break(c) ==
    /\ conn[c].state # "GONE" /\ ~conn[c].broken /\ faults < MaxFaults
    /\ conn' = [conn EXCEPT ![c].broken = TRUE]
    /\ faults' = faults + 1
    /\ UNCHANGED <<transport, store, queue, running, finished, hint, listening, round, pending,
                   tasks, answer, recovery, submitted, answered>>

WorkerTake ==
    /\ queue # <<>> /\ running = {}
    /\ running' = {Head(queue)}
    /\ queue' = Tail(queue)
    /\ UNCHANGED <<transport, conn, store, finished, hint, listening, round, pending,
                   tasks, answer, recovery, submitted, answered, faults>>

\* The completion is pushed and the notifier raised.
WorkerFinish(r) ==
    /\ r \in running
    /\ running' = running \ {r}
    /\ finished' = Append(finished, r)
    /\ hint' = TRUE
    /\ UNCHANGED <<transport, conn, store, queue, listening, round, pending,
                   tasks, answer, recovery, submitted, answered, faults>>

-----------------------------------------------------------------------------
\* Read interest in the listener follows the free connection slots.
pressure_refresh == Room

\* Every path of a round that polled ends with the post-pressure refresh; conn'
\* is set before.  After an error the clients not reached go back to the caller.
RoundEnds == round' = Idle /\ listening' = pressure_refresh'

-----------------------------------------------------------------------------
(* Calls on one client.                                                    *)

\* flow_refresh: the interests follow the buffers.
refresh(k) ==
    LET full == Len(k.outbox) >= WriteHigh
    IN  [k EXCEPT !.pressure = full, !.read = ~full, !.write = k.outbox # <<>>]

\* The loop reports a client for what its interests ask for.  A TLS close in
\* progress is reported when the peer answers or at its deadline.
is_ready(k) ==
    /\ k.state = "OPEN" /\ k.shut # "OVER"
    /\ \/ k.scheduled \/ k.shut \in {"DRAINING", "WAIT_PEER"}
       \/ k.read /\ (k.arrived > k.received \/ k.broken)
       \/ k.write

receive(k) == IF k.pressure THEN k ELSE [k EXCEPT !.received = k.arrived]
send(k) == [k EXCEPT !.outbox = <<>>]

\* The slot a new record takes; a second record of one client and frame is refused.
register_slot(r) ==
    LET mine == {i \in DOMAIN store : store[i] # None /\ store[i].client = r.client}
        free == {i \in DOMAIN store : store[i] = None}
    IN  IF r \in {store[i] : i \in mine} \/ Cardinality(mine) >= ClientLimit \/ free = {}
        THEN 0
        ELSE CHOOSE i \in free : \A j \in free : i <= j

\* inflight_store_try_submit: register first, then hand over; what was not
\* handed over is rolled back, unless the rollback fails too.  The queue may
\* also report an error after it has taken the task: then the task and its
\* record stay, and the report says that the task was transferred.
try_submit(r, fault) ==
    LET slot == register_slot(r)
        full == Len(queue) >= QueueCapacity \/ fault \in {"SUBMIT", "ROLLBACK"}
        kept == [store EXCEPT ![slot] = r]
    IN  IF slot = 0 THEN [store |-> store, queue |-> queue, transferred |-> FALSE, registered |-> FALSE]
        ELSE IF full THEN [store |-> IF fault = "ROLLBACK" THEN kept ELSE store, queue |-> queue,
                           transferred |-> FALSE, registered |-> fault = "ROLLBACK"]
        ELSE [store |-> kept, queue |-> Append(queue, r), transferred |-> TRUE, registered |-> TRUE]

\* async_request_copy_try_submit: the frame is copied into a task of its own.
copy_try_submit(r, fault) ==
    IF fault = "CREATE_TASK"
    THEN [store |-> store, queue |-> queue, transferred |-> FALSE, registered |-> FALSE]
    ELSE try_submit(r, fault)

\* Mutant: a frame that was handed over but not consumed is forgotten.
consume_pendingForget(k, frame, fault) ==
    IF fault \in {"CONSUME", "SIGNAL_CONSUME"} THEN [k |-> k, pending |-> 0]
    ELSE [k |-> [k EXCEPT !.consumed = @ + 1], pending |-> 0]

\* The pending frame leaves the read buffer and is forgotten with it.
consume_pending(k, frame, fault) ==
    IF fault \in {"CONSUME", "SIGNAL_CONSUME"} THEN [k |-> k, pending |-> frame]
    ELSE [k |-> [k EXCEPT !.consumed = @ + 1], pending |-> 0]

\* async_request_submit_read_head: the first frame becomes a task; once the
\* task is the pool's, the frame is pending until it has been consumed, also
\* when the submission itself reported an error (SIGNAL: after the transfer).
submit_read_head(c, k, fault) ==
    LET r == [client |-> c, frame |-> k.consumed + 1]
        s == copy_try_submit(r, fault)
        p == consume_pending(k, r.frame, fault)
    IN  CASE k.consumed = k.received -> [k |-> k, found |-> FALSE, r |-> None, pending |-> 0, s |-> None]
          [] ~s.transferred -> [k |-> k, found |-> TRUE, r |-> r, pending |-> 0, s |-> s]
          [] OTHER -> [k |-> p.k, found |-> TRUE, r |-> r, pending |-> p.pending, s |-> s]

-----------------------------------------------------------------------------
(* One client's turn: async_client_drive.c and async_client_drive_tls.c.   *)

DrivePoints == {"CONFIGURE", "PRE_REFRESH", "RECEIVE", "PEEK_FRAME", "CREATE_TASK", "SUBMIT", "ROLLBACK",
                "SIGNAL", "SIGNAL_CONSUME", "CONSUME", "SEND", "FINAL_REFRESH", "SCHEDULE"}

\* How far the turn of a client that may be driven gets, before the final
\* refresh that it makes on every path past the first one.  at is the stage of
\* the error, NONE without one.
stages(c, fault) ==
    LET k0 == refresh(conn[c])
        k1 == receive(k0)
        h  == submit_read_head(c, k1, fault)
        cut(k, at, head) == [k |-> k, at |-> at, head |-> head, reached |-> TRUE]
    IN  CASE ~k0.pressure /\ (fault = "RECEIVE" \/ k0.broken) -> cut(k0, "RECEIVE", None)
          [] h.found /\ fault = "PEEK_FRAME" -> cut(k1, fault, None)
          [] h.found /\ fault \in {"SIGNAL", "SIGNAL_CONSUME"} /\ h.s.transferred -> cut(h.k, "SUBMIT", h)
          [] h.found /\ ~h.s.transferred -> cut(h.k, IF fault = "CREATE_TASK" THEN fault ELSE "SUBMIT", h)
          [] h.pending # 0 -> cut(h.k, "CONSUME", h)
          [] (h.k.broken /\ h.k.outbox # <<>>) \/ fault = "SEND" -> cut(h.k, "SEND", h)
          [] OTHER -> cut(send(h.k), "NONE", h)

refused(c, at) == [k |-> conn[c], at |-> at, head |-> None, reached |-> FALSE]

\* A client with a pending frame, or one that is closing or has no flow
\* control yet, is not driven.
drive(c, fault) ==
    CASE pending[c] # 0 -> refused(c, "PENDING")
      [] ~conn[c].flow \/ conn[c].state # "OPEN" -> refused(c, "CLIENT")
      [] fault = "PRE_REFRESH" -> refused(c, fault)
      [] OTHER -> stages(c, fault)

\* The TLS turn asks for an established session besides.
drive_tls(c, fault) ==
    CASE pending[c] # 0 -> refused(c, "PENDING")
      [] ~conn[c].established \/ conn[c].state # "OPEN" -> refused(c, "CLIENT")
      [] fault = "PRE_REFRESH" -> refused(c, fault)
      [] OTHER -> stages(c, fault)

\* The TLS turn has one more path: a client that is not established shakes
\* hands and is scheduled again when the application may start.
handshake(c, fault) ==
    [k |-> IF fault = "PRE_REFRESH" \/ conn[c].broken THEN conn[c]
           ELSE [conn[c] EXCEPT !.established = TRUE, !.read = TRUE],
     at |-> IF conn[c].broken THEN "RECEIVE" ELSE IF fault = "PRE_REFRESH" THEN fault ELSE "NONE",
     head |-> None, reached |-> FALSE]

\* A client that was asked to close drains its answers, sends its notice and
\* waits for the peer's; the deadline of the close, or an error, ends it too.
close_step(c, fault) ==
    LET failed == conn[c].broken \/ fault = "CLOSE_STEP"
        next == IF failed \/ conn[c].shut = "WAIT_PEER" THEN "OVER" ELSE "WAIT_PEER"
    IN  [k |-> [conn[c] EXCEPT !.shut = next, !.outbox = IF failed THEN @ ELSE <<>>,
                               !.read = next = "WAIT_PEER", !.write = FALSE],
         at |-> IF failed THEN "CLOSE_STEP" ELSE "NONE", head |-> None, reached |-> FALSE]

\* A drive error the client cannot survive: its bytes are no frame, or its
\* socket failed.
classify(at) == at \in {"PEEK_FRAME", "RECEIVE", "SEND"}

\* What the caller owes the client whose turn failed; retained: the report
\* holds a frame that was handed over and not consumed.
leave(c, at, retained) ==
    CASE retained -> [recovery EXCEPT !.pending[c] = "CONSUME"]
      [] at = "PENDING" -> recovery
      [] classify(at) \/ at \in {"CLIENT", "CLOSE_STEP"} -> [recovery EXCEPT !.ending[c] = IF @ = "NONE" THEN "CLOSE" ELSE @]
      [] OTHER -> [recovery EXCEPT !.ready = @ \cup {c}]

\* Mutant: the clients behind the failing one are given up.
abortDrop(rec, rest) == rec

\* An aborted round leaves the clients it did not reach to the caller.
abort(rec, rest) == [rec EXCEPT !.ready = @ \cup rest]

\* One turn by the client's transport and state.
turn(c, fault) ==
    CASE transport = "tcp" -> drive(c, fault)
      [] ~conn[c].established /\ conn[c].state = "OPEN" -> handshake(c, fault)
      [] conn[c].shut # "NONE" -> close_step(c, fault)
      [] OTHER -> drive_tls(c, fault)

ClientTurn(fault) ==
    /\ round.stage = "CLIENTS" /\ round.ready # <<>>
    /\ \E d \in {turn(Head(round.ready), fault)} :
       LET c    == Head(round.ready)
           k    == IF d.reached /\ fault # "FINAL_REFRESH" THEN refresh(d.k) ELSE d.k
           over == d.k.shut = "OVER"
           more == d.at = "NONE" /\ d.k.shut = "NONE" /\ (d.head = None \/ (d.head.found /\ d.k.consumed < d.k.received))
           at   == CASE fault = "CONFIGURE" /\ conn[c].shut = "NONE" -> fault
                     [] d.at # "NONE" -> d.at
                     [] fault = "FINAL_REFRESH" /\ d.reached -> fault
                     [] fault = "SCHEDULE" /\ more -> fault
                     [] OTHER -> "NONE"
           used == at # "CONFIGURE" /\ d.head # None /\ d.head.found
       IN  /\ conn' = IF at = "CONFIGURE" THEN conn
                      ELSE [conn EXCEPT ![c] = [k EXCEPT !.scheduled = @ \/ (at = "NONE" /\ more)]]
           /\ pending' = IF used THEN [pending EXCEPT ![c] = d.head.pending] ELSE pending
           /\ store' = IF used THEN d.head.s.store ELSE store
           /\ queue' = IF used THEN d.head.s.queue ELSE queue
           /\ submitted' = IF used /\ d.head.s.transferred
                           THEN [submitted EXCEPT ![d.head.r] = @ + 1] ELSE submitted
           /\ tasks' = IF used /\ ~d.head.s.transferred /\ at # "CREATE_TASK"
                       THEN [request |-> d.head.r, step |-> IF d.head.s.registered THEN "TAKE_RECORD"
                                                            ELSE "DESTROY_TASK"]
                       ELSE tasks
           /\ IF at = "NONE" THEN round' = [round EXCEPT !.ready = Tail(@)] /\ UNCHANGED listening ELSE RoundEnds
           /\ recovery' = CASE at # "NONE" -> abort(leave(c, at, used /\ d.head.pending # 0), ToSet(Tail(round.ready)))
                            [] over -> [recovery EXCEPT !.ending[c] = IF @ = "NONE" THEN "CLOSE" ELSE @]
                            [] OTHER -> recovery
    /\ Count(fault)
    /\ UNCHANGED <<transport, running, finished, hint, answer, answered>>

-----------------------------------------------------------------------------
(* The stages of a round: async_service.c and async_service_tls.c.         *)

\* Pre-pressure and poll.  The poll takes the selected clients off the schedule.
RoundBegin ==
    /\ round.stage = "IDLE" /\ tasks = None /\ answer = None
    /\ LET ready == {c \in Clients : is_ready(conn[c])}
       IN  /\ conn' = [c \in Clients |-> IF c \in ready THEN [conn[c] EXCEPT !.scheduled = FALSE] ELSE conn[c]]
           /\ round' = [stage |-> IF hint THEN "HINT" ELSE "CLIENTS", ready |-> SetToSeq(ready),
                        listener |-> pressure_refresh /\ \E c \in Clients : conn[c].state = "BACKLOG",
                        items |-> 0]
           /\ ready # {} \/ hint \/ round'.listener \/ listening # Room
    /\ listening' = pressure_refresh
    /\ UNCHANGED <<transport, store, queue, running, finished, hint, pending, tasks, answer, recovery,
                   submitted, answered, faults>>

\* The listener reports an error: the polled clients go back to the caller.
ListenerFails ==
    /\ round.stage \in {"HINT", "CLIENTS"} /\ round.items = 0 /\ faults < MaxFaults
    /\ UNCHANGED <<transport, conn, store, queue, running, finished, hint, pending, tasks,
                   answer, submitted, answered>>
    /\ faults' = faults + 1
    /\ RoundEnds
    /\ recovery' = abort(recovery, ToSet(round.ready))

\* notifier_completion: the hint is consumed before the first pop.
ConsumeHint(fault) ==
    /\ round.stage = "HINT"
    /\ UNCHANGED <<transport, conn, store, queue, running, finished, pending, tasks, answer, submitted, answered>>
    /\ IF fault = "CONSUME_HINT" THEN RoundEnds /\ recovery' = abort(recovery, ToSet(round.ready)) /\ UNCHANGED hint
       ELSE hint' = FALSE /\ round' = [round EXCEPT !.stage = "DRAIN"] /\ UNCHANGED <<recovery, listening>>
    /\ Count(fault)

\* Both budgets bound the completions one round may deliver.
effective_max_items == IF MaxItems < BatchFrames THEN MaxItems ELSE BatchFrames

\* The drain stops when the queue is empty, or when the budget is used up;
\* then the notifier is raised again for what may be left.
DrainEnds ==
    /\ round.stage = "DRAIN" /\ (finished = <<>> \/ round.items = effective_max_items)
    /\ hint' = (hint \/ round.items = effective_max_items)
    /\ round' = [round EXCEPT !.stage = "CLIENTS"]
    /\ UNCHANGED <<transport, conn, store, queue, running, finished, listening, pending, tasks, answer,
                   recovery, submitted, answered, faults>>

\* The drain fails: a pop that finds the queue's mutex BUSY raises the hint
\* again, any other failing pop does not, and the raise may fail itself.  A
\* hint that was consumed and not raised is the caller's to raise.
DrainFails(fault) ==
    /\ round.stage = "DRAIN" /\ fault # "NONE"
    /\ (fault = "RENOTIFY") = (round.items = effective_max_items)
    /\ UNCHANGED <<transport, conn, store, queue, running, finished, pending, tasks, answer, submitted, answered>>
    /\ RoundEnds
    /\ hint' = (hint \/ fault = "BUSY")
    /\ recovery' = [abort(recovery, ToSet(round.ready)) EXCEPT !.notify = fault # "BUSY"]
    /\ Count(fault)

take(r) == [i \in DOMAIN store |-> IF store[i] = r THEN None ELSE store[i]]

\* response_core: the answer enters the write buffer, then the interests follow.
response(k, r, fault) ==
    CASE k.state # "OPEN" \/ k.shut # "NONE" \/ ~k.flow \/ (transport = "tls" /\ ~k.established) \/ fault = "ENQUEUE"
         \/ Len(k.outbox) >= WriteCapacity -> [k |-> k, enqueued |-> FALSE, ok |-> FALSE]
      [] OTHER -> LET j == [k EXCEPT !.outbox = Append(@, r.frame)]
                  IN  [k |-> IF fault = "REFRESH" THEN j ELSE refresh(j), enqueued |-> TRUE, ok |-> fault # "REFRESH"]

\* The descriptor is resolved first; without one nothing is enqueued.
deliver_response(r, fault) ==
    IF fault = "RESOLVE" THEN [k |-> conn[r.client], enqueued |-> FALSE, ok |-> FALSE]
    ELSE response(conn[r.client], r, fault)

\* check_completion: the client is still there and waits for this answer.
matched(r) == Live(r.client) /\ \E i \in DOMAIN store : store[i] = r

\* inflight_store_consume_completion: the record is taken before the answer
\* is delivered, so a completion finds its request once; without client or
\* record it is dropped.
Deliver(fault) ==
    /\ round.stage = "DRAIN" /\ finished # <<>> /\ round.items < effective_max_items
    /\ \E d \in {deliver_response(Head(finished), fault)} :
       LET r == Head(finished)
           known == matched(r)
       IN  /\ finished' = Tail(finished)
           /\ store' = take(r)
           /\ conn' = IF known THEN [conn EXCEPT ![r.client] = d.k] ELSE conn
           /\ answered' = IF known /\ d.enqueued THEN [answered EXCEPT ![r] = @ + 1] ELSE answered
           /\ answer' = IF known /\ ~d.ok
                        THEN [request |-> r, step |-> IF d.enqueued THEN "REFRESH" ELSE "ENQUEUE"] ELSE None
           /\ IF known /\ ~d.ok THEN RoundEnds
              ELSE round' = [round EXCEPT !.items = @ + 1] /\ UNCHANGED listening
           /\ recovery' = IF known /\ ~d.ok THEN abort(recovery, ToSet(round.ready)) ELSE recovery
    /\ Count(fault)
    /\ UNCHANGED <<transport, queue, running, hint, pending, tasks, submitted>>

\* One accepted client: flow and schedule, either of which may fail.  The TLS
\* server's admission gives it its interests itself.
Admit(c, fault) ==
    /\ round.stage = "CLIENTS" /\ round.ready = <<>> /\ round.listener
    /\ conn[c].state = "BACKLOG" /\ Room
    /\ LET k == [conn[c] EXCEPT !.state = "OPEN"]
           f == [refresh(k) EXCEPT !.flow = TRUE]
       IN  conn' = [conn EXCEPT ![c] = CASE transport = "tls" -> f
                                         [] fault = "FLOW" -> k
                                         [] fault = "SCHEDULE" -> f
                                         [] OTHER -> [f EXCEPT !.scheduled = TRUE]]
    /\ recovery' = IF fault = "NONE" THEN recovery
                   ELSE IF fault = "FLOW" THEN [recovery EXCEPT !.ending[c] = "CLOSE"]
                   ELSE [recovery EXCEPT !.ready = @ \cup {c}]
    /\ IF fault = "NONE" THEN UNCHANGED <<round, listening>> ELSE RoundEnds
    /\ Count(fault)
    /\ UNCHANGED <<transport, store, queue, running, finished, hint, pending, tasks, answer, submitted, answered>>

\* All clients had their turn and nobody is left to admit.
ClientsEnd ==
    /\ round.stage = "CLIENTS" /\ round.ready = <<>>
    /\ round.listener => ~Room \/ \A c \in Clients : conn[c].state # "BACKLOG"
    /\ UNCHANGED <<transport, conn, store, queue, running, finished, hint, pending, tasks,
                   answer, recovery, submitted, answered, faults>>
    /\ RoundEnds

-----------------------------------------------------------------------------
(* The caller's recovery calls, made between rounds.  Each resumes at the  *)
(* step its last report named and may fail again.                          *)

\* async_ready_recovery: one client of the suffix is scheduled again; one
\* that is gone is skipped.
ResumeReady(c, fault) ==
    /\ round.stage = "IDLE" /\ c \in recovery.ready
    /\ IF fault = "SCHEDULE" THEN UNCHANGED <<conn, recovery>>
       ELSE /\ conn' = IF Live(c) THEN [conn EXCEPT ![c].scheduled = TRUE] ELSE conn
            /\ recovery' = [recovery EXCEPT !.ready = @ \ {c}]
    /\ Count(fault)
    /\ UNCHANGED <<transport, store, queue, running, finished, hint, listening, round, pending, tasks,
                   answer, submitted, answered>>

\* async_pending_recovery: consume, refresh, schedule, from the named step on.
ResumePending(c, fault) ==
    /\ round.stage = "IDLE" /\ recovery.pending[c] # "NONE"
    /\ conn[c].state = "OPEN" /\ conn[c].shut = "NONE"
    /\ LET from == recovery.pending[c]
           k1 == IF from = "CONSUME" /\ fault # "CONSUME" THEN [conn[c] EXCEPT !.consumed = @ + 1] ELSE conn[c]
           k2 == IF from \in {"CONSUME", "REFRESH"} THEN refresh(k1) ELSE k1
       IN  CASE fault = "CONSUME" /\ from = "CONSUME" -> UNCHANGED <<conn, pending, recovery>>
             [] fault = "REFRESH" /\ from # "SCHEDULE" ->
                    /\ conn' = [conn EXCEPT ![c] = k1]
                    /\ pending' = [pending EXCEPT ![c] = 0]
                    /\ recovery' = [recovery EXCEPT !.pending[c] = "REFRESH"]
             [] fault = "SCHEDULE" ->
                    /\ conn' = [conn EXCEPT ![c] = k2]
                    /\ pending' = [pending EXCEPT ![c] = 0]
                    /\ recovery' = [recovery EXCEPT !.pending[c] = "SCHEDULE"]
             [] OTHER ->
                    /\ conn' = [conn EXCEPT ![c] = [k2 EXCEPT !.scheduled = TRUE]]
                    /\ pending' = [pending EXCEPT ![c] = 0]
                    /\ recovery' = [recovery EXCEPT !.pending[c] = "NONE"]
    /\ Count(fault)
    /\ UNCHANGED <<transport, store, queue, running, finished, hint, listening, round, tasks, answer,
                   submitted, answered>>

\* async_task_recovery: a record that stayed registered is taken first.
ResumeTask(fault) ==
    /\ round.stage = "IDLE" /\ tasks # None
    /\ IF fault = "TAKE_RECORD" /\ tasks.step = fault THEN UNCHANGED <<store, tasks>>
       ELSE /\ store' = IF tasks.step = "TAKE_RECORD" THEN take(tasks.request) ELSE store
            /\ tasks' = IF fault = "DESTROY" THEN [tasks EXCEPT !.step = "DESTROY_TASK"] ELSE None
    /\ Count(fault)
    /\ UNCHANGED <<transport, conn, queue, running, finished, hint, listening, round, pending, answer,
                   recovery, submitted, answered>>

\* async_completion_recovery resumes an answer that was enqueued; one that was
\* not is offered again while its client can take it, and otherwise dropped,
\* together with the client when that is still there.  The drain that failed
\* has consumed the hint and does not raise it again, so the caller notifies
\* the completions behind this one (include/vireo/net/notifier_completion.h).
ResumeAnswer(fault) ==
    /\ round.stage = "IDLE" /\ answer # None
    /\ LET r == answer.request
           d == response(conn[r.client], r, fault)
           open == conn[r.client].state = "OPEN" /\ conn[r.client].shut = "NONE"
       IN  CASE open /\ answer.step = "REFRESH" ->
                    /\ conn' = IF fault = "REFRESH" THEN conn ELSE [conn EXCEPT ![r.client] = refresh(@)]
                    /\ answer' = CASE fault = "REFRESH" -> answer
                                   [] fault = "DESTROY" -> [answer EXCEPT !.step = "DESTROY"]
                                   [] OTHER -> None
                    /\ UNCHANGED <<answered, recovery>>
             [] open /\ answer.step = "ENQUEUE" /\ Len(conn[r.client].outbox) < WriteCapacity ->
                    /\ conn' = [conn EXCEPT ![r.client] = d.k]
                    /\ answered' = IF d.enqueued THEN [answered EXCEPT ![r] = @ + 1] ELSE answered
                    /\ answer' = CASE d.ok -> None
                                   [] d.enqueued -> [answer EXCEPT !.step = "REFRESH"]
                                   [] OTHER -> answer
                    /\ UNCHANGED recovery
             [] OTHER ->
                    /\ answer' = IF fault = "DESTROY" THEN answer ELSE None
                    /\ recovery' = IF open /\ answer.step = "ENQUEUE" /\ recovery.ending[r.client] = "NONE"
                                   THEN [recovery EXCEPT !.ending[r.client] = "CLOSE"] ELSE recovery
                    /\ UNCHANGED <<conn, answered>>
    /\ Count(fault)
    /\ hint' = (hint \/ answer' = None)
    /\ UNCHANGED <<transport, store, queue, running, finished, listening, round, pending, tasks,
                   submitted>>

\* The caller raises the hint a failed drain consumed.
ResumeNotify ==
    /\ round.stage = "IDLE" /\ recovery.notify
    /\ hint' = TRUE
    /\ recovery' = [recovery EXCEPT !.notify = FALSE]
    /\ UNCHANGED <<transport, conn, store, queue, running, finished, listening, round, pending, tasks, answer,
                   submitted, answered, faults>>

\* The caller asks an established TLS client to close
\* (vireo_tcp_server_client_tls_close_request): the rounds' close turns do the rest.
RequestClose(c) ==
    /\ round.stage = "IDLE" /\ transport = "tls" /\ c \in Closable
    /\ conn[c].state = "OPEN" /\ conn[c].established /\ conn[c].shut = "NONE"
    /\ conn' = [conn EXCEPT ![c].shut = "DRAINING"]
    /\ UNCHANGED <<transport, store, queue, running, finished, hint, listening, round, pending, tasks, answer,
                   recovery, submitted, answered, faults>>

\* cancel_client_batch: CleanupSlots slots from the cursor on.
cleanup_end(c) == IF recovery.cursor[c] + CleanupSlots >= StoreCapacity THEN StoreCapacity
                  ELSE recovery.cursor[c] + CleanupSlots
cancel_client_batch(c) ==
    [i \in DOMAIN store |-> IF i \in recovery.cursor[c] + 1 .. cleanup_end(c) /\ store[i] # None /\ store[i].client = c
                            THEN None ELSE store[i]]

\* async_client_termination: close, release, then the in-flight records of the
\* client, CleanupSlots at a time from the cursor of the last report.
Terminate(c, fault) ==
    /\ round.stage = "IDLE" /\ recovery.ending[c] \in {"CLOSE", "RELEASE", "CLEANUP"}
    /\ LET from == recovery.ending[c]
           last == cleanup_end(c)
       IN  CASE from = "CLOSE" /\ fault = "CLOSE" -> UNCHANGED <<conn, store, pending, recovery>>
             [] from # "CLEANUP" /\ fault = "RELEASE" ->
                    /\ conn' = [conn EXCEPT ![c].state = "CLOSING", ![c].outbox = <<>>]
                    /\ recovery' = [recovery EXCEPT !.ending[c] = "RELEASE"]
                    /\ UNCHANGED <<store, pending>>
             [] fault = "CLEANUP" ->
                    /\ conn' = [conn EXCEPT ![c].state = "GONE", ![c].outbox = <<>>]
                    /\ recovery' = [recovery EXCEPT !.ending[c] = "CLEANUP"]
                    /\ UNCHANGED <<store, pending>>
             [] OTHER ->
                    /\ conn' = [conn EXCEPT ![c].state = "GONE", ![c].outbox = <<>>]
                    /\ store' = cancel_client_batch(c)
                    /\ pending' = [pending EXCEPT ![c] = 0]
                    /\ recovery' = [recovery EXCEPT !.cursor[c] = last,
                                       !.ending[c] = IF last = StoreCapacity THEN "DONE" ELSE "CLEANUP",
                                       !.ready = @ \ {c}, !.pending[c] = "NONE"]
    /\ Count(fault)
    /\ UNCHANGED <<transport, queue, running, finished, hint, listening, round, tasks, answer,
                   submitted, answered>>

-----------------------------------------------------------------------------
RoundStep(driving, draining, delivering, admitting) ==
    \/ RoundBegin \/ DrainEnds \/ ClientsEnd
    \/ \E fault \in draining : ConsumeHint(fault)
    \/ \E fault \in driving : ClientTurn(fault)
    \/ \E fault \in delivering : Deliver(fault)
    \/ \E c \in Clients, fault \in admitting : Admit(c, fault)

Round ==
    \/ RoundStep(Fault(DrivePoints \cup IF transport = "tls" THEN {"CLOSE_STEP"} ELSE {}), Fault({"CONSUME_HINT"}),
                 Fault({"RESOLVE", "ENQUEUE", "REFRESH"}), Fault(IF transport = "tcp" THEN {"FLOW", "SCHEDULE"} ELSE {}))
    \/ \E fault \in Fault({"BUSY", "POP", "RENOTIFY"}) : DrainFails(fault)

RecoverStep(c, scheduling, pendings, endings) ==
    \/ \E fault \in scheduling : ResumeReady(c, fault)
    \/ \E fault \in pendings : ResumePending(c, fault)
    \/ \E fault \in endings : Terminate(c, fault)

Recover(c) == RecoverStep(c, Fault({"SCHEDULE"}), Fault({"CONSUME", "REFRESH", "SCHEDULE"}),
                          Fault({"CLOSE", "RELEASE", "CLEANUP"}))

OwnersStep(taking, answering) ==
    \/ ResumeNotify
    \/ \E fault \in taking : ResumeTask(fault)
    \/ \E fault \in answering : ResumeAnswer(fault)

RecoverOwners == OwnersStep(Fault({"TAKE_RECORD", "DESTROY"}), Fault({"ENQUEUE", "REFRESH", "DESTROY"}))

Worker == WorkerTake \/ \E r \in running : WorkerFinish(r)

Next ==
    \/ Round \/ ListenerFails \/ Worker \/ RecoverOwners
    \/ \E c \in Clients : Send(c) \/ Break(c) \/ RequestClose(c) \/ Recover(c)

\* The reactor thread and the workers run, and the caller makes the recovery
\* calls its reports ask for.  A call that keeps being made succeeds in the
\* end, since faults are finitely many: it is enough to ask for the faultless
\* ones.  A round takes the reactor away from the recovery of a client, so
\* that needs strong fairness: the caller does not put it off for ever.
OK == {"NONE"}
Fairness ==
    /\ WF_vars(Worker)
    /\ WF_vars(RoundStep(OK, OK, OK, OK))
    /\ WF_vars(OwnersStep(OK, OK))
    /\ \A c \in Clients : SF_vars(RecoverStep(c, OK, OK, OK))

Spec == Init /\ [][Next]_vars /\ Fairness

-----------------------------------------------------------------------------
(* Properties.                                                             *)

\* No failure makes the service hand a frame to the pool twice
\* (async_request_head.c commits pending before it consumes) or put an answer
\* into a write buffer twice (inflight_completion_consume.c takes the record first).
OnceEach == \A r \in Request : submitted[r] <= 1 /\ answered[r] <= 1

\* A record in the store belongs to work that is still on its way, or to a
\* task the caller holds and is to take the record for; so the limits of
\* inflight_store_records.c cannot be used up by requests that have ended.
NoOrphanRecord ==
    \A i \in DOMAIN store : store[i] # None =>
        \/ store[i] \in ToSet(queue) \cup running \cup ToSet(finished)
        \/ tasks # None /\ tasks.request = store[i] /\ tasks.step = "TAKE_RECORD"

\* The records a terminated client leaves are gone once the cleanup has
\* reported DONE, although the cursor moves between other clients' rounds.
TerminatedClean ==
    \A c \in Clients : recovery.ending[c] = "DONE" => \A i \in DOMAIN store : store[i] # None => store[i].client # c

\* Every frame that reaches an admitted client is answered, however the rounds
\* are cut short, unless the client is terminated: the recovery calls reach
\* every client and every value an aborted round leaves behind.  A client that
\* was asked to close is terminated in the end.
Served ==
    \A r \in Request : LET k == conn[r.client] IN
        []<>(/\ k.state \in {"OPEN", "CLOSING"} /\ k.arrived >= r.frame => answered[r] = 1 /\ k.outbox = <<>>
             /\ k.shut # "NONE" => k.state = "GONE")
=============================================================================
