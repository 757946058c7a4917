--------------------------- MODULE CompletionPath ---------------------------
(***************************************************************************)
(* How the result of a task travels back to the reactor, and how the       *)
(* process stops (src/app/auth_process.c).  Every operation domain (auth,  *)
(* stat, root, list, mkdir, move, remove) has a bounded completion queue   *)
(* (src/thread/completion_queue.c) and a fault word that only grows        *)
(* (src/app/ *_worker_runtime.c); all domains share one eventfd notifier   *)
(* (src/thread/notifier.c).                                                *)
(*                                                                         *)
(* Workers block: wait_push sleeps while the queue is full.  The reactor   *)
(* never blocks on a queue: it tries the mutex, holds at most one popped   *)
(* completion per domain while that client's output is full, and sleeps    *)
(* only in poll.  Because it also runs the shutdown, it must not wait for  *)
(* a worker that waits for it.                                             *)
(*                                                                         *)
(* The ring of a queue is a sequence here; TaskQueue has the slot-level    *)
(* model of the same ring.  The task queue is a sequence with a closed     *)
(* flag, as TaskChannel promises it.                                       *)
(***************************************************************************)
EXTENDS Naturals, Sequences, FiniteSets, TLC

CONSTANTS
    Domains,         \* the enabled domains, in the order of the cursor
    Workers, Free,
    Requests, NoRequest,
    DomainOf,        \* the domain of each request
    TaskCapacity, Capacity, \* of the task queue, of each completion queue
    Budget,          \* max_completions: pops per domain and turn
    NotifierMax,     \* the largest eventfd counter
    CleanupAttempts, \* CLEANUP_ATTEMPTS
    Faults           \* what may fail

DomainSet == {Domains[i] : i \in 1..Len(Domains)}

ASSUME DomainAssumption ==
    /\ Domains \in Seq(STRING) /\ Len(Domains) > 0
    /\ DomainOf \in [Requests -> DomainSet]
ASSUME IdentityAssumption ==
    /\ IsFiniteSet(Workers) /\ Free \notin Workers /\ NoRequest \notin Requests
ASSUME BoundAssumption ==
    /\ {TaskCapacity, Capacity, Budget, NotifierMax} \subseteq Nat \ {0}
    /\ CleanupAttempts \in Nat /\ CleanupAttempts * Budget >= Capacity
ASSUME FailureAssumption ==
    Faults \subseteq {"work", "residual", "wait", "notify", "once", "signal",
                      "broadcast", "spurious"}

VARIABLES
    tasks, tasksClosed,      \* the task queue
    queue, closed, mutex,    \* per domain: the completion queue
    notifier,
    wpc, wreq, wbits,        \* per worker: position, task, fault bits to latch
    fault,                   \* per domain: the latched fault bits
    rpc,                     \* where the reactor thread is
    phase,                   \* "run", "close" or "final": which loop a turn belongs to
    cursor, turn, spent,     \* first domain of the turn, domains done, pops done
    held,                    \* per domain: the popped completion not yet delivered
    closeAt, attempts,       \* the shutdown loops
    stopSignal,              \* SIGINT or SIGTERM has been read
    rc, cleanupResult, faultsAtStop, finalFaults,
    fate                     \* history: what became of each request

taskVars == <<tasks, tasksClosed>>
queueVars == <<queue, closed, mutex>>
workerVars == <<wpc, wreq, wbits>>
turnVars == <<cursor, turn, spent>>
loopVars == <<closeAt, attempts>>
exitVars == <<stopSignal, rc, cleanupResult, faultsAtStop, finalFaults>>
vars == <<taskVars, queueVars, notifier, workerVars, fault, rpc, phase,
          turnVars, held, loopVars, exitVars, fate>>

Dom(w) == DomainOf[wreq[w]]
Sleepers(d) == {w \in Workers : wpc[w] = "wait" /\ Dom(w) = d}
Stopped == phase # "run"
AnyFault == \E d \in DomainSet : fault[d] # {}

(* Mutant: the newest domain is missing from the list of close flags.      *)
AllClosedButLast ==
    tasksClosed /\ \A i \in 1..(Len(Domains) - 1) : closed[Domains[i]]

AllClosed == tasksClosed /\ \A d \in DomainSet : closed[d]

Current == Domains[1 + ((cursor + turn) % Len(Domains))]

(* _Exit and the return of run end the process.                            *)
Ended == rpc \in {"done", "fatal", "residual"}

NoFaults == [d \in DomainSet |-> {}]

Init ==
    /\ tasks = <<>> /\ tasksClosed = FALSE
    /\ queue = [d \in DomainSet |-> <<>>]
    /\ closed = [d \in DomainSet |-> FALSE]
    /\ mutex = [d \in DomainSet |-> Free]
    /\ notifier = 0
    /\ wpc = [w \in Workers |-> "idle"]
    /\ wreq = [w \in Workers |-> NoRequest]
    /\ wbits = [w \in Workers |-> {}]
    /\ fault = NoFaults
    /\ rpc = "sample" /\ phase = "run"
    /\ cursor = 0 /\ turn = 0 /\ spent = 0
    /\ held = [d \in DomainSet |-> NoRequest]
    /\ closeAt = 0 /\ attempts = 0
    /\ stopSignal = FALSE
    /\ rc = "OK" /\ cleanupResult = "OK"
    /\ faultsAtStop = NoFaults /\ finalFaults = NoFaults
    /\ fate = [r \in Requests |-> "new"]

------------------------------------------------------------------------------
(* The worker: execute, wait_push, notify, latch.                          *)

(* The process exists and w is at one of these points.                     *)
IsAt(w, points) == ~Ended /\ wpc[w] \in points

WorkerGoes(w, at) == wpc' = [wpc EXCEPT ![w] = at]

(* wait_pop: a task, or CANCELLED once the task queue is closed.           *)
TakeTask(w) ==
    /\ IsAt(w, {"idle"})
    /\ \/ /\ ~tasksClosed /\ tasks # <<>>
          /\ wreq' = [wreq EXCEPT ![w] = Head(tasks)]
          /\ tasks' = Tail(tasks)
          /\ WorkerGoes(w, "execute")
       \/ /\ tasksClosed
          /\ WorkerGoes(w, "exited")
          /\ UNCHANGED <<wreq, tasks>>
    /\ UNCHANGED <<tasksClosed, queueVars, notifier, wbits, fault, rpc, phase,
                   turnVars, held, loopVars, exitVars, fate>>

(* A latched fault of any domain makes execute return CANCELLED at once.   *)
(* Otherwise the task runs.  A failed create or validation publishes       *)
(* nothing; failed cleanup keeps a directory worker from publishing, while *)
(* the auth worker publishes all the same.                                 *)
Execute(w) ==
    /\ IsAt(w, {"execute"})
    /\ \/ /\ AnyFault
          /\ wreq' = [wreq EXCEPT ![w] = NoRequest]
          /\ WorkerGoes(w, "idle")
          /\ fate' = [fate EXCEPT ![wreq[w]] = "dropped"]
          /\ UNCHANGED wbits
       \/ /\ ~AnyFault
          /\ WorkerGoes(w, "push")
          /\ UNCHANGED <<wreq, wbits, fate>>
       \/ /\ ~AnyFault /\ "work" \in Faults
          /\ \E bits \in {{"OTHER"}, {"OTHER", "PUBLISH"}} :
                wbits' = [wbits EXCEPT ![w] = bits]
          /\ fate' = [fate EXCEPT ![wreq[w]] = "dropped"]
          /\ WorkerGoes(w, "settle")
          /\ UNCHANGED wreq
       \/ /\ ~AnyFault /\ "work" \in Faults /\ Dom(w) = "auth"
          /\ wbits' = [wbits EXCEPT ![w] = {"OTHER"}]
          /\ WorkerGoes(w, "push")
          /\ UNCHANGED <<wreq, fate>>
    /\ UNCHANGED <<taskVars, queueVars, notifier, fault, rpc, phase, turnVars,
                   held, loopVars, exitVars>>

(* wait_push blocks on the mutex, on the first call and after every wake.  *)
WaitPushLock(w) ==
    /\ IsAt(w, {"push", "relock"})
    /\ mutex[Dom(w)] = Free
    /\ mutex' = [mutex EXCEPT ![Dom(w)] = w]
    /\ WorkerGoes(w, "check")
    /\ UNCHANGED <<taskVars, queue, closed, notifier, wreq, wbits, fault, rpc,
                   phase, turnVars, held, loopVars, exitVars, fate>>

(* Full and open: sleep and release the mutex.  A failed wait returns      *)
(* INTERNAL, and the caller keeps its completion.                          *)
WaitPushSleep(w) ==
    LET d == Dom(w) IN
    /\ IsAt(w, {"check"})
    /\ Len(queue[d]) = Capacity /\ ~closed[d]
    /\ mutex' = [mutex EXCEPT ![d] = Free]
    /\ \/ /\ WorkerGoes(w, "wait")
          /\ UNCHANGED <<wbits, fate>>
       \/ /\ "wait" \in Faults
          /\ WorkerGoes(w, "settle")
          /\ wbits' = [wbits EXCEPT ![w] = @ \cup {"PUBLISH"}]
          /\ fate' = [fate EXCEPT ![wreq[w]] = "dropped"]
    /\ UNCHANGED <<taskVars, queue, closed, notifier, wreq, fault, rpc, phase,
                   turnVars, held, loopVars, exitVars>>

(* A closed queue refuses the completion, which its worker then destroys;  *)
(* otherwise the completion goes in.                                       *)
WaitPushReturn(w) ==
    LET d == Dom(w) IN
    /\ IsAt(w, {"check"})
    /\ Len(queue[d]) < Capacity \/ closed[d]
    /\ mutex' = [mutex EXCEPT ![d] = Free]
    /\ IF closed[d]
       THEN /\ WorkerGoes(w, "settle")
            /\ wbits' = [wbits EXCEPT ![w] = @ \cup {"PUBLISH"}]
            /\ fate' = [fate EXCEPT ![wreq[w]] = "dropped"]
            /\ UNCHANGED queue
       ELSE /\ WorkerGoes(w, "notify")
            /\ queue' = [queue EXCEPT ![d] = Append(@, wreq[w])]
            /\ UNCHANGED <<wbits, fate>>
    /\ UNCHANGED <<taskVars, closed, notifier, wreq, fault, rpc, phase,
                   turnVars, held, loopVars, exitVars>>

(* pthread_cond_wait may return without a signal.                          *)
SpuriousWakeup(w) ==
    /\ "spurious" \in Faults
    /\ IsAt(w, {"wait"})
    /\ WorkerGoes(w, "relock")
    /\ UNCHANGED <<taskVars, queueVars, notifier, wreq, wbits, fault, rpc,
                   phase, turnVars, held, loopVars, exitVars, fate>>

(* The counter after a write of one; at the maximum the write finds the    *)
(* eventfd pending already.                                                *)
Increment(n) == IF n < NotifierMax THEN n + 1 ELSE n

(* The completion is in the queue whatever the notifier answers.           *)
Notify(w) ==
    /\ IsAt(w, {"notify"})
    /\ WorkerGoes(w, "settle")
    /\ \/ /\ notifier' = Increment(notifier)
          /\ UNCHANGED wbits
       \/ /\ "notify" \in Faults
          /\ wbits' = [wbits EXCEPT ![w] = @ \cup {"PUBLISH"}]
          /\ UNCHANGED notifier
    /\ UNCHANGED <<taskVars, queueVars, wreq, fault, rpc, phase, turnVars,
                   held, loopVars, exitVars, fate>>

(* Mutant: a failure leaves no trace in the fault word.                    *)
LatchNothing(w) == UNCHANGED fault

Latch(w) == fault' = [fault EXCEPT ![Dom(w)] = @ \cup wbits[w]]

(* The runtime latches the fault bits and destroys its owner.  Destroying  *)
(* may fail and latch more; an owner that survives every attempt ends the  *)
(* process.                                                                *)
Settle(w) ==
    /\ IsAt(w, {"settle"})
    /\ Latch(w)
    /\ \/ "residual" \in Faults /\ rpc' = "residual" /\ UNCHANGED workerVars
       \/ /\ wreq' = [wreq EXCEPT ![w] = NoRequest]
          /\ wbits' = [wbits EXCEPT ![w] = {}]
          /\ WorkerGoes(w, "idle")
          /\ UNCHANGED rpc
       \/ /\ "work" \in Faults /\ "OTHER" \notin wbits[w]
          /\ wbits' = [wbits EXCEPT ![w] = @ \cup {"OTHER"}]
          /\ UNCHANGED <<wpc, wreq, rpc>>
    /\ UNCHANGED <<taskVars, queueVars, notifier, phase, turnVars, held,
                   loopVars, exitVars, fate>>

------------------------------------------------------------------------------
(* The reactor: one iteration of the main loop of run, and the two loops   *)
(* of cleanup, share vireo_auth_service_once.                              *)

(* Faults are sampled after every turn and again before the next; then the *)
(* signalfd is read, which may have a stop signal at any time.             *)
Sample ==
    /\ rpc = "sample"
    /\ IF AnyFault
       THEN rc' = "INTERNAL" /\ rpc' = "stop" /\ UNCHANGED stopSignal
       ELSE /\ stopSignal' \in BOOLEAN
            /\ rpc' = IF stopSignal' THEN "stop" ELSE "once"
            /\ UNCHANGED rc
    /\ UNCHANGED <<taskVars, queueVars, notifier, workerVars, fault, phase,
                   turnVars, held, loopVars, cleanupResult, faultsAtStop,
                   finalFaults, fate>>

(* The slot of r is closing or released, or the stopped server closes it.  *)
Discards(r) == fate[r] = "abandoned" \/ Stopped

(* Expired timers left over: the running server skips the rest of once.    *)
TimerWorkPending ==
    /\ rpc = "once" /\ ~Stopped
    /\ rpc' = "sample"
    /\ UNCHANGED <<taskVars, queueVars, notifier, workerVars, fault, phase,
                   turnVars, held, loopVars, exitVars, fate>>

(* The sweep discards what is held for closing slots; then the notifier is *)
(* emptied and the cursor moves on.                                        *)
BeginTurn ==
    LET gone == {d \in DomainSet : held[d] # NoRequest /\ Discards(held[d])} IN
    /\ rpc = "once"
    /\ held' = [d \in DomainSet |-> IF d \in gone THEN NoRequest ELSE held[d]]
    /\ fate' = [r \in Requests |->
                  IF \E d \in gone : held[d] = r THEN "discarded" ELSE fate[r]]
    /\ notifier' = 0
    /\ cursor' = (cursor + 1) % Len(Domains)
    /\ turn' = 0 /\ spent' = 0
    /\ rpc' = "drain"
    /\ UNCHANGED <<taskVars, queueVars, workerVars, fault, phase, loopVars,
                   exitVars>>

(* once fails: the main loop stops the server, the loops of cleanup note   *)
(* the first failure and go on.                                            *)
OnceAborts ==
    IF Stopped
    THEN cleanupResult' = "INTERNAL" /\ rpc' = "after" /\ UNCHANGED rc
    ELSE rc' = "INTERNAL" /\ rpc' = "stop" /\ UNCHANGED cleanupResult

OnceFails ==
    /\ "once" \in Faults
    /\ rpc \in {"once", "drain"}
    /\ OnceAborts
    /\ UNCHANGED <<taskVars, queueVars, notifier, workerVars, fault, phase,
                   turnVars, held, loopVars, stopSignal, faultsAtStop,
                   finalFaults, fate>>

(* The turn of this domain is over.                                        *)
NextDomain ==
    /\ spent' = 0
    /\ IF turn + 1 < Len(Domains)
       THEN turn' = turn + 1 /\ UNCHANGED rpc
       ELSE turn' = 0 /\ rpc' = IF Stopped THEN "after" ELSE "poll"

(* The budget is spent, or the mutex is taken: the reactor leaves itself a *)
(* notification, because something may be left in the queue.               *)
MustRenotify ==
    spent = Budget \/ (held[Current] = NoRequest /\ mutex[Current] # Free)

(* Mutant: a taken mutex is treated like an empty queue.                   *)
RenotifyOnBudget == notifier' = IF spent = Budget THEN Increment(notifier) ELSE notifier

Renotify == notifier' = Increment(notifier)

DrainYields ==
    /\ rpc = "drain" /\ MustRenotify
    /\ Renotify
    /\ NextDomain
    /\ UNCHANGED <<taskVars, queueVars, workerVars, fault, phase, cursor, held,
                   loopVars, exitVars, fate>>

DrainEmpty ==
    /\ rpc = "drain" /\ ~MustRenotify
    /\ held[Current] = NoRequest /\ queue[Current] = <<>>
    /\ NextDomain
    /\ UNCHANGED <<taskVars, queueVars, notifier, workerVars, fault, phase,
                   cursor, held, loopVars, exitVars, fate>>

(* Mutant: a pop does not signal.                                          *)
WakeNobody(d) == wpc' = wpc

(* pthread_cond_signal on the queue of d.                                  *)
WakeOne(d) ==
    IF Sleepers(d) = {} THEN wpc' = wpc
    ELSE \E w \in Sleepers(d) : WorkerGoes(w, "relock")

(* try_pop.  The completion is out of the queue even if the signal fails.  *)
DrainPop ==
    /\ rpc = "drain" /\ ~MustRenotify
    /\ held[Current] = NoRequest /\ queue[Current] # <<>>
    /\ held' = [held EXCEPT ![Current] = Head(queue[Current])]
    /\ queue' = [queue EXCEPT ![Current] = Tail(@)]
    /\ \/ WakeOne(Current) /\ UNCHANGED <<rpc, rc, cleanupResult>>
       \/ "signal" \in Faults /\ OnceAborts /\ UNCHANGED wpc
    /\ UNCHANGED <<taskVars, closed, mutex, notifier, wreq, wbits, fault,
                   phase, turnVars, loopVars, stopSignal, faultsAtStop,
                   finalFaults, fate>>

(* The held completion is delivered to its client, or discarded with it.   *)
DrainFinish ==
    /\ rpc = "drain" /\ ~MustRenotify /\ held[Current] # NoRequest
    /\ fate' = [fate EXCEPT ![held[Current]] =
                  IF Discards(held[Current]) THEN "discarded" ELSE "delivered"]
    /\ held' = [held EXCEPT ![Current] = NoRequest]
    /\ spent' = spent + 1
    /\ UNCHANGED <<taskVars, queueVars, notifier, workerVars, fault, rpc,
                   phase, cursor, turn, loopVars, exitVars>>

(* The client's output is full: the completion stays held, and the domain  *)
(* waits for it without a notification.                                    *)
DrainBlocked ==
    /\ rpc = "drain" /\ ~MustRenotify
    /\ held[Current] # NoRequest /\ ~Discards(held[Current])
    /\ NextDomain
    /\ UNCHANGED <<taskVars, queueVars, notifier, workerVars, fault, phase,
                   cursor, held, loopVars, exitVars, fate>>

(* In a client turn after poll a request is submitted.  A full or busy     *)
(* task queue refuses it: the client gets OVERLOADED and nothing changes.  *)
Submit(r) ==
    /\ rpc = "poll" /\ fate[r] = "new"
    /\ Len(tasks) < TaskCapacity
    /\ tasks' = Append(tasks, r)
    /\ fate' = [fate EXCEPT ![r] = "accepted"]
    /\ UNCHANGED <<tasksClosed, queueVars, notifier, workerVars, fault, rpc,
                   phase, turnVars, held, loopVars, exitVars>>

(* The client of r disconnects, breaks the protocol or reaches a deadline. *)
CloseClient(r) ==
    /\ rpc = "poll" /\ fate[r] = "accepted"
    /\ fate' = [fate EXCEPT ![r] = "abandoned"]
    /\ UNCHANGED <<taskVars, queueVars, notifier, workerVars, fault, rpc, phase,
                   turnVars, held, loopVars, exitVars>>

(* poll returns for the notifier, a client, or after its timeout, and the  *)
(* client turns end.                                                       *)
PollReturns ==
    /\ rpc = "poll"
    /\ rpc' = "sample"
    /\ UNCHANGED <<taskVars, queueVars, notifier, workerVars, fault, phase,
                   turnVars, held, loopVars, exitVars, fate>>

------------------------------------------------------------------------------
(* The reactor: shutdown_workers, cleanup and the verdict of run.          *)

BeginStop ==
    /\ rpc = "stop"
    /\ faultsAtStop' = fault
    /\ phase' = "close" /\ closeAt' = 0 /\ attempts' = 0
    /\ rpc' = "close"
    /\ UNCHANGED <<taskVars, queueVars, notifier, workerVars, fault, turnVars,
                   held, stopSignal, rc, cleanupResult, finalFaults, fate>>

(* Close the task queue with CANCEL_PENDING.  BUSY leaves it open for the  *)
(* next round; a failed broadcast ends the process.                        *)
CloseTasks ==
    /\ rpc = "close" /\ closeAt = 0
    /\ closeAt' = 1
    /\ \/ tasksClosed' = TRUE /\ UNCHANGED rpc
       \/ /\ ~tasksClosed /\ \E w \in Workers : wpc[w] = "idle"
          /\ UNCHANGED <<tasksClosed, rpc>>
       \/ /\ "broadcast" \in Faults /\ ~tasksClosed
          /\ tasksClosed' = TRUE /\ rpc' = "fatal"
    /\ UNCHANGED <<tasks, queueVars, notifier, workerVars, fault, phase,
                   turnVars, held, attempts, exitVars, fate>>

(* Close one completion queue and wake everyone who waits for room in it.  *)
CloseDomain ==
    LET d == Domains[closeAt] IN
    /\ rpc = "close" /\ closeAt \in 1..Len(Domains)
    /\ closeAt' = closeAt + 1
    /\ IF closed[d] \/ mutex[d] # Free
       THEN UNCHANGED <<closed, wpc, rpc>>
       ELSE /\ closed' = [closed EXCEPT ![d] = TRUE]
            /\ \/ /\ wpc' = [w \in Workers |->
                               IF w \in Sleepers(d) THEN "relock" ELSE wpc[w]]
                  /\ UNCHANGED rpc
               \/ "broadcast" \in Faults /\ rpc' = "fatal" /\ UNCHANGED wpc
    /\ UNCHANGED <<taskVars, queue, mutex, notifier, wreq, wbits, fault, phase,
                   turnVars, held, attempts, exitVars, fate>>

(* A queue that is still open gets a service turn and another round.       *)
CloseRoundEnds ==
    /\ rpc = "close" /\ closeAt > Len(Domains)
    /\ rpc' = IF AllClosed THEN "join" ELSE "once"
    /\ UNCHANGED <<taskVars, queueVars, notifier, workerVars, fault, phase,
                   turnVars, held, loopVars, exitVars, fate>>

CloseTurnEnds ==
    /\ rpc = "after" /\ phase = "close"
    /\ closeAt' = 0 /\ attempts' = attempts + 1
    /\ rpc' = IF attempts' < CleanupAttempts THEN "close" ELSE "fatal"
    /\ UNCHANGED <<taskVars, queueVars, notifier, workerVars, fault, phase,
                   turnVars, held, exitVars, fate>>

(* Join every worker, destroy the cancelled tasks, sample the faults.      *)
Join ==
    /\ rpc = "join"
    /\ \A w \in Workers : wpc[w] = "exited"
    /\ fate' = [r \in Requests |->
                  IF \E i \in 1..Len(tasks) : tasks[i] = r THEN "cancelled" ELSE fate[r]]
    /\ tasks' = <<>>
    /\ finalFaults' = fault
    /\ phase' = "final" /\ attempts' = 0 /\ rpc' = "once"
    /\ UNCHANGED <<tasksClosed, queueVars, notifier, workerVars, fault,
                   turnVars, held, closeAt, stopSignal, rc, cleanupResult,
                   faultsAtStop>>

(* completions_empty, and nothing held keeps the service alive.            *)
Drained == \A d \in DomainSet : queue[d] = <<>> /\ held[d] = NoRequest

Others(bits, d) == bits[d] \ {"PUBLISH"}

(* The faults that turn a stop without an earlier error into a failure:    *)
(* a PUBLISH fault after a signal is forgiven, except one of REMOVE.       *)
FinalFaultsFail ==
    \/ \E d \in DomainSet : Others(finalFaults, d) # {}
    \/ "remove" \in DomainSet /\ finalFaults["remove"] # {}
    \/ ~stopSignal /\ \E d \in DomainSet : finalFaults[d] # {}

StopFails ==
    \/ cleanupResult # "OK"
    \/ \E d \in DomainSet : faultsAtStop[d] # {}
    \/ FinalFaultsFail

FinalTurnEnds ==
    /\ rpc = "after" /\ phase = "final"
    /\ attempts' = attempts + 1
    /\ IF Drained
       THEN rpc' = "done" /\ rc' = IF rc = "OK" /\ StopFails THEN "INTERNAL" ELSE rc
       ELSE /\ rpc' = IF attempts' < CleanupAttempts THEN "once" ELSE "fatal"
            /\ UNCHANGED rc
    /\ UNCHANGED <<taskVars, queueVars, notifier, workerVars, fault, phase,
                   turnVars, held, closeAt, stopSignal, cleanupResult,
                   faultsAtStop, finalFaults, fate>>

------------------------------------------------------------------------------
Worker(w) ==
    \/ TakeTask(w) \/ Execute(w)
    \/ WaitPushLock(w) \/ WaitPushSleep(w) \/ WaitPushReturn(w)
    \/ Notify(w) \/ Settle(w)

Reactor ==
    \/ Sample \/ BeginTurn
    \/ DrainYields \/ DrainEmpty \/ DrainPop \/ DrainFinish \/ DrainBlocked
    \/ PollReturns
    \/ BeginStop \/ CloseTasks \/ CloseDomain \/ CloseRoundEnds \/ CloseTurnEnds
    \/ Join \/ FinalTurnEnds

Environment ==
    \/ TimerWorkPending \/ OnceFails
    \/ \E r \in Requests : Submit(r) \/ CloseClient(r)
    \/ \E w \in Workers : SpuriousWakeup(w)

Terminated == Ended /\ UNCHANGED vars

Next ==
    \/ Reactor \/ Environment \/ Terminated
    \/ \E w \in Workers : Worker(w)

Spec == Init /\ [][Next]_vars

(* The kernel runs every thread; a thread that keeps asking for a mutex    *)
(* that keeps becoming free gets it; expired timers run out; a client      *)
(* whose output is full reads on or is closed by its deadline.             *)
Fairness ==
    /\ WF_vars(Reactor)
    /\ SF_vars(BeginTurn)
    /\ \A d \in DomainSet : SF_vars(Current = d /\ DrainFinish)
    /\ \A w \in Workers : WF_vars(Worker(w)) /\ SF_vars(WaitPushLock(w))

FairSpec == Spec /\ Fairness

------------------------------------------------------------------------------
(* Properties.                                                             *)

Bits == {"PUBLISH", "OTHER"}
MaybeRequest == Requests \cup {NoRequest}

(* The types of the queues, the positions of the threads and the bounds of *)
(* the eventfd counter, the completion queues and the attempt counters.    *)
TypeOK ==
    /\ tasks \in Seq(Requests) /\ Len(tasks) <= TaskCapacity
    /\ queue \in [DomainSet -> Seq(Requests)]
    /\ \A d \in DomainSet : Len(queue[d]) <= Capacity
    /\ tasksClosed \in BOOLEAN /\ stopSignal \in BOOLEAN
    /\ closed \in [DomainSet -> BOOLEAN]
    /\ mutex \in [DomainSet -> Workers \cup {Free}]
    /\ notifier \in 0..NotifierMax
    /\ wpc \in [Workers -> {"idle", "execute", "push", "relock", "check", "wait",
                            "notify", "settle", "exited"}]
    /\ wreq \in [Workers -> MaybeRequest]
    /\ wbits \in [Workers -> SUBSET Bits]
    /\ fault \in [DomainSet -> SUBSET Bits]
    /\ faultsAtStop \in [DomainSet -> SUBSET Bits] /\ finalFaults \in [DomainSet -> SUBSET Bits]
    /\ rpc \in {"sample", "once", "drain", "poll", "stop", "close", "after",
                "join", "done", "fatal", "residual"}
    /\ phase \in {"run", "close", "final"}
    /\ cursor \in 0..(Len(Domains) - 1) /\ turn \in 0..(Len(Domains) - 1)
    /\ spent \in 0..Budget
    /\ held \in [DomainSet -> MaybeRequest]
    /\ closeAt \in 0..(Len(Domains) + 1) /\ attempts \in 0..CleanupAttempts
    /\ rc \in {"OK", "INTERNAL"} /\ cleanupResult \in {"OK", "INTERNAL"}
    /\ fate \in [Requests -> {"new", "accepted", "abandoned", "delivered",
                              "discarded", "dropped", "cancelled"}]

Unsettled(r) == fate[r] \in {"accepted", "abandoned"}

Carriers(r) ==
    {w \in Workers : wreq[w] = r
        /\ wpc[w] \in {"execute", "push", "relock", "check", "wait"}}

QueuedAt(r) ==
    {d \in DomainSet : \E i \in 1..Len(queue[d]) : queue[d][i] = r}

(* Every accepted request without an outcome is in exactly one place: the  *)
(* task queue, a worker, the completion queue of its own domain, or the    *)
(* reactor's hand; a request with an outcome is in none.  No step between  *)
(* wait_pop, wait_push, try_pop and the consumers loses or doubles one.    *)
CompletionsAccounted ==
    \A r \in Requests :
        LET places == Cardinality({i \in 1..Len(tasks) : tasks[i] = r})
                      + Cardinality(Carriers(r))
                      + Cardinality(QueuedAt(r))
                      + Cardinality({d \in DomainSet : held[d] = r})
        IN  places = IF Unsettled(r) THEN 1 ELSE 0

(* When the reactor is about to sleep in poll, a completion that it could  *)
(* take has left a mark: the eventfd is readable, its worker is about to   *)
(* write it, or the failed write is on its way into the fault word.  The   *)
(* one eventfd, emptied before seven queues are drained, loses no queue.   *)
NoStrandedCompletion ==
    rpc = "poll" =>
        \A d \in DomainSet :
            queue[d] # <<>> /\ held[d] = NoRequest =>
                \/ notifier > 0
                \/ "PUBLISH" \in fault[d]
                \/ \E w \in Workers :
                      /\ wreq[w] # NoRequest /\ Dom(w) = d
                      /\ wpc[w] = "notify" \/ "PUBLISH" \in wbits[w]

(* A worker asleep in wait_push sleeps on an open queue, and every free    *)
(* slot has a worker on its way to it: one signal per pop and the          *)
(* broadcast of close are enough.                                          *)
ProducersWoken ==
    Faults \cap {"signal", "broadcast"} = {} =>
        \A d \in DomainSet :
            Sleepers(d) # {} =>
                /\ ~closed[d]
                /\ Capacity - Len(queue[d]) <=
                     Cardinality({w \in Workers :
                        wpc[w] \in {"push", "relock", "check"} /\ Dom(w) = d})

(* A running server never loses a result in silence: when a worker has     *)
(* dropped one, a fault bit is latched or about to be, and it stops the    *)
(* server.                                                                 *)
NoSilentLoss ==
    (\E r \in Requests : fate[r] = "dropped") /\ ~Ended =>
        Stopped \/ AnyFault \/ \E w \in Workers : wbits[w] # {}

(* When run returns, every accepted request has an outcome and every       *)
(* worker is gone: destroying the queues and the store leaks nothing.      *)
SettledAtExit ==
    rpc = "done" =>
        /\ \A r \in Requests : ~Unsettled(r)
        /\ \A w \in Workers : wpc[w] = "exited"

(* After the join nothing is left to wait for: the final loop drains       *)
(* within its attempts, and fatal is only reached while closing the queues *)
(* against workers that hold their mutexes.                                *)
NoFatalAfterJoin ==
    rpc = "fatal" /\ phase = "final" => Faults \cap {"once", "signal"} # {}

(* What holds at every moment, whichever calls fail: the five properties   *)
(* of queues, workers and exits above.                                     *)
CompletionsSound ==
    /\ CompletionsAccounted /\ NoStrandedCompletion /\ ProducersWoken
    /\ SettledAtExit /\ NoFatalAfterJoin

(* auth_process.h: faults before the stop fail, other faults fail, but a   *)
(* PUBLISH fault that is new while a signal stops the server is kept as    *)
(* evidence only.                                                          *)
SignalStopTolerated ==
    /\ rpc = "done" /\ stopSignal /\ cleanupResult = "OK"
    /\ \A d \in DomainSet : faultsAtStop[d] = {} /\ Others(finalFaults, d) = {}
    => rc = "OK"

(* Once the stop has begun the process ends, although the reactor that     *)
(* waits for the workers is the one that makes room for them.              *)
StopEndsProcess == []<>(rpc = "stop" \/ phase # "run" => Ended)

(* A latched fault of any domain ends the process.                         *)
FaultEndsProcess == []<>(AnyFault => Ended)

(* The process ends when it is told to and when it has to.                 *)
ProcessEnds == StopEndsProcess /\ FaultEndsProcess

(* Every accepted request gets an outcome, also when all workers wait for  *)
(* room and every client's output is full for a while.                     *)
EveryRequestSettles ==
    \A r \in Requests : []<>(~Unsettled(r) \/ Ended)

------------------------------------------------------------------------------
(* Values for the constants of small instances.  Requests are numbers; the *)
(* last one belongs to the last domain, the others to the first.           *)
AuthAndMkdir == <<"auth", "mkdir">>
OnlyAuth == <<"auth">>
OnlyMkdir == <<"mkdir">>
MkdirAndRemove == <<"mkdir", "remove">>

DomainByNumber ==
    [r \in Requests |-> Domains[IF r = Cardinality(Requests) THEN Len(Domains) ELSE 1]]

Symmetry == Permutations(Workers)
==============================================================================
