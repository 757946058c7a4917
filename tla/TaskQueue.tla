------------------------------ MODULE TaskQueue ------------------------------
(***************************************************************************)
(* The bounded task queue of src/thread/task_queue.c: a ring of owner      *)
(* pointers guarded by one mutex, with an optional condition variable on   *)
(* which workers sleep.                                                    *)
(*                                                                         *)
(* Callers use the operations that try the mutex once (try_push, try_pop,  *)
(* try_take_cancelled, close, inspect).  Workers run the loop of           *)
(* execute_tasks (src/thread/thread_pool.c) around wait_pop, which blocks. *)
(* A step is what happens between two points at which another thread can   *)
(* notice: taking the mutex, and the critical section up to the unlock or  *)
(* the wait that ends it.  Owner also runs prepare_wait and destroy, which *)
(* the header allows only when no other thread uses the queue.             *)
(***************************************************************************)
EXTENDS Naturals, Sequences, FiniteSets

CONSTANTS
    Capacity,    \* number of slots
    CounterMax,  \* UINT64_MAX of the rejection counters
    Tasks, NoTask,
    Callers, Workers, Owner,
    Free, Stuck, \* the mutex: unlocked; left locked by a failed unlock
    Faults       \* the pthread calls that may fail

ASSUME CapacityAssumption == Capacity \in Nat \ {0}
ASSUME CounterAssumption == CounterMax \in Nat \ {0}
ASSUME TaskAssumption == NoTask \notin Tasks
ASSUME ThreadAssumption ==
    /\ IsFiniteSet(Workers)
    /\ Callers \cap Workers = {}
    /\ Owner \in Callers
    /\ Free \notin Callers \cup Workers
    /\ Stuck \notin Callers \cup Workers
    /\ Free # Stuck
ASSUME FaultAssumption ==
    Faults \subseteq {"lock", "signal", "broadcast", "wait", "unlock", "destroy"}

Threads == Callers \cup Workers
Slots == 0..(Capacity - 1)
Modes == {"OPEN", "DRAIN", "CANCEL_PENDING"}
Kinds == {"push", "pop", "take", "inspect", "DRAIN", "CANCEL_PENDING"}
Results == {"NONE", "OK", "BUSY", "CANCELLED", "NOT_FOUND", "INTERNAL"}

VARIABLES
    slots, head, tail, count, state,
    highWatermark, fullRejections, closedRejections, saturated,
    waitPrepared, retiring,
    mutex,       \* Free, Stuck or the thread that holds it
    pc,          \* where each thread is; a caller inside an operation's
                 \* critical section is at that operation's kind
    ret,         \* what each thread's last operation returned
    hand,        \* the task each thread's last operation handed to it
    freed,       \* the owner pointer is NULL after destroy
    accepted,    \* history: every task pushed, in order
    taken        \* history: how many tasks have left the ring

ring == <<slots, head, tail, count>>
metrics == <<highWatermark, fullRejections, closedRejections, saturated>>
history == <<accepted, taken>>
vars == <<ring, state, metrics, waitPrepared, retiring, mutex, pc, ret,
          hand, freed, history>>

Accepted == {accepted[i] : i \in 1..Len(accepted)}

Sleepers == {w \in Workers : pc[w] = "wait"}

(* Workers a signal has reached that have not looked at the queue yet.     *)
Woken == {w \in Workers : pc[w] \in {"relock", "check"}}

Wrap(i) == IF i = Capacity - 1 THEN 0 ELSE i + 1

Init ==
    /\ slots = [i \in Slots |-> NoTask]
    /\ head = 0 /\ tail = 0 /\ count = 0
    /\ state = "OPEN"
    /\ highWatermark = 0 /\ fullRejections = 0 /\ closedRejections = 0
    /\ saturated = FALSE
    /\ waitPrepared = FALSE /\ retiring = FALSE /\ freed = FALSE
    /\ mutex = Free
    /\ pc = [t \in Threads |-> "idle"]
    /\ ret = [t \in Threads |-> "NONE"]
    /\ hand = [t \in Threads |-> NoTask]
    /\ accepted = <<>> /\ taken = 0

------------------------------------------------------------------------------
(* How a critical section ends.                                            *)

CountFull ==
    /\ fullRejections' = IF fullRejections < CounterMax
                         THEN fullRejections + 1 ELSE fullRejections
    /\ saturated' = (saturated \/ fullRejections >= CounterMax)
    /\ UNCHANGED <<highWatermark, closedRejections>>

CountClosed ==
    /\ closedRejections' = IF closedRejections < CounterMax
                           THEN closedRejections + 1 ELSE closedRejections
    /\ saturated' = (saturated \/ closedRejections >= CounterMax)
    /\ UNCHANGED <<highWatermark, fullRejections>>

(* The thread unlocks and returns r, and the threads of woken now compete  *)
(* for the mutex.  A failed unlock turns the result into INTERNAL and      *)
(* leaves the mutex locked.  A worker leaves its loop on any result but OK.*)
Leave(t, r, woken) ==
    \E m \in {Free} \cup (IF "unlock" \in Faults THEN {Stuck} ELSE {}) :
        LET final == IF m = Stuck THEN "INTERNAL" ELSE r IN
        /\ mutex' = m
        /\ ret' = [ret EXCEPT ![t] = final]
        /\ pc' = [u \in Threads |->
                    IF u = t
                    THEN IF t \in Workers /\ final # "OK" THEN "exited" ELSE "idle"
                    ELSE IF u \in woken THEN "relock" ELSE pc[u]]

(* The head slot is emptied and its task goes to thread t.                 *)
TakeHead(t) ==
    /\ hand' = [hand EXCEPT ![t] = slots[head]]
    /\ slots' = [slots EXCEPT ![head] = NoTask]
    /\ head' = Wrap(head)
    /\ count' = count - 1
    /\ taken' = taken + 1
    /\ UNCHANGED <<tail, accepted>>

TakeNothing(t) ==
    /\ hand' = [hand EXCEPT ![t] = NoTask]
    /\ UNCHANGED <<ring, history>>

------------------------------------------------------------------------------
(* The operations that try the mutex once.                                 *)

(* The call returns before it has the mutex: the queue is retiring, the    *)
(* mutex is taken, or the trylock fails for another reason.                *)
Refuse(t) ==
    /\ pc[t] = "idle" /\ ~freed
    /\ \/ retiring /\ ret' = [ret EXCEPT ![t] = "CANCELLED"]
       \/ ~retiring /\ mutex # Free /\ ret' = [ret EXCEPT ![t] = "BUSY"]
       \/ ~retiring /\ "lock" \in Faults /\ ret' = [ret EXCEPT ![t] = "INTERNAL"]
    /\ hand' = [hand EXCEPT ![t] = NoTask]
    /\ UNCHANGED <<ring, state, metrics, waitPrepared, retiring, mutex, pc,
                   freed, history>>

(* Only a caller that still owns a task pushes.                            *)
TryLock(t, kind) ==
    /\ pc[t] = "idle" /\ ~freed /\ ~retiring
    /\ kind = "push" => Accepted # Tasks
    /\ mutex = Free
    /\ mutex' = t
    /\ pc' = [pc EXCEPT ![t] = kind]
    /\ hand' = [hand EXCEPT ![t] = NoTask]
    /\ UNCHANGED <<ring, state, metrics, waitPrepared, retiring, ret, freed,
                   history>>

(* A push that is refused counts why: closed before full.                  *)
PushRefused(t) ==
    /\ pc[t] = "push"
    /\ \/ state # "OPEN" /\ CountClosed /\ Leave(t, "CANCELLED", {})
       \/ state = "OPEN" /\ count = Capacity /\ CountFull /\ Leave(t, "BUSY", {})
    /\ TakeNothing(t)
    /\ UNCHANGED <<state, waitPrepared, retiring, freed>>

RaiseWatermark ==
    highWatermark' = IF count + 1 > highWatermark THEN count + 1 ELSE highWatermark

(* Mutant: only the push into an empty queue signals.                      *)
PushWakeIfEmpty(t) ==
    IF waitPrepared /\ Sleepers # {} /\ count = 0
    THEN \E w \in Sleepers : Leave(t, "OK", {w})
    ELSE Leave(t, "OK", {})

(* One signal once waiting is prepared.  If the signal fails the task      *)
(* stays in the queue and the caller is told INTERNAL.                     *)
PushWake(t) ==
    \/ /\ waitPrepared /\ Sleepers # {}
       /\ \E w \in Sleepers : Leave(t, "OK", {w})
    \/ ~(waitPrepared /\ Sleepers # {}) /\ Leave(t, "OK", {})
    \/ waitPrepared /\ "signal" \in Faults /\ Leave(t, "INTERNAL", {})

(* The whole accepting push: the slot, the tail, the count, the high       *)
(* watermark and the signal.                                               *)
PushAccepted(t, k) ==
    /\ pc[t] = "push"
    /\ state = "OPEN" /\ count # Capacity
    /\ k \notin Accepted
    /\ slots' = [slots EXCEPT ![tail] = k]
    /\ tail' = Wrap(tail)
    /\ count' = count + 1
    /\ RaiseWatermark
    /\ accepted' = Append(accepted, k)
    /\ PushWake(t)
    /\ UNCHANGED <<head, taken, state, fullRejections, closedRejections,
                   saturated, waitPrepared, retiring, hand, freed>>

(* try_pop: refused once the pending tasks are cancelled, or once the      *)
(* queue is drained.                                                       *)
TryPop(t) ==
    /\ pc[t] = "pop"
    /\ \/ state = "CANCEL_PENDING" /\ TakeNothing(t) /\ Leave(t, "CANCELLED", {})
       \/ /\ state # "CANCEL_PENDING" /\ count = 0
          /\ TakeNothing(t)
          /\ Leave(t, IF state = "DRAIN" THEN "CANCELLED" ELSE "NOT_FOUND", {})
       \/ state # "CANCEL_PENDING" /\ count # 0 /\ TakeHead(t) /\ Leave(t, "OK", {})
    /\ UNCHANGED <<state, metrics, waitPrepared, retiring, freed>>

(* try_take_cancelled: the way back for tasks that were cancelled.         *)
TryTakeCancelled(t) ==
    /\ pc[t] = "take"
    /\ \/ state # "CANCEL_PENDING" /\ TakeNothing(t) /\ Leave(t, "BUSY", {})
       \/ /\ state = "CANCEL_PENDING" /\ count = 0
          /\ TakeNothing(t) /\ Leave(t, "NOT_FOUND", {})
       \/ state = "CANCEL_PENDING" /\ count # 0 /\ TakeHead(t) /\ Leave(t, "OK", {})
    /\ UNCHANGED <<state, metrics, waitPrepared, retiring, freed>>

(* Mutant: close signals one worker instead of broadcasting.               *)
CloseWakesOne ==
    IF waitPrepared /\ Sleepers # {} THEN {CHOOSE w \in Sleepers : TRUE} ELSE {}

CloseWakes == IF waitPrepared THEN Sleepers ELSE {}

(* Mutant: a later close replaces the mode.                                *)
ModeAfterLast(m) == m

ModeAfter(m) == IF state = "OPEN" THEN m ELSE state

(* close: the first mode stays; the same mode again broadcasts again.      *)
CloseQueue(t) ==
    /\ pc[t] \in {"DRAIN", "CANCEL_PENDING"}
    /\ state' = ModeAfter(pc[t])
    /\ \/ state' # pc[t] /\ Leave(t, "BUSY", {})
       \/ /\ state' = pc[t]
          /\ Leave(t, "OK", CloseWakes)
       \/ /\ state' = pc[t] /\ waitPrepared /\ "broadcast" \in Faults
          /\ Leave(t, "INTERNAL", {})
    /\ UNCHANGED <<ring, metrics, waitPrepared, retiring, hand, freed, history>>

(* inspect and inspect_metrics only hold the mutex while they read.        *)
Inspect(t) ==
    /\ pc[t] = "inspect"
    /\ Leave(t, "OK", {})
    /\ UNCHANGED <<ring, state, metrics, waitPrepared, retiring, hand, freed,
                   history>>

------------------------------------------------------------------------------
(* wait_pop, called in the worker's loop.  Its lock may fail: the worker   *)
(* then leaves as it does on every result but OK.                          *)

WaitPopCall(w) ==
    /\ pc[w] = "idle" /\ ~freed
    /\ hand' = [hand EXCEPT ![w] = NoTask]
    /\ \/ /\ waitPrepared /\ ~retiring
          /\ pc' = [pc EXCEPT ![w] = "lock"]
          /\ UNCHANGED ret
       \/ /\ retiring \/ ~waitPrepared
          /\ pc' = [pc EXCEPT ![w] = "exited"]
          /\ ret' = [ret EXCEPT ![w] = IF retiring THEN "CANCELLED" ELSE "NOT_FOUND"]
       \/ /\ waitPrepared /\ ~retiring /\ "lock" \in Faults
          /\ pc' = [pc EXCEPT ![w] = "exited"]
          /\ ret' = [ret EXCEPT ![w] = "INTERNAL"]
    /\ UNCHANGED <<ring, state, metrics, waitPrepared, retiring, mutex, freed,
                   history>>

(* The blocking lock, and the lock cond_wait takes again before it returns.*)
WaitPopLock(w) ==
    /\ pc[w] \in {"lock", "relock"}
    /\ mutex = Free
    /\ mutex' = w
    /\ pc' = [pc EXCEPT ![w] = "check"]
    /\ UNCHANGED <<ring, state, metrics, waitPrepared, retiring, ret, hand,
                   freed, history>>

(* The loop test: nothing to take and not closed, so the worker sleeps.    *)
(* cond_wait reports its errors before it sleeps.                          *)
WaitPopSleep(w) ==
    /\ pc[w] = "check"
    /\ count = 0 /\ state = "OPEN"
    /\ \/ /\ mutex' = Free
          /\ pc' = [pc EXCEPT ![w] = "wait"]
          /\ UNCHANGED ret
       \/ "wait" \in Faults /\ Leave(w, "INTERNAL", {})
    /\ UNCHANGED <<ring, state, metrics, waitPrepared, retiring, hand, freed,
                   history>>

WaitPopCancels == state = "CANCEL_PENDING" \/ count = 0

WaitPopReturn(w) ==
    /\ pc[w] = "check"
    /\ ~(count = 0 /\ state = "OPEN")
    /\ \/ /\ WaitPopCancels
          /\ TakeNothing(w) /\ Leave(w, "CANCELLED", {})
       \/ /\ ~WaitPopCancels
          /\ TakeHead(w) /\ Leave(w, "OK", {})
    /\ UNCHANGED <<state, metrics, waitPrepared, retiring, freed>>

(* pthread_cond_wait may return without a signal.                          *)
SpuriousWakeup(w) ==
    /\ pc[w] = "wait"
    /\ pc' = [pc EXCEPT ![w] = "relock"]
    /\ UNCHANGED <<ring, state, metrics, waitPrepared, retiring, mutex, ret,
                   hand, freed, history>>

------------------------------------------------------------------------------
(* prepare_wait and destroy: the contract gives the owner the queue alone. *)

Exclusive ==
    /\ ~freed
    /\ \A t \in Callers : pc[t] = "idle"

PrepareWait ==
    /\ Exclusive /\ \A w \in Workers : pc[w] = "idle"
    /\ ~retiring /\ count = 0 /\ state = "OPEN"
    /\ waitPrepared' = TRUE
    /\ UNCHANGED <<ring, state, metrics, retiring, mutex, pc, ret, hand, freed,
                   history>>

(* destroy: refused while a task is inside; the condition variable goes    *)
(* first and its loss is remembered in retiring; the mutex may then refuse *)
(* to go, and destroy is called again.                                     *)
Destroy ==
    /\ Exclusive /\ \A w \in Workers : pc[w] = "exited"
    /\ count = 0
    /\ \/ /\ "destroy" \in Faults /\ waitPrepared
          /\ ret' = [ret EXCEPT ![Owner] = "INTERNAL"]
          /\ UNCHANGED <<waitPrepared, retiring, freed>>
       \/ /\ waitPrepared' = FALSE
          /\ retiring' = (retiring \/ waitPrepared)
          /\ \/ /\ mutex = Free
                /\ freed' = TRUE
                /\ ret' = [ret EXCEPT ![Owner] = "OK"]
             \/ /\ mutex = Stuck \/ "destroy" \in Faults
                /\ ret' = [ret EXCEPT ![Owner] = IF mutex = Stuck THEN "BUSY" ELSE "INTERNAL"]
                /\ UNCHANGED freed
    /\ UNCHANGED <<ring, state, metrics, mutex, pc, hand, history>>

DestroyRefused ==
    /\ Exclusive /\ \A w \in Workers : pc[w] = "exited"
    /\ count # 0
    /\ ret' = [ret EXCEPT ![Owner] = "BUSY"]
    /\ UNCHANGED <<ring, state, metrics, waitPrepared, retiring, mutex, pc, hand,
                   freed, history>>

------------------------------------------------------------------------------

CallerBody(t) ==
    \/ PushRefused(t)
    \/ \E k \in Tasks : PushAccepted(t, k)
    \/ TryPop(t)
    \/ TryTakeCancelled(t)
    \/ CloseQueue(t)
    \/ Inspect(t)

WorkerBody(w) == WaitPopSleep(w) \/ WaitPopReturn(w)

Next ==
    \/ \E t \in Callers :
        \/ Refuse(t)
        \/ \E kind \in Kinds : TryLock(t, kind)
        \/ CallerBody(t)
    \/ \E w \in Workers :
        \/ WaitPopCall(w)
        \/ WaitPopLock(w)
        \/ WorkerBody(w)
        \/ SpuriousWakeup(w)
    \/ PrepareWait
    \/ Destroy
    \/ DestroyRefused


(* A thread that holds the mutex runs on to its unlock; a worker that      *)
(* competes for the mutex is not overtaken for ever; a worker outside      *)
(* wait_pop comes back for the next task, as execute_tasks does.  Callers  *)
(* need not call anything.                                                 *)
Fairness ==
    /\ \A t \in Callers : WF_vars(CallerBody(t))
    /\ \A w \in Workers :
        /\ WF_vars(WorkerBody(w))
        /\ WF_vars(WaitPopCall(w))
        /\ SF_vars(WaitPopLock(w))

Spec == Init /\ [][Next]_vars

FairSpec == Spec /\ Fairness

------------------------------------------------------------------------------
(* Properties.                                                             *)

(* The types of the queue's fields: head and tail index the slots, and the *)
(* depth, the watermark and the rejection counters stay within their       *)
(* bounds.                                                                 *)
TypeOK ==
    /\ slots \in [Slots -> Tasks \cup {NoTask}]
    /\ head \in Slots /\ tail \in Slots /\ count \in 0..Capacity
    /\ state \in Modes
    /\ highWatermark \in 0..Capacity
    /\ fullRejections \in 0..CounterMax /\ closedRejections \in 0..CounterMax
    /\ saturated \in BOOLEAN
    /\ waitPrepared \in BOOLEAN /\ retiring \in BOOLEAN /\ freed \in BOOLEAN
    /\ mutex \in Threads \cup {Free, Stuck}
    /\ pc \in [Threads -> Kinds \cup {"idle", "lock", "check", "wait", "relock", "exited"}]
    /\ ret \in [Threads -> Results]
    /\ hand \in [Threads -> Tasks \cup {NoTask}]
    /\ accepted \in Seq(Tasks)
    /\ taken \in Nat

(* The slot that holds the i-th oldest task, counted from 0.               *)
At(i) == IF head + i < Capacity THEN head + i ELSE head + i - Capacity

(* The ring holds exactly the accepted tasks that have not been taken, in  *)
(* order, from head to just before tail; every other slot is NULL.  It is  *)
(* what the wrap-around, the count and the NULL stores of transfer and     *)
(* wait_pop maintain between them.                                         *)
RingHoldsBacklog ==
    /\ taken + count = Len(accepted)
    /\ tail = At(count)
    /\ \A i \in 0..(count - 1) : slots[At(i)] = accepted[taken + i + 1]
    /\ \A i \in count..(Capacity - 1) : slots[At(i)] = NoTask

(* One signal per push and one broadcast per close are enough: while the   *)
(* queue is open, either nobody sleeps or at least one worker has been     *)
(* woken for every task in the ring; once it is closed nobody sleeps.      *)
NoLostWakeup ==
    Faults \cap {"signal", "broadcast"} = {} =>
        (Sleepers # {} => state = "OPEN" /\ count <= Cardinality(Woken))

(* A worker that leaves its loop because a draining queue told it so       *)
(* leaves nothing behind, and never will.                                  *)
DrainExit ==
    \A w \in Workers :
        pc[w] = "exited" /\ ret[w] = "CANCELLED" /\ state = "DRAIN" => count = 0

(* The metrics header promises depth <= high_watermark <= capacity, and    *)
(* that the sticky flag says a counter stands at its maximum.              *)
MetricsSound ==
    /\ count <= highWatermark /\ highWatermark <= Capacity
    /\ saturated => CounterMax \in {fullRejections, closedRejections}
    /\ closedRejections > 0 => state # "OPEN"

(* What the queue's own fields promise at every moment: the four           *)
(* properties above.                                                       *)
QueueSound == RingHoldsBacklog /\ NoLostWakeup /\ DrainExit /\ MetricsSound

(* The queue keeps the promise of TaskChannel: accepted tasks leave once   *)
(* each, in order; nothing is accepted after close; no worker gets a task  *)
(* after CANCEL_PENDING; the first mode stays; destroy loses nothing.      *)
Channel == INSTANCE TaskChannel WITH mode <- state, gone <- freed

ChannelSpec == Channel!Spec

(* Every task in an open or draining queue is taken sooner or later.       *)
EveryTaskTaken ==
    \A i \in 1..Cardinality(Tasks) :
        []<>(Len(accepted) >= i /\ waitPrepared => taken >= i \/ state = "CANCEL_PENDING")

(* Closing the queue frees every worker that is in wait_pop.               *)
CloseReleasesWorkers ==
    []<>(state # "OPEN" => \A w \in Workers : pc[w] = "exited")
==============================================================================
