------------------------------ MODULE ThreadPool -----------------------------
(***************************************************************************)
(* The worker pool of src/thread/thread_pool.c over its task queue.  One   *)
(* control thread (the reactor) configures, starts, enables, submits,      *)
(* shuts down and destroys; the workers run parked_worker and              *)
(* execute_tasks.  The queue is the channel of TaskChannel, which          *)
(* TaskQueue is proved to implement: a queue operation is one step, except *)
(* that a try_ operation may also find the queue's mutex taken and return  *)
(* BUSY, which changes nothing.                                            *)
(***************************************************************************)
EXTENDS Naturals, Sequences, FiniteSets, SequencesExt

CONSTANTS
    WorkerCount,  \* worker_count
    Capacity,     \* capacity of the task queue
    Tasks, NoTask,
    Faults        \* the runtime calls that may fail

ASSUME PoolAssumption ==
    /\ WorkerCount \in Nat \ {0}
    /\ Capacity \in Nat \ {0}
    /\ NoTask \notin Tasks
    /\ Faults \subseteq {"init", "create", "broadcast", "park", "wait", "take", "join",
                         "execute", "destroy"}

Workers == 1..WorkerCount
Modes == {"DRAIN", "CANCEL_PENDING"}

VARIABLES
    queue, mode,         \* the tasks in the queue and its state
    configured, startAttempted, stopRequested, enabled, retiring, freed,
    mutexReady, condReady,  \* mutex_initialized, condition_initialized
    created,             \* created_count: slots 1..created have a thread
    joined,              \* the slots whose thread has been joined
    control,             \* "idle", "create" or "join": inside start or stop_and_join
    cursor,              \* the slot the control thread is at
    wpc, wtask, wresult, \* each worker: where it is, its task, its first error
    executed, returned, dropped, accepted  \* history: what became of the tasks

poolVars == <<configured, startAttempted, stopRequested, enabled, retiring, freed,
              mutexReady, condReady>>
workerVars == <<wpc, wtask, wresult>>
controlVars == <<created, joined, control, cursor>>
history == <<executed, returned, dropped, accepted>>
vars == <<queue, mode, poolVars, controlVars, workerVars, history>>

Init ==
    /\ queue = <<>> /\ mode = "OPEN"
    /\ configured = FALSE /\ startAttempted = FALSE /\ stopRequested = FALSE
    /\ enabled = FALSE /\ retiring = FALSE /\ freed = FALSE
    /\ mutexReady = FALSE /\ condReady = FALSE
    /\ created = 0 /\ joined = {} /\ control = "idle" /\ cursor = 1
    /\ wpc = [w \in Workers |-> "none"]
    /\ wtask = [w \in Workers |-> NoTask]
    /\ wresult = [w \in Workers |-> "OK"]
    /\ executed = <<>> /\ returned = {} /\ dropped = {} /\ accepted = {}

(* The control thread is between two calls on a pool that still exists.    *)
Idle == control = "idle" /\ ~freed

Parked == {w \in Workers : wpc[w] = "parked"}

AllJoined == Cardinality(joined) = created

------------------------------------------------------------------------------
(* configure and start.                                                    *)

(* configure accepts an open, empty queue with waiting prepared, once.     *)
Configure ==
    /\ Idle /\ ~retiring /\ ~configured
    /\ mode = "OPEN" /\ queue = <<>>
    /\ configured' = TRUE
    /\ UNCHANGED <<queue, mode, startAttempted, stopRequested, enabled, retiring, freed,
                   mutexReady, condReady, controlVars, workerVars, history>>

(* start is attempted once.  Its two init calls may fail; then no worker   *)
(* is created and the attempt is spent.                                    *)
Start ==
    /\ Idle /\ ~retiring /\ configured /\ ~startAttempted
    /\ mode = "OPEN"
    /\ startAttempted' = TRUE
    /\ \/ /\ mutexReady' = TRUE /\ condReady' = TRUE
          /\ control' = "create" /\ cursor' = 1
       \/ /\ "init" \in Faults
          /\ mutexReady' \in BOOLEAN /\ UNCHANGED <<condReady, control, cursor>>
    /\ UNCHANGED <<queue, mode, configured, stopRequested, enabled, retiring, freed,
                   created, joined, workerVars, history>>

CreateWorker ==
    /\ control = "create" /\ cursor <= WorkerCount
    /\ wpc' = [wpc EXCEPT ![cursor] = "start"]
    /\ created' = created + 1
    /\ cursor' = cursor + 1
    /\ control' = IF cursor = WorkerCount THEN "idle" ELSE "create"
    /\ UNCHANGED <<queue, mode, poolVars, joined, wtask, wresult, history>>

(* Mutant: the broadcast is forgotten.                                     *)
UnparkNobody == wpc

(* pthread_cond_broadcast on the pool's condition variable.                *)
Unpark == [w \in Workers |-> IF w \in Parked THEN "start" ELSE wpc[w]]

(* The first half of stop_and_join_workers: nothing to do when every       *)
(* worker has been joined; otherwise the stop flag and the broadcast.  If  *)
(* the broadcast fails the call ends here, with the flag set.              *)
RequestStop ==
    \/ AllJoined /\ control' = "idle" /\ UNCHANGED <<stopRequested, cursor, wpc>>
    \/ /\ ~AllJoined
       /\ stopRequested' = TRUE
       /\ \/ /\ control' = "join" /\ cursor' = 1
             /\ wpc' = Unpark
          \/ /\ "broadcast" \in Faults
             /\ control' = "idle" /\ UNCHANGED <<cursor, wpc>>

(* pthread_create fails: the workers created so far are stopped.           *)
CreateFails ==
    /\ "create" \in Faults
    /\ control = "create"
    /\ RequestStop
    /\ UNCHANGED <<queue, mode, configured, startAttempted, enabled, retiring, freed,
                   mutexReady, condReady, created, joined, wtask, wresult, history>>

------------------------------------------------------------------------------
(* enable_execution, try_submit, shutdown_and_join, stop_and_join.         *)

MayEnable ==
    /\ startAttempted /\ ~stopRequested
    /\ ~enabled /\ created = WorkerCount /\ joined = {}

(* All workers exist, none has been joined: the flag and the broadcast.    *)
(* The flag stays when the broadcast fails, and enable cannot be repeated. *)
EnableExecution ==
    /\ Idle /\ ~retiring /\ MayEnable
    /\ mode = "OPEN"
    /\ enabled' = TRUE
    /\ \/ wpc' = Unpark
       \/ "broadcast" \in Faults /\ UNCHANGED wpc
    /\ UNCHANGED <<queue, mode, configured, startAttempted, stopRequested, retiring, freed,
                   mutexReady, condReady, controlVars, wtask, wresult, history>>

MaySubmit ==
    /\ ~retiring /\ ~stopRequested
    /\ configured /\ startAttempted
    /\ created = WorkerCount /\ enabled /\ joined = {}

TrySubmit(k) ==
    /\ Idle /\ MaySubmit
    /\ mode = "OPEN" /\ Len(queue) < Capacity
    /\ k \notin accepted
    /\ queue' = Append(queue, k)
    /\ accepted' = accepted \cup {k}
    /\ UNCHANGED <<mode, poolVars, controlVars, workerVars, executed, returned, dropped>>

(* shutdown_and_join closes the queue, or finds it closed in the same      *)
(* mode, and goes on to stop_and_join in the same call.                    *)
Shutdown(m) ==
    /\ Idle /\ ~retiring /\ configured /\ startAttempted
    /\ created = WorkerCount /\ enabled
    /\ mode \in {"OPEN", m}
    /\ mode' = m
    /\ RequestStop
    /\ UNCHANGED <<queue, configured, startAttempted, enabled, retiring, freed, mutexReady,
                   condReady, created, joined, wtask, wresult, history>>

(* The close succeeds and the queue inspection that follows finds the      *)
(* queue's mutex taken by a worker: the call returns BUSY half-way, and is *)
(* repeated later.                                                         *)
ShutdownInterrupted(m) ==
    /\ Idle /\ ~retiring /\ configured /\ startAttempted
    /\ created = WorkerCount /\ enabled /\ ~AllJoined
    /\ mode \in {"OPEN", m}
    /\ mode' = m
    /\ UNCHANGED <<queue, poolVars, controlVars, workerVars, history>>

StopAndJoin ==
    /\ Idle /\ ~retiring /\ startAttempted
    /\ enabled /\ ~AllJoined => mode # "OPEN"
    /\ RequestStop
    /\ UNCHANGED <<queue, mode, configured, startAttempted, enabled, retiring, freed,
                   mutexReady, condReady, created, joined, wtask, wresult, history>>

(* The join loop goes on to the next slot of the worker array.             *)
JoinNext ==
    /\ cursor' = cursor + 1
    /\ control' = IF cursor = WorkerCount THEN "idle" ELSE "join"
    /\ UNCHANGED <<queue, mode, poolVars, created, workerVars, history>>

(* One round of the join loop.  Slots without a thread or already joined   *)
(* are passed over; a join blocks until the worker has returned.           *)
JoinWorker ==
    /\ control = "join"
    /\ \/ /\ cursor > created \/ cursor \in joined
          /\ UNCHANGED joined
       \/ /\ cursor <= created /\ cursor \notin joined
          /\ wpc[cursor] = "done"
          /\ joined' = joined \cup {cursor}
    /\ JoinNext

(* A failed join is passed over, and a later call tries it again.          *)
JoinFails ==
    /\ "join" \in Faults
    /\ control = "join"
    /\ cursor <= created /\ cursor \notin joined
    /\ JoinNext
    /\ UNCHANGED joined

(* The owner takes the cancelled tasks back, one at a time.                *)
TakeCancelled ==
    /\ Idle /\ mode = "CANCEL_PENDING" /\ queue # <<>>
    /\ returned' = returned \cup {Head(queue)}
    /\ queue' = Tail(queue)
    /\ UNCHANGED <<mode, poolVars, controlVars, workerVars, executed, dropped, accepted>>

MayDestroy == AllJoined

(* destroy: the condition variable, then the mutex, then the memory; a     *)
(* failure stops it there, and it can be called again.                     *)
Destroy ==
    /\ Idle /\ MayDestroy
    /\ \/ condReady' = FALSE /\ mutexReady' = FALSE /\ freed' = TRUE
       \/ /\ "destroy" \in Faults /\ mutexReady
          /\ condReady' \in {condReady, FALSE} /\ UNCHANGED <<mutexReady, freed>>
    /\ retiring' = (retiring \/ (condReady /\ ~condReady'))
    /\ UNCHANGED <<queue, mode, configured, startAttempted, stopRequested, enabled,
                   controlVars, workerVars, history>>

------------------------------------------------------------------------------
(* A worker.                                                               *)

WillExecute(w) == enabled /\ wresult[w] = "OK"

(* parked_worker under the pool's mutex: wait while neither flag is set,   *)
(* then execute if execution was enabled.                                  *)
Park(w) ==
    /\ wpc[w] = "start"
    /\ \/ /\ ~stopRequested /\ ~enabled
          /\ wpc' = [wpc EXCEPT ![w] = "parked"]
          /\ UNCHANGED wresult
       \/ /\ "wait" \in Faults /\ ~stopRequested /\ ~enabled
          /\ wpc' = [wpc EXCEPT ![w] = "done"]
          /\ wresult' = [wresult EXCEPT ![w] = "WAIT"]
       \/ /\ stopRequested \/ enabled
          /\ wpc' = [wpc EXCEPT ![w] = IF WillExecute(w) THEN "take" ELSE "done"]
          /\ UNCHANGED wresult
    /\ UNCHANGED <<queue, mode, poolVars, controlVars, wtask, history>>

(* disable_cancel or the lock fails before the worker has looked at the    *)
(* flags, or the unlock after it has: it ends with that error and executes *)
(* nothing.  What a failed unlock leaves of the mutex is not modelled.     *)
ParkFails(w) ==
    /\ "park" \in Faults /\ wpc[w] = "start"
    /\ wpc' = [wpc EXCEPT ![w] = "done"]
    /\ wresult' = [wresult EXCEPT ![w] = "PARK"]
    /\ UNCHANGED <<queue, mode, poolVars, controlVars, wtask, history>>

SpuriousWakeup(w) ==
    /\ wpc[w] = "parked"
    /\ wpc' = [wpc EXCEPT ![w] = "start"]
    /\ UNCHANGED <<queue, mode, poolVars, controlVars, wtask, wresult, history>>

MayTake == mode # "CANCEL_PENDING" /\ queue # <<>>

TakeTask(w) ==
    /\ wpc[w] = "take" /\ MayTake
    /\ wtask' = [wtask EXCEPT ![w] = Head(queue)]
    /\ queue' = Tail(queue)
    /\ wpc' = [wpc EXCEPT ![w] = "execute"]
    /\ UNCHANGED <<mode, poolVars, controlVars, wresult, history>>

(* wait_pop reports CANCELLED: the worker ends without an error.           *)
TakeCancels(w) ==
    /\ wpc[w] = "take"
    /\ mode = "CANCEL_PENDING" \/ (mode = "DRAIN" /\ queue = <<>>)
    /\ wpc' = [wpc EXCEPT ![w] = "done"]
    /\ UNCHANGED <<queue, mode, poolVars, controlVars, wtask, wresult, history>>

(* wait_pop fails: without a task (lock or wait), or, when its unlock      *)
(* failed, with one, which the worker destroys unexecuted.                 *)
TakeFails(w) ==
    /\ "take" \in Faults /\ wpc[w] = "take"
    /\ \/ UNCHANGED <<queue, dropped>>
       \/ /\ MayTake
          /\ dropped' = dropped \cup {Head(queue)}
          /\ queue' = Tail(queue)
    /\ wpc' = [wpc EXCEPT ![w] = "done"]
    /\ wresult' = [wresult EXCEPT ![w] = IF wresult[w] = "OK" THEN "TAKE" ELSE wresult[w]]
    /\ UNCHANGED <<mode, poolVars, controlVars, wtask, executed, returned, accepted>>

(* The callback returns: the first failure is kept, the task is destroyed, *)
(* and the worker goes on to the next one.                                 *)
ExecuteTask(w) ==
    /\ wpc[w] = "execute"
    /\ executed' = Append(executed, wtask[w])
    /\ wtask' = [wtask EXCEPT ![w] = NoTask]
    /\ wpc' = [wpc EXCEPT ![w] = "take"]
    /\ \/ UNCHANGED wresult
       \/ "execute" \in Faults
          /\ wresult' = [wresult EXCEPT ![w] = IF wresult[w] = "OK" THEN "EXECUTE"
                                                                   ELSE wresult[w]]
    /\ UNCHANGED <<queue, mode, poolVars, controlVars, returned, dropped, accepted>>

WorkerStep(w) == Park(w) \/ TakeTask(w) \/ TakeCancels(w) \/ ExecuteTask(w)

ControlStep == CreateWorker \/ JoinWorker

ControlCall ==
    \/ Configure
    \/ Start
    \/ EnableExecution
    \/ \E k \in Tasks : TrySubmit(k)
    \/ \E m \in Modes : Shutdown(m) \/ ShutdownInterrupted(m)
    \/ StopAndJoin
    \/ TakeCancelled
    \/ Destroy

Next ==
    \/ ControlCall \/ ControlStep \/ CreateFails \/ JoinFails
    \/ \E w \in Workers : WorkerStep(w) \/ SpuriousWakeup(w) \/ ParkFails(w) \/ TakeFails(w)

(* Threads that can run do run, and callbacks return.  The control thread  *)
(* finishes a call it has begun but need not begin one; no call has to     *)
(* fail.                                                                   *)
Fairness ==
    /\ WF_vars(ControlStep)
    /\ \A w \in Workers : WF_vars(WorkerStep(w))

Spec == Init /\ [][Next]_vars

FairSpec == Spec /\ Fairness

------------------------------------------------------------------------------
(* Properties.                                                             *)

(* The types of the pool's flags and history, with created_count and the   *)
(* cursor of the create and join loops inside the worker array.            *)
TypeOK ==
    /\ queue \in Seq(Tasks) /\ Len(queue) <= Capacity
    /\ mode \in Modes \cup {"OPEN"}
    /\ configured \in BOOLEAN /\ startAttempted \in BOOLEAN /\ stopRequested \in BOOLEAN
    /\ enabled \in BOOLEAN /\ retiring \in BOOLEAN /\ freed \in BOOLEAN
    /\ mutexReady \in BOOLEAN /\ condReady \in BOOLEAN
    /\ created \in 0..WorkerCount /\ joined \in SUBSET Workers
    /\ control \in {"idle", "create", "join"} /\ cursor \in 1..(WorkerCount + 1)
    /\ wpc \in [Workers -> {"none", "start", "parked", "take", "execute", "done"}]
    /\ wtask \in [Workers -> Tasks \cup {NoTask}]
    /\ wresult \in [Workers -> {"OK", "PARK", "WAIT", "TAKE", "EXECUTE"}]
    /\ executed \in Seq(Tasks)
    /\ returned \in SUBSET Tasks /\ dropped \in SUBSET Tasks /\ accepted \in SUBSET Tasks

InHand == {wtask[w] : w \in Workers} \ {NoTask}

(* Every accepted task is in exactly one place: in the queue, with one     *)
(* worker, executed once, given back, or destroyed by a worker whose       *)
(* wait_pop failed.                                                        *)
TasksAccounted ==
    /\ accepted = ToSet(queue) \cup InHand \cup ToSet(executed) \cup returned \cup dropped
    /\ Cardinality(accepted) = Len(queue) + Cardinality(InHand) + Len(executed)
                                + Cardinality(returned) + Cardinality(dropped)

(* No worker runs on a pool that has been freed or whose condition         *)
(* variable is gone: destroy comes after every join, including after a     *)
(* start that failed half-way and after joins that failed.                 *)
PoolOutlivesWorkers ==
    freed \/ retiring => \A w \in Workers : wpc[w] \in {"none", "done"}

(* Once all workers of a draining pool are joined, every accepted task has *)
(* been executed, provided at least one worker ended without an error.     *)
(* This includes workers that were still parked when shutdown began.  (A   *)
(* worker keeps only its first error: after a failed callback a later      *)
(* failure to take a task is not visible in the result.)                   *)
DrainedAtJoin ==
    /\ mode = "DRAIN" /\ created > 0 /\ AllJoined
    /\ \E w \in Workers : wresult[w] = "OK"
    => accepted = ToSet(executed) \cup dropped

(* A begun shutdown comes to an end: the join loop is never left waiting   *)
(* for a worker that waits for a wake-up or for a task.                    *)
JoinTerminates == []<>(control # "join")
==============================================================================
