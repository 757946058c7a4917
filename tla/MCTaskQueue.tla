---------------------------- MODULE MCTaskQueue ------------------------------
(***************************************************************************)
(* Two queues: one whose pthread calls succeed, with two workers, and one  *)
(* with two callers and one worker where every pthread call may fail.  A   *)
(* behaviour is a behaviour of one of them, chosen at the start; the other *)
(* keeps its initial state and owes no step.                               *)
(***************************************************************************)
EXTENDS TaskQueue

VARIABLES which,
  f_slots, f_head, f_tail, f_count, f_state, f_highWatermark, f_fullRejections,
  f_closedRejections, f_saturated, f_waitPrepared, f_retiring, f_mutex, f_pc,
  f_ret, f_hand, f_freed, f_accepted, f_taken

Faulty == INSTANCE TaskQueue WITH
  slots <- f_slots, head <- f_head, tail <- f_tail, count <- f_count,
  state <- f_state, highWatermark <- f_highWatermark,
  fullRejections <- f_fullRejections, closedRejections <- f_closedRejections,
  saturated <- f_saturated, waitPrepared <- f_waitPrepared, retiring <- f_retiring,
  mutex <- f_mutex, pc <- f_pc, ret <- f_ret, hand <- f_hand, freed <- f_freed,
  accepted <- f_accepted, taken <- f_taken, Capacity <- 1, Callers <- {"c1", "c2"},
  Workers <- {"w1"}, Owner <- "c1", Free <- "free", Stuck <- "stuck",
  Faults <- {"lock", "signal", "broadcast", "wait", "unlock", "destroy"}

queueVars == <<slots, head, tail, count, state, highWatermark, fullRejections,
               closedRejections, saturated, waitPrepared, retiring, mutex, pc, ret,
               hand, freed, accepted, taken>>
faultyVars == <<f_slots, f_head, f_tail, f_count, f_state, f_highWatermark,
                f_fullRejections, f_closedRejections, f_saturated, f_waitPrepared,
                f_retiring, f_mutex, f_pc, f_ret, f_hand, f_freed, f_accepted,
                f_taken>>

MCInit == which \in {"queue", "faulty"} /\ Init /\ Faulty!Init

QueueNext == which = "queue" /\ Next /\ UNCHANGED <<which, faultyVars>>
FaultyNext == which = "faulty" /\ Faulty!Next /\ UNCHANGED <<which, queueVars>>

MCNext == QueueNext \/ FaultyNext

\* The fairness of TaskQueue, in its own behaviours.
MCFairness ==
  /\ \A t \in Callers : WF_queueVars(which = "queue" /\ CallerBody(t))
  /\ \A w \in Workers :
       /\ WF_queueVars(which = "queue" /\ WorkerBody(w))
       /\ WF_queueVars(which = "queue" /\ WaitPopCall(w))
       /\ SF_queueVars(which = "queue" /\ WaitPopLock(w))

MCSpec == MCInit /\ [][MCNext]_<<which, queueVars, faultyVars>> /\ MCFairness

-----------------------------------------------------------------------------
(* task_queue.c when pthread calls fail: the queue still keeps the promise  *)
(* of TaskChannel, and its ring, its metrics and the exit of its worker are *)
(* sound.                                                                   *)
FaultyQueueSound == Faulty!ChannelSpec /\ []Faulty!QueueSound

(* task_queue.c, wait_pop: every accepted task is taken or the queue is     *)
(* cancelled, and closing the queue releases every waiting worker.          *)
TasksTaken == EveryTaskTaken /\ CloseReleasesWorkers
=============================================================================
