------------------------------ MODULE MCProgress ------------------------------
(***************************************************************************)
(* What must eventually happen in the machinery of threads and queues: the *)
(* thread pool, the request reactor, the asynchronous service, the event   *)
(* loop and the failure-audit writer, each under the fairness its own      *)
(* module justifies.  A behaviour is a behaviour of one of them, chosen at *)
(* the start; the others keep their initial state and owe no step.         *)
(***************************************************************************)
EXTENDS ThreadPool

VARIABLES which,
  slots, store, expected, expectedCount, flight, held, lastIssued, stopped, infrastructure,
  loop, identity, kernel, uses, pipe, pc, batch, l_mode, stopper, own, handles,
  a_queue, closed, disabled, exists, offer, take, counters, writer, waits, left, hand,
  report, holds, tries, fate, faults,
  transport, conn, y_store, y_queue, running, finished, hint, listening, round, pending,
  tasks, answer, recovery, submitted, answered, y_faults

R == INSTANCE RequestReactor WITH
  Slots <- {"s1"}, Sequences <- {"q1", "q2"}, Domains <- {"auth", "stat"},
  StoreCapacity <- 2, ClientLimit <- 2, CleanupSlots <- 1, MkdirEnabled <- TRUE,
  MaxInstances <- 3, MaxGeneration <- 2

L == INSTANCE EventLoop WITH
  mode <- l_mode, Fds <- {1}, Interests <- {"READ"}, RegistrationCapacity <- 1,
  EventCapacity <- 2, SERIAL_MAX <- 3, IdMax <- 1, PipeMax <- 1, WakeChunk <- 1, MaxUses <- 2

A == INSTANCE FailureAudit WITH
  queue <- a_queue, Events <- {"e1", "e2"}, Reactor <- {"e1"}, Capacity <- 1,
  Burst <- 1, Interval <- 2, MaxFaults <- 3

Y == INSTANCE AsyncService WITH
  store <- y_store, queue <- y_queue, faults <- y_faults, Clients <- {1, 2},
  MaxFrames <- 2, Connections <- 2, StoreCapacity <- 2, ClientLimit <- 2,
  QueueCapacity <- 1, MaxItems <- 2, BatchFrames <- 1, WriteHigh <- 1,
  WriteCapacity <- 2, CleanupSlots <- 1, Closable <- {1}, MaxSent <- 2, MaxFaults <- 1

tpVars == <<queue, mode, configured, startAttempted, stopRequested, enabled, retiring,
            freed, mutexReady, condReady, created, joined, control, cursor, wpc, wtask,
            wresult, executed, returned, dropped, accepted>>
rVars == <<slots, store, expected, expectedCount, flight, held, lastIssued, stopped,
           infrastructure>>
lVars == <<loop, identity, kernel, uses, pipe, pc, batch, l_mode, stopper, own, handles>>
aVars == <<a_queue, closed, disabled, exists, offer, take, counters, writer, waits, left,
           hand, report, holds, tries, fate, faults>>
yVars == <<transport, conn, y_store, y_queue, running, finished, hint, listening, round,
           pending, tasks, answer, recovery, submitted, answered, y_faults>>
all == <<which, tpVars, rVars, lVars, aVars, yVars>>

MCInit ==
  /\ which \in {"pool", "reactor", "loop", "audit", "async"}
  /\ Init /\ R!Init /\ L!Init /\ A!Init /\ Y!Init
  /\ transport = "tls" => which = "async"

PoolNext == which = "pool" /\ Next /\ UNCHANGED <<which, rVars, lVars, aVars, yVars>>
ReactorNext == which = "reactor" /\ R!Next /\ UNCHANGED <<which, tpVars, lVars, aVars, yVars>>
LoopNext == which = "loop" /\ L!Next /\ UNCHANGED <<which, tpVars, rVars, aVars, yVars>>
AuditNext == which = "audit" /\ A!Next /\ UNCHANGED <<which, tpVars, rVars, lVars, yVars>>
AsyncNext == which = "async" /\ Y!Next /\ UNCHANGED <<which, tpVars, rVars, lVars, aVars>>

MCNext == PoolNext \/ ReactorNext \/ LoopNext \/ AuditNext \/ AsyncNext

\* The fairness of the modules, each in its own behaviours.
MCFairness ==
  /\ WF_tpVars(which = "pool" /\ ControlStep)
  /\ \A w \in Workers : WF_tpVars(which = "pool" /\ WorkerStep(w))
  /\ WF_rVars(which = "reactor" /\ R!CleanupTurn("s1"))
  /\ WF_rVars(which = "reactor" /\ stopped /\ R!Close("s1"))
  /\ \A n \in 1..3 :
       WF_rVars(which = "reactor" /\ \E r \in flight : r.instance = n /\ R!Complete(r))
  /\ \A d \in {"auth", "stat"} : WF_rVars(which = "reactor" /\ R!FinishHeld(d))
  /\ WF_lVars(which = "loop" /\ L!Loop)
  /\ WF_aVars(which = "audit" /\ A!Tick)
  /\ WF_aVars(which = "audit" /\ A!Write)
  /\ WF_aVars(which = "audit" /\ A!start)
  /\ WF_aVars(which = "audit" /\ A!join)
  /\ WF_yVars(which = "async" /\ Y!Worker)
  /\ WF_yVars(which = "async" /\ Y!RoundStep(Y!OK, Y!OK, Y!OK, Y!OK))
  /\ WF_yVars(which = "async" /\ Y!OwnersStep(Y!OK, Y!OK))
  /\ \A c \in {1, 2} :
       SF_yVars(which = "async" /\ Y!RecoverStep(c, Y!OK, Y!OK, Y!OK))

MCSpec == MCInit /\ [][MCNext]_all /\ MCFairness

-----------------------------------------------------------------------------
(* thread_pool.c: every accepted task is in one place, no worker outlives   *)
(* the pool, a drained pool that was joined has executed everything, and a  *)
(* begun shutdown ends although workers wait for wake-ups and tasks.        *)
PoolEnds ==
  [](TasksAccounted /\ PoolOutlivesWorkers /\ DrainedAtJoin) /\ JoinTerminates

(* The reactors: every accepted request leaves the expected table, and a    *)
(* closing slot is released by its bounded cleanup turns.                   *)
RequestsEnd == R!EveryRequestEnds /\ R!ClosingIsReleased

(* event_loop.c, request_stop: a stop ends a loop that waits for ever.      *)
StopEndsRun == L!StopEndsRun

(* auth_failure_audit.c, auth_failure_writer.c: every offered event is      *)
(* counted once and in the right place, what is queued is taken or          *)
(* discarded, and closing ends the writer.                                  *)
QueueMoves == []A!EveryEventCounted /\ A!QueueMoves

(* async_service.c and its heads, submissions and completions: no failure   *)
(* makes the service submit a frame or queue an answer twice, leaves a      *)
(* record without work, or leaves records of a terminated client.           *)
OnceEach == Y!OnceEach /\ Y!NoOrphanRecord /\ Y!TerminatedClean

(* Every frame of an admitted client is answered or the client terminated,  *)
(* however the rounds are cut short.                                        *)
Served == Y!Served
=============================================================================
