---------------------------- MODULE RuntimeChain ----------------------------
(***************************************************************************)
(* The chain of worker runtimes, app/auth_worker_runtime.c and             *)
(* app/directory_{stat,root,list,mkdir,move,remove}_worker_runtime.c.      *)
(* Each runtime handles one kind of task (AUTH: four operations, one here) *)
(* and hands the others to the runtime below it.  Worker threads enter at  *)
(* the top of the chain.  A failure is latched in the atomic fault word of *)
(* its stage, which every later entry reads and the supervisor samples:    *)
(* from then on no task is executed and the process ends.  The threads     *)
(* share nothing but these words.                                          *)
(***************************************************************************)
EXTENDS Integers, FiniteSets

CONSTANTS
    Threads,     \* workers of the pool
    Tasks,       \* tasks, each taken by one worker
    Layouts,     \* configurations: per stage its operation and its queue
    Attempts     \* destroy_attempts, at most 16

Stages == 1 .. 7     \* AUTH, STAT, ROOT, LIST, MKDIR, MOVE, REMOVE
Bits == {"DISPATCH", "CREATE", "TASK", "CLEANUP", "PUBLISH", "RESIDUAL"}

VARIABLES
    layout,    \* the configuration
    chain,     \* stages initialised so far
    refused,   \* an init returned an error: the process does not start
    faults,    \* per stage, its latched bits
    thread,    \* per worker: where it is, its task, stage and destroy attempts
    kind,      \* per task, the stage it was created for (0: an unknown operation)
    queued,    \* per task, the queue its completion was published to (0: none)
    done,      \* tasks whose execution has returned
    exited     \* _Exit was called

vars == <<layout, chain, refused, faults, thread, kind, queued, done, exited>>

-----------------------------------------------------------------------------
Resting == [pc |-> "idle", task |-> 0, stage |-> 0, attempts |-> 0]

Init ==
    /\ layout \in Layouts
    /\ chain = 0
    /\ refused = FALSE
    /\ faults = [s \in Stages |-> {}]
    /\ thread = [t \in Threads |-> Resting]
    /\ kind \in [Tasks -> Stages \cup {0}]
    /\ queued = [n \in Tasks |-> 0]
    /\ done = {}
    /\ exited = FALSE

\* inspect_faults collects the words of the stage and of all stages below it.
inspect_faults(s) == UNION {faults[j] : j \in 1 .. s}

latch(s, bits) == faults' = [faults EXCEPT ![s] = @ \cup bits]

Operation(s) == layout[s].operation
OperationOf(n) == IF kind[n] = 0 THEN 0 ELSE Operation(kind[n])

-----------------------------------------------------------------------------
(* Building the chain *)

\* A stage shares neither its operation nor its queue with a stage below it.
Admissible(s) ==
    \A j \in 1 .. s - 1 : Operation(s) # Operation(j) /\ layout[s].queue # layout[j].queue

\* An invalid stage, or one above a stage that has failed, is refused.
initialize(s) ==
    /\ chain = s - 1 /\ ~refused
    /\ IF Admissible(s) /\ inspect_faults(s - 1) = {}
       THEN chain' = s /\ UNCHANGED refused
       ELSE refused' = TRUE /\ UNCHANGED chain
    /\ UNCHANGED <<layout, faults, thread, kind, queued, done, exited>>

auth_init == initialize(1)
stat_init == initialize(2)
root_init == initialize(3)
list_init == initialize(4)
mkdir_init == initialize(5)
move_init == initialize(6)
remove_init == initialize(7)

-----------------------------------------------------------------------------
(* Executing a task *)

Top == 7
Running == chain = Top /\ ~exited

\* A worker enters with a task that nobody has taken.
Take(t, n) ==
    /\ Running
    /\ thread[t].pc = "idle"
    /\ n \notin done /\ \A u \in Threads : thread[u].task # n
    /\ thread' = [thread EXCEPT ![t] = [Resting EXCEPT !.pc = "enter", !.task = n, !.stage = Top]]
    /\ UNCHANGED <<layout, chain, refused, faults, kind, queued, done, exited>>

Return(t) ==
    /\ thread' = [thread EXCEPT ![t] = Resting]
    /\ done' = done \cup {thread[t].task}
    /\ UNCHANGED <<layout, chain, refused, kind, queued, exited>>

At(t, pc) == ~exited /\ thread[t].pc = pc

\* CANCELLED: a fault of this stage or of one below it is already known.
Cancelled(t) ==
    /\ At(t, "enter")
    /\ inspect_faults(thread[t].stage) # {}
    /\ Return(t)
    /\ UNCHANGED faults

Healthy(t) == At(t, "enter") /\ inspect_faults(thread[t].stage) = {}

\* The task cannot be inspected, or no stage of the chain knows its operation.
Undispatched(t) ==
    /\ Healthy(t) /\ thread[t].stage > 1
    /\ latch(thread[t].stage, {"DISPATCH"})
    /\ Return(t)

Belongs(t, s) == OperationOf(thread[t].task) = Operation(s)
Below(t) == \E j \in 1 .. thread[t].stage - 1 : Belongs(t, j)

\* Operations of the stages below go down one stage, which looks again.
previous_execute(t) ==
    /\ Healthy(t) /\ Below(t)
    /\ thread' = [thread EXCEPT ![t].stage = @ - 1]
    /\ UNCHANGED <<layout, chain, refused, faults, kind, queued, done, exited>>

\* The worker object of the stage is created, or the stage fails for good.
create(t) ==
    /\ Healthy(t) /\ ~Below(t) /\ Belongs(t, thread[t].stage)
    /\ \/ /\ thread' = [thread EXCEPT ![t].pc = "run"]
          /\ UNCHANGED <<layout, chain, refused, faults, kind, queued, done, exited>>
       \/ /\ latch(thread[t].stage, {"CREATE"})
          /\ Return(t)

\* Mutant: a completion that did not reach its queue is no fault.
RunBitsLenient(validated, clean, published) ==
    (IF validated THEN {} ELSE {"TASK"}) \cup (IF clean THEN {} ELSE {"CLEANUP"})

\* What the report of a run latches.
RunBits(validated, clean, published) ==
    (IF validated THEN {} ELSE {"TASK"}) \cup
    (IF clean THEN {} ELSE {"CLEANUP"}) \cup
    (IF published THEN {} ELSE {"PUBLISH"})

\* An invalid task is not executed, and pending cleanup blocks the publication.
run(t) ==
    /\ At(t, "run")
    /\ \E validated, clean, published \in BOOLEAN :
          /\ published => validated
          /\ latch(thread[t].stage, RunBits(validated, clean, published))
          /\ queued' = IF published
                       THEN [queued EXCEPT ![thread[t].task] = layout[thread[t].stage].queue]
                       ELSE queued
    /\ thread' = [thread EXCEPT ![t].pc = "destroy"]
    /\ UNCHANGED <<layout, chain, refused, kind, done, exited>>

\* The worker object is destroyed by the thread that created it.
destroy(t) ==
    /\ At(t, "destroy") /\ thread[t].attempts < Attempts
    /\ \/ /\ Return(t)
          /\ \E bits \in {{}, {"CLEANUP"}} : latch(thread[t].stage, bits)
       \/ /\ latch(thread[t].stage, {"CLEANUP"})
          /\ thread' = [thread EXCEPT ![t].attempts = @ + 1]
          /\ UNCHANGED <<layout, chain, refused, kind, queued, done, exited>>

\* What still cannot be destroyed ends the process at once.
residual(t) ==
    /\ At(t, "destroy") /\ thread[t].attempts = Attempts
    /\ latch(thread[t].stage, {"RESIDUAL"})
    /\ exited' = TRUE
    /\ UNCHANGED <<layout, chain, refused, thread, kind, queued, done>>

execute(t, s) ==
    /\ thread[t].stage = s
    /\ \/ Cancelled(t) \/ Undispatched(t) \/ previous_execute(t) \/ create(t)
       \/ run(t) \/ destroy(t) \/ residual(t)

auth_execute(t) == execute(t, 1)
stat_execute(t) == execute(t, 2)
root_execute(t) == execute(t, 3)
list_execute(t) == execute(t, 4)
mkdir_execute(t) == execute(t, 5)
move_execute(t) == execute(t, 6)
remove_execute(t) == execute(t, 7)

Next ==
    \/ auth_init \/ stat_init \/ root_init \/ list_init \/ mkdir_init \/ move_init \/ remove_init
    \/ \E t \in Threads :
          \/ \E n \in Tasks : Take(t, n)
          \/ auth_execute(t) \/ stat_execute(t) \/ root_execute(t) \/ list_execute(t)
          \/ mkdir_execute(t) \/ move_execute(t) \/ remove_execute(t)

Spec == Init /\ [][Next]_vars

-----------------------------------------------------------------------------
(* Properties *)

\* A task that was executed and left no completion, so that its client would
\* wait for nothing, has left a fault that the supervisor sees at the top of
\* the chain, wherever and next to whichever other task it failed.
NoSilentTask ==
    \A n \in done : queued[n] # 0 \/ inspect_faults(Top) # {}

\* In a chain that was built, every task is run by the stage it was created
\* for and its completion reaches only that stage's queue, although the stages
\* are configured one by one and each asks only the ones below it.
OwnStage ==
    \A t \in Threads : thread[t].pc \in {"run", "destroy"} =>
        /\ kind[thread[t].task] = thread[t].stage
        /\ \A s \in Stages \ {thread[t].stage} : layout[s].queue # layout[thread[t].stage].queue

=============================================================================
