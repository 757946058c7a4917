----------------------------- MODULE TaskChannel -----------------------------
(***************************************************************************)
(* What the task queue of src/thread/task_queue.c promises to its callers, *)
(* without the ring, the mutex and the condition variable: a bounded       *)
(* channel that hands every accepted task to exactly one taker, in the     *)
(* order of acceptance, and whose first close mode is permanent.           *)
(***************************************************************************)
EXTENDS Naturals, Sequences

CONSTANTS
    Capacity,   \* number of slots fixed at creation
    Tasks,      \* task objects that can be submitted
    NoTask,     \* an empty owner pointer
    Callers,    \* threads that use the try_ operations
    Workers     \* threads that loop in wait_pop

Threads == Callers \cup Workers

Modes == {"OPEN", "DRAIN", "CANCEL_PENDING"}

VARIABLES
    accepted,   \* every task the channel ever took over, in order
    taken,      \* how many of them it has handed out
    mode,       \* OPEN, or the close mode chosen first
    hand,       \* the task each thread got from its last call
    gone        \* TRUE once the channel has been destroyed

vars == <<accepted, taken, mode, hand, gone>>

Accepted == {accepted[i] : i \in 1..Len(accepted)}

Depth == Len(accepted) - taken

Init ==
    /\ accepted = <<>>
    /\ taken = 0
    /\ mode = "OPEN"
    /\ hand = [t \in Threads |-> NoTask]
    /\ gone = FALSE

(* A new task is accepted only while the channel is open and not full.     *)
Accept(k) ==
    /\ ~gone /\ mode = "OPEN" /\ Depth < Capacity
    /\ k \notin Accepted
    /\ accepted' = Append(accepted, k)
    /\ UNCHANGED <<taken, mode, hand, gone>>

(* The oldest task goes to one thread.  Workers never get a task once the  *)
(* pending tasks have been cancelled; before that nobody can take them     *)
(* back.                                                                   *)
Deliver(t) ==
    /\ ~gone /\ Depth > 0
    /\ t \in Workers => mode # "CANCEL_PENDING"
    /\ hand' = [hand EXCEPT ![t] = accepted[taken + 1]]
    /\ taken' = taken + 1
    /\ UNCHANGED <<accepted, mode, gone>>

(* The caller is done with the task it got.                                *)
Forget(t) ==
    /\ hand' = [hand EXCEPT ![t] = NoTask]
    /\ UNCHANGED <<accepted, taken, mode, gone>>

Close(m) ==
    /\ ~gone /\ mode = "OPEN" /\ m # "OPEN"
    /\ mode' = m
    /\ UNCHANGED <<accepted, taken, hand, gone>>

(* Destroying the channel never loses a task.                              *)
Destroy ==
    /\ ~gone /\ Depth = 0
    /\ gone' = TRUE
    /\ UNCHANGED <<accepted, taken, mode, hand>>

Next ==
    \/ \E k \in Tasks : Accept(k)
    \/ \E t \in Threads : Deliver(t) \/ Forget(t)
    \/ \E m \in Modes : Close(m)
    \/ Destroy

Spec == Init /\ [][Next]_vars
==============================================================================
