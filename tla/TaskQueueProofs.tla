-------------------------- MODULE TaskQueueProofs ----------------------------
(***************************************************************************)
(* Proofs about TaskQueue for every capacity, every set of threads and     *)
(* tasks and every set of pthread faults.                                  *)
(***************************************************************************)
EXTENDS TaskQueue, FiniteSetTheorems, TLAPS

PCs == Kinds \cup {"idle", "lock", "check", "wait", "relock", "exited"}

(* The constants a proof about one step needs.                             *)
USE CapacityAssumption, CounterAssumption, TaskAssumption, ThreadAssumption

------------------------------------------------------------------------------
(* Type correctness.                                                       *)

LEMMA LeaveType ==
    ASSUME TypeOK, NEW t \in Threads, NEW r \in Results, NEW woken,
           Leave(t, r, woken)
    PROVE  /\ mutex' \in {Free, Stuck}
           /\ ret' \in [Threads -> Results]
           /\ pc' \in [Threads -> PCs]
BY DEF TypeOK, Leave, Results, PCs, Kinds

LEMMA TakeHeadType ==
    ASSUME TypeOK, NEW t \in Threads, count # 0, TakeHead(t)
    PROVE  /\ slots' \in [Slots -> Tasks \cup {NoTask}]
           /\ head' \in Slots /\ tail' \in Slots /\ count' \in 0..Capacity
           /\ hand' \in [Threads -> Tasks \cup {NoTask}]
           /\ accepted' \in Seq(Tasks) /\ taken' \in Nat
BY DEF TypeOK, TakeHead, Wrap, Slots

LEMMA TakeNothingType ==
    ASSUME TypeOK, NEW t \in Threads, TakeNothing(t)
    PROVE  /\ slots' \in [Slots -> Tasks \cup {NoTask}]
           /\ head' \in Slots /\ tail' \in Slots /\ count' \in 0..Capacity
           /\ hand' \in [Threads -> Tasks \cup {NoTask}]
           /\ accepted' \in Seq(Tasks) /\ taken' \in Nat
BY DEF TypeOK, TakeNothing, ring, history

LEMMA TypeStep == TypeOK /\ [Next]_vars => TypeOK'
<1> SUFFICES ASSUME TypeOK, [Next]_vars PROVE TypeOK'
  OBVIOUS
<1> Threads = Callers \cup Workers
  BY DEF Threads
<1>1. ASSUME NEW t \in Callers, Refuse(t) PROVE TypeOK'
  BY <1>1 DEF Refuse, TypeOK, Results, ring, metrics, history
<1>2. ASSUME NEW t \in Callers, NEW kind \in Kinds, TryLock(t, kind) PROVE TypeOK'
  BY <1>2 DEF TryLock, TypeOK, ring, metrics, history
<1>3. ASSUME NEW t \in Callers, PushRefused(t) PROVE TypeOK'
  <2>1. /\ highWatermark' \in 0..Capacity
        /\ fullRejections' \in 0..CounterMax /\ closedRejections' \in 0..CounterMax
        /\ saturated' \in BOOLEAN
    <3>1. CASE CountClosed
      BY <3>1 DEF CountClosed, TypeOK
    <3>2. CASE CountFull
      BY <3>2 DEF CountFull, TypeOK
    <3> QED
      BY <1>3, <3>1, <3>2 DEF PushRefused
  <2>2. /\ mutex' \in {Free, Stuck}
        /\ ret' \in [Threads -> Results]
        /\ pc' \in [Threads -> PCs]
    BY <1>3, LeaveType DEF PushRefused, Results
  <2> QED
    BY <1>3, <2>1, <2>2, TakeNothingType DEF PushRefused, TypeOK, PCs
<1>4. ASSUME NEW t \in Callers, NEW k \in Tasks, PushAccepted(t, k) PROVE TypeOK'
  <2>1. /\ slots' \in [Slots -> Tasks \cup {NoTask}]
        /\ tail' \in Slots /\ count' \in 0..Capacity
        /\ highWatermark' \in 0..Capacity
        /\ accepted' \in Seq(Tasks)
    BY <1>4 DEF PushAccepted, RaiseWatermark, TypeOK, Wrap, Slots
  <2>2. /\ mutex' \in {Free, Stuck}
        /\ ret' \in [Threads -> Results]
        /\ pc' \in [Threads -> PCs]
    BY <1>4, LeaveType DEF PushAccepted, PushWake, Results
  <2> QED
    BY <1>4, <2>1, <2>2 DEF PushAccepted, TypeOK, PCs
<1>5. ASSUME NEW t \in Callers, TryPop(t) PROVE TypeOK'
  BY <1>5, LeaveType, TakeNothingType, TakeHeadType
     DEF TryPop, TypeOK, Results, PCs, metrics
<1>6. ASSUME NEW t \in Callers, TryTakeCancelled(t) PROVE TypeOK'
  BY <1>6, LeaveType, TakeNothingType, TakeHeadType
     DEF TryTakeCancelled, TypeOK, Results, PCs, metrics
<1>7. ASSUME NEW t \in Callers, CloseQueue(t) PROVE TypeOK'
  BY <1>7, LeaveType
     DEF CloseQueue, ModeAfter, TypeOK, Results, PCs, Modes, ring, metrics, history
<1>8. ASSUME NEW t \in Callers, Inspect(t) PROVE TypeOK'
  BY <1>8, LeaveType DEF Inspect, TypeOK, Results, PCs, ring, metrics, history
<1>9. ASSUME NEW w \in Workers, WaitPopCall(w) PROVE TypeOK'
  BY <1>9 DEF WaitPopCall, TypeOK, Results, ring, metrics, history
<1>10. ASSUME NEW w \in Workers, WaitPopLock(w) PROVE TypeOK'
  BY <1>10 DEF WaitPopLock, TypeOK, ring, metrics, history
<1>11. ASSUME NEW w \in Workers, WaitPopSleep(w) PROVE TypeOK'
  BY <1>11, LeaveType DEF WaitPopSleep, TypeOK, Results, PCs, ring, metrics, history
<1>12. ASSUME NEW w \in Workers, WaitPopReturn(w) PROVE TypeOK'
  BY <1>12, LeaveType, TakeNothingType, TakeHeadType
     DEF WaitPopReturn, WaitPopCancels, TypeOK, Results, PCs, metrics
<1>13. ASSUME NEW w \in Workers, SpuriousWakeup(w) PROVE TypeOK'
  BY <1>13 DEF SpuriousWakeup, TypeOK, ring, metrics, history
<1>14. ASSUME PrepareWait PROVE TypeOK'
  BY <1>14 DEF PrepareWait, TypeOK, ring, metrics, history
<1>15. ASSUME Destroy PROVE TypeOK'
  BY <1>15 DEF Destroy, TypeOK, Results, ring, metrics, history
<1>16. ASSUME DestroyRefused PROVE TypeOK'
  BY <1>16 DEF DestroyRefused, TypeOK, Results, ring, metrics, history
<1>17. ASSUME UNCHANGED vars PROVE TypeOK'
  BY <1>17 DEF vars, TypeOK, ring, metrics, history
<1> QED
  BY <1>1, <1>2, <1>3, <1>4, <1>5, <1>6, <1>7, <1>8, <1>9, <1>10, <1>11, <1>12,
     <1>13, <1>14, <1>15, <1>16, <1>17 DEF Next, CallerBody, WorkerBody

LEMMA TypeInit == Init => TypeOK
<1> SUFFICES ASSUME Init PROVE TypeOK
  OBVIOUS
<1>1. accepted \in Seq(Tasks)
  BY DEF Init
<1>2. 0 \in Slots /\ 0 \in 0..Capacity /\ 0 \in 0..CounterMax
  BY DEF Slots
<1> QED
  BY <1>1, <1>2 DEF Init, TypeOK, Modes, Results

(* Every reachable state has the type the struct of                        *)
(* task_queue_internal.h and the two index invariants of transfer give it: *)
(* indices inside the ring, count within capacity, counters that saturate  *)
(* instead of wrapping.                                                    *)
THEOREM TypeCorrect == Spec => []TypeOK
BY TypeInit, TypeStep, PTL DEF Spec

------------------------------------------------------------------------------
(* The ring.                                                               *)

(* Distances from head inside the ring name distinct slots.                *)
LEMMA AtDistinct ==
    ASSUME TypeOK, NEW i \in Slots, NEW j \in Slots
    PROVE  /\ At(i) \in Slots
           /\ At(i) = At(j) => i = j
BY DEF TypeOK, At, Slots

LEMMA RingTake ==
    ASSUME TypeOK, RingHoldsBacklog, NEW t \in Threads, count # 0, TakeHead(t)
    PROVE  /\ RingHoldsBacklog'
           /\ slots[head] = accepted[taken + 1]
           /\ taken < Len(accepted)
<1>1. /\ At(0) = head /\ 0 \in 0..(count - 1)
      /\ count - 1 \in Nat /\ count' = count - 1 /\ taken' = taken + 1
      /\ accepted' = accepted /\ tail' = tail
      /\ Len(accepted) \in Nat
  BY DEF TypeOK, TakeHead, At, Slots
<1>2. \A i \in 0..(Capacity - 2) : At(i)' = At(i + 1)
  BY DEF TypeOK, TakeHead, At, Wrap, Slots
<1>3. At(Capacity - 1)' = At(0)
  BY DEF TypeOK, TakeHead, At, Wrap, Slots
<1>4. taken' + count' = Len(accepted')
  BY <1>1 DEF RingHoldsBacklog, TypeOK
<1>5. tail' = At(count)'
  <2>1. /\ head \in Nat /\ head < Capacity /\ count \in Nat /\ count <= Capacity
        /\ head' = IF head = Capacity - 1 THEN 0 ELSE head + 1
        /\ Capacity \in Nat /\ count > 0
    BY DEF TypeOK, TakeHead, Wrap, Slots
  <2>2. tail = IF head + count < Capacity THEN head + count ELSE head + count - Capacity
    BY DEF RingHoldsBacklog, At
  <2>3. At(count)' = IF head' + count' < Capacity THEN head' + count'
                                                 ELSE head' + count' - Capacity
    BY DEF At
  <2> QED
    BY <1>1, <2>1, <2>2, <2>3
<1>6. ASSUME NEW i \in 0..(count' - 1)
      PROVE  slots'[At(i)'] = accepted'[taken' + i + 1]
  <2>1. /\ i \in 0..(Capacity - 2) /\ i + 1 \in 0..(count - 1) /\ i + 1 \in Slots
        /\ 0 \in Slots
    BY <1>1 DEF TypeOK, Slots
  <2>2. At(i + 1) # head /\ At(i + 1) \in Slots
    BY <1>1, <2>1, AtDistinct
  <2>3. slots'[At(i)'] = slots[At(i + 1)]
    BY <1>2, <2>1, <2>2 DEF TakeHead, TypeOK
  <2>4. slots[At(i + 1)] = accepted[taken + (i + 1) + 1]
    BY <2>1 DEF RingHoldsBacklog
  <2> QED
    BY <1>1, <2>3, <2>4 DEF TypeOK
<1>7. ASSUME NEW i \in count'..(Capacity - 1)
      PROVE  slots'[At(i)'] = NoTask
  <2>1. CASE i = Capacity - 1
    BY <1>1, <1>3, <2>1 DEF TakeHead, TypeOK
  <2>2. CASE i # Capacity - 1
    <3>1. /\ i \in 0..(Capacity - 2) /\ i + 1 \in count..(Capacity - 1)
          /\ i + 1 \in Slots /\ 0 \in Slots
      BY <1>1, <2>2 DEF TypeOK, Slots
    <3>2. At(i + 1) # head /\ At(i + 1) \in Slots
      BY <1>1, <3>1, AtDistinct
    <3>3. slots'[At(i)'] = slots[At(i + 1)]
      BY <1>2, <3>1, <3>2 DEF TakeHead, TypeOK
    <3> QED
      BY <3>1, <3>3 DEF RingHoldsBacklog
  <2> QED
    BY <2>1, <2>2
<1>8. slots[head] = accepted[taken + 1] /\ taken < Len(accepted)
  BY <1>1 DEF RingHoldsBacklog, TypeOK
<1>9. RingHoldsBacklog'
  BY <1>4, <1>5, <1>6, <1>7 DEF RingHoldsBacklog
<1> QED
  BY <1>8, <1>9

LEMMA RingPush ==
    ASSUME TypeOK, RingHoldsBacklog, NEW t \in Callers, NEW k \in Tasks,
           PushAccepted(t, k)
    PROVE  RingHoldsBacklog'
<1>1. /\ count \in Slots /\ count' = count + 1 /\ taken' = taken /\ head' = head
      /\ tail' = Wrap(tail) /\ slots' = [slots EXCEPT ![tail] = k]
      /\ accepted' = Append(accepted, k)
      /\ Len(accepted) \in Nat /\ taken \in Nat /\ count \in Nat
  BY DEF TypeOK, PushAccepted, Slots
<1>2. /\ Len(accepted') = Len(accepted) + 1
      /\ accepted'[Len(accepted) + 1] = k
      /\ \A i \in 1..Len(accepted) : accepted'[i] = accepted[i]
  BY <1>1 DEF TypeOK
<1>3. \A i : At(i)' = At(i)
  BY <1>1 DEF At
<1>4. taken' + count' = Len(accepted')
  BY <1>1, <1>2 DEF RingHoldsBacklog
<1>5. tail' = At(count)'
  <2>1. /\ head \in Nat /\ head < Capacity /\ count < Capacity /\ Capacity \in Nat
        /\ tail' = IF tail = Capacity - 1 THEN 0 ELSE tail + 1
    BY <1>1 DEF TypeOK, Wrap, Slots
  <2>2. tail = IF head + count < Capacity THEN head + count ELSE head + count - Capacity
    BY DEF RingHoldsBacklog, At
  <2>3. At(count)' = IF head' + count' < Capacity THEN head' + count'
                                                 ELSE head' + count' - Capacity
    BY DEF At
  <2> QED
    BY <1>1, <2>1, <2>2, <2>3
<1>6. ASSUME NEW i \in 0..(count' - 1)
      PROVE  slots'[At(i)'] = accepted'[taken' + i + 1]
  <2>1. CASE i = count
    BY <1>1, <1>2, <1>3, <2>1 DEF RingHoldsBacklog, TypeOK
  <2>2. CASE i # count
    <3>1. /\ i \in 0..(count - 1) /\ i \in Slots
          /\ taken + i + 1 \in 1..Len(accepted)
      BY <1>1, <2>2 DEF RingHoldsBacklog, Slots
    <3>2. At(i) # tail /\ At(i) \in Slots
      BY <1>1, <2>2, <3>1, AtDistinct DEF RingHoldsBacklog
    <3> QED
      BY <1>1, <1>2, <1>3, <3>1, <3>2 DEF RingHoldsBacklog, TypeOK
  <2> QED
    BY <2>1, <2>2
<1>7. ASSUME NEW i \in count'..(Capacity - 1)
      PROVE  slots'[At(i)'] = NoTask
  <2>1. i \in count..(Capacity - 1) /\ i \in Slots /\ i # count
    BY <1>1 DEF Slots
  <2>2. At(i) # tail /\ At(i) \in Slots
    BY <1>1, <2>1, AtDistinct DEF RingHoldsBacklog
  <2> QED
    BY <1>1, <1>3, <2>1, <2>2 DEF RingHoldsBacklog, TypeOK
<1> QED
  BY <1>4, <1>5, <1>6, <1>7 DEF RingHoldsBacklog

LEMMA RingSame ==
    ASSUME RingHoldsBacklog, UNCHANGED <<ring, history>>
    PROVE  RingHoldsBacklog'
BY DEF RingHoldsBacklog, ring, history, At

LEMMA RingStep == TypeOK /\ RingHoldsBacklog /\ [Next]_vars => RingHoldsBacklog'
<1> SUFFICES ASSUME TypeOK, RingHoldsBacklog, [Next]_vars PROVE RingHoldsBacklog'
  OBVIOUS
<1>1. ASSUME NEW t \in Threads, TakeNothing(t) PROVE RingHoldsBacklog'
  BY <1>1, RingSame DEF TakeNothing
<1>2. ASSUME NEW t \in Callers, CallerBody(t) PROVE RingHoldsBacklog'
  <2> t \in Threads
    BY DEF Threads
  <2>1. CASE PushRefused(t)
    BY <2>1, <1>1 DEF PushRefused
  <2>2. ASSUME NEW k \in Tasks, PushAccepted(t, k) PROVE RingHoldsBacklog'
    BY <2>2, RingPush
  <2>3. CASE TryPop(t)
    BY <2>3, <1>1, RingTake DEF TryPop
  <2>4. CASE TryTakeCancelled(t)
    BY <2>4, <1>1, RingTake DEF TryTakeCancelled
  <2>5. CASE CloseQueue(t)
    BY <2>5, RingSame DEF CloseQueue
  <2>6. CASE Inspect(t)
    BY <2>6, RingSame DEF Inspect
  <2> QED
    BY <1>2, <2>1, <2>2, <2>3, <2>4, <2>5, <2>6 DEF CallerBody
<1>3. ASSUME NEW t \in Callers, Refuse(t) \/ \E kind \in Kinds : TryLock(t, kind)
      PROVE RingHoldsBacklog'
  BY <1>3, RingSame DEF Refuse, TryLock
<1>4. ASSUME NEW w \in Workers, WaitPopReturn(w) PROVE RingHoldsBacklog'
  BY <1>4, <1>1, RingTake DEF WaitPopReturn, WaitPopCancels, Threads
<1>5. ASSUME NEW w \in Workers,
             WaitPopCall(w) \/ WaitPopLock(w) \/ WaitPopSleep(w) \/ SpuriousWakeup(w)
      PROVE RingHoldsBacklog'
  BY <1>5, RingSame DEF WaitPopCall, WaitPopLock, WaitPopSleep, SpuriousWakeup
<1>6. CASE PrepareWait \/ Destroy \/ DestroyRefused \/ UNCHANGED vars
  BY <1>6, RingSame DEF PrepareWait, Destroy, DestroyRefused, vars
<1> QED
  BY <1>2, <1>3, <1>4, <1>5, <1>6 DEF Next, WorkerBody

LEMMA RingInit == Init => RingHoldsBacklog
<1> SUFFICES ASSUME Init PROVE RingHoldsBacklog
  OBVIOUS
<1>1. head = 0 /\ tail = 0 /\ count = 0 /\ taken = 0 /\ Len(accepted) = 0
  BY DEF Init
<1>2. \A i \in Slots : At(i) = i /\ slots[i] = NoTask
  BY DEF Init, At, Slots
<1> QED
  BY <1>1, <1>2 DEF RingHoldsBacklog, At, Slots

(* The ring always holds exactly the accepted and untaken tasks in order,  *)
(* whatever the interleaving and whichever pthread call fails.             *)
THEOREM RingCorrect == Spec => []RingHoldsBacklog
<1>1. Init => TypeOK /\ RingHoldsBacklog
  BY TypeInit, RingInit
<1>2. TypeOK /\ RingHoldsBacklog /\ [Next]_vars => (TypeOK /\ RingHoldsBacklog)'
  BY TypeStep, RingStep
<1> QED
  BY <1>1, <1>2, PTL DEF Spec

------------------------------------------------------------------------------
(* Destroy and the workers' exit.                                          *)

(* Once destroy has begun to tear the queue down nobody is inside it.      *)
QuietWhenRetiring ==
    freed \/ retiring => /\ \A t \in Callers : pc[t] = "idle"
                         /\ \A w \in Workers : pc[w] = "exited"

(* Inside wait_pop the condition variable exists.                          *)
WaitersPrepared ==
    \A w \in Workers :
        pc[w] \in {"lock", "check", "wait", "relock"} => waitPrepared

(* A worker that was told CANCELLED left a closed queue.                   *)
ExitClosed ==
    \A w \in Workers : pc[w] = "exited" /\ ret[w] = "CANCELLED" => state # "OPEN"

LifeInv == QuietWhenRetiring /\ WaitersPrepared /\ ExitClosed /\ DrainExit

(* What a critical section of a caller does to the other threads.          *)
LEMMA CallerLeave ==
    ASSUME TypeOK, NEW t \in Callers, NEW r \in Results, NEW woken \in SUBSET Sleepers,
           Leave(t, r, woken)
    PROVE  /\ pc'[t] = "idle"
           /\ \A u \in Threads \ ({t} \cup woken) : pc'[u] = pc[u]
           /\ \A u \in woken : pc'[u] = "relock"
           /\ \A w \in Workers : ret'[w] = ret[w]
           /\ Sleepers' = Sleepers \ woken
           /\ Woken' = Woken \cup woken
<1> /\ t \in Threads /\ t \notin Workers /\ Workers \subseteq Threads
    /\ Sleepers \subseteq Workers
  BY DEF Threads, Sleepers
<1>1. /\ pc' = [u \in Threads |-> IF u = t THEN "idle"
                                  ELSE IF u \in woken THEN "relock" ELSE pc[u]]
      /\ \E x : ret' = [ret EXCEPT ![t] = x]
  BY DEF Leave
<1>2. \A w \in Workers : ret'[w] = ret[w]
  BY <1>1 DEF TypeOK
<1>3. \A w \in Workers : pc'[w] = IF w \in woken THEN "relock" ELSE pc[w]
  BY <1>1
<1>4. Sleepers' = Sleepers \ woken
  BY <1>3 DEF Sleepers
<1>5. Woken' = Woken \cup woken
  BY <1>3 DEF Sleepers, Woken
<1> QED
  BY <1>1, <1>2, <1>4, <1>5

(* What a critical section of a worker does.                               *)
LEMMA WorkerLeave ==
    ASSUME TypeOK, NEW w \in Workers, pc[w] = "check", NEW r \in Results, Leave(w, r, {})
    PROVE  /\ \A u \in Threads \ {w} : pc'[u] = pc[u] /\ ret'[u] = ret[u]
           /\ pc'[w] \in {"idle", "exited"}
           /\ pc'[w] = "exited" /\ ret'[w] = "CANCELLED" => r = "CANCELLED"
           /\ Sleepers' = Sleepers
           /\ Woken' = Woken \ {w} /\ w \in Woken
<1> w \in Threads /\ Workers \subseteq Threads
  BY DEF Threads
<1>1. PICK x : /\ ret' = [ret EXCEPT ![w] = x]
               /\ x = "CANCELLED" => r = "CANCELLED"
               /\ pc' = [u \in Threads |->
                          IF u = w THEN IF x # "OK" THEN "exited" ELSE "idle"
                          ELSE pc[u]]
  <2>1. PICK m : /\ ret' = [ret EXCEPT ![w] = IF m = Stuck THEN "INTERNAL" ELSE r]
                 /\ pc' = [u \in Threads |->
                            IF u = w
                            THEN IF w \in Workers
                                    /\ (IF m = Stuck THEN "INTERNAL" ELSE r) # "OK"
                                 THEN "exited" ELSE "idle"
                            ELSE IF u \in {} THEN "relock" ELSE pc[u]]
    BY DEF Leave
  <2> WITNESS IF m = Stuck THEN "INTERNAL" ELSE r
  <2> QED
    BY <2>1
<1>2. /\ \A u \in Threads \ {w} : pc'[u] = pc[u] /\ ret'[u] = ret[u]
      /\ pc'[w] \in {"idle", "exited"}
      /\ pc'[w] = "exited" /\ ret'[w] = "CANCELLED" => r = "CANCELLED"
  BY <1>1 DEF TypeOK
<1>3. Sleepers' = Sleepers
  BY <1>2 DEF Sleepers
<1>4. Woken' = Woken \ {w} /\ w \in Woken
  BY <1>2 DEF Woken
<1> QED
  BY <1>2, <1>3, <1>4

LEMMA CallerLife ==
    ASSUME TypeOK, LifeInv, NEW t \in Callers, CallerBody(t)
    PROVE  LifeInv'
<1> /\ t \in Threads /\ t \notin Workers /\ Workers \subseteq Threads
    /\ Callers \subseteq Threads /\ {} \in SUBSET Sleepers
  BY DEF Threads
<1>1. pc[t] \in Kinds
  BY DEF CallerBody, PushRefused, PushAccepted, TryPop, TryTakeCancelled, CloseQueue,
         Inspect, Kinds
<1>2. ~freed /\ ~retiring
  BY <1>1 DEF LifeInv, QuietWhenRetiring, Kinds
<1>3. UNCHANGED <<freed, retiring, waitPrepared>>
  BY DEF CallerBody, PushRefused, PushAccepted, TryPop, TryTakeCancelled, CloseQueue,
         Inspect
<1>4. \E r \in Results, woken \in SUBSET Sleepers : Leave(t, r, woken)
  <2>1. \A w \in Sleepers : {w} \in SUBSET Sleepers
    OBVIOUS
  <2>2. \A m : (IF m = "DRAIN" THEN "CANCELLED" ELSE "NOT_FOUND") \in Results
    BY DEF Results
  <2>3. {"OK", "BUSY", "CANCELLED", "NOT_FOUND", "INTERNAL"} \subseteq Results
    BY DEF Results
  <2>4. CASE PushRefused(t)
    BY <2>3, <2>4 DEF PushRefused
  <2>5. CASE \E k \in Tasks : PushAccepted(t, k)
    BY <2>1, <2>3, <2>5 DEF PushAccepted, PushWake
  <2>6. CASE TryPop(t)
    BY <2>2, <2>3, <2>6 DEF TryPop
  <2>7. CASE TryTakeCancelled(t)
    BY <2>3, <2>7 DEF TryTakeCancelled
  <2>8. CASE CloseQueue(t)
    BY <2>3, <2>8 DEF CloseQueue, CloseWakes
  <2>9. CASE Inspect(t)
    BY <2>3, <2>9 DEF Inspect
  <2> QED
    BY <2>4, <2>5, <2>6, <2>7, <2>8, <2>9 DEF CallerBody
<1>5. \A w \in Workers : /\ ret'[w] = ret[w]
                         /\ pc'[w] = pc[w] \/ (pc[w] = "wait" /\ pc'[w] = "relock")
  BY <1>4, CallerLeave DEF Sleepers
<1>6. /\ state' = state \/ state = "OPEN"
      /\ state' = "OPEN" => state = "OPEN"
      /\ state # "OPEN" /\ count = 0 => count' = 0
  <2>1. CASE PushRefused(t)
    BY <2>1 DEF PushRefused, TakeNothing, ring
  <2>2. CASE \E k \in Tasks : PushAccepted(t, k)
    BY <2>2 DEF PushAccepted
  <2>3. CASE TryPop(t)
    BY <2>3 DEF TryPop, TakeNothing, ring
  <2>4. CASE TryTakeCancelled(t)
    BY <2>4 DEF TryTakeCancelled, TakeNothing, ring
  <2>5. CASE CloseQueue(t) \/ Inspect(t)
    BY <2>5 DEF CloseQueue, ModeAfter, Inspect, ring
  <2> QED
    BY <2>1, <2>2, <2>3, <2>4, <2>5 DEF CallerBody
<1>7. QuietWhenRetiring'
  BY <1>2, <1>3 DEF QuietWhenRetiring
<1>8. WaitersPrepared'
  BY <1>3, <1>5 DEF LifeInv, WaitersPrepared
<1>9. ExitClosed' /\ DrainExit'
  BY <1>5, <1>6 DEF LifeInv, ExitClosed, DrainExit
<1> QED
  BY <1>7, <1>8, <1>9 DEF LifeInv

LEMMA WorkerLife ==
    ASSUME TypeOK, LifeInv, NEW w \in Workers,
           WaitPopCall(w) \/ WaitPopLock(w) \/ WorkerBody(w) \/ SpuriousWakeup(w)
    PROVE  LifeInv'
<1> /\ w \in Threads /\ Workers \subseteq Threads /\ Callers \subseteq Threads
    /\ w \notin Callers
  BY DEF Threads
<1>1. /\ pc[w] # "exited" /\ ~freed /\ ~retiring
      /\ UNCHANGED <<freed, retiring, waitPrepared, state>>
  BY DEF WaitPopCall, WaitPopLock, WorkerBody, WaitPopSleep, WaitPopReturn,
         SpuriousWakeup, LifeInv, QuietWhenRetiring
<1>2. \A v \in Workers \ {w} : pc'[v] = pc[v] /\ ret'[v] = ret[v]
  BY WorkerLeave DEF WaitPopCall, WaitPopLock, WorkerBody, WaitPopSleep, WaitPopReturn,
                     SpuriousWakeup, TypeOK, Results
<1>3. pc'[w] \in {"lock", "check", "wait", "relock"} => waitPrepared
  BY WorkerLeave
     DEF WaitPopCall, WaitPopLock, WorkerBody, WaitPopSleep, WaitPopReturn,
         SpuriousWakeup, TypeOK, Results, LifeInv, WaitersPrepared
<1>4. count = 0 => count' = 0
  BY DEF WaitPopCall, WaitPopLock, WorkerBody, WaitPopSleep, WaitPopReturn,
         SpuriousWakeup, WaitPopCancels, TakeNothing, ring
<1>5. pc'[w] = "exited" /\ ret'[w] = "CANCELLED" =>
        state # "OPEN" /\ (state = "DRAIN" => count' = 0)
  <2>1. CASE WaitPopCall(w)
    BY <1>1, <2>1 DEF WaitPopCall, TypeOK
  <2>2. CASE WaitPopLock(w) \/ SpuriousWakeup(w)
    BY <2>2 DEF WaitPopLock, SpuriousWakeup, TypeOK
  <2>3. CASE WaitPopSleep(w)
    BY <2>3, WorkerLeave DEF WaitPopSleep, TypeOK, Results
  <2>4. CASE WaitPopReturn(w)
    BY <2>4, WorkerLeave DEF WaitPopReturn, WaitPopCancels, TypeOK, Results, TakeNothing, ring
  <2> QED
    BY <2>1, <2>2, <2>3, <2>4 DEF WorkerBody
<1>6. QuietWhenRetiring'
  BY <1>1 DEF QuietWhenRetiring
<1>7. WaitersPrepared'
  BY <1>1, <1>2, <1>3 DEF LifeInv, WaitersPrepared
<1>8. ExitClosed'
  BY <1>1, <1>2, <1>5 DEF LifeInv, ExitClosed
<1>9. DrainExit'
  BY <1>1, <1>2, <1>4, <1>5 DEF LifeInv, DrainExit
<1> QED
  BY <1>6, <1>7, <1>8, <1>9 DEF LifeInv

LEMMA LifeStep == TypeOK /\ LifeInv /\ [Next]_vars => LifeInv'
<1> SUFFICES ASSUME TypeOK, LifeInv, [Next]_vars PROVE LifeInv'
  OBVIOUS
<1> /\ Workers \subseteq Threads /\ Callers \subseteq Threads /\ Owner \in Callers
    /\ Owner \notin Workers
  BY DEF Threads
<1>1. ASSUME NEW t \in Callers, Refuse(t) PROVE LifeInv'
  <2> t \notin Workers
    OBVIOUS
  <2>1. \A w \in Workers : ret'[w] = ret[w]
    BY <1>1 DEF Refuse, TypeOK
  <2> QED
    BY <1>1, <2>1 DEF Refuse, LifeInv, QuietWhenRetiring, WaitersPrepared, ExitClosed,
                      DrainExit, ring
<1>2. ASSUME NEW t \in Callers, NEW kind \in Kinds, TryLock(t, kind) PROVE LifeInv'
  <2> t \notin Workers
    OBVIOUS
  <2>1. \A w \in Workers : pc'[w] = pc[w]
    BY <1>2 DEF TryLock, TypeOK
  <2> QED
    BY <1>2, <2>1 DEF TryLock, LifeInv, QuietWhenRetiring, WaitersPrepared, ExitClosed,
                      DrainExit, ring
<1>3. ASSUME NEW t \in Callers, CallerBody(t) PROVE LifeInv'
  BY <1>3, CallerLife
<1>4. ASSUME NEW w \in Workers,
             WaitPopCall(w) \/ WaitPopLock(w) \/ WorkerBody(w) \/ SpuriousWakeup(w)
      PROVE  LifeInv'
  BY <1>4, WorkerLife
<1>5. CASE PrepareWait
  BY <1>5 DEF PrepareWait, LifeInv, QuietWhenRetiring, WaitersPrepared, ExitClosed,
              DrainExit, ring
<1>6. CASE Destroy \/ DestroyRefused
  <2>1. /\ \A w \in Workers : ret'[w] = ret[w]
        /\ \A t \in Callers : pc[t] = "idle"
        /\ \A w \in Workers : pc[w] = "exited"
        /\ UNCHANGED <<pc, state, count>>
    BY <1>6 DEF Destroy, DestroyRefused, Exclusive, TypeOK, ring
  <2> QED
    BY <2>1 DEF LifeInv, QuietWhenRetiring, WaitersPrepared, ExitClosed, DrainExit
<1>7. CASE UNCHANGED vars
  BY <1>7 DEF vars, LifeInv, QuietWhenRetiring, WaitersPrepared, ExitClosed, DrainExit,
              ring
<1> QED
  BY <1>1, <1>2, <1>3, <1>4, <1>5, <1>6, <1>7 DEF Next

LEMMA LifeInit == Init => LifeInv
BY DEF Init, LifeInv, QuietWhenRetiring, WaitersPrepared, ExitClosed, DrainExit, Threads

(* A worker that a draining queue sends home leaves no task behind.        *)
THEOREM DrainExitCorrect == Spec => []DrainExit
<1>1. Init => TypeOK /\ LifeInv
  BY TypeInit, LifeInit
<1>2. TypeOK /\ LifeInv /\ [Next]_vars => (TypeOK /\ LifeInv)'
  BY TypeStep, LifeStep
<1>3. LifeInv => DrainExit
  BY DEF LifeInv
<1> QED
  BY <1>1, <1>2, <1>3, PTL DEF Spec

------------------------------------------------------------------------------
(* Wake-ups.                                                               *)

WakeOK == Sleepers # {} => state = "OPEN" /\ count <= Cardinality(Woken)

LEMMA WokenFinite ==
    /\ IsFiniteSet(Woken) /\ Cardinality(Woken) \in Nat
    /\ (IsFiniteSet(Woken))'
BY FS_Subset, FS_CardinalityType DEF Woken

(* Waking a sleeper adds one to the woken, a woken worker that leaves      *)
(* takes one away.                                                         *)
LEMMA WokenGrows ==
    ASSUME NEW w \in Sleepers, Woken' = Woken \cup {w}
    PROVE  Cardinality(Woken') = Cardinality(Woken) + 1
BY WokenFinite, FS_AddElement DEF Sleepers, Woken

LEMMA WokenShrinks ==
    ASSUME NEW w \in Woken, Woken' = Woken \ {w}
    PROVE  Cardinality(Woken') = Cardinality(Woken) - 1
BY WokenFinite, FS_RemoveElement

LEMMA CallerWake ==
    ASSUME TypeOK, LifeInv, WakeOK, Faults \cap {"signal", "broadcast"} = {},
           NEW t \in Callers, CallerBody(t)
    PROVE  WakeOK'
<1> /\ "signal" \notin Faults /\ "broadcast" \notin Faults
    /\ {} \in SUBSET Sleepers /\ Sleepers \in SUBSET Sleepers
    /\ {"OK", "BUSY", "CANCELLED", "NOT_FOUND", "INTERNAL"} \subseteq Results
  BY DEF Results
<1> DEFINE Silent == \E r \in Results : Leave(t, r, {})
<1>1. Sleepers # {} => waitPrepared
  BY DEF LifeInv, WaitersPrepared, Sleepers
<1>2. ASSUME Silent PROVE Sleepers' = Sleepers /\ Woken' = Woken
  BY <1>2, CallerLeave
<1>3. ASSUME Silent, state' = state, count' <= count, count' \in Nat PROVE WakeOK'
  BY <1>2, <1>3, WokenFinite DEF WakeOK, TypeOK
<1>4. CASE PushRefused(t)
  <2>1. Silent /\ state' = state /\ count' = count
    BY <1>4 DEF PushRefused, TakeNothing, ring
  <2> QED
    BY <1>3, <2>1 DEF TypeOK
<1>5. ASSUME NEW k \in Tasks, PushAccepted(t, k) PROVE WakeOK'
  <2>1. CASE Sleepers = {}
    <3>1. Silent
      BY <1>5, <2>1 DEF PushAccepted, PushWake
    <3> QED
      BY <1>2, <2>1, <3>1 DEF WakeOK
  <2>2. CASE Sleepers # {}
    <3>1. PICK w \in Sleepers : Leave(t, "OK", {w})
      BY <1>1, <1>5, <2>2 DEF PushAccepted, PushWake
    <3>2. Woken' = Woken \cup {w} /\ {w} \in SUBSET Sleepers
      BY <3>1, CallerLeave
    <3>3. Cardinality(Woken') = Cardinality(Woken) + 1
      BY <3>2, WokenGrows
    <3>4. count' = count + 1 /\ state' = state /\ count \in Nat
      BY <1>5 DEF PushAccepted, TypeOK
    <3>5. state = "OPEN" /\ count <= Cardinality(Woken)
      BY <2>2 DEF WakeOK
    <3>6. count' <= Cardinality(Woken')
      BY <3>3, <3>4, <3>5, WokenFinite
    <3>7. Cardinality(Woken)' = Cardinality(Woken')
      OBVIOUS
    <3> QED
      BY <3>4, <3>5, <3>6, <3>7 DEF WakeOK
  <2> QED
    BY <2>1, <2>2
<1>6. CASE TryPop(t) \/ TryTakeCancelled(t)
  <2>1. state' = state /\ count' <= count /\ count' \in Nat
    BY <1>6 DEF TryPop, TryTakeCancelled, TakeNothing, TakeHead, TypeOK, ring
  <2>2. Silent
    BY <1>6 DEF TryPop, TryTakeCancelled
  <2> QED
    BY <1>3, <2>1, <2>2
<1>7. CASE CloseQueue(t)
  <2>1. CASE Leave(t, "BUSY", {}) /\ state' # pc[t]
    <3>1. state' = state /\ count' = count
      BY <1>7, <2>1 DEF CloseQueue, ModeAfter, ring
    <3> QED
      BY <1>3, <2>1, <3>1 DEF TypeOK
  <2>2. CASE Leave(t, "OK", CloseWakes)
    <3>1. CloseWakes = Sleepers
      BY <1>1 DEF CloseWakes
    <3>2. Sleepers' = {}
      BY <2>2, <3>1, CallerLeave
    <3> QED
      BY <3>2 DEF WakeOK
  <2> QED
    BY <1>7, <2>1, <2>2 DEF CloseQueue
<1>8. CASE Inspect(t)
  BY <1>3, <1>8 DEF Inspect, TypeOK, ring
<1> QED
  BY <1>4, <1>5, <1>6, <1>7, <1>8 DEF CallerBody

LEMMA WorkerWake ==
    ASSUME TypeOK, WakeOK, NEW w \in Workers,
           WaitPopCall(w) \/ WaitPopLock(w) \/ WorkerBody(w) \/ SpuriousWakeup(w)
    PROVE  WakeOK'
<1> /\ w \in Threads /\ Workers \subseteq Threads
    /\ {"OK", "CANCELLED", "INTERNAL"} \subseteq Results
  BY DEF Threads, Results
<1>1. CASE WaitPopCall(w)
  <2>1. Sleepers' = Sleepers /\ Woken' = Woken /\ state' = state /\ count' = count
    BY <1>1 DEF WaitPopCall, Sleepers, Woken, TypeOK, ring
  <2> QED
    BY <2>1 DEF WakeOK
<1>2. CASE WaitPopLock(w) \/ SpuriousWakeup(w)
  <2>1. /\ Sleepers' \subseteq Sleepers /\ Woken \subseteq Woken'
        /\ state' = state /\ count' = count
    BY <1>2 DEF WaitPopLock, SpuriousWakeup, Sleepers, Woken, TypeOK, ring
  <2>2. Cardinality(Woken) <= Cardinality(Woken') /\ Cardinality(Woken') \in Nat
    BY <2>1, WokenFinite, FS_Subset, FS_CardinalityType
  <2>3. Sleepers' # {} => count' <= Cardinality(Woken')
    BY <2>1, <2>2, WokenFinite DEF WakeOK, TypeOK
  <2>4. Cardinality(Woken)' = Cardinality(Woken')
    OBVIOUS
  <2> QED
    BY <2>1, <2>3, <2>4 DEF WakeOK
<1>3. CASE WaitPopSleep(w)
  <2>1. state' = "OPEN" /\ count' = 0
    BY <1>3 DEF WaitPopSleep, ring
  <2>2. Cardinality(Woken)' \in Nat
    BY WokenFinite, FS_CardinalityType
  <2> QED
    BY <2>1, <2>2 DEF WakeOK
<1>4. CASE WaitPopReturn(w)
  <2>1. Sleepers' = Sleepers /\ Woken' = Woken \ {w} /\ w \in Woken
    BY <1>4, WorkerLeave DEF WaitPopReturn, WaitPopCancels
  <2>2. Cardinality(Woken') = Cardinality(Woken) - 1
    BY <2>1, WokenShrinks
  <2>3. CASE Sleepers = {}
    BY <2>1, <2>3 DEF WakeOK
  <2>4. CASE Sleepers # {}
    <3>1. state = "OPEN" /\ count <= Cardinality(Woken)
      BY <2>4 DEF WakeOK
    <3>2. count' = count - 1 /\ state' = state /\ count \in Nat
      BY <1>4, <3>1 DEF WaitPopReturn, WaitPopCancels, TakeHead, TypeOK
    <3>3. count' <= Cardinality(Woken')
      BY <2>2, <3>1, <3>2, WokenFinite
    <3>4. Cardinality(Woken)' = Cardinality(Woken')
      OBVIOUS
    <3> QED
      BY <3>1, <3>2, <3>3, <3>4 DEF WakeOK
  <2> QED
    BY <2>3, <2>4
<1> QED
  BY <1>1, <1>2, <1>3, <1>4 DEF WorkerBody

LEMMA WakeStep ==
    ASSUME Faults \cap {"signal", "broadcast"} = {},
           TypeOK, LifeInv, WakeOK, [Next]_vars
    PROVE  WakeOK'
<1> /\ Workers \subseteq Threads /\ Callers \subseteq Threads
  BY DEF Threads
<1>1. ASSUME Sleepers' = Sleepers, Woken' = Woken, state' = state, count' = count
      PROVE  WakeOK'
  BY <1>1 DEF WakeOK
<1>2. ASSUME NEW t \in Callers, Refuse(t) \/ \E kind \in Kinds : TryLock(t, kind)
      PROVE WakeOK'
  <2> t \notin Workers
    OBVIOUS
  <2>1. \A w \in Workers : pc'[w] = pc[w]
    BY <1>2 DEF Refuse, TryLock, TypeOK
  <2>2. state' = state /\ count' = count
    BY <1>2 DEF Refuse, TryLock, ring
  <2> QED
    BY <1>1, <2>1, <2>2 DEF Sleepers, Woken
<1>3. CASE PrepareWait \/ Destroy \/ DestroyRefused \/ UNCHANGED vars
  <2>1. UNCHANGED <<pc, state, count>>
    BY <1>3 DEF PrepareWait, Destroy, DestroyRefused, vars, ring
  <2> QED
    BY <1>1, <2>1 DEF Sleepers, Woken
<1> QED
  BY <1>2, <1>3, CallerWake, WorkerWake DEF Next

(* As long as signal and broadcast work, no sleeping worker is ever left   *)
(* behind by a push or a close, for any number of workers and slots.       *)
THEOREM NoLostWakeupCorrect == Spec => []NoLostWakeup
<1>1. CASE Faults \cap {"signal", "broadcast"} = {}
  <2>1. Init => TypeOK /\ LifeInv /\ WakeOK
    <3>1. Init => Sleepers = {}
      BY DEF Init, Sleepers, Threads
    <3> QED
      BY <3>1, TypeInit, LifeInit DEF WakeOK
  <2>2. TypeOK /\ LifeInv /\ WakeOK /\ [Next]_vars => (TypeOK /\ LifeInv /\ WakeOK)'
    BY <1>1, TypeStep, LifeStep, WakeStep
  <2>3. WakeOK => NoLostWakeup
    BY DEF WakeOK, NoLostWakeup
  <2> QED
    BY <2>1, <2>2, <2>3, PTL DEF Spec
<1>2. CASE Faults \cap {"signal", "broadcast"} # {}
  <2>1. NoLostWakeup
    BY <1>2 DEF NoLostWakeup
  <2> QED
    BY <2>1, PTL
<1> QED
  BY <1>1, <1>2

------------------------------------------------------------------------------
(* The metrics.                                                            *)

LEMMA MetricsSame ==
    ASSUME TypeOK, TypeOK', MetricsSound, UNCHANGED metrics, count' <= count,
           state # "OPEN" => state' # "OPEN"
    PROVE  MetricsSound'
BY DEF TypeOK, MetricsSound, metrics

LEMMA MetricsStep == TypeOK /\ MetricsSound /\ [Next]_vars => MetricsSound'
<1> SUFFICES ASSUME TypeOK, MetricsSound, [Next]_vars PROVE MetricsSound'
  OBVIOUS
<1>0. TypeOK' /\ count <= count
  BY TypeStep DEF TypeOK
<1>1. ASSUME NEW t, TakeNothing(t) \/ TakeHead(t) PROVE count' <= count
  BY <1>0, <1>1 DEF TakeNothing, TakeHead, ring, TypeOK
<1>2. ASSUME NEW t \in Callers, PushRefused(t) PROVE MetricsSound'
  <2>1. count' = count /\ state' = state
    BY <1>2 DEF PushRefused, TakeNothing, ring
  <2>2. CASE CountClosed /\ state # "OPEN"
    BY <2>1, <2>2 DEF CountClosed, MetricsSound, TypeOK
  <2>3. CASE CountFull
    BY <2>1, <2>3 DEF CountFull, MetricsSound, TypeOK
  <2> QED
    BY <1>2, <2>2, <2>3 DEF PushRefused
<1>3. ASSUME NEW t \in Callers, NEW k \in Tasks, PushAccepted(t, k) PROVE MetricsSound'
  BY <1>0, <1>3 DEF PushAccepted, RaiseWatermark, MetricsSound, TypeOK
<1>4. ASSUME NEW t \in Callers, TryPop(t) \/ TryTakeCancelled(t) PROVE MetricsSound'
  BY <1>0, <1>1, <1>4, MetricsSame DEF TryPop, TryTakeCancelled
<1>5. ASSUME NEW t \in Callers, CloseQueue(t) PROVE MetricsSound'
  BY <1>0, <1>5, MetricsSame DEF CloseQueue, ModeAfter, ring
<1>6. ASSUME NEW t \in Callers,
             Inspect(t) \/ Refuse(t) \/ \E kind \in Kinds : TryLock(t, kind)
      PROVE  MetricsSound'
  BY <1>0, <1>6, MetricsSame DEF Inspect, Refuse, TryLock, ring
<1>7. ASSUME NEW w \in Workers, WaitPopReturn(w) PROVE MetricsSound'
  BY <1>0, <1>1, <1>7, MetricsSame DEF WaitPopReturn
<1>8. ASSUME NEW w \in Workers,
             WaitPopCall(w) \/ WaitPopLock(w) \/ WaitPopSleep(w) \/ SpuriousWakeup(w)
      PROVE  MetricsSound'
  BY <1>0, <1>8, MetricsSame DEF WaitPopCall, WaitPopLock, WaitPopSleep, SpuriousWakeup, ring
<1>9. CASE PrepareWait \/ Destroy \/ DestroyRefused \/ UNCHANGED vars
  BY <1>0, <1>9, MetricsSame DEF PrepareWait, Destroy, DestroyRefused, vars, ring
<1> QED
  BY <1>2, <1>3, <1>4, <1>5, <1>6, <1>7, <1>8, <1>9 DEF Next, CallerBody, WorkerBody

(* The snapshot of inspect_metrics is consistent at every moment: depth at *)
(* most the watermark at most the capacity, the sticky flag only with a    *)
(* counter at its maximum, refusals for a closed queue only after close.   *)
THEOREM MetricsCorrect == Spec => []MetricsSound
<1>1. Init => TypeOK /\ MetricsSound
  <2>1. Init => count = 0 /\ highWatermark = 0 /\ closedRejections = 0 /\ ~saturated
    BY DEF Init
  <2> QED
    BY <2>1, TypeInit DEF MetricsSound
<1>2. TypeOK /\ MetricsSound /\ [Next]_vars => (TypeOK /\ MetricsSound)'
  BY TypeStep, MetricsStep
<1> QED
  BY <1>1, <1>2, PTL DEF Spec

(* The ring, the wake-ups, the drain and the metrics are sound together in *)
(* every reachable state, for every capacity, number of threads and set of *)
(* failing pthread calls.                                                  *)
THEOREM QueueSoundCorrect == Spec => []QueueSound
BY RingCorrect, NoLostWakeupCorrect, DrainExitCorrect, MetricsCorrect, PTL DEF QueueSound

------------------------------------------------------------------------------
(* The queue implements the channel.                                       *)

LEMMA DepthIsCount ==
    ASSUME TypeOK, RingHoldsBacklog
    PROVE  Channel!Depth = count
BY DEF TypeOK, RingHoldsBacklog, Channel!Depth

LEMMA TakeHeadDelivers ==
    ASSUME TypeOK, RingHoldsBacklog, NEW t \in Threads, count # 0, TakeHead(t),
           ~freed, t \in Workers => state # "CANCEL_PENDING", UNCHANGED <<state, freed>>
    PROVE  Channel!Deliver(t)
<1>1. slots[head] = accepted[taken + 1]
  BY RingTake
<1>2. Channel!Depth > 0
  BY DepthIsCount DEF TypeOK
<1>3. /\ UNCHANGED accepted /\ taken' = taken + 1
      /\ hand' = [hand EXCEPT ![t] = slots[head]]
  BY DEF TakeHead
<1> QED
  BY <1>1, <1>2, <1>3 DEF Channel!Deliver

LEMMA TakeNothingForgets ==
    ASSUME NEW t \in Threads, TakeNothing(t), UNCHANGED <<state, freed>>
    PROVE  Channel!Forget(t)
BY DEF TakeNothing, Channel!Forget, history

LEMMA ChannelStep ==
    ASSUME TypeOK, LifeInv, RingHoldsBacklog, [Next]_vars
    PROVE  [Channel!Next]_(Channel!vars)
<1> /\ Workers \subseteq Threads /\ Callers \subseteq Threads /\ Channel!Threads = Threads
  BY DEF Threads, Channel!Threads
<1> USE DEF Channel!Next
<1>1. ASSUME NEW t \in Callers, Refuse(t) \/ \E kind \in Kinds : TryLock(t, kind)
      PROVE  Channel!Next
  BY <1>1 DEF Refuse, TryLock, Channel!Forget, history
<1>2. ASSUME NEW t \in Callers, CallerBody(t)
      PROVE  Channel!Next \/ UNCHANGED Channel!vars
  <2>1. ~freed /\ freed' = freed
    BY <1>2 DEF CallerBody, PushRefused, PushAccepted, TryPop, TryTakeCancelled,
                CloseQueue, Inspect, LifeInv, QuietWhenRetiring
  <2>2. t \notin Workers
    OBVIOUS
  <2>3. CASE PushRefused(t)
    BY <2>1, <2>3, TakeNothingForgets DEF PushRefused
  <2>4. ASSUME NEW k \in Tasks, PushAccepted(t, k) PROVE Channel!Next
    <3>1. Channel!Depth < Capacity
      BY <2>4, DepthIsCount DEF PushAccepted, TypeOK
    <3>2. k \notin Channel!Accepted
      BY <2>4 DEF PushAccepted, Accepted, Channel!Accepted
    <3> QED
      BY <2>1, <2>4, <3>1, <3>2 DEF PushAccepted, Channel!Accept
  <2>5. CASE TryPop(t)
    BY <2>1, <2>2, <2>5, TakeNothingForgets, TakeHeadDelivers DEF TryPop
  <2>6. CASE TryTakeCancelled(t)
    BY <2>1, <2>2, <2>6, TakeNothingForgets, TakeHeadDelivers DEF TryTakeCancelled
  <2>7. CASE CloseQueue(t)
    BY <2>1, <2>7
       DEF CloseQueue, ModeAfter, Channel!Close, Channel!Modes, Channel!vars, history
  <2>8. CASE Inspect(t)
    BY <2>8 DEF Inspect, Channel!vars, history
  <2> QED
    BY <1>2, <2>3, <2>4, <2>5, <2>6, <2>7, <2>8 DEF CallerBody
<1>3. ASSUME NEW w \in Workers,
             WaitPopCall(w) \/ WaitPopLock(w) \/ WorkerBody(w) \/ SpuriousWakeup(w)
      PROVE  Channel!Next \/ UNCHANGED Channel!vars
  <2>1. ~freed /\ freed' = freed
    BY <1>3 DEF WaitPopCall, WaitPopLock, WorkerBody, WaitPopSleep, WaitPopReturn,
                SpuriousWakeup, LifeInv, QuietWhenRetiring
  <2>2. CASE WaitPopCall(w)
    BY <2>2 DEF WaitPopCall, Channel!Forget, history
  <2>3. CASE WaitPopLock(w) \/ WaitPopSleep(w) \/ SpuriousWakeup(w)
    BY <2>3 DEF WaitPopLock, WaitPopSleep, SpuriousWakeup, Channel!vars, history
  <2>4. CASE WaitPopReturn(w)
    BY <2>1, <2>4, TakeNothingForgets, TakeHeadDelivers DEF WaitPopReturn, WaitPopCancels
  <2> QED
    BY <1>3, <2>2, <2>3, <2>4 DEF WorkerBody
<1>4. CASE PrepareWait \/ DestroyRefused \/ UNCHANGED vars
  BY <1>4 DEF PrepareWait, DestroyRefused, vars, Channel!vars, history
<1>5. CASE Destroy
  BY <1>5, DepthIsCount
     DEF Destroy, Exclusive, Channel!Destroy, Channel!vars, history
<1> QED
  BY <1>1, <1>2, <1>3, <1>4, <1>5 DEF Next

(* Whatever the interleaving and whichever pthread call fails, callers and *)
(* workers see the channel TaskChannel describes.                          *)
THEOREM ImplementsChannel == Spec => ChannelSpec
<1>1. Init => Channel!Init
  BY DEF Init, Channel!Init, Threads, Channel!Threads
<1>2. Init => TypeOK /\ LifeInv /\ RingHoldsBacklog
  BY TypeInit, LifeInit, RingInit
<1>3. TypeOK /\ LifeInv /\ RingHoldsBacklog /\ [Next]_vars
        => (TypeOK /\ LifeInv /\ RingHoldsBacklog)'
  BY TypeStep, LifeStep, RingStep
<1>4. TypeOK /\ LifeInv /\ RingHoldsBacklog /\ [Next]_vars
        => [Channel!Next]_(Channel!vars)
  BY ChannelStep
<1> QED
  BY <1>1, <1>2, <1>3, <1>4, PTL DEF Spec, ChannelSpec, Channel!Spec
==============================================================================
