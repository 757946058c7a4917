-------------------------- MODULE TimerWheelProofs ---------------------------
(***************************************************************************)
(* Proofs about TimerWheel, for every geometry, capacity and budget.  The  *)
(* inductive invariant says of each slot which ring it may be in relative  *)
(* to the frontier of visited ticks, that the frontier never runs ahead of *)
(* the time given to advance, and that due ticks were rounded up.          *)
(***************************************************************************)
EXTENDS TimerWheel, FiniteSetTheorems, TLAPS

(* A slot is linked exactly while it is active; a timer in the ready ring  *)
(* is due by the frontier, one in a bucket after it, and one in the        *)
(* pending ring at the tick being visited or later.                        *)
Places ==
    \A s \in Slots :
        /\ ring[s] # "lost"
        /\ ring[s] = "none" <=> nodes[s].generation = 0
        /\ ring[s] = "ready" => nodes[s].due <= Frontier
        /\ ring[s] = "bucket" => nodes[s].due > Frontier
        /\ ring[s] = "pending" => processing /\ nodes[s].due > completed

(* No tick is visited before it has begun.                                 *)
Pace == Origin + Frontier * TickNs <= latest

(* A timer's tick does not begin before its deadline.                      *)
Rounded ==
    \A s \in Active : nodes[s].deadline <= Origin + nodes[s].due * TickNs

(* A generation is given out once.                                         *)
Identities ==
    /\ \A s \in Slots : nodes[s].generation <= lastGeneration
    /\ \A s, u \in Active : nodes[s].generation = nodes[u].generation => s = u

IInv == TypeOK /\ Places /\ Pace /\ Rounded /\ Identities /\ ReadyCountExact

------------------------------------------------------------------------------
(* Arithmetic of ticks.                                                    *)

(* Quotient and remainder.                                                 *)
LEMMA Division ==
  ASSUME NEW a \in Nat, NEW b \in Nat \ {0}
  PROVE  a \div b \in Nat /\ a % b \in 0..(b - 1) /\ a = b * (a \div b) + (a % b)
OBVIOUS

(* Multiplication is monotonic.                                            *)
LEMMA Monotonic ==
  ASSUME NEW k \in Nat, NEW m \in Nat, NEW b \in Nat, k <= m
  PROVE  k * b <= m * b
OBVIOUS

(* One tick more.                                                          *)
LEMMA OneMore ==
  ASSUME NEW k \in Nat, NEW b \in Nat
  PROVE  (k + 1) * b = k * b + b
OBVIOUS

(* Below the quotient there is room for one tick more.                     *)
LEMMA RoomForTick ==
  ASSUME NEW a \in Nat, NEW b \in Nat \ {0}, NEW k \in Nat,
         k * b <= a, k # a \div b
  PROVE  (k + 1) * b <= a
<1> DEFINE q == a \div b
<1>1. q \in Nat /\ a % b \in 0..(b - 1) /\ a = b * q + (a % b)
  BY Division
<1>2. b * q = q * b
  BY <1>1
<1>3. k <= q
  <2>1. SUFFICES ASSUME k > q PROVE FALSE
    BY <1>1
  <2>2. (q + 1) * b <= k * b
    BY <2>1, <1>1, Monotonic
  <2>3. (q + 1) * b = q * b + b
    BY <1>1, OneMore
  <2> QED
    BY <2>2, <2>3, <1>1, <1>2
<1>4. (k + 1) * b <= q * b
  BY <1>1, <1>3, Monotonic
<1> QED
  BY <1>4, <1>1, <1>2

(* The tick of an accepted deadline begins at the deadline or later.       *)
LEMMA RoundsUp ==
  ASSUME NEW deadline \in Times
  PROVE  /\ DeadlineTick(deadline) \in Nat
         /\ deadline <= Origin + DeadlineTick(deadline) * TickNs
<1> USE GeometryAssumption DEF Times
<1>1. CASE deadline <= Origin
  <2>1. DeadlineTick(deadline) = 0
    BY <1>1 DEF DeadlineTick
  <2> QED
    BY <1>1, <2>1
<1>2. CASE deadline > Origin
  <2> DEFINE delta == deadline - Origin
             q == delta \div TickNs
  <2>1. delta \in Nat
    BY <1>2
  <2>2. q \in Nat /\ delta % TickNs \in 0..(TickNs - 1) /\ delta = TickNs * q + (delta % TickNs)
    BY <2>1, Division
  <2>3. TickNs * q = q * TickNs
    BY <2>2
  <2>4. (q + 1) * TickNs = q * TickNs + TickNs
    BY <2>2, OneMore
  <2>5. CASE delta % TickNs = 0
    <3>1. DeadlineTick(deadline) = q
      BY <1>2, <2>2, <2>5 DEF DeadlineTick
    <3>2. q * TickNs = delta
      BY <2>2, <2>3, <2>5
    <3> QED
      BY <3>1, <3>2, <2>2
  <2>6. CASE delta % TickNs # 0
    <3>1. DeadlineTick(deadline) = q + 1
      BY <1>2, <2>2, <2>6 DEF DeadlineTick
    <3>2. (q + 1) * TickNs >= delta
      BY <2>2, <2>3, <2>4, <2>1
    <3>3. (q + 1) * TickNs \in Nat
      BY <2>2
    <3> HIDE DEF q
    <3> QED
      BY <3>1, <3>2, <3>3, <2>2
  <2> QED
    BY <2>5, <2>6
<1> QED
  BY <1>1, <1>2

------------------------------------------------------------------------------
(* The ready ring and its counter.                                         *)

(* The rings are finite.                                                   *)
LEMMA RingsFinite ==
  \A r : IsFiniteSet(Linked(r)) /\ Cardinality(Linked(r)) \in Nat
<1> TAKE r
<1>1. IsFiniteSet(Slots)
  BY FS_Interval, GeometryAssumption DEF Slots
<1>2. Linked(r) \subseteq Slots
  BY DEF Linked
<1>3. IsFiniteSet(Linked(r))
  BY <1>1, <1>2, FS_Subset
<1> QED
  BY <1>3, FS_CardinalityType

(* What a slot that changes its ring does to the number of ready timers.   *)
LEMMA CountMove ==
  ASSUME ring \in [Slots -> Rings], ReadyCountExact,
         NEW s \in Slots, NEW r \in Rings, ring' = [ring EXCEPT ![s] = r]
  PROVE  /\ CountWithout(s) \in Nat
         /\ Cardinality(Linked("ready")') =
              CountWithout(s) + IF r = "ready" THEN 1 ELSE 0
<1> DEFINE R == Linked("ready")
           Rest == R \ {s}
<1>1. IsFiniteSet(R) /\ Cardinality(R) \in Nat
  BY RingsFinite
<1>2. IsFiniteSet(Rest) /\ Cardinality(Rest) = Cardinality(R) - (IF s \in R THEN 1 ELSE 0)
  BY <1>1, FS_RemoveElement
<1>3. Cardinality(Rest) \in Nat
  BY <1>2, FS_CardinalityType
<1>4. CountWithout(s) = Cardinality(Rest)
  BY <1>1, <1>2 DEF CountWithout, ReadyCountExact, Linked
<1>5. CASE r = "ready"
  <2>1. R' = Rest \cup {s}
    BY <1>5 DEF Linked
  <2>2. Cardinality(R') = Cardinality(Rest) + 1
    BY <2>1, <1>2, FS_AddElement
  <2> QED
    BY <2>2, <1>3, <1>4, <1>5
<1>6. CASE r # "ready"
  <2>1. R' = Rest
    BY <1>6 DEF Linked
  <2> QED
    BY <2>1, <1>3, <1>4, <1>6
<1> QED
  BY <1>5, <1>6

------------------------------------------------------------------------------
(* Invariance.                                                             *)

(* A new wheel is empty.                                                   *)
LEMMA InitInv == Init => IInv
<1> SUFFICES ASSUME Init PROVE IInv
  OBVIOUS
<1> USE GeometryAssumption
<1>1. TypeOK
  <2>1. nodes \in [Slots -> [generation : 0..MaxGeneration, deadline : Times, due : Nat]]
    BY DEF Init, Times, FreeNode
  <2>2. ring \in [Slots -> Rings]
    BY DEF Init, Rings
  <2>3. clock \in Times /\ latest \in Origin..MaxNs /\ cursor \in 0..Capacity
    BY DEF Init, Times
  <2>4. ticks \in 0..MaxTicks /\ examined \in 0..MaxNodes /\ lastGeneration \in 0..MaxGeneration
    BY DEF Init
  <2> QED
    BY <2>1, <2>2, <2>3, <2>4 DEF Init, TypeOK
<1>2. Places /\ Rounded /\ Identities
  BY DEF Init, Places, Rounded, Identities, Active, FreeNode
<1>3. Pace
  BY DEF Init, Pace, Frontier
<1>4. Linked("ready") = {}
  BY DEF Init, Linked
<1>5. ReadyCountExact
  BY <1>4, FS_EmptySet DEF Init, ReadyCountExact
<1> QED
  BY <1>1, <1>2, <1>3, <1>5 DEF IInv

(* Steps that leave the timers, the rings and the progress alone.          *)
LEMMA QuietStep ==
  ASSUME IInv, TypeOK', UNCHANGED <<wheelVars, progressVars, lastGeneration>>
  PROVE  IInv'
<1>1. Places' /\ Pace' /\ Rounded' /\ Identities'
  BY DEF IInv, Places, Pace, Rounded, Identities, Frontier, Active, wheelVars, progressVars
<1>2. ReadyCountExact'
  BY DEF IInv, ReadyCountExact, Linked, wheelVars
<1> QED
  BY <1>1, <1>2 DEF IInv

(* A registration takes a free slot and a fresh generation.                *)
LEMMA RegisterStep ==
  ASSUME IInv, NEW s \in Slots, NEW now \in Times, NEW deadline \in Times,
         Register(s, now, deadline)
  PROVE  IInv'
<1> DEFINE due == DeadlineTick(deadline)
           r == RingFor(due)
<1> USE GeometryAssumption
<1>1. due \in Nat /\ deadline <= Origin + due * TickNs
  BY RoundsUp
<1>2. r \in Rings /\ r \in {"ready", "bucket"}
  BY DEF RingFor, Rings
<1>3. ring' = [ring EXCEPT ![s] = r]
  BY DEF Register, PlaceNode
<1>4. /\ ring[s] = "none" /\ nodes[s].generation = 0
      /\ CountWithout(s) = readyCount
  BY DEF Register, IInv, Places, Active, TypeOK, CountWithout
<1>5. /\ readyCount' = Cardinality(Linked("ready")')
      /\ readyCount' \in Nat
  <2>1. /\ CountWithout(s) \in Nat
        /\ Cardinality(Linked("ready")') = CountWithout(s) + IF r = "ready" THEN 1 ELSE 0
    BY <1>2, <1>3, CountMove DEF IInv, TypeOK
  <2>2. readyCount' = CountWithout(s) + IF r = "ready" THEN 1 ELSE 0
    BY <1>4 DEF Register, PlaceNode
  <2> QED
    BY <2>1, <2>2
<1>6. lastGeneration + 1 \in 1..MaxGeneration
  BY DEF Register, HasNextGeneration, IInv, TypeOK
<1>7. TypeOK'
  BY <1>1, <1>2, <1>3, <1>5, <1>6
     DEF Register, IInv, TypeOK, Times, progressVars, callVars, stopVars
<1> HIDE DEF due
<1>8. Places'
  <2>1. Frontier' = Frontier
    BY DEF Register, Frontier, progressVars
  <2>2. /\ nodes' = [nodes EXCEPT ![s] = [generation |-> lastGeneration + 1,
                                         deadline |-> deadline, due |-> due]]
        /\ UNCHANGED <<processing, completed>>
    BY DEF Register, progressVars, due
  <2>3. Frontier \in Nat
    BY DEF Frontier, IInv, TypeOK
  <2> QED
    BY <1>1, <1>2, <1>3, <1>6, <2>1, <2>2, <2>3 DEF IInv, Places, TypeOK, RingFor
<1>9. Pace'
  BY DEF Register, IInv, Pace, Frontier, progressVars
<1>10. Rounded'
  BY <1>1 DEF Register, IInv, Rounded, Active, TypeOK, due
<1>11. Identities'
  BY <1>6 DEF Register, IInv, Identities, Active, TypeOK
<1>12. ReadyCountExact'
  BY <1>5 DEF ReadyCountExact
<1> QED
  BY <1>7, <1>8, <1>9, <1>10, <1>11, <1>12 DEF IInv

(* Releasing a timer empties its slot, whichever ring it was in.           *)
LEMMA ReleaseStep ==
  ASSUME IInv, NEW s \in Slots, ReleaseNode(s),
         UNCHANGED <<clock, progressVars, callVars, lastGeneration, stopping, alive>>,
         cursor' \in 0..Capacity, fired' \subseteq 1..MaxGeneration
  PROVE  IInv'
<1> USE GeometryAssumption
<1>1. /\ readyCount' = Cardinality(Linked("ready")')
      /\ readyCount' \in Nat
  <2>1. "none" \in Rings
    BY DEF Rings
  <2>2. /\ CountWithout(s) \in Nat
        /\ Cardinality(Linked("ready")') = CountWithout(s) + IF "none" = "ready" THEN 1 ELSE 0
    BY <2>1, CountMove DEF ReleaseNode, IInv, TypeOK
  <2> QED
    BY <2>2 DEF ReleaseNode
<1>2. TypeOK'
  BY <1>1 DEF ReleaseNode, IInv, TypeOK, FreeNode, Times, Rings, progressVars, callVars
<1>3. Places'
  BY DEF ReleaseNode, IInv, TypeOK, Places, Frontier, FreeNode, progressVars
<1>4. Pace'
  BY DEF IInv, Pace, Frontier, progressVars
<1>5. Rounded' /\ Identities'
  BY DEF ReleaseNode, IInv, TypeOK, Rounded, Identities, Active, FreeNode
<1>6. ReadyCountExact'
  BY <1>1 DEF ReadyCountExact
<1> QED
  BY <1>2, <1>3, <1>4, <1>5, <1>6 DEF IInv

(* A rearmed timer moves to the ring of its new tick.                      *)
LEMMA RearmStep ==
  ASSUME IInv, NEW s \in Slots, NEW g \in 1..lastGeneration,
         NEW now \in Times, NEW deadline \in Times, Rearm(s, g, now, deadline)
  PROVE  IInv'
<1> DEFINE due == DeadlineTick(deadline)
           r == RingFor(due)
<1> USE GeometryAssumption
<1>1. due \in Nat /\ deadline <= Origin + due * TickNs
  BY RoundsUp
<1>2. r \in Rings /\ r \in {"ready", "bucket"}
  BY DEF RingFor, Rings
<1>3. ring' = [ring EXCEPT ![s] = r]
  BY DEF Rearm, PlaceNode
<1>4. /\ readyCount' = Cardinality(Linked("ready")')
      /\ readyCount' \in Nat
  <2>1. /\ CountWithout(s) \in Nat
        /\ Cardinality(Linked("ready")') = CountWithout(s) + IF r = "ready" THEN 1 ELSE 0
    BY <1>2, <1>3, CountMove DEF IInv, TypeOK
  <2>2. readyCount' = CountWithout(s) + IF r = "ready" THEN 1 ELSE 0
    BY DEF Rearm, PlaceNode
  <2> QED
    BY <2>1, <2>2
<1> HIDE DEF due
<1>5. /\ nodes' = [nodes EXCEPT ![s] = [generation |-> g, deadline |-> deadline, due |-> due]]
      /\ g # 0 /\ nodes[s].generation = g
  BY DEF Rearm, Valid, due
<1>6. TypeOK'
  <2>1. g \in 0..MaxGeneration
    BY DEF IInv, TypeOK
  <2> QED
    BY <1>1, <1>2, <1>3, <1>4, <1>5, <2>1
       DEF Rearm, IInv, TypeOK, Times, progressVars, callVars, stopVars, registryVars
<1>7. Places'
  <2>1. Frontier' = Frontier /\ UNCHANGED <<processing, completed>>
    BY DEF Rearm, Frontier, progressVars
  <2>2. Frontier \in Nat
    BY DEF Frontier, IInv, TypeOK
  <2> QED
    BY <1>1, <1>2, <1>3, <1>5, <2>1, <2>2 DEF IInv, Places, TypeOK, RingFor
<1>8. Pace'
  BY DEF Rearm, IInv, Pace, Frontier, progressVars
<1>9. Rounded' /\ Identities'
  BY <1>1, <1>5 DEF Rearm, IInv, TypeOK, Rounded, Identities, Active, registryVars
<1>10. ReadyCountExact'
  BY <1>4 DEF ReadyCountExact
<1> QED
  BY <1>6, <1>7, <1>8, <1>9, <1>10 DEF IInv

(* A finished bucket: the frontier stays where it is.                      *)
LEMMA CompleteStep ==
  ASSUME IInv, CompleteTick
  PROVE  IInv'
<1>1. TypeOK'
  <2>1. completed \in Nat /\ completed' = completed + 1
    BY DEF CompleteTick, IInv, TypeOK
  <2>3. processing' \in BOOLEAN
    BY Zenon DEF CompleteTick
  <2>2. UNCHANGED <<clock, nodes, ring, readyCount, latest, advancing, ticks, examined,
                    lastGeneration, fired, stopping, cursor, alive>>
    BY DEF CompleteTick, wheelVars, callVars, registryVars, stopVars
  <2> QED
    BY <2>1, <2>2, <2>3 DEF IInv, TypeOK
<1>2. Frontier' = Frontier
  BY DEF CompleteTick, Frontier, IInv, TypeOK
<1>3. Places'
  BY <1>2 DEF CompleteTick, IInv, Places, Linked, wheelVars
<1>4. Pace' /\ Rounded' /\ Identities'
  BY <1>2 DEF CompleteTick, IInv, Pace, Rounded, Identities, Active, wheelVars, registryVars
<1>5. ReadyCountExact'
  BY DEF CompleteTick, IInv, ReadyCountExact, Linked, wheelVars
<1> QED
  BY <1>1, <1>3, <1>4, <1>5 DEF IInv

(* Opening a bucket takes every timer of that tick out of it, and only     *)
(* happens when the tick has begun.                                        *)
LEMMA OpenStep ==
  ASSUME IInv, OpenTick
  PROVE  IInv'
<1> USE GeometryAssumption
<1>1. /\ Frontier = completed /\ Frontier' = completed + 1
      /\ completed \in Nat /\ processing' = TRUE /\ completed' = completed
      /\ nodes' = nodes /\ latest' = latest
  BY DEF OpenTick, Frontier, IInv, TypeOK
<1>2. \A s \in Slots : ring[s] \in {"none", "bucket", "ready"}
  BY DEF OpenTick, IInv, Places, TypeOK, Rings
<1>3. \A s \in Slots : ring'[s] = IF InBucket(s, completed + 1) THEN "pending" ELSE ring[s]
  BY <1>2 DEF OpenTick, SnapshotBucket
<1>4. TypeOK'
  <2>1. ring' \in [Slots -> Rings]
    BY <1>2, <1>3 DEF OpenTick, SnapshotBucket, Rings
  <2>2. ticks' \in 0..MaxTicks
    BY DEF OpenTick, IInv, TypeOK
  <2> QED
    BY <2>1, <2>2 DEF OpenTick, IInv, TypeOK, registryVars, stopVars
<1>5. Places'
  <2> SUFFICES ASSUME NEW s \in Slots
               PROVE  /\ ring'[s] # "lost"
                      /\ ring'[s] = "none" <=> nodes[s].generation = 0
                      /\ ring'[s] = "ready" => nodes[s].due <= completed + 1
                      /\ ring'[s] = "bucket" => nodes[s].due > completed + 1
                      /\ ring'[s] = "pending" => nodes[s].due > completed
    BY <1>1 DEF Places
  <2>1. nodes[s].due \in Nat
    BY DEF IInv, TypeOK
  <2>2. ring[s] = "bucket" => nodes[s].due > completed
    BY <1>1 DEF IInv, Places
  <2>3. CASE InBucket(s, completed + 1)
    BY <2>2, <2>3, <1>3 DEF InBucket, IInv, Places
  <2>4. CASE ~InBucket(s, completed + 1)
    <3>1. ring'[s] = ring[s]
      BY <2>4, <1>3
    <3>2. ring[s] = "bucket" => nodes[s].due # completed + 1
      BY <2>4 DEF InBucket
    <3> QED
      BY <3>1, <3>2, <2>1, <2>2, <1>1, <1>2 DEF IInv, Places
  <2> QED
    BY <2>3, <2>4
<1>6. Pace'
  <2> DEFINE a == latest - Origin
  <2>1. a \in Nat /\ completed * TickNs <= a /\ completed # a \div TickNs
    BY <1>1 DEF OpenTick, ElapsedTick, IInv, Pace, TypeOK
  <2>2. (completed + 1) * TickNs <= a
    BY <2>1, <1>1, RoomForTick
  <2>3. (completed + 1) * TickNs \in Nat
    BY <1>1
  <2> QED
    BY <2>2, <2>3, <1>1 DEF Pace, IInv, TypeOK
<1>7. Rounded' /\ Identities'
  BY <1>1 DEF OpenTick, IInv, Rounded, Identities, Active, registryVars
<1>8. ReadyCountExact'
  <2>1. Linked("ready")' = Linked("ready")
    BY <1>2, <1>3 DEF Linked, InBucket
  <2> QED
    BY <2>1 DEF OpenTick, IInv, ReadyCountExact
<1> QED
  BY <1>4, <1>5, <1>6, <1>7, <1>8 DEF IInv

(* An examined timer is ready or belongs to a later turn of the wheel.     *)
LEMMA ExamineStep ==
  ASSUME IInv, NEW s \in Slots, ExamineNode(s)
  PROVE  IInv'
<1> DEFINE r == RingFor(nodes[s].due)
<1> USE GeometryAssumption
<1>1. r \in Rings /\ r \in {"ready", "bucket"}
  BY DEF RingFor, Rings
<1>2. ring' = [ring EXCEPT ![s] = r] /\ CountWithout(s) = readyCount
  BY DEF ExamineNode, PlaceNode, CountWithout, IInv, TypeOK
<1>3. /\ readyCount' = Cardinality(Linked("ready")')
      /\ readyCount' \in Nat
  <2>1. /\ CountWithout(s) \in Nat
        /\ Cardinality(Linked("ready")') = CountWithout(s) + IF r = "ready" THEN 1 ELSE 0
    BY <1>1, <1>2, CountMove DEF IInv, TypeOK
  <2>2. readyCount' = CountWithout(s) + IF r = "ready" THEN 1 ELSE 0
    BY <1>2 DEF ExamineNode, PlaceNode
  <2> QED
    BY <2>1, <2>2
<1>4. TypeOK'
  <2>1. examined' \in 0..MaxNodes
    BY DEF ExamineNode, IInv, TypeOK
  <2> QED
    BY <2>1, <1>1, <1>2, <1>3 DEF ExamineNode, IInv, TypeOK, progressVars, registryVars, stopVars
<1>5. Places'
  <2>1. Frontier' = Frontier /\ UNCHANGED <<processing, completed, nodes>>
    BY DEF ExamineNode, Frontier, progressVars
  <2>2. Frontier \in Nat /\ nodes[s].due \in Nat
    BY DEF Frontier, IInv, TypeOK
  <2> QED
    BY <1>1, <1>2, <2>1, <2>2 DEF ExamineNode, IInv, Places, TypeOK, RingFor
<1>6. Pace' /\ Rounded' /\ Identities'
  BY DEF ExamineNode, IInv, Pace, Frontier, Rounded, Identities, Active, progressVars, registryVars
<1>7. ReadyCountExact'
  BY <1>3 DEF ReadyCountExact
<1> QED
  BY <1>4, <1>5, <1>6, <1>7 DEF IInv

(* An advance call only raises the latest time.                            *)
LEMMA BeginStep ==
  ASSUME IInv, NEW now \in Times, AdvanceBegin(now)
  PROVE  IInv'
<1> USE GeometryAssumption
<1>1. TypeOK'
  BY DEF AdvanceBegin, IInv, TypeOK, Times, wheelVars, registryVars, stopVars
<1>2. Places' /\ Rounded' /\ Identities'
  BY DEF AdvanceBegin, IInv, Places, Frontier, Rounded, Identities, Active, wheelVars,
         registryVars
<1>3. Pace'
  <2>1. Frontier' = Frontier /\ Frontier * TickNs \in Nat
    BY DEF AdvanceBegin, Frontier, IInv, TypeOK
  <2>2. latest' >= latest
    BY DEF AdvanceBegin
  <2> QED
    BY <2>1, <2>2, <1>1 DEF IInv, Pace, TypeOK
<1>4. ReadyCountExact'
  BY DEF AdvanceBegin, IInv, ReadyCountExact, Linked, wheelVars
<1> QED
  BY <1>1, <1>2, <1>3, <1>4 DEF IInv

(* Every step preserves the invariant.                                     *)
LEMMA NextInv == IInv /\ [Next]_vars => IInv'
<1> SUFFICES ASSUME IInv, [Next]_vars PROVE IInv'
  OBVIOUS
<1> USE GeometryAssumption
<1>1. CASE TimePasses
  <2>1. clock' \in Times
    BY <1>1 DEF TimePasses, IInv, TypeOK, Times
  <2>2. TypeOK'
    BY <1>1, <2>1 DEF TimePasses, IInv, TypeOK, wheelVars, progressVars, callVars, registryVars,
                      stopVars
  <2> QED
    BY <1>1, <2>2, QuietStep DEF TimePasses, registryVars
<1>2. CASE \E now \in Times : AdvanceBegin(now)
  BY <1>2, BeginStep
<1>3. CASE AdvanceRound
  <2>1. CASE AdvanceReturn
    <3>1. ticks' = 0 /\ examined' = 0
      BY <2>1 DEF AdvanceReturn
    <3>4. advancing' \in BOOLEAN
      BY <2>1, Zenon DEF AdvanceReturn
    <3>2. UNCHANGED <<clock, nodes, ring, readyCount, latest, completed, processing,
                      lastGeneration, fired, stopping, cursor, alive>>
      BY <2>1 DEF AdvanceReturn, wheelVars, progressVars, registryVars, stopVars
    <3>3. TypeOK'
      BY <3>1, <3>2, <3>4 DEF IInv, TypeOK
    <3> QED
      BY <2>1, <3>3, QuietStep DEF AdvanceReturn, registryVars
  <2> QED
    BY <1>3, <2>1, CompleteStep, OpenStep, ExamineStep DEF AdvanceRound
<1>4. ASSUME NEW s \in Slots,
             \/ \E now, deadline \in Times : Register(s, now, deadline)
             \/ \E g \in 1..lastGeneration :
                   \/ Cancel(s, g)
                   \/ \E now, deadline \in Times : Rearm(s, g, now, deadline)
             \/ TakeExpired(s)
      PROVE  IInv'
  <2>1. CASE \E now, deadline \in Times : Register(s, now, deadline)
    BY <2>1, RegisterStep
  <2>2. ASSUME NEW g \in 1..lastGeneration, Cancel(s, g)
        PROVE  IInv'
    <3>1. cursor' \in 0..Capacity /\ fired' \subseteq 1..MaxGeneration
      BY <2>2 DEF Cancel, IInv, TypeOK, registryVars, stopVars
    <3> QED
      BY <2>2, <3>1, ReleaseStep DEF Cancel, registryVars, stopVars
  <2>3. ASSUME NEW g \in 1..lastGeneration, NEW now \in Times, NEW deadline \in Times,
               Rearm(s, g, now, deadline)
        PROVE  IInv'
    BY <2>3, RearmStep
  <2>4. CASE TakeExpired(s)
    <3>1. nodes[s].generation \in 1..MaxGeneration
      BY <2>4 DEF TakeExpired, IInv, Places, TypeOK
    <3>2. cursor' \in 0..Capacity /\ fired' \subseteq 1..MaxGeneration
      BY <2>4, <3>1 DEF TakeExpired, IInv, TypeOK, stopVars
    <3> QED
      BY <2>4, <3>2, ReleaseStep DEF TakeExpired, stopVars
  <2> QED
    BY <1>4, <2>1, <2>2, <2>3, <2>4
<1>5. CASE ShutdownBegin
  <2>1. TypeOK'
    BY <1>5 DEF ShutdownBegin, IInv, TypeOK, wheelVars, progressVars, callVars, registryVars
  <2> QED
    BY <1>5, <2>1, QuietStep DEF ShutdownBegin, registryVars
<1>6. CASE ShutdownScan
  <2>1. cursor' \in 0..Capacity
    BY <1>6 DEF ShutdownScan, IInv, TypeOK
  <2>2. TypeOK'
    BY <1>6, <2>1 DEF ShutdownScan, IInv, TypeOK, wheelVars, progressVars, callVars, registryVars
  <2> QED
    BY <1>6, <2>2, QuietStep DEF ShutdownScan, registryVars
<1>7. ASSUME NEW s \in Slots, ShutdownCancel(s)
      PROVE  IInv'
  <2>1. cursor' \in 0..Capacity
    BY <1>7 DEF ShutdownCancel, Slots
  <2>2. fired' \subseteq 1..MaxGeneration
    BY <1>7 DEF ShutdownCancel, registryVars, IInv, TypeOK
  <2> QED
    BY <1>7, <2>1, <2>2, ReleaseStep DEF ShutdownCancel, registryVars
<1>8. CASE Destroy
  <2>1. TypeOK'
    BY <1>8 DEF Destroy, IInv, TypeOK, wheelVars, progressVars, callVars, registryVars
  <2> QED
    BY <1>8, <2>1, QuietStep DEF Destroy, registryVars
<1>9. CASE UNCHANGED vars
  <2>1. TypeOK'
    BY <1>9 DEF vars, IInv, TypeOK, wheelVars, progressVars, callVars, registryVars, stopVars
  <2> QED
    BY <1>9, <2>1, QuietStep DEF vars, registryVars
<1> QED
  BY <1>1, <1>2, <1>3, <1>4, <1>5, <1>6, <1>7, <1>8, <1>9 DEF Next, ShutdownStep

(* The invariant holds in every reachable state.                           *)
THEOREM Invariance == Spec => []IInv
  BY InitInv, NextInv, PTL DEF Spec

(* The wheel's fields keep their types for every geometry and budget.      *)
THEOREM TypeCorrect == Spec => []TypeOK
<1>1. IInv => TypeOK
  BY DEF IInv
<1> QED
  BY <1>1, Invariance, PTL

(* No timer is overlooked by the advance: whatever is registered, rearmed  *)
(* or cancelled while a bucket is half visited, a live timer whose tick is *)
(* completed is in the ready ring.                                         *)
THEOREM NothingOverlookedCorrect == Spec => []NothingOverlooked
<1>1. IInv => NothingOverlooked
  <2> SUFFICES ASSUME IInv, NEW s \in Active
               PROVE  /\ ring[s] \in {"bucket", "pending", "ready"}
                      /\ nodes[s].due <= completed => ring[s] = "ready"
    BY DEF NothingOverlooked
  <2>1. /\ s \in Slots /\ nodes[s].generation # 0
        /\ nodes[s].due \in Nat /\ completed \in Nat /\ ring[s] \in Rings
    BY DEF Active, IInv, TypeOK
  <2>2. completed <= Frontier /\ Frontier \in Nat
    BY <2>1 DEF Frontier
  <2> QED
    BY <2>1, <2>2 DEF IInv, Places, Rings
<1> QED
  BY <1>1, Invariance, PTL

(* The counter of ready timers is exact.                                   *)
THEOREM ReadyCountCorrect == Spec => []ReadyCountExact
<1>1. IInv => ReadyCountExact
  BY DEF IInv
<1> QED
  BY <1>1, Invariance, PTL

------------------------------------------------------------------------------
(* The wheel implements TimerService.                                      *)

(* A timer registered in a free slot joins the armed ones.                 *)
LEMMA ArmedGrows ==
  ASSUME TypeOK, NEW s \in Slots, s \notin Active, NEW n, n.generation # 0,
         nodes' = [nodes EXCEPT ![s] = n]
  PROVE  Armed' = Armed \cup {[id |-> n.generation, deadline |-> n.deadline]}
<1>1. nodes'[s] = n /\ \A u \in Slots : u # s => nodes'[u] = nodes[u]
  BY DEF TypeOK
<1>2. Active' = Active \cup {s}
  BY <1>1 DEF Active
<1>3. \A u \in Active : TimerOf(u)' = TimerOf(u)
  BY <1>1 DEF Active, TimerOf
<1>4. TimerOf(s)' = [id |-> n.generation, deadline |-> n.deadline]
  BY <1>1 DEF TimerOf
<1> QED
  BY <1>2, <1>3, <1>4 DEF Armed

(* A timer whose slot is cleared leaves them; no other has its identity.   *)
LEMMA ArmedShrinks ==
  ASSUME TypeOK, Identities, NEW s \in Active, nodes' = [nodes EXCEPT ![s] = FreeNode]
  PROVE  Armed' = Armed \ {TimerOf(s)}
<1>1. nodes'[s] = FreeNode /\ \A u \in Slots : u # s => nodes'[u] = nodes[u]
  BY DEF TypeOK, Active
<1>2. Active' = Active \ {s}
  BY <1>1 DEF Active, FreeNode
<1>3. \A u \in Active \ {s} : TimerOf(u)' = TimerOf(u)
  BY <1>1 DEF Active, TimerOf
<1>4. \A u \in Active \ {s} : TimerOf(u) # TimerOf(s)
  <2> SUFFICES ASSUME NEW u \in Active, u # s PROVE TimerOf(u).id # TimerOf(s).id
    OBVIOUS
  <2> QED
    BY DEF Identities, TimerOf
<1> QED
  BY <1>2, <1>3, <1>4 DEF Armed

(* A timer that is rearmed is exchanged for one with the same identity.    *)
LEMMA ArmedMoves ==
  ASSUME TypeOK, Identities, NEW s \in Active, NEW n,
         n.generation = nodes[s].generation, nodes' = [nodes EXCEPT ![s] = n]
  PROVE  Armed' = (Armed \ {TimerOf(s)})
                    \cup {[id |-> nodes[s].generation, deadline |-> n.deadline]}
<1>1. nodes'[s] = n /\ \A u \in Slots : u # s => nodes'[u] = nodes[u]
  BY DEF TypeOK, Active
<1>2. Active' = Active
  BY <1>1 DEF Active
<1>3. \A u \in Active \ {s} : TimerOf(u)' = TimerOf(u)
  BY <1>1 DEF Active, TimerOf
<1>4. \A u \in Active \ {s} : TimerOf(u) # TimerOf(s)
  <2> SUFFICES ASSUME NEW u \in Active, u # s PROVE TimerOf(u).id # TimerOf(s).id
    OBVIOUS
  <2> QED
    BY DEF Identities, TimerOf
<1>5. TimerOf(s)' = [id |-> nodes[s].generation, deadline |-> n.deadline]
  BY <1>1 DEF TimerOf
<1> QED
  BY <1>2, <1>3, <1>4, <1>5 DEF Armed

(* A timer in the ready ring has passed its deadline.                      *)
LEMMA NeverEarly ==
  ASSUME IInv, NEW s \in Slots, ring[s] = "ready"
  PROVE  s \in Active /\ nodes[s].deadline <= latest
<1> USE GeometryAssumption
<1>1. s \in Active
  BY DEF IInv, Places, Active
<1>2. nodes[s].due \in Nat /\ Frontier \in Nat /\ nodes[s].due <= Frontier
  BY DEF IInv, Places, TypeOK, Frontier
<1>3. nodes[s].due * TickNs <= Frontier * TickNs
  BY <1>2, Monotonic
<1>4. nodes[s].due * TickNs \in Nat /\ Frontier * TickNs \in Nat
  BY <1>2
<1>5. nodes[s].deadline <= Origin + nodes[s].due * TickNs
  BY <1>1 DEF IInv, Rounded
<1>6. nodes[s].deadline \in Nat /\ latest \in Nat
  BY DEF IInv, TypeOK, Times
<1> QED
  BY <1>1, <1>3, <1>4, <1>5, <1>6 DEF IInv, Pace

(* Each step of the wheel is a step of the service or changes nothing of   *)
(* what its callers can see.                                               *)
LEMMA PromiseStep ==
  ASSUME IInv, IInv', [Next]_vars
  PROVE  [Promise!ServiceNext]_(Promise!serviceVars)
<1> USE GeometryAssumption
<1> DEFINE Quiet == UNCHANGED <<nodes, fired, lastGeneration, latest, stopping>>
<1>0. Quiet => UNCHANGED Promise!serviceVars
  BY DEF Promise!serviceVars, Armed, Active, TimerOf
<1>1. CASE TimePasses
  BY <1>0, <1>1 DEF TimePasses, wheelVars, progressVars, registryVars, stopVars
<1>2. ASSUME NEW now \in Times, AdvanceBegin(now)
      PROVE  Promise!PassTime
  <2>1. ~stopping /\ latest' = now /\ now >= latest
    BY <1>2 DEF AdvanceBegin
  <2>2. UNCHANGED <<nodes, fired, lastGeneration, stopping>>
    BY <1>2 DEF AdvanceBegin, wheelVars, registryVars, stopVars
  <2>3. Armed' = Armed
    BY <2>2 DEF Armed, Active, TimerOf
  <2> QED
    BY <2>1, <2>2, <2>3 DEF Promise!PassTime
<1>3. CASE AdvanceRound
  <2>1. Quiet
    BY <1>3 DEF AdvanceRound, CompleteTick, OpenTick, ExamineNode, AdvanceReturn, wheelVars,
                progressVars, registryVars, stopVars
  <2> QED
    BY <1>0, <2>1
<1>4. ASSUME NEW s \in Slots, NEW now \in Times, NEW deadline \in Times,
             Register(s, now, deadline)
      PROVE  Promise!Arm(deadline)
  <2> DEFINE n == [generation |-> lastGeneration + 1, deadline |-> deadline,
                   due |-> DeadlineTick(deadline)]
  <2>1. /\ nodes' = [nodes EXCEPT ![s] = n] /\ s \notin Active
        /\ lastGeneration' = lastGeneration + 1 /\ ~stopping
        /\ UNCHANGED <<fired, latest, stopping>>
    BY <1>4 DEF Register, progressVars, stopVars
  <2>2. n.generation # 0 /\ n.generation = lastGeneration + 1 /\ n.deadline = deadline
    BY DEF IInv, TypeOK
  <2>3. Armed' = Armed \cup {[id |-> n.generation, deadline |-> n.deadline]}
    BY <2>1, <2>2, ArmedGrows DEF IInv
  <2> QED
    BY <2>1, <2>2, <2>3 DEF Promise!Arm, Promise!Timer
<1>5. ASSUME NEW s \in Active, ReleaseNode(s),
             UNCHANGED <<fired, lastGeneration, latest, stopping>>
      PROVE  \E t \in Armed : Promise!Disarm(t)
  <2>1. Armed' = Armed \ {TimerOf(s)}
    BY <1>5, ArmedShrinks DEF IInv, ReleaseNode
  <2>2. TimerOf(s) \in Armed
    BY DEF Armed
  <2> QED
    BY <1>5, <2>1, <2>2 DEF Promise!Disarm
<1>6. ASSUME NEW s \in Slots, NEW g \in 1..lastGeneration, Cancel(s, g)
      PROVE  \E t \in Armed : Promise!Disarm(t)
  <2>1. s \in Active
    BY <1>6 DEF Cancel, Valid, Active
  <2> QED
    BY <1>5, <1>6, <2>1 DEF Cancel, progressVars, registryVars, stopVars
<1>7. ASSUME NEW s \in Slots, NEW g \in 1..lastGeneration, NEW now \in Times,
             NEW deadline \in Times, Rearm(s, g, now, deadline)
      PROVE  \E t \in Armed : Promise!Move(t, deadline)
  <2> DEFINE n == [generation |-> g, deadline |-> deadline, due |-> DeadlineTick(deadline)]
  <2>1. /\ nodes' = [nodes EXCEPT ![s] = n] /\ s \in Active
        /\ nodes[s].generation = g /\ ~stopping
        /\ UNCHANGED <<fired, lastGeneration, latest, stopping>>
    BY <1>7 DEF Rearm, Valid, Active, progressVars, registryVars, stopVars
  <2>2. n.generation = nodes[s].generation /\ n.deadline = deadline
    BY <2>1
  <2>3. Armed' = (Armed \ {TimerOf(s)}) \cup {[id |-> nodes[s].generation, deadline |-> n.deadline]}
    BY <2>1, <2>2, ArmedMoves DEF IInv
  <2>4. TimerOf(s) \in Armed /\ TimerOf(s).id = nodes[s].generation
    BY <2>1 DEF Armed, TimerOf
  <2> QED
    BY <2>1, <2>2, <2>3, <2>4 DEF Promise!Move, Promise!Timer
<1>8. ASSUME NEW s \in Slots, TakeExpired(s)
      PROVE  \E t \in Armed : Promise!Fire(t)
  <2>1. s \in Active /\ nodes[s].deadline <= latest
    BY <1>8, NeverEarly DEF TakeExpired
  <2>2. Armed' = Armed \ {TimerOf(s)}
    BY <1>8, <2>1, ArmedShrinks DEF IInv, TakeExpired, ReleaseNode
  <2>3. /\ TimerOf(s) \in Armed /\ TimerOf(s).id = nodes[s].generation
        /\ TimerOf(s).deadline = nodes[s].deadline
    BY <2>1 DEF Armed, TimerOf
  <2>4. fired' = fired \cup {nodes[s].generation} /\ UNCHANGED <<lastGeneration, latest, stopping>>
    BY <1>8 DEF TakeExpired, progressVars, stopVars
  <2> QED
    BY <2>1, <2>2, <2>3, <2>4 DEF Promise!Fire
<1>9. CASE ShutdownBegin
  <2>1. UNCHANGED <<nodes, fired, lastGeneration, latest>> /\ stopping'
    BY <1>9 DEF ShutdownBegin, wheelVars, progressVars, registryVars
  <2>2. Armed' = Armed
    BY <2>1 DEF Armed, Active, TimerOf
  <2>3. Promise!CloseService
    BY <2>1, <2>2 DEF Promise!CloseService
  <2> QED
    BY <2>3 DEF Promise!ServiceNext
<1>10. CASE ShutdownScan \/ Destroy
  BY <1>0, <1>10 DEF ShutdownScan, Destroy, wheelVars, progressVars, registryVars
<1>11. ASSUME NEW s \in Slots, ShutdownCancel(s)
       PROVE  \E t \in Armed : Promise!Disarm(t)
  <2>1. s \in Active
    BY <1>11 DEF ShutdownCancel
  <2> QED
    BY <1>5, <1>11, <2>1 DEF ShutdownCancel, progressVars, registryVars
<1>12. CASE UNCHANGED vars
  BY <1>0, <1>12 DEF vars, wheelVars, progressVars, registryVars, stopVars
<1> QED
  BY <1>1, <1>2, <1>3, <1>4, <1>6, <1>7, <1>8, <1>9, <1>10, <1>11, <1>12
     DEF Next, ShutdownStep, Promise!ServiceNext

(* For every geometry and budget the wheel keeps the promise of            *)
(* TimerService: no timer fires before its deadline or twice, and none     *)
(* fires after it was cancelled.                                           *)
THEOREM KeepsPromise == Spec => PromiseKept
<1>1. Init => Promise!ServiceInit
  <2> SUFFICES ASSUME Init PROVE Promise!ServiceInit
    OBVIOUS
  <2>1. Armed = {}
    BY DEF Init, Armed, Active, FreeNode
  <2> QED
    BY <2>1, GeometryAssumption DEF Init, Promise!ServiceInit, Times
<1>2. IInv /\ IInv' /\ [Next]_vars => [Promise!ServiceNext]_(Promise!serviceVars)
  BY PromiseStep
<1> QED
  BY <1>1, <1>2, Invariance, PTL DEF Spec, PromiseKept, Promise!Service
==============================================================================
