------------------------ MODULE RequestReactorProofs ------------------------
(***************************************************************************)
(* Proof that the request tables stay sound, for every number of slots,    *)
(* records, domains and requests.  The properties are not inductive by     *)
(* themselves: that an answer finds its way rests on instance numbers      *)
(* identifying requests (Identified), on a held answer keeping its entry   *)
(* (HeldSound), on a record never outliving its entry while its request is *)
(* in flight (RecordsMatched), and that a released slot is clean rests on  *)
(* what each cleanup cursor has passed (SlotsSound).                       *)
(***************************************************************************)
EXTENDS RequestReactor, FiniteSetTheorems, FunctionTheorems, WellFoundedInduction, TLAPS

\* A request that some part of the service still holds.
Known(r) ==
    \/ r \in flight
    \/ \E n \in StoreIndex : store[n] = r
    \/ \E n \in ExpectedIndex : expected[n] = r
    \/ \E d \in Domains : held[d] = r

\* Instance numbers identify: every known request was issued, for a lease that
\* exists or existed, and no two known requests share an instance number.
Identified ==
    /\ \A r \in Requests : Known(r) =>
           r.instance <= lastIssued /\ r.generation <= slots[r.slot].generation
    /\ \A r, s \in Requests : Known(r) /\ Known(s) /\ r.instance = s.instance => r = s

\* A held answer belongs to its domain, left the worker and keeps its entry.
HeldSound ==
    \A d \in Domains : held[d] # None =>
        /\ held[d].domain = d
        /\ held[d] \notin flight
        /\ \E n \in ExpectedIndex : expected[n] = held[d]

\* A record of a request still in flight has an entry to match.
RecordsMatched ==
    \A n \in StoreIndex : store[n] \in flight => \E m \in ExpectedIndex : expected[m] = store[n]

\* What a cleanup has passed it has cleaned, records before entries, and a slot that
\* is not closing has no cleanup under way.
SlotsSound ==
    \A i \in Slots :
        /\ slots[i].state # "free" => slots[i].generation > 0
        /\ slots[i].state # "closing" =>
             /\ slots[i].cleanupIndex = 0 /\ ~slots[i].recordsCleaned
             /\ slots[i].expectedCursor = 0
        /\ \A n \in StoreIndex :
             n < slots[i].cleanupIndex \/ slots[i].recordsCleaned => ~BelongsTo(store[n], i)
        /\ \A n \in ExpectedIndex : n < slots[i].expectedCursor => ~BelongsTo(expected[n], i)
        /\ slots[i].expectedCursor > 0 => slots[i].recordsCleaned

\* The inductive invariant: the properties and what they rest on.
IInv ==
    /\ TypeOK /\ Identified /\ HeldSound /\ RecordsMatched /\ SlotsSound
    /\ RequestsSound

-----------------------------------------------------------------------------
\* A nonempty set of naturals has a least element, so Min means what it says.
LEMMA LeastElement ==
    ASSUME NEW T, T \subseteq Nat, T # {}
    PROVE  Min(T) \in T /\ \A y \in T : Min(T) <= y
<1> DEFINE R == OpToRel(<, Nat)
<1>1. IsWellFoundedOn(R, Nat)
  BY NatLessThanWellFounded
<1>2. PICK x \in T : \A y \in T : ~ (<<y, x>> \in R)
  <2> HIDE DEF R
  <2> QED BY <1>1, WFMin
<1>3. \A y \in T : x <= y
  <2>1. R = {ss \in Nat \X Nat : ss[1] < ss[2]}
    BY DEF OpToRel
  <2>2. \A y \in T : y < x => <<y, x>> \in R
    <3> HIDE DEF R
    <3> QED BY <2>1
  <2>3. \A y \in T : ~(y < x)
    <3> HIDE DEF R
    <3> QED BY <1>2, <2>2
  <2> QED BY <2>3
<1> QED BY <1>3 DEF Min

\* The clamp of the cleanup cursors.
LEMMA MinOfTwo ==
    ASSUME NEW a \in Nat, NEW b \in Nat
    PROVE  Min({a, b}) = IF a <= b THEN a ELSE b
BY LeastElement

\* What the assumptions on the constants give about the two tables.
LEMMA Capacities ==
    /\ StoreCapacity \in Nat /\ StoreCapacity > 0
    /\ CleanupSlots \in Nat /\ CleanupSlots > 0
    /\ ClientLimit \in Nat
    /\ Cardinality(Domains) \in Nat
    /\ ExpectedCapacity \in Nat /\ ExpectedCapacity >= StoreCapacity
    /\ StoreIndex \subseteq Nat /\ ExpectedIndex \subseteq Nat
    /\ IsFiniteSet(ExpectedIndex)
<1>1. Cardinality(Domains) \in Nat
  BY CapacityAssumption, FS_CardinalityType
<1>2. ExpectedCapacity \in Nat
  BY <1>1, CapacityAssumption DEF ExpectedCapacity
<1>3. IsFiniteSet(ExpectedIndex)
  BY <1>2, FS_Interval DEF ExpectedIndex
<1> QED BY <1>1, <1>2, <1>3, CapacityAssumption DEF ExpectedCapacity, StoreIndex, ExpectedIndex

\* An empty entry is never mistaken for a request.
LEMMA NoneIsNoRequest == None \notin Requests
BY DEF None, Requests

\* The fields of a request.
LEMMA RequestFields ==
    ASSUME NEW r \in Requests
    PROVE  /\ r.slot \in Slots /\ r.generation \in Nat /\ r.generation > 0
           /\ r.instance \in Nat /\ r.domain \in Domains /\ r # None
BY NoneIsNoRequest, CapacityAssumption DEF Requests

\* The pigeonhole principle: if every class of S has at most L members, S has at
\* most L times as many members as there are classes.
LEMMA Crowd ==
    ASSUME NEW S, NEW T, IsFiniteSet(S), IsFiniteSet(T), NEW L \in Nat, NEW f \in [S -> T],
           \A t \in T : Cardinality({s \in S : f[s] = t}) <= L
    PROVE  Cardinality(S) <= Cardinality(T) * L
<1> DEFINE Class(t) == {s \in S : f[s] = t}
<1>1. \A t \in T : IsFiniteSet(Class(t)) /\ Cardinality(Class(t)) \in Nat
  BY FS_Subset, FS_CardinalityType
<1>2. \A t \in T : ExistsBijection(Class(t), 1 .. Cardinality(Class(t)))
  BY <1>1, FS_CardinalityType, Fun_ExistsBijSymmetric
<1>3. \A t \in T : \E g : g \in Injection(Class(t), 1 .. L)
  <2> SUFFICES ASSUME NEW t \in T PROVE \E g : g \in Injection(Class(t), 1 .. L)
    OBVIOUS
  <2>1. PICK g : g \in Bijection(Class(t), 1 .. Cardinality(Class(t)))
    BY <1>2 DEF ExistsBijection
  <2>2. 1 .. Cardinality(Class(t)) \subseteq 1 .. L
    BY <1>1
  <2> HIDE DEF Class
  <2>3. g \in Injection(Class(t), 1 .. L)
    BY <2>1, <2>2 DEF Bijection, Injection, IsInjective
  <2> QED BY <2>3
<1> DEFINE rank == [t \in T |-> CHOOSE g : g \in Injection(Class(t), 1 .. L)]
<1>4. \A t \in T : rank[t] \in Injection(Class(t), 1 .. L)
  BY <1>3
<1> DEFINE h == [s \in S |-> <<f[s], rank[f[s]][s]>>]
<1>5. \A s \in S : f[s] \in T /\ s \in Class(f[s])
  OBVIOUS
<1> HIDE DEF rank, Class
<1>6. h \in [S -> T \X (1 .. L)]
  BY <1>4, <1>5 DEF Injection
<1>7. ASSUME NEW s \in S, NEW u \in S, h[s] = h[u] PROVE s = u
  <2>1. f[s] = f[u] /\ rank[f[s]][s] = rank[f[s]][u]
    BY <1>7
  <2>2. s \in Class(f[s]) /\ u \in Class(f[s])
    BY <1>5, <2>1
  <2> QED BY <1>4, <1>5, <2>1, <2>2 DEF Injection, IsInjective
<1>8. h \in Injection(S, T \X (1 .. L))
  <2> HIDE DEF h
  <2> QED BY <1>6, <1>7 DEF Injection, IsInjective
<1>9. IsFiniteSet(1 .. L) /\ Cardinality(1 .. L) = L
  BY FS_Interval
<1>10. /\ IsFiniteSet(T \X (1 .. L))
       /\ Cardinality(T \X (1 .. L)) = Cardinality(T) * L
  BY <1>9, FS_Product
<1> HIDE DEF h
<1> QED BY <1>8, <1>10, FS_Injection

-----------------------------------------------------------------------------
\* Whatever is not empty in a table is a request.
LEMMA TableTypes ==
    ASSUME TypeOK
    PROVE  /\ \A n \in StoreIndex : store[n] # None => store[n] \in Requests
           /\ \A n \in ExpectedIndex : expected[n] # None => expected[n] \in Requests
           /\ \A d \in Domains : held[d] # None => held[d] \in Requests
           /\ \A r \in flight : r \in Requests
BY DEF TypeOK

\* Comparing the four identity fields finds exactly the request itself, because no
\* other known request carries its instance number.
LEMMA Matching ==
    ASSUME TypeOK, Identified, NEW r \in Requests, Known(r)
    PROVE  /\ \A n \in StoreIndex : SameRequest(store[n], r) <=> store[n] = r
           /\ \A n \in ExpectedIndex : SameRequest(expected[n], r) <=> expected[n] = r
           /\ HasRecord(r) <=> \E n \in StoreIndex : store[n] = r
           /\ HasEntry(expected, r) <=> \E n \in ExpectedIndex : expected[n] = r
           /\ TakeRecord(r) = [n \in StoreIndex |-> IF store[n] = r THEN None ELSE store[n]]
           /\ ForgetTable(r) = [n \in ExpectedIndex |-> IF expected[n] = r THEN None ELSE expected[n]]
<1>1. r # None
  BY NoneIsNoRequest
<1>2. ASSUME NEW q \in Requests \cup {None}, q # None => Known(q)
      PROVE  SameRequest(q, r) <=> q = r
  BY <1>1, <1>2 DEF SameRequest, Identified
<1>3. \A n \in StoreIndex : SameRequest(store[n], r) <=> store[n] = r
  BY <1>2 DEF TypeOK, Known
<1>4. \A n \in ExpectedIndex : SameRequest(expected[n], r) <=> expected[n] = r
  BY <1>2 DEF TypeOK, Known
<1> QED BY <1>3, <1>4 DEF HasRecord, HasEntry, TakeRecord, ForgetTable

\* The entries in use.
Occupied == {n \in ExpectedIndex : expected[n] # None}

\* The occupied entries can be counted.
LEMMA OccupiedFinite == IsFiniteSet(Occupied) /\ Cardinality(Occupied) \in Nat
BY Capacities, FS_Subset, FS_CardinalityType DEF Occupied

\* Their number is within the capacity.
LEMMA CountType ==
    ASSUME NEW table
    PROVE  Cardinality({n \in ExpectedIndex : table[n] # None}) \in 0 .. ExpectedCapacity
<1> DEFINE used == {n \in ExpectedIndex : table[n] # None}
<1>1. Cardinality(ExpectedIndex) = ExpectedCapacity
  BY Capacities, FS_Interval DEF ExpectedIndex
<1>2. used \subseteq ExpectedIndex
  OBVIOUS
<1> HIDE DEF used
<1>3. Cardinality(used) <= ExpectedCapacity /\ Cardinality(used) \in Nat
  BY <1>1, <1>2, Capacities, FS_Subset, FS_CardinalityType
<1> QED BY <1>3, Capacities DEF used

\* Forgetting a known request empties exactly its entry and keeps the count exact.
LEMMA ForgetSound ==
    ASSUME TypeOK, Identified, SequencesDistinct, CountExact,
           NEW r \in Requests, Known(r), Forget(r)
    PROVE  /\ expected' = [n \in ExpectedIndex |-> IF expected[n] = r THEN None ELSE expected[n]]
           /\ CountExact'
<1>0. expectedCount = Cardinality(Occupied)
  BY DEF CountExact, Occupied
<1>1. expected' = [n \in ExpectedIndex |-> IF expected[n] = r THEN None ELSE expected[n]]
  BY Matching DEF Forget
<1>2. r # None
  BY NoneIsNoRequest
<1>3. CASE HasEntry(expected, r)
  <2>1. PICK k \in ExpectedIndex : expected[k] = r
    BY <1>3, Matching
  <2>2. \A n \in ExpectedIndex : expected[n] = r => n = k
    BY <2>1, <1>2 DEF SequencesDistinct
  <2>3. Occupied' = Occupied \ {k} /\ k \in Occupied
    BY <1>1, <1>2, <2>1, <2>2 DEF Occupied
  <2>4. Cardinality(Occupied') = Cardinality(Occupied) - 1
    BY <2>3, OccupiedFinite, FS_RemoveElement
  <2>5. expectedCount' = expectedCount - 1
    BY <1>3 DEF Forget, ForgetCount
  <2>6. expectedCount' = Cardinality(Occupied')
    BY <1>0, <2>4, <2>5
  <2> QED BY <1>1, <2>6 DEF CountExact, Occupied
<1>4. CASE ~HasEntry(expected, r)
  <2>1. Occupied' = Occupied
    BY <1>1, <1>4, Matching DEF Occupied
  <2>2. expectedCount' = Cardinality(Occupied')
    BY <1>0, <1>4, <2>1 DEF Forget, ForgetCount
  <2> QED BY <1>1, <2>2 DEF CountExact, Occupied
<1> QED BY <1>1, <1>3, <1>4

\* A step that only takes entries away, and issues nothing, keeps identities
\* distinct, sequence numbers distinct and every client within its limit.
LEMMA ShrinkStep ==
    ASSUME IInv, TypeOK',
           \A r \in Requests : Known(r)' => Known(r),
           \A n \in ExpectedIndex : expected'[n] \in {expected[n], None},
           lastIssued' = lastIssued,
           \A i \in Slots : slots'[i].generation = slots[i].generation
    PROVE  Identified' /\ SequencesDistinct' /\ UndeliveredBounded'
<1>1. Identified'
  BY RequestFields DEF IInv, Identified
<1>2. SequencesDistinct'
  BY DEF IInv, RequestsSound, SequencesDistinct
<1>3. UndeliveredBounded'
  <2> SUFFICES ASSUME MkdirEnabled, NEW i \in Slots
               PROVE  Cardinality(EntriesOf(i)') <= ClientLimit
    BY DEF UndeliveredBounded
  <2>1. EntriesOf(i)' \subseteq EntriesOf(i)
    BY DEF EntriesOf, BelongsTo
  <2>2. IsFiniteSet(EntriesOf(i))
    BY Capacities, FS_Subset DEF EntriesOf
  <2>3. Cardinality(EntriesOf(i)') <= Cardinality(EntriesOf(i))
    BY <2>1, <2>2, FS_Subset
  <2>4. Cardinality(EntriesOf(i)) <= ClientLimit
    BY DEF IInv, RequestsSound, UndeliveredBounded
  <2>5. Cardinality(EntriesOf(i)) \in Nat /\ Cardinality(EntriesOf(i)') \in Nat
    BY <2>1, <2>2, FS_Subset, FS_CardinalityType
  <2> QED BY <2>3, <2>4, <2>5, Capacities
<1> QED BY <1>1, <1>2, <1>3

\* With MKDIR enabled the expected table is never full when reserve looks for an
\* entry: all clients at their limit still leave the room of one domain.
LEMMA RoomForEntry ==
    ASSUME IInv, MkdirEnabled, NEW d \in Domains
    PROVE  FreeEntries # {}
<1> SUFFICES ASSUME FreeEntries = {} PROVE FALSE
  OBVIOUS
<1> DEFINE owner == [n \in Occupied |-> expected[n].slot]
<1>1. owner \in [Occupied -> Slots]
  BY RequestFields, TableTypes DEF IInv, Occupied
<1>2. ASSUME NEW i \in Slots PROVE Cardinality({n \in Occupied : owner[n] = i}) <= ClientLimit
  <2>1. {n \in Occupied : owner[n] = i} = EntriesOf(i)
    BY DEF Occupied, EntriesOf, BelongsTo, IInv, RequestsSound, NothingLeftBehind, Leased
  <2> QED BY <2>1 DEF IInv, RequestsSound, UndeliveredBounded
<1> HIDE DEF owner
<1>3. Cardinality(Occupied) <= Cardinality(Slots) * ClientLimit
  BY <1>1, <1>2, Crowd, OccupiedFinite, CapacityAssumption, Capacities
<1>4. Cardinality(Occupied) = ExpectedCapacity
  <2>1. Occupied = ExpectedIndex
    BY DEF Occupied, FreeEntries
  <2> QED BY <2>1, Capacities, FS_Interval DEF ExpectedIndex
<1>5. Cardinality(Domains) > 0
  BY FS_EmptySet, CapacityAssumption, Capacities
<1>6. Cardinality(Slots) \in Nat /\ Cardinality(Slots) * ClientLimit \in Nat
  BY FS_CardinalityType, CapacityAssumption, Capacities
<1> QED BY <1>3, <1>4, <1>5, <1>6, Capacities, ProvisionAssumption, OccupiedFinite DEF ExpectedCapacity

\* A step that changes only the state or the rejection of an open slot.
LEMMA SlotStep ==
    ASSUME IInv, NEW i \in Slots, slots[i].state = "open",
           NEW s \in SlotStates, slots' = [slots EXCEPT ![i] = s],
           s.generation = slots[i].generation, s.state \in {"open", "closing"},
           s.cleanupIndex = slots[i].cleanupIndex,
           s.recordsCleaned = slots[i].recordsCleaned,
           s.expectedCursor = slots[i].expectedCursor,
           UNCHANGED <<store, expected, expectedCount, flight, held, lastIssued>>,
           stopped' \in BOOLEAN, infrastructure' \in BOOLEAN, NoInfrastructureFailure'
    PROVE  IInv'
<1>0. TypeOK'
  BY DEF IInv, TypeOK
<1>1. \A j \in Slots : /\ slots'[j].generation = slots[j].generation
                       /\ slots'[j].cleanupIndex = slots[j].cleanupIndex
                       /\ slots'[j].recordsCleaned = slots[j].recordsCleaned
                       /\ slots'[j].expectedCursor = slots[j].expectedCursor
                       /\ slots'[j].state = "open" => slots[j].state = "open"
                       /\ slots'[j].state = "free" => slots[j].state = "free"
                       /\ slots'[j].state # "closing" => slots[j].state # "closing"
  BY DEF IInv, TypeOK
<1>2. Identified' /\ SequencesDistinct' /\ UndeliveredBounded'
  BY <1>0, <1>1, ShrinkStep DEF Known
<1>3. HeldSound' /\ RecordsMatched'
  BY DEF IInv, HeldSound, RecordsMatched
<1>4. SlotsSound'
  BY <1>1 DEF IInv, SlotsSound, BelongsTo
<1>5. LiveRequestsTracked'
  BY <1>1, RequestFields, TableTypes DEF IInv, RequestsSound, LiveRequestsTracked, Open, Leased
<1>6. NothingLeftBehind'
  BY <1>1, RequestFields, TableTypes DEF IInv, RequestsSound, NothingLeftBehind, Leased
<1>7. CountExact'
  BY DEF IInv, RequestsSound, CountExact
<1> QED BY <1>0, <1>2, <1>3, <1>4, <1>5, <1>6, <1>7 DEF IInv, RequestsSound

\* Closing a client.
LEMMA CloseStep == ASSUME IInv, NEW i \in Slots, Close(i) PROVE IInv'
<1> DEFINE s == [slots[i] EXCEPT !.state = "closing"]
<1>1. /\ s \in SlotStates /\ s.generation = slots[i].generation /\ s.state = "closing"
      /\ s.cleanupIndex = slots[i].cleanupIndex /\ s.recordsCleaned = slots[i].recordsCleaned
      /\ s.expectedCursor = slots[i].expectedCursor
  BY DEF IInv, TypeOK, SlotStates
<1>2. slots' = [slots EXCEPT ![i] = s]
  BY DEF Close, CloseSlot
<1> HIDE DEF s
<1>3. NoInfrastructureFailure' /\ stopped' \in BOOLEAN /\ infrastructure' \in BOOLEAN
  BY DEF Close, IInv, TypeOK, RequestsSound, NoInfrastructureFailure
<1> QED BY <1>1, <1>2, <1>3, SlotStep DEF Close

\* Answering, or failing to answer, a request that was refused.
LEMMA RejectStep ==
    ASSUME IInv, NEW i \in Slots, slots[i].state = "open", NEW b \in BOOLEAN,
           slots' = [slots EXCEPT ![i].rejecting = b],
           UNCHANGED <<store, expected, expectedCount, flight, held, lastIssued, stopped>>,
           infrastructure' \in BOOLEAN, NoInfrastructureFailure'
    PROVE  IInv'
<1> DEFINE s == [slots[i] EXCEPT !.rejecting = b]
<1>1. /\ s \in SlotStates /\ s.generation = slots[i].generation /\ s.state = "open"
      /\ s.cleanupIndex = slots[i].cleanupIndex /\ s.recordsCleaned = slots[i].recordsCleaned
      /\ s.expectedCursor = slots[i].expectedCursor
  BY DEF IInv, TypeOK, SlotStates
<1>2. slots' = [slots EXCEPT ![i] = s]
  OBVIOUS
<1> HIDE DEF s
<1>3. stopped' \in BOOLEAN
  BY DEF IInv, TypeOK
<1> QED BY <1>1, <1>2, <1>3, SlotStep

\* A request to stop.
LEMMA StopStep == ASSUME IInv, Stop PROVE IInv'
<1>0. TypeOK'
  BY DEF Stop, IInv, TypeOK
<1>1. Identified' /\ SequencesDistinct' /\ UndeliveredBounded'
  BY <1>0, ShrinkStep DEF Stop, Known
<1>2. HeldSound' /\ RecordsMatched' /\ SlotsSound'
  BY DEF Stop, IInv, HeldSound, RecordsMatched, SlotsSound, BelongsTo
<1>3. LiveRequestsTracked' /\ NothingLeftBehind' /\ CountExact' /\ NoInfrastructureFailure'
  BY DEF Stop, IInv, RequestsSound, LiveRequestsTracked, NothingLeftBehind, CountExact,
         NoInfrastructureFailure, Open, Leased
<1> QED BY <1>0, <1>1, <1>2, <1>3 DEF IInv, RequestsSound

\* Accepting a request puts it in both tables under a fresh instance number.
LEMMA AcceptStep ==
    ASSUME IInv, NEW i \in Slots, NEW q \in Sequences, NEW d \in Domains,
           slots[i].state = "open",
           ~Duplicate(i, q), ~ReserveRefuses(i), FreeEntries # {},
           lastIssued < MaxInstances, lastIssued' = lastIssued + 1,
           Accept(Request(i, q, d)), stopped' \in BOOLEAN,
           UNCHANGED <<slots, held, infrastructure>>
    PROVE  IInv'
<1> DEFINE r == Request(i, q, d)
<1> DEFINE m == Min(FreeRecords)
<1> DEFINE k == Min(FreeEntries)
<1>1. /\ slots[i].generation \in 1 .. MaxGeneration /\ lastIssued + 1 \in 1 .. MaxInstances
      /\ slots[i].cleanupIndex = 0 /\ ~slots[i].recordsCleaned /\ slots[i].expectedCursor = 0
  BY CapacityAssumption DEF IInv, TypeOK, SlotsSound, SlotStates
<1>2. /\ r \in Requests /\ r # None
      /\ r.slot = i /\ r.generation = slots[i].generation /\ r.sequence = q
      /\ r.instance = lastIssued + 1
  BY <1>1, NoneIsNoRequest DEF Request, Requests
<1>3. m \in StoreIndex /\ store[m] = None
  <2>1. FreeRecords # {} /\ FreeRecords \subseteq Nat
    BY Capacities DEF FreeRecords, ReserveRefuses, StoreFull
  <2>2. m \in FreeRecords
    BY <2>1, LeastElement
  <2> QED BY <2>2 DEF FreeRecords
<1>4. k \in ExpectedIndex /\ expected[k] = None
  <2>1. FreeEntries \subseteq Nat
    BY Capacities DEF FreeEntries
  <2>2. k \in FreeEntries
    BY <2>1, LeastElement
  <2> QED BY <2>2 DEF FreeEntries
<1>5. /\ store' = [store EXCEPT ![m] = r]
      /\ expected' = [expected EXCEPT ![k] = r]
      /\ expectedCount' = expectedCount + 1
      /\ flight' = flight \cup {r}
  BY DEF Accept, Register
<1> HIDE DEF r, m, k
<1>6. ~Known(r)
  BY <1>1, <1>2 DEF IInv, TypeOK, Identified
<1>7. CountExact'
  <2>1. Occupied' = Occupied \cup {k} /\ k \notin Occupied
    BY <1>2, <1>4, <1>5 DEF Occupied, IInv, TypeOK
  <2>2. Cardinality(Occupied') = Cardinality(Occupied) + 1
    BY <2>1, OccupiedFinite, FS_AddElement
  <2>3. expectedCount = Cardinality(Occupied)
    BY DEF IInv, RequestsSound, CountExact, Occupied
  <2>4. expectedCount' = Cardinality(Occupied')
    BY <1>5, <2>2, <2>3
  <2> QED BY <2>4 DEF CountExact, Occupied
<1>8. TypeOK'
  <2>1. expectedCount' \in 0 .. ExpectedCapacity
    BY <1>7, CountType DEF CountExact
  <2> QED BY <1>1, <1>2, <1>3, <1>4, <1>5, <2>1 DEF IInv, TypeOK
<1>9. \A s \in Requests : Known(s)' => Known(s) \/ s = r
  BY <1>3, <1>4, <1>5 DEF Known, IInv, TypeOK
<1>10. Identified'
  <2>1. \A s \in Requests : Known(s) => s.instance <= lastIssued /\ s.generation <= slots[s.slot].generation
    BY DEF IInv, Identified
  <2>2. lastIssued \in Nat /\ \A s \in Requests : s.instance \in Nat /\ s.slot \in Slots
    BY RequestFields DEF IInv, TypeOK
  <2>3. slots[i].generation \in Nat
    BY <1>1
  <2>4. \A s \in Requests : Known(s)' =>
           s.instance <= lastIssued' /\ s.generation <= slots'[s.slot].generation
    BY <1>2, <1>9, <2>1, <2>2, <2>3
  <2>5. \A s, t \in Requests : Known(s)' /\ Known(t)' /\ s.instance = t.instance => s = t
    BY <1>2, <1>9, <2>1, <2>2 DEF IInv, Identified
  <2> QED BY <2>4, <2>5 DEF Identified
<1>11. HeldSound'
  <2>1. \A e \in Domains : held[e] # r
    BY <1>6 DEF Known
  <2> QED BY <1>4, <1>5, <2>1 DEF IInv, HeldSound, TypeOK
<1>12. RecordsMatched'
  <2>1. \A n \in StoreIndex : store[n] # r
    BY <1>6 DEF Known
  <2>2. expected'[k] = r
    BY <1>4, <1>5 DEF IInv, TypeOK
  <2> QED BY NoneIsNoRequest, <1>3, <1>4, <1>5, <2>1, <2>2 DEF IInv, RecordsMatched, TypeOK
<1>13. SlotsSound'
  BY <1>1, <1>2, <1>3, <1>4, <1>5, Capacities DEF IInv, SlotsSound, BelongsTo, TypeOK
<1>14. LiveRequestsTracked'
  BY <1>3, <1>4, <1>5, NoneIsNoRequest
     DEF IInv, RequestsSound, LiveRequestsTracked, Open, Leased, TypeOK
<1>15. NothingLeftBehind'
  BY <1>2, <1>3, <1>4, <1>5 DEF IInv, RequestsSound, NothingLeftBehind, Leased, TypeOK
<1>16. NoInfrastructureFailure'
  BY DEF IInv, RequestsSound, NoInfrastructureFailure
<1>17. UndeliveredBounded'
  <2> SUFFICES ASSUME MkdirEnabled, NEW j \in Slots
               PROVE  Cardinality(EntriesOf(j)') <= ClientLimit
    BY DEF UndeliveredBounded
  <2>1. IsFiniteSet(EntriesOf(j)) /\ Cardinality(EntriesOf(j)) \in Nat
    BY Capacities, FS_Subset, FS_CardinalityType DEF EntriesOf
  <2>2. Cardinality(EntriesOf(j)) <= ClientLimit
    BY DEF IInv, RequestsSound, UndeliveredBounded
  <2>3. CASE j # i
    <3>1. EntriesOf(j)' = EntriesOf(j)
      BY <1>2, <1>4, <1>5, <2>3 DEF EntriesOf, BelongsTo, IInv, TypeOK
    <3> QED BY <2>2, <3>1
  <2>4. CASE j = i
    <3>1. EntriesOf(j)' = EntriesOf(j) \cup {k} /\ k \notin EntriesOf(j)
      BY <1>2, <1>4, <1>5, <2>4 DEF EntriesOf, BelongsTo, IInv, TypeOK
    <3>2. Cardinality(EntriesOf(j)') = Cardinality(EntriesOf(j)) + 1
      BY <2>1, <3>1, FS_AddElement
    <3>3. Cardinality(EntriesOf(j)) < ClientLimit
      BY <2>1, <2>4, Capacities DEF ReserveRefuses
    <3> QED BY <2>1, <3>2, <3>3, Capacities
  <2> QED BY <2>3, <2>4
<1>18. SequencesDistinct'
  <2>1. \A n \in ExpectedIndex : expected[n] # None =>
           ~(expected[n].slot = i /\ expected[n].generation = slots[i].generation
             /\ expected[n].sequence = q)
    BY DEF Duplicate, EntriesOf, BelongsTo
  <2> QED BY <1>2, <1>4, <1>5, <2>1 DEF IInv, RequestsSound, SequencesDistinct, TypeOK
<1> QED BY <1>7, <1>8, <1>10, <1>11, <1>12, <1>13, <1>14, <1>15, <1>16, <1>17, <1>18
        DEF IInv, RequestsSound

\* A request that was registered and rolled back has left no trace: the record taken
\* out is the one put in, because its instance number is nobody else's.
LEMMA RollBackSound ==
    ASSUME IInv, NEW i \in Slots, NEW q \in Sequences, NEW d \in Domains,
           ~ReserveRefuses(i), RollBack(Request(i, q, d))
    PROVE  UNCHANGED <<store, infrastructure>>
<1> DEFINE r == Request(i, q, d)
<1> DEFINE m == Min(FreeRecords)
<1>1. m \in StoreIndex /\ store[m] = None
  <2>1. FreeRecords # {} /\ FreeRecords \subseteq Nat
    BY Capacities DEF FreeRecords, ReserveRefuses, StoreFull
  <2>2. m \in FreeRecords
    BY <2>1, LeastElement
  <2> QED BY <2>2 DEF FreeRecords
<1>2. r.instance = lastIssued + 1 /\ r # None /\ SameRequest(r, r)
  BY DEF Request, SameRequest, None
<1>3. Register(r) = [store EXCEPT ![m] = r]
  BY DEF Register
<1> HIDE DEF r, m
<1>4. \A n \in StoreIndex : ~SameRequest(store[n], r)
  <2> SUFFICES ASSUME NEW n \in StoreIndex, store[n] # None, store[n].instance = r.instance
               PROVE  FALSE
    BY DEF SameRequest
  <2>1. store[n] \in Requests /\ Known(store[n])
    BY TableTypes DEF IInv, Known
  <2>2. store[n].instance <= lastIssued /\ store[n].instance \in Nat /\ lastIssued \in Nat
    BY <2>1, RequestFields DEF IInv, Identified, TypeOK
  <2> QED BY <1>2, <2>2
<1>5. /\ Register(r)[m] = r
      /\ \A n \in StoreIndex : n # m => Register(r)[n] = store[n]
  BY <1>1, <1>3 DEF IInv, TypeOK
<1>6. store' = [n \in StoreIndex |-> IF SameRequest(Register(r)[n], r) THEN None ELSE Register(r)[n]]
  BY DEF RollBack, r
<1>7. store' = [n \in StoreIndex |-> store[n]]
  <2>1. \A n \in StoreIndex :
           (IF SameRequest(Register(r)[n], r) THEN None ELSE Register(r)[n]) = store[n]
    BY <1>1, <1>2, <1>4, <1>5
  <2> QED BY <1>6, <2>1
<1>8. store' = store
  BY <1>7 DEF IInv, TypeOK
<1>9. infrastructure' = (infrastructure \/ \A n \in StoreIndex : ~SameRequest(Register(r)[n], r))
  BY DEF RollBack, Fails, r
<1>10. infrastructure' = infrastructure
  <2>1. ~ \A n \in StoreIndex : ~SameRequest(Register(r)[n], r)
    BY <1>1, <1>2, <1>5
  <2>2. infrastructure \in BOOLEAN
    BY DEF IInv, TypeOK
  <2> QED BY <1>9, <2>1, <2>2
<1> QED BY <1>8, <1>10

\* Every way a received request is handled.
LEMMA ReceiveStep ==
    ASSUME IInv, NEW i \in Slots, NEW q \in Sequences, NEW d \in Domains, Receive(i, q, d)
    PROVE  IInv'
<1>1. CASE /\ CloseSlot(i)
           /\ UNCHANGED <<store, expected, expectedCount, flight, lastIssued, stopped, infrastructure>>
  BY <1>1, CloseStep DEF Receive, Close
<1>2. CASE /\ Reject(i) /\ Fails(FreeEntries = {})
           /\ UNCHANGED <<store, expected, expectedCount, flight, lastIssued, stopped>>
  <2>1. MkdirEnabled => FreeEntries # {}
    BY RoomForEntry
  <2>2. infrastructure' \in BOOLEAN /\ NoInfrastructureFailure'
    BY <1>2, <2>1 DEF Fails, IInv, TypeOK, RequestsSound, NoInfrastructureFailure
  <2>3. PICK b \in BOOLEAN : slots' = [slots EXCEPT ![i].rejecting = b]
    BY <1>2 DEF Reject
  <2> QED BY <1>2, <2>2, <2>3, RejectStep DEF Receive
<1>3. CASE /\ Reject(i)
           /\ UNCHANGED <<store, expected, expectedCount, flight, lastIssued, stopped, infrastructure>>
  <2>2. infrastructure' \in BOOLEAN /\ NoInfrastructureFailure'
    BY <1>3 DEF IInv, TypeOK, RequestsSound, NoInfrastructureFailure
  <2>3. PICK b \in BOOLEAN : slots' = [slots EXCEPT ![i].rejecting = b]
    BY <1>3 DEF Reject
  <2> QED BY <1>3, <2>2, <2>3, RejectStep DEF Receive
<1>4. CASE /\ ~ReserveRefuses(i) /\ RollBack(Request(i, q, d)) /\ Reject(i)
           /\ UNCHANGED <<lastIssued, stopped>>
  <2>1. UNCHANGED <<store, infrastructure>>
    BY <1>4, RollBackSound
  <2> QED BY <1>3, <1>4, <2>1 DEF RollBack
<1>5. CASE /\ ~Duplicate(i, q) /\ ~ReserveRefuses(i) /\ FreeEntries # {}
           /\ lastIssued < MaxInstances
           /\ lastIssued' = lastIssued + 1
           /\ Accept(Request(i, q, d))
           /\ stopped' \in BOOLEAN
           /\ UNCHANGED <<slots, infrastructure>>
  BY <1>5, AcceptStep DEF Receive
<1> QED BY <1>1, <1>2, <1>3, <1>4, <1>5 DEF Receive

\* Retrying a rejection that did not fit.
LEMMA RetryStep == ASSUME IInv, NEW i \in Slots, RetryRejection(i) PROVE IInv'
<1>1. infrastructure' \in BOOLEAN /\ NoInfrastructureFailure'
  BY DEF RetryRejection, IInv, TypeOK, RequestsSound, NoInfrastructureFailure
<1> QED BY <1>1, RejectStep DEF RetryRejection

\* Leasing a free slot: nothing known carries the new generation.
LEMMA AdmitStep == ASSUME IInv, NEW i \in Slots, Admit(i) PROVE IInv'
<1> DEFINE s == [FreeSlot(slots[i].generation + 1) EXCEPT !.state = "open"]
<1>1. slots' = [slots EXCEPT ![i] = s] /\ slots[i].generation < MaxGeneration
  BY DEF Admit
<1>2. /\ s \in SlotStates /\ s.generation = slots[i].generation + 1 /\ s.state = "open"
      /\ s.cleanupIndex = 0 /\ s.recordsCleaned = FALSE /\ s.expectedCursor = 0
  <2>1. slots[i].generation + 1 \in 0 .. MaxGeneration
    BY <1>1, CapacityAssumption DEF IInv, TypeOK, SlotStates
  <2>2. 0 \in 0 .. StoreCapacity /\ 0 \in 0 .. ExpectedCapacity
    BY Capacities
  <2>3. FreeSlot(slots[i].generation + 1) \in SlotStates
    BY <2>1, <2>2 DEF FreeSlot, SlotStates
  <2>4. s \in SlotStates
    BY <2>3 DEF SlotStates
  <2> QED BY <2>4 DEF FreeSlot
<1> HIDE DEF s
<1>3. /\ slots'[i] = s
      /\ \A j \in Slots : j # i => slots'[j] = slots[j]
      /\ \A j \in Slots : slots[j].generation \in Nat
  BY <1>1, CapacityAssumption DEF IInv, TypeOK, SlotStates
<1>4. TypeOK'
  BY <1>1, <1>2 DEF Admit, IInv, TypeOK
<1>5. /\ \A n \in StoreIndex : store[n] # None => store[n].slot # i
      /\ \A n \in ExpectedIndex : expected[n] # None => expected[n].slot # i
      /\ \A e \in Domains : held[e] # None => held[e].slot # i
  BY DEF Admit, IInv, RequestsSound, NothingLeftBehind, Leased
<1>6. \A r \in Requests : Known(r) => r.generation # s.generation \/ r.slot # i
  BY <1>2, <1>3, RequestFields DEF IInv, Identified
<1>7. Identified'
  <2>1. \A r \in Requests : Known(r)' <=> Known(r)
    BY DEF Admit, Known
  <2>2. \A r \in Requests : Known(r) => r.generation <= slots'[r.slot].generation
    BY <1>2, <1>3, RequestFields DEF IInv, Identified
  <2> QED BY <2>1, <2>2 DEF Admit, IInv, Identified
<1>8. HeldSound' /\ RecordsMatched'
  BY DEF Admit, IInv, HeldSound, RecordsMatched
<1>9. SlotsSound'
  <2>1. /\ \A j \in Slots, n \in StoreIndex : BelongsTo(store[n], j)' => j # i
        /\ \A j \in Slots, n \in ExpectedIndex : BelongsTo(expected[n], j)' => j # i
    BY <1>5 DEF Admit, BelongsTo
  <2>2. s.generation > 0
    BY <1>2, <1>3
  <2> SUFFICES ASSUME NEW j \in Slots
               PROVE  /\ slots'[j].state # "free" => slots'[j].generation > 0
                      /\ slots'[j].state # "closing" =>
                           /\ slots'[j].cleanupIndex = 0 /\ ~slots'[j].recordsCleaned
                           /\ slots'[j].expectedCursor = 0
                      /\ \A n \in StoreIndex :
                           n < slots'[j].cleanupIndex \/ slots'[j].recordsCleaned => ~BelongsTo(store[n], j)'
                      /\ \A n \in ExpectedIndex : n < slots'[j].expectedCursor => ~BelongsTo(expected[n], j)'
                      /\ slots'[j].expectedCursor > 0 => slots'[j].recordsCleaned
    BY DEF SlotsSound
  <2>3. CASE j = i
    BY <1>2, <1>3, <2>1, <2>2, <2>3
  <2>4. CASE j # i
    BY <1>3, <2>4 DEF Admit, IInv, SlotsSound, BelongsTo
  <2> QED BY <2>3, <2>4
<1>10. LiveRequestsTracked'
  <2>1. \A r \in flight : Open(r)' => Open(r)
    BY <1>2, <1>3, <1>6, RequestFields, TableTypes DEF Known, Open, Leased, IInv
  <2> QED BY <2>1 DEF Admit, IInv, RequestsSound, LiveRequestsTracked
<1>11. NothingLeftBehind'
  BY <1>3, <1>5, RequestFields, TableTypes DEF Admit, IInv, RequestsSound, NothingLeftBehind, Leased
<1>12. CountExact' /\ NoInfrastructureFailure' /\ SequencesDistinct'
  BY DEF Admit, IInv, RequestsSound, CountExact, NoInfrastructureFailure, SequencesDistinct
<1>13. UndeliveredBounded'
  <2> SUFFICES ASSUME MkdirEnabled, NEW j \in Slots
               PROVE  Cardinality(EntriesOf(j)') <= ClientLimit
    BY DEF UndeliveredBounded
  <2>1. CASE j = i
    <3>1. EntriesOf(j)' = {}
      BY <1>5, <2>1 DEF Admit, EntriesOf, BelongsTo
    <3> QED BY <3>1, FS_EmptySet, Capacities
  <2>2. CASE j # i
    <3>1. EntriesOf(j)' = EntriesOf(j)
      BY <1>3, <2>2 DEF Admit, EntriesOf, BelongsTo
    <3> QED BY <3>1 DEF IInv, RequestsSound, UndeliveredBounded
  <2> QED BY <2>1, <2>2
<1> QED BY <1>4, <1>7, <1>8, <1>9, <1>10, <1>11, <1>12, <1>13 DEF IInv, RequestsSound

\* A step that ends one request: its entry, its record and its held answer go, and
\* slots may be marked as closing.
LEMMA DoneStep ==
    ASSUME IInv, NEW r \in Requests, Known(r),
           expected' = [n \in ExpectedIndex |-> IF expected[n] = r THEN None ELSE expected[n]],
           CountExact',
           store' \in [StoreIndex -> Requests \cup {None}],
           \A n \in StoreIndex : store'[n] = store[n] \/ (store[n] = r /\ store'[n] = None),
           flight' = flight \ {r},
           held' \in [Domains -> Requests \cup {None}],
           \A d \in Domains : held'[d] = IF held[d] = r THEN None ELSE held[d],
           slots' \in [Slots -> SlotStates],
           \A j \in Slots : slots'[j] = slots[j] \/ (slots[j].state # "free"
               /\ slots'[j] = [slots[j] EXCEPT !.state = "closing"]),
           lastIssued' = lastIssued, stopped' \in BOOLEAN,
           infrastructure' \in BOOLEAN, NoInfrastructureFailure'
    PROVE  IInv'
<1>1. \A j \in Slots : /\ slots'[j].generation = slots[j].generation
                       /\ slots'[j].cleanupIndex = slots[j].cleanupIndex
                       /\ slots'[j].recordsCleaned = slots[j].recordsCleaned
                       /\ slots'[j].expectedCursor = slots[j].expectedCursor
                       /\ slots'[j].state = "open" => slots[j].state = "open"
                       /\ slots'[j].state = "free" <=> slots[j].state = "free"
                       /\ slots'[j].state # "closing" => slots[j].state # "closing"
  BY DEF IInv, TypeOK, SlotStates
<1>2. TypeOK'
  <2>1. expectedCount' \in 0 .. ExpectedCapacity
    BY ONLY CountExact', CountType DEF CountExact
  <2> QED BY <2>1 DEF IInv, TypeOK
<1>3. Identified' /\ SequencesDistinct' /\ UndeliveredBounded'
  <2>1. \A s \in Requests : Known(s)' => Known(s)
    BY NoneIsNoRequest DEF Known, IInv, TypeOK
  <2>2. \A n \in ExpectedIndex : expected'[n] \in {expected[n], None}
    OBVIOUS
  <2> QED BY <1>1, <1>2, <2>1, <2>2, ShrinkStep
<1>4. HeldSound'
  BY DEF IInv, HeldSound
<1>5. RecordsMatched'
  BY NoneIsNoRequest, TableTypes DEF IInv, RecordsMatched
<1>6. SlotsSound'
  BY <1>1 DEF IInv, SlotsSound, BelongsTo
<1>7. LiveRequestsTracked'
  BY <1>1, RequestFields, TableTypes DEF IInv, RequestsSound, LiveRequestsTracked, Open, Leased
<1>8. NothingLeftBehind'
  BY <1>1, RequestFields, TableTypes DEF IInv, RequestsSound, NothingLeftBehind, Leased
<1> QED BY <1>2, <1>3, <1>4, <1>5, <1>6, <1>7, <1>8 DEF IInv, RequestsSound

\* A terminal answer only moves a leased slot to closing.
LEMMA MarkSound ==
    ASSUME TypeOK, NEW r \in Requests, NEW d, MarkStopped(r, d)
    PROVE  /\ slots' \in [Slots -> SlotStates]
           /\ \A j \in Slots : slots'[j] = slots[j] \/ (slots[j].state # "free"
                 /\ slots'[j] = [slots[j] EXCEPT !.state = "closing"])
<1>1. \A j \in Slots : [slots[j] EXCEPT !.state = "closing"] \in SlotStates
  BY DEF TypeOK, SlotStates
<1> QED BY <1>1, RequestFields DEF MarkStopped, Closing, Leased, TypeOK

\* Taking a record empties the record of that request and no other.
LEMMA TakeSound ==
    ASSUME TypeOK, Identified, NEW r \in Requests, Known(r), store' = TakeRecord(r)
    PROVE  /\ store' = [n \in StoreIndex |-> IF store[n] = r THEN None ELSE store[n]]
           /\ store' \in [StoreIndex -> Requests \cup {None}]
           /\ \A n \in StoreIndex : store'[n] = store[n] \/ (store[n] = r /\ store'[n] = None)
BY Matching DEF TypeOK

\* A request that a worker or a queue owns is not held.
LEMMA NotHeld ==
    ASSUME IInv, NEW r \in flight
    PROVE  /\ r \in Requests /\ Known(r)
           /\ held \in [Domains -> Requests \cup {None}]
           /\ \A d \in Domains : held[d] # r
BY NoneIsNoRequest DEF IInv, TypeOK, HeldSound, Known

\* An answer that does not fit is held: its record is gone, its entry stays.
LEMMA HoldStep ==
    ASSUME IInv, NEW r \in flight, Leased(r),
           store' = TakeRecord(r), flight' = flight \ {r},
           held[r.domain] = None, held' = [held EXCEPT ![r.domain] = r],
           \E n \in ExpectedIndex : expected[n] = r,
           UNCHANGED <<expected, expectedCount, slots, lastIssued, stopped>>,
           infrastructure' \in BOOLEAN, NoInfrastructureFailure'
    PROVE  IInv'
<1>0. r \in Requests /\ Known(r) /\ r # None /\ r.domain \in Domains
  BY NotHeld, RequestFields
<1>1. /\ store' = [n \in StoreIndex |-> IF store[n] = r THEN None ELSE store[n]]
      /\ store' \in [StoreIndex -> Requests \cup {None}]
  BY <1>0, TakeSound DEF IInv
<1>2. /\ held' \in [Domains -> Requests \cup {None}]
      /\ \A d \in Domains : held'[d] = IF d = r.domain THEN r ELSE held[d]
  BY <1>0 DEF IInv, TypeOK
<1>3. TypeOK'
  BY <1>1, <1>2 DEF IInv, TypeOK
<1>4. Identified' /\ SequencesDistinct' /\ UndeliveredBounded'
  <2>1. \A s \in Requests : Known(s)' => Known(s)
    BY <1>0, <1>1, <1>2, NoneIsNoRequest DEF Known
  <2> QED BY <1>3, <2>1, ShrinkStep
<1>5. HeldSound'
  BY <1>2 DEF IInv, HeldSound
<1>6. RecordsMatched'
  BY <1>1, NoneIsNoRequest, TableTypes DEF IInv, RecordsMatched
<1>7. SlotsSound'
  BY <1>1 DEF IInv, SlotsSound, BelongsTo
<1>8. LiveRequestsTracked'
  BY <1>1 DEF IInv, RequestsSound, LiveRequestsTracked, Open, Leased
<1>9. NothingLeftBehind'
  BY <1>1, <1>2 DEF IInv, RequestsSound, NothingLeftBehind, Leased
<1>10. CountExact'
  BY DEF IInv, RequestsSound, CountExact
<1> QED BY <1>3, <1>4, <1>5, <1>6, <1>7, <1>8, <1>9, <1>10 DEF IInv, RequestsSound

\* A completion, dropped, late or delivered.
LEMMA CompleteStep == ASSUME IInv, NEW r \in flight, Complete(r) PROVE IInv'
<1>0. r \in Requests /\ Known(r) /\ r # None /\ r.domain \in Domains
  BY NotHeld, RequestFields
<1>1. /\ TypeOK /\ Identified /\ SequencesDistinct /\ CountExact
      /\ stopped' \in BOOLEAN
      /\ infrastructure' = infrastructure => infrastructure' \in BOOLEAN /\ NoInfrastructureFailure'
  BY DEF IInv, RequestsSound, Complete, TypeOK, NoInfrastructureFailure
<1>2. held' = held => /\ held' \in [Domains -> Requests \cup {None}]
                      /\ \A d \in Domains : held'[d] = IF held[d] = r THEN None ELSE held[d]
  BY NotHeld
<1>3. store' = store => /\ store' \in [StoreIndex -> Requests \cup {None}]
                        /\ \A n \in StoreIndex : store'[n] = store[n] \/ (store[n] = r /\ store'[n] = None)
  BY DEF IInv, TypeOK
<1>4. slots' = slots => /\ slots' \in [Slots -> SlotStates]
                        /\ \A j \in Slots : slots'[j] = slots[j] \/ (slots[j].state # "free"
                              /\ slots'[j] = [slots[j] EXCEPT !.state = "closing"])
  BY DEF IInv, TypeOK
<1>5. Forget(r) =>
        /\ expected' = [n \in ExpectedIndex |-> IF expected[n] = r THEN None ELSE expected[n]]
        /\ CountExact'
  BY <1>0, <1>1, ForgetSound
<1>6. CASE DropAuth(r)
  <2>1. /\ slots' \in [Slots -> SlotStates]
        /\ \A j \in Slots : slots'[j] = slots[j] \/ (slots[j].state # "free"
              /\ slots'[j] = [slots[j] EXCEPT !.state = "closing"])
    BY <1>0, <1>1, <1>6, MarkSound DEF DropAuth
  <2> QED BY <1>0, <1>1, <1>2, <1>3, <1>5, <1>6, <2>1, DoneStep DEF DropAuth, Complete
<1>7. CASE DropLate(r)
  BY <1>0, <1>1, <1>2, <1>4, <1>5, <1>7, TakeSound, DoneStep DEF DropLate, Complete
<1>8. CASE Deliver(r)
  <2>1. \E n \in ExpectedIndex : expected[n] = r
    BY <1>0, <1>8, Matching DEF Deliver, IInv, RecordsMatched
  <2>2. infrastructure' \in BOOLEAN /\ NoInfrastructureFailure'
    BY <1>0, <1>8, <2>1, Matching
       DEF Deliver, Fails, IInv, TypeOK, RequestsSound, NoInfrastructureFailure
  <2>3. CASE Forget(r) /\ UNCHANGED held
    BY <1>0, <1>1, <1>2, <1>4, <1>5, <1>8, <2>2, <2>3, TakeSound, DoneStep DEF Deliver, Complete
  <2>4. CASE held' = [held EXCEPT ![r.domain] = r] /\ UNCHANGED <<expected, expectedCount>>
    BY <1>8, <2>1, <2>2, <2>4, HoldStep DEF Deliver, Complete
  <2> QED BY <1>8, <2>3, <2>4 DEF Deliver
<1> QED BY <1>6, <1>7, <1>8 DEF Complete

\* A held answer that is sent at last, or dropped with its client.
LEMMA FinishHeldStep == ASSUME IInv, NEW d \in Domains, FinishHeld(d) PROVE IInv'
<1> DEFINE r == held[d]
<1>0. /\ r \in Requests /\ Known(r) /\ r \notin flight /\ r.domain = d
      /\ \E n \in ExpectedIndex : expected[n] = r
  BY TableTypes DEF FinishHeld, IInv, HeldSound, Known
<1>1. /\ slots' \in [Slots -> SlotStates]
      /\ \A j \in Slots : slots'[j] = slots[j] \/ (slots[j].state # "free"
            /\ slots'[j] = [slots[j] EXCEPT !.state = "closing"])
  BY <1>0, MarkSound DEF FinishHeld, IInv
<1>2. /\ held' \in [Domains -> Requests \cup {None}]
      /\ \A e \in Domains : held'[e] = IF held[e] = r THEN None ELSE held[e]
  BY <1>0, NoneIsNoRequest DEF FinishHeld, IInv, TypeOK, HeldSound
<1>3. infrastructure' \in BOOLEAN /\ NoInfrastructureFailure'
  BY <1>0, Matching DEF FinishHeld, Fails, IInv, TypeOK, RequestsSound, NoInfrastructureFailure
<1>4. /\ expected' = [n \in ExpectedIndex |-> IF expected[n] = r THEN None ELSE expected[n]]
      /\ CountExact'
  BY <1>0, ForgetSound DEF FinishHeld, IInv, RequestsSound
<1>5. /\ store' \in [StoreIndex -> Requests \cup {None}] /\ store' = store
      /\ flight' = flight \ {r} /\ lastIssued' = lastIssued /\ stopped' \in BOOLEAN
  BY <1>0 DEF FinishHeld, IInv, TypeOK
<1> HIDE DEF r
<1> QED BY <1>0, <1>1, <1>2, <1>3, <1>4, <1>5, DoneStep

\* A cleanup window: which indices it holds, how many, and where the next begins.
LEMMA WindowSound ==
    ASSUME NEW start \in Nat, NEW capacity \in Nat, start <= capacity
    PROVE  /\ \A n \in 0 .. capacity - 1 :
                n \in Window(start, capacity) <=> start <= n /\ n < start + CleanupSlots
           /\ Min({start + CleanupSlots, capacity}) \in 0 .. capacity
           /\ Min({start + CleanupSlots, capacity}) <= start + CleanupSlots
           /\ Window(start, capacity) \subseteq 0 .. capacity - 1
           /\ IsFiniteSet(Window(start, capacity))
           /\ Cardinality(Window(start, capacity)) = Min({start + CleanupSlots, capacity}) - start
<1> DEFINE end == Min({start + CleanupSlots, capacity})
<1>1. end = IF start + CleanupSlots <= capacity THEN start + CleanupSlots ELSE capacity
  BY MinOfTwo, Capacities
<1> HIDE DEF end
<1>2. Window(start, capacity) = start .. end - 1
  BY DEF Window, end
<1>3. start \in Int /\ end - 1 \in Int /\ start <= end
  BY <1>1, Capacities
<1>4. IsFiniteSet(start .. end - 1) /\ Cardinality(start .. end - 1) = end - start
  <2>1. end \in Int /\ end - 1 \in Int
    BY <1>1, Capacities
  <2>2. /\ IsFiniteSet(start .. end - 1)
        /\ Cardinality(start .. end - 1) =
             IF start > end - 1 THEN 0 ELSE (end - 1) - start + 1
    BY <1>3, <2>1, FS_Interval
  <2> QED BY <1>3, <2>1, <2>2
<1>5. \A n \in 0 .. capacity - 1 : n \in start .. end - 1 <=> start <= n /\ n < start + CleanupSlots
  BY <1>1, Capacities
<1>6. end \in 0 .. capacity /\ end <= start + CleanupSlots
  BY <1>1, Capacities
<1>7. start .. end - 1 \subseteq 0 .. capacity - 1
  BY <1>6
<1> QED BY <1>2, <1>4, <1>5, <1>6, <1>7 DEF end

\* One bounded cleanup turn of a closing slot, the last one included.
LEMMA CleanupStep == ASSUME IInv, NEW i \in Slots, CleanupTurn(i) PROVE IInv'
<1> DEFINE index == slots[i].cleanupIndex
<1> DEFINE cursor == slots[i].expectedCursor
<1>1. /\ slots[i] \in SlotStates /\ index \in 0 .. StoreCapacity /\ cursor \in 0 .. ExpectedCapacity
      /\ slots[i].recordsCleaned \in BOOLEAN /\ slots[i].state = "closing"
  BY DEF CleanupTurn, IInv, TypeOK, SlotStates
<1>2. RecordsDone(i) <=> slots[i].recordsCleaned \/ index + CleanupSlots >= StoreCapacity
  BY DEF RecordsDone
<1>3. EntriesDone(i) <=> RecordsDone(i) /\ cursor + CleanupSlots >= ExpectedCapacity
  BY DEF EntriesDone
<1>4. /\ \A n \in StoreIndex : n \in RecordWindow(i) <=>
            ~slots[i].recordsCleaned /\ index <= n /\ n < index + CleanupSlots
      /\ NextIndex(i) \in 0 .. StoreCapacity /\ NextIndex(i) <= index + CleanupSlots
  <2>1. index \in Nat /\ index <= StoreCapacity
    BY <1>1, Capacities
  <2> QED BY <1>1, <2>1, WindowSound, Capacities DEF RecordWindow, StoreIndex, NextIndex
<1>5. /\ \A n \in ExpectedIndex : n \in EntryWindow(i) <=>
            RecordsDone(i) /\ cursor <= n /\ n < cursor + CleanupSlots
      /\ NextCursor(i) \in 0 .. ExpectedCapacity /\ NextCursor(i) <= cursor + CleanupSlots
      /\ ~RecordsDone(i) => NextCursor(i) = cursor
      /\ EntryWindow(i) \subseteq ExpectedIndex
  <2>1. cursor \in Nat /\ cursor <= ExpectedCapacity
    BY <1>1, Capacities
  <2>2. CASE RecordsDone(i)
    <3>0. /\ Cardinality(Window(cursor, ExpectedCapacity)) =
               Min({cursor + CleanupSlots, ExpectedCapacity}) - cursor
          /\ Window(cursor, ExpectedCapacity) \subseteq ExpectedIndex
          /\ \A n \in ExpectedIndex : n \in Window(cursor, ExpectedCapacity) <=>
                                        cursor <= n /\ n < cursor + CleanupSlots
      BY <2>1, WindowSound, Capacities DEF ExpectedIndex
    <3>1. EntryWindow(i) = Window(cursor, ExpectedCapacity)
      BY <2>2 DEF EntryWindow
    <3>2. cursor + Cardinality(EntryWindow(i)) = Min({cursor + CleanupSlots, ExpectedCapacity})
      <4>1. Min({cursor + CleanupSlots, ExpectedCapacity}) \in Nat
        BY <2>1, MinOfTwo, Capacities
      <4> QED BY <2>1, <3>0, <3>1, <4>1
    <3>3. /\ Min({cursor + CleanupSlots, ExpectedCapacity}) \in 0 .. ExpectedCapacity
          /\ Min({cursor + CleanupSlots, ExpectedCapacity}) <= cursor + CleanupSlots
      BY <2>1, WindowSound, Capacities
    <3>4. NextCursor(i) = Min({cursor + CleanupSlots, ExpectedCapacity})
      BY <3>2, <3>3, MinOfTwo, Capacities DEF NextCursor
    <3> QED BY <2>2, <3>0, <3>1, <3>3, <3>4
  <2>3. CASE ~RecordsDone(i)
    <3>1. EntryWindow(i) = {}
      BY <2>3 DEF EntryWindow
    <3>2. cursor + Cardinality(EntryWindow(i)) = cursor
      BY <2>1, <3>1, FS_EmptySet
    <3>3. NextCursor(i) = cursor
      BY <2>1, <3>2, MinOfTwo, Capacities DEF NextCursor
    <3> QED BY <2>1, <2>3, <3>1, <3>3, Capacities
  <2> QED BY <2>2, <2>3
<1>6. /\ slots' = [slots EXCEPT ![i] = slots'[i]]
      /\ EntriesDone(i) => slots'[i] = FreeSlot(slots[i].generation)
      /\ ~EntriesDone(i) => slots'[i] =
           [slots[i] EXCEPT !.recordsCleaned = RecordsDone(i), !.cleanupIndex = NextIndex(i),
                            !.expectedCursor = NextCursor(i)]
  BY DEF CleanupTurn, IInv, TypeOK
<1>7. /\ slots' \in [Slots -> SlotStates]
      /\ \A j \in Slots : slots'[j].generation = slots[j].generation
      /\ \A j \in Slots : j # i => slots'[j] = slots[j]
      /\ slots'[i].state = IF EntriesDone(i) THEN "free" ELSE "closing"
      /\ slots'[i].cleanupIndex = IF EntriesDone(i) THEN 0 ELSE NextIndex(i)
      /\ slots'[i].expectedCursor = IF EntriesDone(i) THEN 0 ELSE NextCursor(i)
      /\ slots'[i].recordsCleaned <=> ~EntriesDone(i) /\ RecordsDone(i)
  <2>1. FreeSlot(slots[i].generation) \in SlotStates
    BY <1>1, Capacities DEF FreeSlot, SlotStates
  <2>2. RecordsDone(i) \in BOOLEAN
    BY <1>1 DEF RecordsDone
  <2>3. [slots[i] EXCEPT !.recordsCleaned = RecordsDone(i), !.cleanupIndex = NextIndex(i),
                         !.expectedCursor = NextCursor(i)] \in SlotStates
    BY <1>1, <1>4, <1>5, <2>2 DEF SlotStates
  <2>4. slots'[i] \in SlotStates
    BY <1>6, <2>1, <2>3
  <2>5. slots' \in [Slots -> SlotStates] /\ \A j \in Slots : j # i => slots'[j] = slots[j]
    BY <1>6, <2>4 DEF IInv, TypeOK
  <2>6. CASE EntriesDone(i)
    BY <1>6, <2>5, <2>6 DEF FreeSlot
  <2>7. CASE ~EntriesDone(i)
    <3>1. DOMAIN slots[i] = {"generation", "state", "cleanupIndex", "recordsCleaned",
                             "expectedCursor", "rejecting"}
      BY <1>1 DEF SlotStates
    <3>2. /\ slots'[i].state = "closing" /\ slots'[i].generation = slots[i].generation
          /\ slots'[i].cleanupIndex = NextIndex(i) /\ slots'[i].expectedCursor = NextCursor(i)
      BY <1>1, <1>6, <2>7, <3>1
    <3>3. slots'[i].recordsCleaned = RecordsDone(i)
      BY <1>1, <1>6, <2>7, <3>1
    <3> QED BY <2>5, <2>7, <3>2, <3>3
  <2> QED BY <2>5, <2>6, <2>7
<1> HIDE DEF index, cursor
<1>8. /\ store' \in [StoreIndex -> Requests \cup {None}]
      /\ \A n \in StoreIndex :
           store'[n] = IF n \in RecordWindow(i) /\ BelongsTo(store[n], i) THEN None ELSE store[n]
  BY DEF CleanupTurn, IInv, TypeOK
<1>9. /\ held' \in [Domains -> Requests \cup {None}]
      /\ \A d \in Domains : held'[d] = IF BelongsTo(held[d], i) THEN None ELSE held[d]
  BY DEF CleanupTurn, HeldOf, IInv, TypeOK
<1>10. /\ expected' \in [ExpectedIndex -> Requests \cup {None}]
       /\ \A n \in ExpectedIndex :
            expected'[n] = IF n \in CleanedEntries(i) THEN None ELSE expected[n]
  BY DEF CleanupTurn, IInv, TypeOK
<1>11. \A n \in ExpectedIndex : n \in HeldEntries(i) <=>
         \E d \in Domains : BelongsTo(held[d], i) /\ expected[n] = held[d]
  <2>1. \A d \in Domains : BelongsTo(held[d], i) => held[d] \in Requests /\ Known(held[d])
    BY TableTypes DEF IInv, BelongsTo, Known
  <2>2. \A d \in Domains : BelongsTo(held[d], i) =>
          \A n \in ExpectedIndex : SameRequest(expected[n], held[d]) <=> expected[n] = held[d]
    BY <2>1, Matching DEF IInv
  <2> QED BY <2>2 DEF HeldEntries, HeldOf
<1>12. \A n \in ExpectedIndex : n \in CleanedEntries(i) =>
         /\ BelongsTo(expected[n], i)
         /\ expected[n] \in flight => n \in EntryWindow(i)
  <2>1. \A n \in ExpectedIndex : n \in HeldEntries(i) =>
          BelongsTo(expected[n], i) /\ expected[n] \notin flight
    BY <1>11 DEF IInv, HeldSound, BelongsTo
  <2> QED BY <2>1 DEF CleanedEntries
<1>13. RecordsDone(i) => \A n \in StoreIndex : ~BelongsTo(store'[n], i)
  <2> SUFFICES ASSUME RecordsDone(i), NEW n \in StoreIndex, BelongsTo(store'[n], i) PROVE FALSE
    OBVIOUS
  <2>1. store'[n] = store[n] /\ n \notin RecordWindow(i)
    BY <1>8 DEF BelongsTo
  <2>2. ~slots[i].recordsCleaned /\ ~(n < index)
    BY <2>1 DEF IInv, SlotsSound, index
  <2>3. n \in Nat /\ n < StoreCapacity /\ index + CleanupSlots >= StoreCapacity
    BY <1>1, <1>2, <2>2, Capacities DEF StoreIndex
  <2> QED BY <1>1, <1>4, <2>1, <2>2, <2>3, Capacities
<1>14. \A n \in ExpectedIndex : (n < cursor \/ n \in EntryWindow(i)) => ~BelongsTo(expected'[n], i)
  <2>1. \A n \in ExpectedIndex : n < cursor => ~BelongsTo(expected[n], i)
    BY DEF IInv, SlotsSound, cursor
  <2> QED BY <1>10, <2>1 DEF BelongsTo, CleanedEntries
<1>15. EntriesDone(i) => \A n \in ExpectedIndex : ~BelongsTo(expected'[n], i)
  BY <1>1, <1>3, <1>5, <1>14, Capacities DEF ExpectedIndex
<1>16. CountExact'
  <2>1. CleanedEntries(i) \subseteq Occupied
    BY <1>5, <1>12 DEF CleanedEntries, HeldEntries, Occupied, BelongsTo
  <2>2. Occupied' = Occupied \ CleanedEntries(i)
    BY <1>10, <2>1 DEF Occupied
  <2>3. expectedCount = Cardinality(Occupied)
    BY DEF IInv, RequestsSound, CountExact, Occupied
  <2>4. expectedCount' = expectedCount - Cardinality(CleanedEntries(i))
    BY DEF CleanupTurn
  <2>5. /\ Cardinality(Occupied \ CleanedEntries(i)) =
             Cardinality(Occupied) - Cardinality(Occupied \cap CleanedEntries(i))
        /\ Occupied \cap CleanedEntries(i) = CleanedEntries(i)
    BY <2>1, OccupiedFinite, FS_Difference
  <2>6. expectedCount' = Cardinality(Occupied')
    BY <2>2, <2>3, <2>4, <2>5
  <2> QED BY <2>6 DEF CountExact, Occupied
<1>17. TypeOK'
  <2>1. expectedCount' \in 0 .. ExpectedCapacity
    BY ONLY CountExact', <1>16, CountType DEF CountExact
  <2> QED BY <1>7, <1>8, <1>9, <1>10, <2>1 DEF CleanupTurn, IInv, TypeOK
<1>18. Identified' /\ SequencesDistinct' /\ UndeliveredBounded'
  <2>1. lastIssued' = lastIssued /\ flight' = flight
    BY DEF CleanupTurn
  <2>2. \A s \in Requests : Known(s)' => Known(s)
    BY <1>8, <1>9, <1>10, <2>1, NoneIsNoRequest DEF Known
  <2>3. \A n \in ExpectedIndex : expected'[n] \in {expected[n], None}
    BY <1>10
  <2> QED BY <1>7, <1>17, <2>1, <2>2, <2>3, ShrinkStep
<1>19. flight' = flight /\ NoInfrastructureFailure'
  BY DEF CleanupTurn, IInv, RequestsSound, NoInfrastructureFailure
<1>20. HeldSound'
  <2> SUFFICES ASSUME NEW d \in Domains, held'[d] # None
               PROVE  /\ held'[d].domain = d
                      /\ held'[d] \notin flight'
                      /\ \E n \in ExpectedIndex : expected'[n] = held'[d]
    BY DEF HeldSound
  <2>1. held'[d] = held[d] /\ ~BelongsTo(held[d], i)
    BY <1>9
  <2>2. PICK n \in ExpectedIndex : expected[n] = held[d]
    BY <2>1 DEF IInv, HeldSound
  <2>3. expected'[n] = held'[d]
    BY <1>10, <1>12, <2>1, <2>2
  <2> QED BY <1>19, <2>1, <2>3 DEF IInv, HeldSound
<1>21. RecordsMatched'
  <2> SUFFICES ASSUME NEW n \in StoreIndex, store'[n] \in flight'
               PROVE  \E m \in ExpectedIndex : expected'[m] = store'[n]
    BY DEF RecordsMatched
  <2>1. store'[n] = store[n] /\ store[n] \in flight
    BY <1>8, <1>19, NoneIsNoRequest, TableTypes DEF IInv
  <2>2. PICK m \in ExpectedIndex : expected[m] = store[n]
    BY <2>1 DEF IInv, RecordsMatched
  <2>3. m \notin CleanedEntries(i)
    <3> SUFFICES ASSUME m \in CleanedEntries(i) PROVE FALSE
      OBVIOUS
    <3>1. BelongsTo(store[n], i) /\ RecordsDone(i)
      BY <1>5, <1>12, <2>1, <2>2
    <3> QED BY <1>13, <2>1, <3>1
  <2> QED BY <1>10, <2>1, <2>2, <2>3
<1>22. SlotsSound'
  <2> DEFINE Sound(j) ==
        /\ slots[j].state # "free" => slots[j].generation > 0
        /\ slots[j].state # "closing" =>
             /\ slots[j].cleanupIndex = 0 /\ ~slots[j].recordsCleaned
             /\ slots[j].expectedCursor = 0
        /\ \A n \in StoreIndex :
             n < slots[j].cleanupIndex \/ slots[j].recordsCleaned => ~BelongsTo(store[n], j)
        /\ \A n \in ExpectedIndex : n < slots[j].expectedCursor => ~BelongsTo(expected[n], j)
        /\ slots[j].expectedCursor > 0 => slots[j].recordsCleaned
  <2>1. \A j \in Slots : Sound(j)
    BY DEF IInv, SlotsSound
  <2>2. ASSUME NEW j \in Slots, j # i PROVE Sound(j)'
    BY <1>7, <1>8, <1>10, <2>1, <2>2 DEF BelongsTo
  <2>3. Sound(i)'
    <3>1. slots'[i].generation = slots[i].generation /\ slots[i].generation > 0
      BY <1>1, <1>7, <2>1
    <3>2. CASE EntriesDone(i)
      BY <1>7, <3>1, <3>2 DEF StoreIndex, ExpectedIndex
    <3>3. CASE ~EntriesDone(i)
      <4>1. ASSUME NEW n \in StoreIndex,
                   n < NextIndex(i) \/ RecordsDone(i)
            PROVE  ~BelongsTo(store[n], i)'
        <5>1. CASE RecordsDone(i)
          BY <1>13, <3>1, <5>1 DEF BelongsTo
        <5>2. CASE ~RecordsDone(i)
          <6>1. ~slots[i].recordsCleaned /\ n < index + CleanupSlots /\ n \in Nat
            BY <1>1, <1>2, <1>4, <4>1, <5>2, Capacities DEF StoreIndex
          <6>2. CASE n < index
            BY <1>8, <2>1, <3>1, <6>2 DEF BelongsTo, index
          <6>3. CASE n \in RecordWindow(i)
            BY <1>8, <3>1, <6>3 DEF BelongsTo
          <6> QED BY <1>1, <1>4, <6>1, <6>2, <6>3, Capacities
        <5> QED BY <5>1, <5>2
      <4>2. ASSUME NEW n \in ExpectedIndex, n < NextCursor(i)
            PROVE  ~BelongsTo(expected[n], i)'
        <5>1. n < cursor \/ n \in EntryWindow(i)
          BY <1>1, <1>5, <4>2, Capacities DEF ExpectedIndex
        <5> QED BY <1>14, <3>1, <5>1 DEF BelongsTo
      <4>3. NextCursor(i) > 0 => RecordsDone(i)
        BY <1>2, <1>5, <2>1 DEF cursor
      <4> QED BY <1>7, <3>1, <3>3, <4>1, <4>2, <4>3
    <3> QED BY <3>2, <3>3
  <2> QED BY <2>2, <2>3 DEF SlotsSound
<1>23. LiveRequestsTracked'
  <2> SUFFICES ASSUME NEW r \in flight, Open(r)'
               PROVE  /\ \E n \in StoreIndex : store'[n] = r
                      /\ \E n \in ExpectedIndex : expected'[n] = r
    BY <1>19 DEF LiveRequestsTracked
  <2>1. r \in Requests /\ r.slot \in Slots /\ r.slot # i
    BY <1>7, TableTypes, RequestFields DEF IInv, Open
  <2>2. Open(r)
    BY <1>7, <2>1 DEF Open, Leased
  <2> QED BY <1>8, <1>10, <1>12, <2>1, <2>2
          DEF IInv, RequestsSound, LiveRequestsTracked, BelongsTo
<1>24. NothingLeftBehind'
  <2>1. ASSUME NEW r \in Requests, Leased(r), r.slot = i => ~EntriesDone(i)
        PROVE  Leased(r)'
    BY <1>7, <2>1, RequestFields DEF Leased
  <2>2. ASSUME NEW r \in Requests, Leased(r), r.slot = i PROVE BelongsTo(r, i)
    BY <2>2, RequestFields DEF Leased, BelongsTo
  <2>3. \A r \in Requests : Leased(r) /\ ~BelongsTo(r, i) => Leased(r)'
    BY <2>1, <2>2
  <2>4. \A r \in Requests : Leased(r) /\ ~EntriesDone(i) => Leased(r)'
    BY <2>1
  <2>5. ASSUME NEW n \in StoreIndex, store'[n] # None PROVE Leased(store[n])'
    <3>1. store'[n] = store[n] /\ store[n] \in Requests /\ Leased(store[n])
      BY <1>8, <2>5, TableTypes DEF IInv, RequestsSound, NothingLeftBehind
    <3>2. ~BelongsTo(store[n], i) \/ ~EntriesDone(i)
      BY <1>3, <1>13, <3>1
    <3> QED BY <2>3, <2>4, <3>1, <3>2 DEF Leased
  <2>6. ASSUME NEW n \in ExpectedIndex, expected'[n] # None PROVE Leased(expected[n])'
    <3>1. expected'[n] = expected[n] /\ expected[n] \in Requests /\ Leased(expected[n])
      BY <1>10, <2>6, TableTypes DEF IInv, RequestsSound, NothingLeftBehind
    <3>2. ~BelongsTo(expected[n], i) \/ ~EntriesDone(i)
      BY <1>15, <3>1
    <3> QED BY <2>3, <2>4, <3>1, <3>2 DEF Leased
  <2>7. ASSUME NEW d \in Domains, held'[d] # None PROVE Leased(held[d])'
    <3>1. held'[d] = held[d] /\ held[d] \in Requests /\ Leased(held[d]) /\ ~BelongsTo(held[d], i)
      BY <1>9, <2>7, TableTypes DEF IInv, RequestsSound, NothingLeftBehind
    <3> QED BY <2>3, <3>1 DEF Leased
  <2> QED BY <2>5, <2>6, <2>7 DEF NothingLeftBehind
<1> QED BY <1>16, <1>17, <1>18, <1>19, <1>20, <1>21, <1>22, <1>23, <1>24 DEF IInv, RequestsSound

\* The inductive invariant holds when the service starts.
LEMMA InitInv == Init => IInv
<1> SUFFICES ASSUME Init PROVE IInv
  OBVIOUS
<1>1. TypeOK
  <2>1. FreeSlot(0) \in SlotStates
    BY CapacityAssumption, Capacities DEF FreeSlot, SlotStates
  <2>2. 0 \in 0 .. ExpectedCapacity /\ 0 \in 0 .. MaxInstances
    BY CapacityAssumption, Capacities
  <2>3. expectedCount \in 0 .. ExpectedCapacity /\ lastIssued \in 0 .. MaxInstances
    BY <2>2 DEF Init
  <2>4. slots \in [Slots -> SlotStates]
    BY <2>1 DEF Init
  <2>5. /\ store \in [StoreIndex -> Requests \cup {None}]
        /\ expected \in [ExpectedIndex -> Requests \cup {None}]
        /\ held \in [Domains -> Requests \cup {None}]
    BY DEF Init
  <2> QED BY <2>3, <2>4, <2>5 DEF Init, TypeOK
<1>2. \A i \in Slots : EntriesOf(i) = {}
  BY DEF Init, EntriesOf, BelongsTo
<1>3. {n \in ExpectedIndex : expected[n] # None} = {}
  BY DEF Init
<1>4. CountExact /\ UndeliveredBounded
  <2>1. Cardinality({}) = 0 /\ 0 <= ClientLimit
    BY FS_EmptySet, Capacities
  <2>2. CountExact
    BY <1>3, <2>1 DEF Init, CountExact
  <2>3. UndeliveredBounded
    BY <1>2, <2>1 DEF UndeliveredBounded
  <2> QED BY <2>2, <2>3
<1>5. Identified /\ HeldSound /\ RecordsMatched
  BY NoneIsNoRequest DEF Init, Identified, Known, HeldSound, RecordsMatched
<1>6. SlotsSound
  BY DEF Init, SlotsSound, FreeSlot, BelongsTo
<1> QED BY <1>1, <1>4, <1>5, <1>6
        DEF Init, IInv, RequestsSound, LiveRequestsTracked, NothingLeftBehind,
            NoInfrastructureFailure, SequencesDistinct

\* Every action preserves the inductive invariant.
LEMMA NextInv == IInv /\ [Next]_vars => IInv'
<1> SUFFICES ASSUME IInv, [Next]_vars PROVE IInv'
  OBVIOUS
<1>1. ASSUME NEW i \in Slots, Admit(i) PROVE IInv'
  BY <1>1, AdmitStep
<1>2. ASSUME NEW i \in Slots, Close(i) PROVE IInv'
  BY <1>2, CloseStep
<1>3. ASSUME NEW i \in Slots, RetryRejection(i) PROVE IInv'
  BY <1>3, RetryStep
<1>4. ASSUME NEW i \in Slots, CleanupTurn(i) PROVE IInv'
  BY <1>4, CleanupStep
<1>5. ASSUME NEW i \in Slots, NEW q \in Sequences, NEW d \in Domains, Receive(i, q, d) PROVE IInv'
  BY <1>5, ReceiveStep
<1>6. ASSUME NEW r \in flight, Complete(r) PROVE IInv'
  BY <1>6, CompleteStep
<1>7. ASSUME NEW d \in Domains, FinishHeld(d) PROVE IInv'
  BY <1>7, FinishHeldStep
<1>8. ASSUME Stop PROVE IInv'
  BY <1>8, StopStep
<1>9. ASSUME UNCHANGED vars PROVE IInv'
  BY <1>9 DEF vars, IInv, TypeOK, Identified, Known, HeldSound, RecordsMatched, SlotsSound,
     RequestsSound, LiveRequestsTracked, NothingLeftBehind, CountExact,
     NoInfrastructureFailure, UndeliveredBounded, SequencesDistinct, EntriesOf, BelongsTo,
     Open, Leased
<1> QED BY <1>1, <1>2, <1>3, <1>4, <1>5, <1>6, <1>7, <1>8, <1>9 DEF Next

\* The two tables, the slots and the held answers stay inductively consistent
\* through admissions, requests, completions, cleanups and stops.
THEOREM Invariance == Spec => []IInv
BY InitInv, NextInv, PTL DEF Spec

\* The tables and the slots keep their shape: in particular a cleanup never
\* moves a cursor past its table, and the entry count never leaves its range.
THEOREM TypeCorrect == Spec => []TypeOK
<1>1. IInv => TypeOK
  BY DEF IInv
<1> QED BY <1>1, Invariance, PTL

\* For every number of slots, records and domains: an open client's request is
\* in both tables until it is answered, releasing a slot leaves nothing of its
\* client behind, the service's count is exact, with MKDIR enabled reserve and
\* match never fail internally and no client exceeds its limit, and no two
\* unanswered requests of a client share a sequence number.
THEOREM RequestsSoundCorrect == Spec => []RequestsSound
<1>1. IInv => RequestsSound
  BY DEF IInv
<1> QED BY <1>1, Invariance, PTL

=============================================================================
