--------------------------- MODULE RequestReactor ---------------------------
(***************************************************************************)
(* The reactor's two tables of unfinished requests: the in-flight store    *)
(* (net/inflight_*.c), which matches a completion to the client that is    *)
(* waiting for it, and the expected table (net/directory_stat_reactor.c),  *)
(* which mirrors every accepted request until its answer has been queued.  *)
(* A client occupies a slot under a generation; closing it only marks the  *)
(* slot, and later turns of net/auth_service.c clean both tables a batch   *)
(* at a time before the slot is released and leased again.  Workers may    *)
(* deliver a completion at any time, also after its client has gone.       *)
(*                                                                         *)
(* One action is one handler of the single reactor thread.  The order of   *)
(* handlers inside a service turn is left open, which includes the orders  *)
(* the sweep, the rotating completion cursor and the ready list produce.   *)
(***************************************************************************)
EXTENDS Integers, FiniteSets, FiniteSetsExt, TLC

CONSTANTS
    Slots,          \* client slots of the service
    Sequences,      \* request sequence numbers a client may use
    Domains,        \* enabled completion queues
    StoreCapacity,  \* records of the in-flight store
    ClientLimit,    \* max_client_requests, at most 8
    CleanupSlots,   \* table entries one cleanup turn may scan
    MkdirEnabled,   \* the limit also counts answers that are not sent yet
    MaxInstances,   \* bound: request instances issued
    MaxGeneration   \* bound: leases of one slot

ASSUME CapacityAssumption ==
    /\ StoreCapacity \in Nat \ {0}
    /\ CleanupSlots \in Nat \ {0}
    /\ ClientLimit \in 1 .. StoreCapacity
    /\ IsFiniteSet(Domains)
    /\ IsFiniteSet(Slots)
    /\ MkdirEnabled \in BOOLEAN
    /\ MaxInstances \in Nat
    /\ MaxGeneration \in Nat

\* auth_process.c gives the store one record per request that all clients
\* together may have open: 256 records for 32 clients of 8 requests.
ASSUME ProvisionAssumption == Cardinality(Slots) * ClientLimit <= StoreCapacity

VARIABLES
    slots,          \* the service's client slots
    store,          \* in-flight records: a request or None, by index
    expected,       \* expected table: an entry or None, by index
    expectedCount,  \* the service's own count of committed entries
    flight,         \* requests a worker or a completion queue owns
    held,           \* per domain, a completion whose answer did not fit yet
    lastIssued,     \* last request instance issued
    stopped,        \* the server was asked to stop
    infrastructure  \* an INTERNAL result that ends the whole service

vars == <<slots, store, expected, expectedCount, flight, held, lastIssued, stopped, infrastructure>>

-----------------------------------------------------------------------------
None == [none |-> TRUE]

\* Each enabled queue may hold one answer whose record is already taken.
ExpectedCapacity == StoreCapacity + Cardinality(Domains)

StoreIndex == 0 .. StoreCapacity - 1
ExpectedIndex == 0 .. ExpectedCapacity - 1

Requests == [slot : Slots, generation : 1 .. MaxGeneration, sequence : Sequences,
             instance : 1 .. MaxInstances, domain : Domains]

SlotStates == [generation : 0 .. MaxGeneration, state : {"free", "open", "closing"},
               cleanupIndex : 0 .. StoreCapacity, recordsCleaned : BOOLEAN,
               expectedCursor : 0 .. ExpectedCapacity, rejecting : BOOLEAN]

\* The type invariant: the shapes of the two tables and of the slots.
TypeOK ==
    /\ slots \in [Slots -> SlotStates]
    /\ store \in [StoreIndex -> Requests \cup {None}]
    /\ expected \in [ExpectedIndex -> Requests \cup {None}]
    /\ expectedCount \in 0 .. ExpectedCapacity
    /\ flight \subseteq Requests
    /\ held \in [Domains -> Requests \cup {None}]
    /\ lastIssued \in 0 .. MaxInstances
    /\ stopped \in BOOLEAN
    /\ infrastructure \in BOOLEAN

FreeSlot(generation) ==
    [generation |-> generation, state |-> "free", cleanupIndex |-> 0,
     recordsCleaned |-> FALSE, expectedCursor |-> 0, rejecting |-> FALSE]

Init ==
    /\ slots = [i \in Slots |-> FreeSlot(0)]
    /\ store = [n \in StoreIndex |-> None]
    /\ expected = [n \in ExpectedIndex |-> None]
    /\ expectedCount = 0
    /\ flight = {}
    /\ held = [d \in Domains |-> None]
    /\ lastIssued = 0
    /\ stopped = FALSE
    /\ infrastructure = FALSE

-----------------------------------------------------------------------------
(* Identity *)

\* A lease names a slot and the generation it was leased under.
Leased(r) == slots[r.slot].state # "free" /\ slots[r.slot].generation = r.generation
Open(r) == Leased(r) /\ slots[r.slot].state = "open"
BelongsTo(r, i) == r # None /\ r.slot = i /\ r.generation = slots[i].generation

\* Route, generation, sequence and instance all have to agree.
SameRequestIgnoringLease(a, b) ==
    a # None /\ b # None /\ a.slot = b.slot /\ a.sequence = b.sequence

SameRequest(a, b) ==
    /\ a # None
    /\ b # None
    /\ a.slot = b.slot
    /\ a.generation = b.generation
    /\ a.sequence = b.sequence
    /\ a.instance = b.instance

HasRecord(r) == \E n \in StoreIndex : SameRequest(store[n], r)
HasEntry(table, r) == \E n \in ExpectedIndex : SameRequest(table[n], r)

TakeRecord(r) ==
    [n \in StoreIndex |-> IF SameRequest(store[n], r) THEN None ELSE store[n]]

ForgetTableNever(r) == expected

\* Forgetting a request that has no entry leaves the table and the count alone.
ForgetTable(r) ==
    [n \in ExpectedIndex |-> IF SameRequest(expected[n], r) THEN None ELSE expected[n]]
ForgetCount(r) == IF HasEntry(expected, r) THEN expectedCount - 1 ELSE expectedCount

Forget(r) ==
    /\ expected' = ForgetTable(r)
    /\ expectedCount' = ForgetCount(r)

-----------------------------------------------------------------------------
(* Admission, closing and rejections of a client *)

Admit(i) ==
    /\ ~stopped
    /\ slots[i].state = "free"
    /\ slots[i].generation < MaxGeneration
    /\ slots' = [slots EXCEPT ![i] =
                    [FreeSlot(@.generation + 1) EXCEPT !.state = "open"]]
    /\ UNCHANGED <<store, expected, expectedCount, flight, held, lastIssued, stopped, infrastructure>>

CloseSlot(i) == slots' = [slots EXCEPT ![i].state = "closing"]

\* Protocol error, I/O error, deadline, end of stream, disconnect call or stop.
Close(i) ==
    /\ slots[i].state = "open"
    /\ CloseSlot(i)
    /\ UNCHANGED <<store, expected, expectedCount, flight, held, lastIssued, stopped, infrastructure>>

Stop ==
    /\ ~stopped
    /\ stopped' = TRUE
    /\ UNCHANGED <<slots, store, expected, expectedCount, flight, held, lastIssued, infrastructure>>

\* A refused frame is answered at once, or when the send buffer has room.
Reject(i) == \E blocked \in BOOLEAN : slots' = [slots EXCEPT ![i].rejecting = blocked]

RetryRejection(i) ==
    /\ ~stopped
    /\ slots[i].state = "open"
    /\ slots[i].rejecting
    /\ slots' = [slots EXCEPT ![i].rejecting = FALSE]
    /\ UNCHANGED <<store, expected, expectedCount, flight, held, lastIssued, stopped, infrastructure>>

-----------------------------------------------------------------------------
(* Accepting a request: reserve an entry, register a record, submit *)

EntriesOf(i) == {n \in ExpectedIndex : BelongsTo(expected[n], i)}
RecordsOf(i) == {n \in StoreIndex : BelongsTo(store[n], i)}

DuplicateInStore(i, sequence) == \E n \in RecordsOf(i) : store[n].sequence = sequence

Duplicate(i, sequence) == \E n \in EntriesOf(i) : expected[n].sequence = sequence

StoreFull == \A n \in StoreIndex : store[n] # None

\* The mirror is counted too where an answer may be waiting for room (MKDIR mode).
ReserveRefuses(i) ==
    \/ MkdirEnabled /\ Cardinality(EntriesOf(i)) >= ClientLimit
    \/ StoreFull

\* What registration refuses: a sequence still on record, or too many records.
RegisterRefuses(i, sequence) ==
    \/ DuplicateInStore(i, sequence)
    \/ Cardinality(RecordsOf(i)) >= ClientLimit

\* An INTERNAL result ends the service: what else the step does matters no more.
Fails(condition) == infrastructure' = (infrastructure \/ condition)

FreeEntries == {n \in ExpectedIndex : expected[n] = None}
FreeRecords == {n \in StoreIndex : store[n] = None}

Request(i, sequence, d) ==
    [slot |-> i, generation |-> slots[i].generation, sequence |-> sequence,
     instance |-> lastIssued + 1, domain |-> d]

\* The record goes in before the task is offered to the pool.
Register(r) == [store EXCEPT ![Min(FreeRecords)] = r]

\* Once the task is the pool's, the record stays and the entry is committed.
Accept(r) ==
    /\ store' = Register(r)
    /\ expected' = [expected EXCEPT ![Min(FreeEntries)] = r]
    /\ expectedCount' = expectedCount + 1
    /\ flight' = flight \cup {r}

\* The pool did not take the task: its record is taken out by its key again and the
\* entry is dropped.  Not to find the record would retain both and end the service.
RollBack(r) ==
    /\ store' = [n \in StoreIndex |-> IF SameRequest(Register(r)[n], r) THEN None ELSE Register(r)[n]]
    /\ Fails(\A n \in StoreIndex : ~SameRequest(Register(r)[n], r))
    /\ UNCHANGED <<expected, expectedCount, flight>>

\* A number that was rolled back with its request is not counted: nobody saw it.
\* A task handed over by a submit that then reports an error is accepted, and the
\* error ends the service, as a stop does.
Receive(i, sequence, d) ==
    /\ ~stopped
    /\ slots[i].state = "open"
    /\ ~slots[i].rejecting
    /\ UNCHANGED held
    /\ \/ /\ Duplicate(i, sequence)                       \* PROTOCOL
          /\ CloseSlot(i)
          /\ UNCHANGED <<store, expected, expectedCount, flight, lastIssued, stopped, infrastructure>>
       \/ /\ ~Duplicate(i, sequence)
          /\ ReserveRefuses(i)                            \* OVERLOADED
          /\ Reject(i)
          /\ UNCHANGED <<store, expected, expectedCount, flight, lastIssued, stopped, infrastructure>>
       \/ /\ ~Duplicate(i, sequence) /\ ~ReserveRefuses(i)
          /\ Reject(i)                    \* malformed, unauthorized or not registered
          /\ Fails(FreeEntries = {})
          /\ UNCHANGED <<store, expected, expectedCount, flight, lastIssued, stopped>>
       \/ /\ ~Duplicate(i, sequence) /\ ~ReserveRefuses(i) /\ FreeEntries # {}
          /\ ~RegisterRefuses(i, sequence)
          /\ RollBack(Request(i, sequence, d))
          /\ Reject(i)
          /\ UNCHANGED <<lastIssued, stopped>>
       \/ /\ ~Duplicate(i, sequence) /\ ~ReserveRefuses(i) /\ FreeEntries # {}
          /\ ~RegisterRefuses(i, sequence)
          /\ lastIssued < MaxInstances
          /\ lastIssued' = lastIssued + 1
          /\ Accept(Request(i, sequence, d))
          /\ stopped' \in BOOLEAN
          /\ UNCHANGED <<slots, infrastructure>>

-----------------------------------------------------------------------------
(* Completions *)

\* The AUTH drain closes the slot it finds on a stopped server; the other
\* domains leave that to the sweep.
Closing(r, d) == Leased(r) /\ (slots[r.slot].state = "closing" \/ (d = "auth" /\ stopped))

MarkStopped(r, d) ==
    IF Closing(r, d) THEN slots' = [slots EXCEPT ![r.slot].state = "closing"] ELSE UNCHANGED slots

\* An AUTH completion of a closing client is dropped before its record is taken.
AuthDrops(r) == r.domain = "auth" /\ Closing(r, "auth")

DropAuth(r) ==
    /\ AuthDrops(r)
    /\ MarkStopped(r, "auth")
    /\ Forget(r)
    /\ UNCHANGED <<store, held, infrastructure>>

\* Neither a released client nor a cleaned record can be answered.
DropLate(r) ==
    /\ ~AuthDrops(r)
    /\ ~Leased(r) \/ ~HasRecord(r)
    /\ store' = TakeRecord(r)
    /\ Forget(r)
    /\ UNCHANGED <<slots, held, infrastructure>>

\* The record is consumed; the answer is queued, dropped or waits for room.
Deliver(r) ==
    /\ ~AuthDrops(r)
    /\ Leased(r) /\ HasRecord(r)
    /\ Fails(~HasEntry(expected, r))          \* a record without its entry
    /\ store' = TakeRecord(r)
    /\ \/ /\ Forget(r)
          /\ UNCHANGED held
       \/ /\ Open(r) /\ ~stopped
          /\ held' = [held EXCEPT ![r.domain] = r]
          /\ UNCHANGED <<expected, expectedCount>>
    /\ UNCHANGED slots

Complete(r) ==
    /\ r \in flight
    /\ held[r.domain] = None
    /\ flight' = flight \ {r}
    /\ DropAuth(r) \/ DropLate(r) \/ Deliver(r)
    /\ UNCHANGED <<lastIssued, stopped>>

\* A later turn finds room, or that the client is closing.
FinishHeld(d) ==
    /\ held[d] # None
    /\ Fails(~Closing(held[d], d) /\ ~HasEntry(expected, held[d]))
    /\ Forget(held[d])
    /\ held' = [held EXCEPT ![d] = None]
    /\ MarkStopped(held[d], d)
    /\ UNCHANGED <<store, flight, lastIssued, stopped>>

-----------------------------------------------------------------------------
(* Cleanup of a closing slot, one bounded step per service turn *)

HeldOf(i) == {d \in Domains : BelongsTo(held[d], i)}
HeldEntries(i) == {n \in ExpectedIndex : \E d \in HeldOf(i) : SameRequest(expected[n], held[d])}

Window(start, capacity) == start .. Min({start + CleanupSlots, capacity}) - 1

\* The batch of the store this turn scans, and whether it reaches the end.
RecordWindow(i) == IF slots[i].recordsCleaned THEN {} ELSE Window(slots[i].cleanupIndex, StoreCapacity)
RecordsDone(i) == slots[i].recordsCleaned \/ slots[i].cleanupIndex + CleanupSlots >= StoreCapacity

\* The entries follow only when no record is left to clean.
EntryWindow(i) == IF RecordsDone(i) THEN Window(slots[i].expectedCursor, ExpectedCapacity) ELSE {}

EntriesDone(i) == RecordsDone(i) /\ slots[i].expectedCursor + CleanupSlots >= ExpectedCapacity

CleanedEntries(i) == HeldEntries(i) \cup {n \in EntryWindow(i) : BelongsTo(expected[n], i)}

NextIndex(i) == Min({slots[i].cleanupIndex + CleanupSlots, StoreCapacity})
NextCursor(i) == Min({slots[i].expectedCursor + Cardinality(EntryWindow(i)), ExpectedCapacity})

CleanupTurn(i) ==
    /\ slots[i].state = "closing"
    /\ held' = [d \in Domains |-> IF d \in HeldOf(i) THEN None ELSE held[d]]
    /\ store' = [n \in StoreIndex |->
                    IF n \in RecordWindow(i) /\ BelongsTo(store[n], i) THEN None ELSE store[n]]
    /\ expected' = [n \in ExpectedIndex |-> IF n \in CleanedEntries(i) THEN None ELSE expected[n]]
    /\ expectedCount' = expectedCount - Cardinality(CleanedEntries(i))
    /\ slots' = [slots EXCEPT ![i] =
            IF EntriesDone(i) THEN FreeSlot(slots[i].generation)
            ELSE [slots[i] EXCEPT !.recordsCleaned = RecordsDone(i), !.cleanupIndex = NextIndex(i),
                                  !.expectedCursor = NextCursor(i)]]
    /\ UNCHANGED <<flight, lastIssued, stopped, infrastructure>>

Next ==
    \/ \E i \in Slots : Admit(i) \/ Close(i) \/ RetryRejection(i) \/ CleanupTurn(i)
    \/ \E i \in Slots, q \in Sequences, d \in Domains : Receive(i, q, d)
    \/ \E r \in flight : Complete(r)
    \/ \E d \in Domains : FinishHeld(d)
    \/ Stop

Spec == Init /\ [][Next]_vars

\* The sweep visits every slot again and again, workers finish what they took,
\* and a client that never makes room is closed by its deadline.
Fairness ==
    /\ \A i \in Slots : WF_vars(CleanupTurn(i)) /\ WF_vars(stopped /\ Close(i))
    /\ \A n \in 1 .. MaxInstances : WF_vars(\E r \in flight : r.instance = n /\ Complete(r))
    /\ \A d \in Domains : WF_vars(FinishHeld(d))

FairSpec == Spec /\ Fairness

-----------------------------------------------------------------------------
(* Properties *)

\* While its client stays open, a request that a worker or a queue still owns
\* is in both tables, whatever late completions of the slot's earlier clients
\* and whatever cleanups happen meanwhile: its answer will find its way.
LiveRequestsTracked ==
    \A r \in flight : Open(r) =>
        /\ \E n \in StoreIndex : store[n] = r
        /\ \E n \in ExpectedIndex : expected[n] = r

\* Releasing a slot leaves nothing of its client in the store, in the expected
\* table or in a held answer, so that the next lease starts clean and the
\* service can be destroyed once every client is gone.
NothingLeftBehind ==
    /\ \A n \in StoreIndex : store[n] # None => Leased(store[n])
    /\ \A n \in ExpectedIndex : expected[n] # None => Leased(expected[n])
    /\ \A d \in Domains : held[d] # None => Leased(held[d])

\* The count vireo_auth_service_destroy relies on is the number of entries,
\* although answers, late completions and cleanups all take entries away.
CountExact == expectedCount = Cardinality({n \in ExpectedIndex : expected[n] # None})

\* Where MKDIR is enabled the INTERNAL results of reserve and of the match never
\* occur: the table has an entry for every record the store accepts, and a
\* record never outlives the entry it would have to match.
NoInfrastructureFailure == MkdirEnabled => ~infrastructure

\* Where MKDIR is enabled a client never has more unanswered requests than its
\* limit, counting the answers that wait for room in its send buffer.
UndeliveredBounded ==
    MkdirEnabled => \A i \in Slots : Cardinality(EntriesOf(i)) <= ClientLimit

\* No two unanswered requests of one client carry the same sequence number: a
\* response names its request unambiguously.
SequencesDistinct ==
    \A m, n \in ExpectedIndex :
        m # n /\ expected[m] # None /\ expected[n] # None =>
            ~(/\ expected[m].slot = expected[n].slot
              /\ expected[m].generation = expected[n].generation
              /\ expected[m].sequence = expected[n].sequence)

\* What the tables promise at every moment: the six properties above.
RequestsSound ==
    /\ LiveRequestsTracked /\ NothingLeftBehind /\ CountExact
    /\ NoInfrastructureFailure /\ UndeliveredBounded /\ SequencesDistinct

\* A closing slot is released after finitely many bounded cleanup turns, even
\* while its requests are still executing.
ClosingIsReleased ==
    \A i \in Slots : []<>(slots[i].state # "closing")

Unfinished(instance) == \E n \in ExpectedIndex : expected[n] # None /\ expected[n].instance = instance

\* Every accepted request leaves the expected table: answered, dropped or
\* cleaned up.
EveryRequestEnds ==
    \A n \in 1 .. MaxInstances : []<>~Unfinished(n)

\* Slots are interchangeable, and so are the numbers clients choose.
Symmetry == Permutations(Slots) \cup Permutations(Sequences)

=============================================================================
