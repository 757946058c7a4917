----------------------------- MODULE ServerCore -----------------------------
(***************************************************************************)
(* What the plain and the TLS server of net/tcp_server.c share: the client *)
(* slots over net/connection_pool.c and base/pool.c, the ready queue, the  *)
(* listener over net/acceptor.c, releases, and the shutdown sweep.         *)
(*                                                                         *)
(* The server is single-threaded, and a call made from inside another one  *)
(* (a handler, a gate, an event callback) is refused as BUSY and changes   *)
(* nothing.  So a function of the code is an operator from a state s to    *)
(* the set of its outcomes [s, r]: the states it may leave, each with the  *)
(* result it reports.  A kernel or allocation failure spends one of        *)
(* s.faults.                                                               *)
(***************************************************************************)
EXTENDS Integers, Sequences, FiniteSets, FiniteSetsExt, SequencesExt

CONSTANTS Capacity,       \* connection_capacity
          Peers,          \* the connections that arrive over the server's life
          BufferPairs,    \* buffer pairs that fit into max_buffer_bytes
          MaxGeneration   \* the last generation of the pool

Slots == 1..Capacity

Out(s, r) == [s |-> s, r |-> r]
Ok(s) == {Out(s, "OK")}

(* The step fails, if a failure is left to happen. *)
Fault(s, r) == IF s.faults > 0 THEN {Out([s EXCEPT !.faults = @ - 1], r)} ELSE {}

(* F continues from every outcome that succeeded. *)
AndThen(outcomes, F(_)) ==
    UNION {IF o.r = "OK" THEN F(o.s) ELSE {o} : o \in outcomes}

(* client_slot_t with its connection; the transport's own state is added by the servers. *)
EmptySlot == [gen |-> 0, live |-> FALSE, bound |-> FALSE, peer |-> 0, ints |-> {}]

CoreInit(slot, faults) ==
    [slots |-> [i \in Slots |-> slot], leased |-> [i \in Slots |-> 0],
     free |-> [i \in Slots |-> i], last |-> 0, queue |-> <<>>,
     listener |-> "none", lread |-> FALSE, levents |-> {}, admission |-> FALSE,
     aux |-> "none", auxEvents |-> FALSE,
     stop |-> FALSE, closeNext |-> 1, shutNext |-> 1, held |-> {},
     backlog |-> {}, arrived |-> 0, faults |-> faults, handles |-> {}, alive |-> TRUE]

Live(s) == {i \in Slots : s.slots[i].live}
Bound(s) == {i \in Slots : s.slots[i].bound}
Queued(s) == Range(s.queue)
HasRoom(s) == Cardinality(Live(s)) < Capacity /\ Cardinality(Live(s)) < BufferPairs

-----------------------------------------------------------------------------
(* The ready queue. *)

queue_append(s, i) == IF i \in Queued(s) THEN s ELSE [s EXCEPT !.queue = Append(@, i)]

queue_remove(s, i) ==
    [s EXCEPT !.queue = SelectSeq(@, LAMBDA j : j # i)]

(* The callback of a client's registration; the events themselves are only reported. *)
client_observed(s, i) == queue_append(s, i)

-----------------------------------------------------------------------------
(* The pool: storage slots from a free list, a generation for every lease. *)

pool_acquire(s) ==
    IF s.last = MaxGeneration THEN {Out(s, "OVERFLOW")}
    ELSE IF s.free = <<>> THEN {Out(s, "BUSY")}
    ELSE Ok([s EXCEPT !.leased[Head(s.free)] = s.last + 1, !.last = @ + 1, !.free = Tail(@)])

pool_release(s, i) == [s EXCEPT !.leased[i] = 0, !.free = <<i>> \o @]

find_entry(s, lease) == lease.gen # 0 /\ s.leased[lease.slot] = lease.gen

(* A connection enters the pool unattached and open; the slot taken is the free list's head. *)
adopt(s) == pool_acquire(s) \cup Fault(s, "ADOPT")

lookup(s, lease) == IF find_entry(s, lease) THEN "OK" ELSE "NOT_FOUND"

(* The pool and the slot must both know the lease. *)
find_client(s, lease) ==
    IF lookup(s, lease) # "OK" THEN "NOT_FOUND"
    ELSE IF s.slots[lease.slot].live /\ s.slots[lease.slot].gen = lease.gen THEN "OK"
    ELSE "INTERNAL"

(* The connection is destroyed, then its slot goes back; an error of close(2) is       *)
(* reported although everything is released.                                           *)
pool_release_connection(s, i) ==
    LET released == [pool_release(s, i) EXCEPT !.held = @ \ {s.slots[i].peer}]
    IN Ok(released) \cup Fault(released, "IO")

-----------------------------------------------------------------------------
(* Releasing a client, and giving back a connection that was not admitted. *)

detach(s, i) == Ok([s EXCEPT !.slots[i].ints = {}]) \cup Fault(s, "DETACH")

unbound(s, i) == [s EXCEPT !.slots[i].bound = FALSE]

vacate(s, i, empty) == [queue_remove(s, i) EXCEPT !.slots[i] = empty]

(* A failed detach keeps the client; after it the release can be repeated. *)
release_client(s, i, empty) ==
    LET detached == IF s.slots[i].bound
                    THEN AndThen(detach(s, i), LAMBDA t : Ok(unbound(t, i)))
                    ELSE Ok(s)
    IN UNION {IF o.r # "OK" THEN {o}
              ELSE {Out(vacate(p.s, i, empty), p.r) : p \in pool_release_connection(o.s, i)} :
              o \in detached}

(* Exactly what the admission owns when it fails: the lease, or the connection, or the  *)
(* descriptor.                                                                          *)
clean_pending(s, peer, i) ==
    [(IF i # 0 THEN pool_release(s, i) ELSE s) EXCEPT !.held = @ \ {peer}]

-----------------------------------------------------------------------------
(* The listener. *)

accept(s, peer) ==
    Ok([s EXCEPT !.backlog = @ \ {peer}, !.held = @ \cup {peer}]) \cup Fault(s, "ACCEPT")

AdoptListener(s) == IF s.listener # "none" THEN {Out(s, "BUSY")}
                    ELSE Ok([s EXCEPT !.listener = "adopted"]) \cup Fault(s, "INSPECT")

BindListener(s, read) ==
    IF s.listener # "adopted" THEN {Out(s, "BUSY")}
    ELSE Ok([s EXCEPT !.listener = "bound", !.lread = read]) \cup Fault(s, "BIND")

(* acceptor_set_read_enabled *)
set_read(s, enabled) ==
    IF enabled = s.lread THEN Ok(s)
    ELSE Ok([s EXCEPT !.lread = enabled]) \cup Fault(s, "LISTENER")

SetListenerRead(s, read) ==
    IF s.admission THEN {Out(s, "BUSY")}
    ELSE IF s.listener # "bound" THEN {Out(s, "NOT_FOUND")}
    ELSE set_read(s, read)

UnbindListener(s) ==
    IF s.listener = "none" THEN {Out(s, "NOT_FOUND")}
    ELSE IF s.listener = "adopted" THEN Ok(s)
    ELSE Ok([s EXCEPT !.listener = "adopted", !.lread = FALSE, !.admission = FALSE])
         \cup Fault(s, "UNBIND")

listener_observed(s) == [s EXCEPT !.levents = {"READ"}]

-----------------------------------------------------------------------------
(* The auxiliary descriptor: the notifier of the completion path registers here. *)

AuxiliaryRegister(s) ==
    IF s.aux # "none" THEN {Out(s, "BUSY")}
    ELSE Ok([s EXCEPT !.aux = "bound", !.auxEvents = FALSE]) \cup Fault(s, "REGISTER")

AuxiliaryUnregister(s) ==
    IF s.aux = "none" THEN {Out(s, "NOT_FOUND")}
    ELSE Ok([s EXCEPT !.aux = "none", !.auxEvents = FALSE]) \cup Fault(s, "UNREGISTER")

auxiliary_ready(s) == [s EXCEPT !.auxEvents = TRUE]

AuxiliaryTakeReady(s) ==
    IF s.aux = "none" \/ ~s.auxEvents THEN {Out(s, "NOT_FOUND")}
    ELSE Ok([s EXCEPT !.auxEvents = FALSE])

-----------------------------------------------------------------------------
(* Shutdown: one slot after the other from a cursor that moves before the attempt. *)

Following(i) == IF i = Capacity THEN 1 ELSE i + 1

ShutdownStep(s, empty) ==
    LET i == s.shutNext
        moved == [s EXCEPT !.shutNext = Following(i)]
    IN IF s.slots[i].live THEN release_client(moved, i, empty) ELSE Ok(moved)

(* What the sweep leaves after at most n slots; it ends early at a failure. *)
RECURSIVE ShutdownSweep(_, _, _)
ShutdownSweep(s, n, empty) ==
    IF Live(s) = {} \/ n = 0 THEN Ok(s)
    ELSE AndThen(ShutdownStep(s, empty), LAMBDA t : ShutdownSweep(t, n - 1, empty))

shutdown_batch(s, slots, empty) ==
    IF ~s.stop THEN {Out(s, "BUSY")} ELSE ShutdownSweep(s, slots, empty)

(* The pool refuses while a lease is out; loop and listener go with the server. *)
destroy(s) ==
    IF \E i \in Slots : s.leased[i] # 0 THEN {Out(s, "BUSY")}
    ELSE Ok([s EXCEPT !.alive = FALSE, !.listener = "none", !.lread = FALSE,
                      !.aux = "none", !.admission = FALSE])

-----------------------------------------------------------------------------
(* What the servers' invariants share. *)

(* Slots, leases, queue and sockets agree: a slot is live exactly while its lease is out, *)
(* the queue holds live clients once each, and every accepted socket belongs to a live     *)
(* client; whatever failed on the way, nothing is leaked and nothing is used twice.        *)
CoreAgrees(s) ==
    /\ \A i \in Slots : s.slots[i].live <=> s.leased[i] # 0
    /\ \A i \in Live(s) : s.slots[i].gen = s.leased[i]
    /\ Range(s.free) = Slots \ Live(s) /\ Len(s.free) = Cardinality(Slots \ Live(s))
    /\ Queued(s) \subseteq Live(s) /\ Len(s.queue) = Cardinality(Queued(s))
    /\ s.held = {s.slots[i].peer : i \in Live(s)}
    /\ Cardinality(s.held) = Cardinality(Live(s))

(* A lease a caller kept reaches the connection it was given for, or none. *)
LeasesExact(s) ==
    \A h \in s.handles : find_client(s, [slot |-> h.slot, gen |-> h.gen]) = "OK"
                            => s.slots[h.slot].peer = h.peer
=============================================================================
