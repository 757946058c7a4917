------------------------------ MODULE TlsServer ------------------------------
(***************************************************************************)
(* The TLS server of net/tcp_server.c: admission with a handshake          *)
(* deadline, the round that gives each ready client its handshake,         *)
(* application or close turn, the scan that wakes the server for a         *)
(* deadline, and the calls an application makes on one client.             *)
(*                                                                         *)
(* `settled` says that the last thing that happened to a client was a turn *)
(* or a call on it that succeeded: the server then owes it attention as    *)
(* soon as there is something to do.                                       *)
(***************************************************************************)
EXTENDS ServerCore, TlsConnection

CONSTANTS Messages,            \* max_messages of a turn
          RoundClients, AcceptBudget,
          ResourceClients,     \* clients that fit into max_tls_resource_bytes
          HandshakeTimeout, CloseTimeout,
          MaxNow,              \* bound: the clock
          PeerScript,          \* bound: what a peer may send, as sequences of WireItems
          MaxFaults, MaxCalls

VARIABLES s,      \* struct vireo_tcp_server and the sockets it holds; s.now is the clock
          calls   \* how many calls the application has made besides serving

vars == <<s, calls>>

Idle == EmptySlot @@ Created @@ [settled |-> FALSE, script |-> <<>>]

Init == s = CoreInit(Idle, MaxFaults) @@ [now |-> 0] /\ calls = 0

Connection(t, i) == [f \in DOMAIN Created |-> t.slots[i][f]]
Put(t, i, c) == [t EXCEPT !.slots[i] = c @@ @]
TlsRoom(t) == HasRoom(t) /\ Cardinality(Live(t)) < ResourceClients

set_interests(t, i, interests) ==
    IF t.slots[i].ints = interests THEN Ok(t)
    ELSE Ok([t EXCEPT !.slots[i].ints = interests]) \cup Fault(t, "SYNC")

(* A caller's gate may refuse the client a place in the queue. *)
Enqueue(t, i, gated) == Ok(queue_append(t, i)) \cup (IF gated THEN Fault(t, "GATE") ELSE {})

-----------------------------------------------------------------------------
(* Admission. *)

Prepared(now) == handshake_deadline_arm(io_prepare(Created), now, now + HandshakeTimeout)

AttachedTls(t, i, peer) ==
    [t EXCEPT !.slots[i] = Prepared(t.now) @@ [Idle EXCEPT !.gen = t.leased[i], !.live = TRUE, !.bound = TRUE,
                                                 !.peer = peer, !.ints = {"READ"}],
              !.handles = @ \cup {[slot |-> i, gen |-> t.leased[i], peer |-> peer]}]

(* The clock, the wrapper and its buffers come before the pool; each failure gives back what *)
(* it owns.                                                                                   *)
tls_admit_one(t, peer, gated) ==
    LET i == Head(t.free)
        rejected(o, slot) == {Out(clean_pending(f.s, peer, slot), f.r) : f \in Fault(o, "REJECTED")}
        queued(u) == {Out([o.s EXCEPT !.slots[i].settled = o.r = "OK"], o.r) : o \in Enqueue(u, i, gated)}
        adopted(u) == UNION {IF o.r # "OK" THEN {Out(clean_pending(o.s, peer, 0), o.r)}
                             ELSE queued(AttachedTls(o.s, i, peer)) \cup rejected(o.s, i) : o \in adopt(u)}
    IN AndThen(accept(t, peer), LAMBDA u : adopted(u) \cup rejected(u, 0))

RECURSIVE tls_admit_batch(_, _, _)
tls_admit_batch(t, k, gated) ==
    IF k = 0 \/ ~TlsRoom(t) \/ t.backlog = {} THEN Ok(t)
    ELSE UNION {AndThen(tls_admit_one(t, p, gated), LAMBDA u : tls_admit_batch(u, k - 1, gated)) : p \in t.backlog}

tls_admission_sync(t) == set_read(t, TlsRoom(t))

-----------------------------------------------------------------------------
(* The handshake. *)

HandshakeInterests(c) ==
    IF c.hs = "ESTABLISHED" THEN {"READ"} ELSE IF c.hs = "FAILED" THEN {} ELSE {c.hwait}

(* Interests that could not be set put the client back into the queue. *)
sync_or_retry(t, i, interests, gated) ==
    UNION {IF o.r = "OK" THEN {o} ELSE {Out(q.s, o.r) : q \in Enqueue(o.s, i, gated)} :
           o \in set_interests(t, i, interests)}

tls_handshake_step(t, i) ==
    UNION {{Out(y.s, IF h.r = "OK" THEN y.r ELSE h.r) :
              y \in sync_or_retry(Put(t, i, h.c), i, HandshakeInterests(h.c), FALSE)} :
           h \in handshake_step_at(Connection(t, i), t.now)}
    \cup Fault(t, "CLOCK")

-----------------------------------------------------------------------------
(* The application's turn. *)

Turn(t, r, stop) == [s |-> t, r |-> r, stop |-> stop]

(* process_client over the TLS buffers. *)
Handled(c) == Min({Messages, c.rd, TlsWriteCapacity - c.wr})
Processed(t, i) ==
    LET c == t.slots[i]
        k == Handled(c)
        stop == IF k = Messages THEN "BUDGET" ELSE IF c.rd > k THEN "WRITE_FULL" ELSE "NEED_MORE"
        done(n) == [t EXCEPT !.slots[i].rd = @ - n, !.slots[i].wr = @ + n]
    IN {Turn(done(k), "OK", stop)}
       \cup (IF k > 0 THEN {Turn(o.s, o.r, "ERROR") : o \in Fault(done(k - 1), "HANDLER")} ELSE {})

tls_processing_pending(c, stop) ==
    stop \in {"BUDGET", "WRITE_FULL"} /\ c.io = "OPEN" /\ c.rd # 0 /\ TlsWriteCapacity - c.wr >= 1

(* Marks, interests, and the queue when there is something to do that no event announces. *)
tls_application_sync(t, i, allow, stop, gated) ==
    LET c == Refreshed(Connection(t, i))
        flow == flow_refresh(c)
        again == allow /\ (tls_processing_pending(c, stop) \/ flow.resume)
        interests == IF c.io = "OPEN" THEN flow.want ELSE {}
    IN UNION {IF o.r # "OK" \/ again THEN {Out(q.s, IF o.r = "OK" THEN q.r ELSE o.r) : q \in Enqueue(o.s, i, gated)}
              ELSE {o} :
              o \in set_interests(Put(t, i, c), i, interests)}

ApplicationReady(c) == c.hs = "ESTABLISHED" /\ c.cl = "NONE" /\ c.io \in {"OPEN", "FAILED"}

Moves(t, i, moved) == {Turn(Put(t, i, m.c), m.r, m.stop) : m \in moved}

(* An unfinished write first; reading unless paused; the requests; then the replies. *)
Begun(t, i) ==
    LET c == Refreshed(Connection(t, i))
    IN IF flow_refresh(c).priority = "WRITE"
       THEN {[s |-> o.s, r |-> o.r, sent |-> TRUE] : o \in Moves(t, i, send(c))}
       ELSE {[s |-> Put(t, i, c), r |-> "OK", sent |-> FALSE]}

ReceivedTls(o, i) ==
    LET c == Refreshed(Connection(o.s, i))
        flow == flow_refresh(c)
    IN IF flow.read \/ flow.priority = "READ"
       THEN {[s |-> m.s, r |-> m.r, sent |-> o.sent] : m \in Moves(o.s, i, receive(c))}
       ELSE {[o EXCEPT !.s = Put(o.s, i, c)]}

Replied(p, i, sent) ==
    LET c == Refreshed(Connection(p.s, i))
        flow == flow_refresh(c)
    IN IF ~sent /\ (flow.priority = "WRITE" \/ ("WRITE" \in flow.want /\ flow.priority # "READ"))
       THEN {Turn(m.s, m.r, p.stop) : m \in Moves(p.s, i, send(c))}
       ELSE {Turn(Put(p.s, i, c), "OK", p.stop)}

Work(t, i) ==
    IF t.slots[i].io = "FAILED" THEN {Turn(t, t.slots[i].iofailure, "NONE")}
    ELSE UNION {IF b.r # "OK" THEN {Turn(b.s, b.r, "NONE")}
           ELSE UNION {IF v.r # "OK" THEN {Turn(v.s, v.r, "NONE")}
                       ELSE UNION {IF p.r # "OK" THEN {p} ELSE Replied(p, i, v.sent) : p \in Processed(v.s, i)} :
                       v \in ReceivedTls(b, i)} :
           b \in Begun(t, i)}

tls_drive(t, i, gated) ==
    IF ~ApplicationReady(t.slots[i]) THEN {Out(t, "BUSY")}
    ELSE UNION {{Out(y.s, IF o.r = "OK" THEN y.r ELSE o.r) :
                   y \in tls_application_sync(o.s, i, o.r = "OK", o.stop, gated)} : o \in Work(t, i)}

tls_flow_refresh(t, i) ==
    IF ~ApplicationReady(t.slots[i]) THEN {Out(t, "BUSY")} ELSE tls_application_sync(t, i, TRUE, "NONE", TRUE)

-----------------------------------------------------------------------------
(* The orderly close. *)

CloseReady(c) == c.hs = "ESTABLISHED" /\ c.io \in {"OPEN", "FAILED"}

close_runs(next) == ~next.full /\ next.resume

tls_close_sync(t, i, allow, gated) ==
    LET c == Connection(t, i)
        next == snapshot(c)
        again == allow /\ CloseActive(c) /\ close_runs(next)
        interests == IF CloseActive(c) /\ ~next.full THEN {next.wait} \ {"NONE"} ELSE {}
    IN UNION {IF o.r # "OK" \/ again THEN {Out(q.s, IF o.r = "OK" THEN q.r ELSE o.r) : q \in Enqueue(o.s, i, gated)}
              ELSE {o} : o \in set_interests(t, i, interests)}

tls_close_request(t, i) ==
    IF ~CloseReady(t.slots[i]) \/ t.slots[i].cl # "NONE" THEN {Out(t, "BUSY")}
    ELSE Fault(t, "CLOCK")
         \cup UNION {IF o.r # "OK" THEN {Out(Put(t, i, o.c), o.r)}
                     ELSE tls_close_sync(Put(t, i, o.c), i, TRUE, TRUE) :
                     o \in close_request(Connection(t, i), t.now, t.now + CloseTimeout)}

tls_close_step(t, i, gated) ==
    IF ~CloseReady(t.slots[i]) \/ t.slots[i].cl = "NONE" THEN {Out(t, "BUSY")}
    ELSE (IF CloseActive(t.slots[i]) THEN Fault(t, "CLOCK") ELSE {})
         \cup UNION {{Out(y.s, IF o.r = "OK" THEN y.r ELSE o.r) :
                        y \in tls_close_sync(Put(t, i, o.c), i, o.r = "OK", gated)} :
                     o \in close_step_at(Connection(t, i), t.now)}

close_flow_refresh(t, i) ==
    IF ~CloseReady(t.slots[i]) \/ t.slots[i].cl = "NONE" THEN {Out(t, "BUSY")} ELSE tls_close_sync(t, i, TRUE, TRUE)

-----------------------------------------------------------------------------
(* The round. *)

(* A client that has just finished its handshake is queued for its first application turn. *)
tls_round_dispatch(t, i) ==
    IF t.slots[i].hs # "ESTABLISHED"
    THEN AndThen(tls_handshake_step(t, i),
                 LAMBDA u : IF u.slots[i].hs = "ESTABLISHED" THEN Enqueue(u, i, TRUE) ELSE Ok(u))
    ELSE IF t.slots[i].cl = "NONE" THEN tls_drive(t, i, FALSE)
    ELSE tls_close_step(t, i, FALSE)

Settle(o, i) == Out([o.s EXCEPT !.slots[i].settled = o.r = "OK"], o.r)

RECURSIVE TlsTurns(_, _)
TlsTurns(t, k) ==
    IF k = 0 THEN Ok(t)
    ELSE LET i == Head(t.queue)
         IN AndThen({Settle(o, i) : o \in tls_round_dispatch(queue_remove(t, i), i)}, LAMBDA u : TlsTurns(u, k - 1))

Expires(c) == IF c.hs = "ESTABLISHED" THEN IF CloseActive(c) THEN c.cdue ELSE 0
              ELSE IF c.hs = "FAILED" THEN 0 ELSE c.due

(* The nearest deadline, 0 if there is none: the wait is no longer than that. *)
nearest_deadline(t) ==
    LET dues == {Expires(t.slots[i]) : i \in Live(t)} \ {0} IN IF dues = {} THEN 0 ELSE Min(dues)

(* Every client whose deadline has passed is queued after the wait. *)
tls_scan(t) ==
    FoldSet(LAMBDA i, u : queue_append(u, i), t,
            {i \in Live(t) : Expires(t.slots[i]) # 0 /\ t.now >= Expires(t.slots[i])})

Ready(t, i) ==
    LET c == t.slots[i] IN {e \in c.ints : e = "READ" => Incoming(c)} # {} \/ c.broken

(* ready_wait: what the kernel reports, each client through its callback, then the scan. *)
Observed(t) ==
    LET able == {i \in Bound(t) : Ready(t, i)}
        noted(set) == FoldSet(LAMBDA i, u : client_observed(u, i), t, set)
        listening(u) == IF u.listener = "bound" /\ u.lread /\ u.backlog # {}
                        THEN {listener_observed(u)} ELSE {u}
    IN UNION {listening(tls_scan(noted(set))) : set \in {able} \cup {{i} : i \in able}}

tls_run_once(t) ==
    IF t.listener # "bound" THEN {Out(t, "NOT_FOUND")}
    ELSE IF t.stop THEN Ok(t)
    ELSE Fault(t, "WAIT") \cup UNION {TlsTurns(u, Min({Len(u.queue), RoundClients})) : u \in Observed(t)}

SyncAfter(o) ==
    {Out([y.s EXCEPT !.levents = {}], IF o.r = "OK" THEN y.r ELSE o.r) : y \in tls_admission_sync(o.s)}

tls_serve_once(t) ==
    IF t.listener # "bound" THEN {Out(t, "NOT_FOUND")}
    ELSE IF t.stop THEN Ok(t)
    ELSE AndThen(tls_admission_sync(t), LAMBDA u :
           UNION {IF o.r # "OK" \/ o.s.levents = {} THEN SyncAfter(o)
                  ELSE UNION {SyncAfter(a) : a \in tls_admit_batch(o.s, AcceptBudget, TRUE)} : o \in tls_run_once(u)})

RECURSIVE Select(_, _)
Select(t, k) ==
    IF k = 0 \/ t.queue = <<>> THEN t
    ELSE Select([queue_remove(t, Head(t.queue)) EXCEPT !.slots[Head(t.queue)].settled = FALSE], k - 1)

tls_poll_ready(t) ==
    IF t.listener # "bound" THEN {Out(t, "NOT_FOUND")}
    ELSE IF t.stop THEN Ok(t)
    ELSE Fault(t, "WAIT") \cup {Out(Select([u EXCEPT !.levents = {}], RoundClients), "OK") : u \in Observed(t)}

-----------------------------------------------------------------------------
(* The actions: each call is one step. *)

Becomes(outcomes) == /\ s.alive /\ calls < MaxCalls /\ calls' = calls + 1
                     /\ \E o \in outcomes : s' = o.s
Serve == s.alive /\ (\E o \in tls_serve_once(s) : s' = o.s) /\ UNCHANGED calls
RunOnce == /\ s.alive /\ ~s.stop /\ s.listener = "bound"
           /\ (\E o \in tls_run_once(s) : s' = [o.s EXCEPT !.levents = {}]) /\ UNCHANGED calls
PollReady == Becomes(tls_poll_ready(s))
AdmitBatch == s.listener # "none" /\ Becomes(tls_admit_batch(s, AcceptBudget, FALSE))
Listener == /\ s.alive /\ s.listener # "bound" /\ UNCHANGED calls
            /\ \E o \in AdoptListener(s) \cup BindListener(s, TRUE) : s' = o.s
Unbind == Becomes(UnbindListener(s))
AdmissionRefresh == s.listener = "bound" /\ Becomes(tls_admission_sync(s))
RequestStop == Becomes(Ok([s EXCEPT !.stop = TRUE]))
ShutdownBatch == \E k \in Slots : Becomes(shutdown_batch(s, k, Idle))
Destroy == s.listener # "none" /\ Becomes(destroy(s))

Known(h) == find_client(s, [slot |-> h.slot, gen |-> h.gen]) = "OK" /\ s.slots[h.slot].bound
Settled(i, outcomes) == Becomes({Settle(o, i) : o \in {x \in outcomes : x.r # "BUSY"}})
(* On an established client the step resets the interests to READ: it settles nothing. *)
HandshakeStep(h) ==
    /\ Known(h)
    /\ LET begun == s.slots[h.slot].hs # "ESTABLISHED"
       IN Becomes({Out([o.s EXCEPT !.slots[h.slot].settled = begun /\ o.r = "OK"], o.r) :
                     o \in tls_handshake_step(s, h.slot)})
Drive(h) == Known(h) /\ Settled(h.slot, tls_drive(s, h.slot, TRUE))
(* A refresh looks at the transport only: buffered requests stay the caller's. *)
FlowRefresh(h) ==
    /\ Known(h)
    /\ Becomes({Out([o.s EXCEPT !.slots[h.slot].settled = o.r = "OK" /\ o.s.slots[h.slot].rd = 0], o.r) :
                  o \in {x \in tls_flow_refresh(s, h.slot) : x.r # "BUSY"}})
CloseRequest(h) == Known(h) /\ Settled(h.slot, tls_close_request(s, h.slot))
CloseStep(h) == Known(h) /\ Settled(h.slot, tls_close_step(s, h.slot, TRUE))
CloseFlowRefresh(h) == Known(h) /\ Settled(h.slot, close_flow_refresh(s, h.slot))
Buffers(h) ==
    LET c == Connection(s, h.slot)
    IN /\ Known(h) /\ (ApplicationReady(c) \/ (CloseActive(c) /\ c.rd > 0))
       /\ \E d \in {enqueue(c, 1)} \cup (IF c.rd > 0 THEN {read_consume(c, 1)} ELSE {}) :
            d # c /\ Becomes(Ok([Put(s, h.slot, d) EXCEPT !.slots[h.slot].settled = FALSE]))
ReleaseClient(h) == find_client(s, [slot |-> h.slot, gen |-> h.gen]) = "OK" /\ Becomes(release_client(s, h.slot, Idle))

(* External: the clock and the peers. *)
Tick == s.alive /\ s.now < MaxNow /\ s' = [s EXCEPT !.now = @ + 1] /\ UNCHANGED calls
Arrive(p) == /\ s.alive /\ p = s.arrived + 1 /\ UNCHANGED calls
             /\ s' = [s EXCEPT !.backlog = @ \cup {p}, !.arrived = p]
PeerSends(i, item) ==
    /\ s.slots[i].live /\ ~s.slots[i].broken
    /\ Append(s.slots[i].script, item) \in PeerScript
    /\ s' = [s EXCEPT !.slots[i].script = Append(@, item), !.slots[i].wire = Append(@, item)]
    /\ UNCHANGED calls
PeerBreaks(i) ==
    /\ s.slots[i].live /\ ~s.slots[i].broken /\ UNCHANGED calls
    /\ \E o \in Fault(s, "BROKEN") : s' = [o.s EXCEPT !.slots[i].broken = TRUE]

ClientStep(h) == \/ HandshakeStep(h) \/ Drive(h) \/ FlowRefresh(h) \/ CloseRequest(h) \/ CloseStep(h)
                 \/ CloseFlowRefresh(h) \/ Buffers(h) \/ ReleaseClient(h)

Next == \/ Serve \/ RunOnce \/ PollReady \/ AdmitBatch \/ Listener \/ Unbind \/ AdmissionRefresh \/ RequestStop
        \/ ShutdownBatch \/ Destroy \/ Tick
        \/ (\E h \in s.handles : ClientStep(h)) \/ (\E p \in Peers : Arrive(p))
        \/ \E i \in Slots : PeerBreaks(i) \/ \E item \in WireItems : PeerSends(i, item)

Spec == Init /\ [][Next]_vars

-----------------------------------------------------------------------------
(* See CoreAgrees: slots, leases, queue and sockets agree, also when the clock, the wrapper   *)
(* or the deadline of an admission fails.                                                     *)
TlsSlotsAgree == CoreAgrees(s)

(* The connection's own consistency check never fails: no order of steps, timeouts and closes *)
(* leads tls_connection.c to report INTERNAL on a live client.                                *)
LifecycleValid == \A i \in Live(s) : lifecycle_valid(Connection(s, i))

(* A turn would get further now: a library call would not have to wait, or a request is there. *)
CanProgress(c) ==
    IF c.hs \in {"INITIAL", "HANDSHAKING"} THEN c.hs = "INITIAL" \/ c.hwait = "WRITE" \/ Incoming(c)
    ELSE IF c.hs = "FAILED" \/ c.io # "OPEN" THEN FALSE
    ELSE IF c.cl = "NONE"
    THEN IF c.retryW # 0 THEN c.waitW = "WRITE" \/ Incoming(c)
         ELSE c.waitR = "WRITE" \/ c.wr # 0 \/ c.rd # 0
              \/ (~c.eof /\ ~c.rp /\ ~c.wp /\ (c.pend > 0 \/ Incoming(c)))
    ELSE LET next == snapshot(c)
         IN CloseActive(c) /\ ~next.full
            /\ (next.wait # "READ" \/ Incoming(c) \/ (next.op = "READ" /\ c.pend > 0))

WillWake(t, i) == i \in Queued(t) \/ Ready(t, i)

(* Work never sleeps inside the TLS layer: when a client was settled and a turn would get     *)
(* further, it is queued or the kernel reports it; and while a handshake or a close is under  *)
(* way, the next wait ends at its deadline (tls_scan, tls_application_sync, tls_close_sync).  *)
NoHiddenWork ==
    \A i \in Bound(s) :
      LET c == s.slots[i]
      IN /\ c.settled /\ CanProgress(Connection(s, i)) => WillWake(s, i)
         /\ c.hs \in {"INITIAL", "HANDSHAKING"} \/ CloseActive(c) =>
              nearest_deadline(s) \in 1..Expires(c)
=============================================================================
