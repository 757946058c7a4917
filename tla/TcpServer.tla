----------------------------- MODULE TcpServer ------------------------------
(***************************************************************************)
(* The plain server of net/tcp_server.c: admission, the ready round that   *)
(* drives one client after the other, automatic close and release, and     *)
(* the calls an application makes on single clients.                       *)
(*                                                                         *)
(* A client's connection is the one of module Connection seen in whole     *)
(* frames: rd requests and wr replies are buffered.  `settled` says that   *)
(* the last thing that happened to the client was a turn of the round that *)
(* succeeded, so that nobody else owes it attention.                       *)
(***************************************************************************)
EXTENDS ServerCore

CONSTANTS ReadCapacity, WriteCapacity,   \* frames a buffer holds
          MessageBudget,                 \* requests of one turn
          RoundClients,                  \* max_clients of a round
          AcceptBudget,                  \* max_accepts of a round
          MaxRequests,                   \* bound: requests of one peer
          BadPeers,                      \* peers whose last bytes are no frame
          MaxFaults,                     \* bound: failures of one behaviour
          AutoModes,                     \* settings of auto_close_policy and auto_release_ready
          MaxCalls                       \* bound: calls of the application besides serve

VARIABLES s,     \* struct vireo_tcp_server and the sockets it holds
          auto,  \* auto_close_policy and auto_release_ready
          calls  \* how many calls the application has made

vars == <<s, auto, calls>>

(* A TCP client slot: the buffers, the marks, the close state of its connection. *)
Idle == EmptySlot @@ [rd |-> 0, junk |-> FALSE, wr |-> 0, eof |-> FALSE, flow |-> FALSE,
                      rp |-> FALSE, wp |-> FALSE, close |-> "OPEN", mode |-> "NONE",
                      settled |-> FALSE,
                      sent |-> 0, unread |-> 0, fin |-> FALSE, broken |-> FALSE]

Init == /\ s = CoreInit(Idle, MaxFaults)
        /\ auto \in AutoModes /\ calls = 0

-----------------------------------------------------------------------------
(* The connection, as module Connection describes it. *)

Pressed(c) == [read |-> IF c.rp THEN c.rd > ReadCapacity - 1 ELSE c.rd >= ReadCapacity,
               write |-> IF c.wp THEN c.wr > WriteCapacity - 1 ELSE c.wr >= WriteCapacity]

set_interests(t, i, interests) ==
    IF t.slots[i].ints = interests THEN Ok(t)
    ELSE Ok([t EXCEPT !.slots[i].ints = interests]) \cup Fault(t, "LOOP")

FlowInterests(c, p) ==
    (IF ~c.eof /\ ~p.read /\ ~p.write THEN {"READ"} ELSE {})
    \cup (IF c.wr # 0 THEN {"WRITE"} ELSE {})

flow_refresh(t, i) ==
    LET p == Pressed(t.slots[i])
    IN AndThen(set_interests(t, i, FlowInterests(t.slots[i], p)),
               LAMBDA u : Ok([u EXCEPT !.slots[i].rp = p.read, !.slots[i].wp = p.write]))

flow_configure(t, i) ==
    LET p == Pressed([t.slots[i] EXCEPT !.rp = FALSE, !.wp = FALSE])
    IN AndThen(set_interests(t, i, FlowInterests(t.slots[i], p)),
               LAMBDA u : Ok([u EXCEPT !.slots[i].rp = p.read, !.slots[i].wp = p.write,
                                       !.slots[i].flow = TRUE]))

close_refresh(t, i) ==
    LET draining == t.slots[i].mode = "DRAIN" /\ t.slots[i].wr # 0
        moved == [t EXCEPT !.slots[i].close = IF draining THEN "DRAINING" ELSE "READY"]
    IN IF t.slots[i].bound
       THEN set_interests(moved, i, IF draining THEN {"WRITE"} ELSE {})
       ELSE Ok(moved)

request_close(t, i, mode) ==
    IF t.slots[i].mode = "IMMEDIATE" /\ mode = "DRAIN" THEN {Out(t, "BUSY")}
    ELSE close_refresh([t EXCEPT !.slots[i].mode = mode], i)

(* The bytes of the socket move into the buffer. *)
receive(t, i) ==
    LET c == t.slots[i]
        most == Min({c.unread, ReadCapacity - c.rd})
        got(k) == [t EXCEPT !.slots[i].rd = @ + k, !.slots[i].unread = @ - k]
    IN {Out(got(k), "OK") : k \in {most, Min({1, most})}}
       \cup (IF c.fin /\ most = c.unread /\ c.rd + most < ReadCapacity
             THEN Ok([got(most) EXCEPT !.slots[i].eof = TRUE,
                                       !.slots[i].junk = c.peer \in BadPeers]) ELSE {})
       \cup (IF c.broken THEN {Out(t, "IO_RECEIVE")} ELSE {})

send(t, i) ==
    LET c == t.slots[i]
    IN {Out([t EXCEPT !.slots[i].wr = @ - k], "OK") : k \in {0, c.wr}}
       \cup (IF c.broken /\ c.wr # 0 THEN {Out(t, "IO_SEND")} ELSE {})

-----------------------------------------------------------------------------
(* One turn of a client. *)

(* Requests that the budget, the buffer and the space for replies allow; a frame that     *)
(* does not parse ends the loop after the good ones before it, a handler may fail.        *)
Handled(c) == Min({MessageBudget, c.rd, WriteCapacity - c.wr})
process_stop(c) ==
    IF Handled(c) = MessageBudget THEN "BUDGET"
    ELSE IF c.rd > Handled(c) THEN "WRITE_FULL"
    ELSE IF c.junk THEN "PROTOCOL"
    ELSE "NEED_MORE"

process_client(t, i) ==
    LET c == t.slots[i]
        done(k) == [t EXCEPT !.slots[i].rd = @ - k, !.slots[i].wr = @ + k]
        stop == process_stop(c)
    IN {[s |-> done(Handled(c)), r |-> IF stop = "PROTOCOL" THEN "PROTOCOL" ELSE "OK", stop |-> stop]}
       \cup (IF Handled(c) > 0
             THEN {[s |-> o.s, r |-> o.r, stop |-> "ERROR"] : o \in Fault(done(Handled(c) - 1), "HANDLER")}
             ELSE {})

drive_sync(t, i, closing) == IF closing THEN close_refresh(t, i) ELSE flow_refresh(t, i)

Turn(t, r, stop) == [s |-> t, r |-> r, stop |-> stop]

(* Receive only without end of file and without pressure; the requests; then the replies. *)
Received(t, i) ==
    LET c == t.slots[i]
    IN IF ~c.eof /\ ~c.rp /\ ~c.wp THEN receive(t, i) ELSE Ok(t)
Processed(t, i) ==
    UNION {IF o.r # "OK" THEN {Turn(o.s, o.r, "NONE")}
           ELSE {Turn(p.s, p.r, p.stop) : p \in process_client(o.s, i)} : o \in Received(t, i)}
Sent(t, i, stop) ==
    IF t.slots[i].close = "READY" THEN {Turn(t, "OK", stop)}
    ELSE {Turn(o.s, o.r, stop) : o \in send(t, i)}

Worked(t, i, closing) ==
    UNION {IF o.r # "OK" THEN {o} ELSE Sent(o.s, i, o.stop) :
           o \in IF closing THEN {Turn(t, "OK", "NONE")} ELSE Processed(t, i)}

(* Mutant: the requests a budget left in the buffer are left to the next event. *)
needs_processingNever(c, stop, closing) == FALSE

(* Requests were left because of a limit, and there is room for a reply now. *)
needs_processing(c, stop, closing) ==
    ~closing /\ stop \in {"BUDGET", "WRITE_FULL"} /\ (c.rd # 0 \/ c.junk)
             /\ WriteCapacity - c.wr >= 1

(* The interests are settled again whatever failed in between. *)
drive_client(t, i) ==
    LET c == t.slots[i]
        closing == c.close # "OPEN"
        pre == IF closing THEN Ok(t) ELSE drive_sync(t, i, FALSE)
        worked == UNION {Worked(o.s, i, closing) : o \in {x \in pre : x.r = "OK"}}
    IN IF ~closing /\ (~c.bound \/ ~c.flow) THEN {Turn(t, "NOT_FOUND", "NONE")}
       ELSE {Turn(o.s, o.r, "NONE") : o \in {x \in pre : x.r # "OK"}}
            \cup UNION {{Turn(y.s, IF o.r = "OK" THEN y.r ELSE o.r, o.stop) :
                           y \in drive_sync(o.s, i, closing)} : o \in worked}

-----------------------------------------------------------------------------
(* The round. *)

ReadyNext(c, result) == result = "OK" /\ c.wr = 0

(* A protocol error or a broken socket closes at once, the end of the peer's bytes drains. *)
(* Outcomes: the state, the result of the close, and whether the client is ready now.      *)
apply_close_policy(o, i) ==
    LET c == o.s.slots[i]
        fatal == o.r \in {"PROTOCOL", "IO_RECEIVE", "IO_SEND"}
        socket == o.r \in {"IO_RECEIVE", "IO_SEND"}
        ended == o.r = "OK" /\ c.close = "OPEN" /\ c.eof /\ c.rd = 0 /\ ~c.junk
        untouched == {[s |-> o.s, r |-> "OK", next |-> FALSE]}
    IN IF ~auto \/ c.close = "READY" \/ (c.close # "OPEN" /\ ~socket) \/ ~(fatal \/ ended) THEN untouched
       ELSE {[s |-> y.s, r |-> y.r, next |-> y.r = "OK" /\ ReadyNext(c, o.r)] :
               y \in request_close(o.s, i, IF fatal THEN "IMMEDIATE" ELSE "DRAIN")}

(* What a turn leaves in the queue and in the slot; a failed turn ends the round and   *)
(* its client is left to the caller.                                                    *)
Settle(t, i) == [t EXCEPT !.slots[i].settled = TRUE]
ConcludeTurn(o, i) ==
    UNION {IF o.r # "OK" THEN {Turn(c.s, o.r, "NONE")}
           ELSE IF c.r # "OK" THEN {Turn(c.s, c.r, "NONE")}
           ELSE IF auto /\ o.s.slots[i].close = "READY"
                THEN {Turn(y.s, y.r, "NONE") : y \in release_client(c.s, i, Idle)}
           ELSE LET again == needs_processing(c.s.slots[i], o.stop, c.s.slots[i].close # "OPEN") \/ c.next
                IN {Turn(Settle(IF again THEN queue_append(c.s, i) ELSE c.s, i), "OK", "NONE")} :
           c \in apply_close_policy(o, i)}

RECURSIVE Turns(_, _)
Turns(o, k) ==
    IF k = 0 \/ o.r # "OK" THEN {o}
    ELSE LET i == Head(o.s.queue)
             begun == [queue_remove(o.s, i) EXCEPT !.slots[i].settled = FALSE]
         IN UNION {UNION {Turns(y, k - 1) : y \in ConcludeTurn(d, i)} : d \in drive_client(begun, i)}

(* What the kernel has to report of a client: an event stays until its cause is gone. *)
Ready(t, i) ==
    LET c == t.slots[i]
    IN {e \in c.ints : e = "READ" => c.unread > 0 \/ c.fin \/ c.broken}
       \cup (IF c.broken THEN {"ERROR"} ELSE {})

(* One round of the loop: some of what is ready, each through its callback. *)
Observed(t) ==
    LET able == {i \in Bound(t) : Ready(t, i) # {}}
        noted(set) == FoldSet(LAMBDA i, u : client_observed(u, i), t, set)
        listening(u) == IF u.listener = "bound" /\ u.lread /\ u.backlog # {}
                        THEN {u, listener_observed(u)} ELSE {u}
        auxiliary(u) == IF u.aux = "bound" THEN {u, auxiliary_ready(u)} ELSE {u}
    IN UNION {UNION {auxiliary(v) : v \in listening(noted(set))} : set \in SUBSET able}

run_round(t) ==
    {Turn(o.s, "WAIT", "NONE") : o \in Fault(t, "WAIT")}
    \cup UNION {Turns(Turn(u, "OK", "NONE"), Min({Len(u.queue), RoundClients})) : u \in Observed(t)}

-----------------------------------------------------------------------------
(* Admission. *)

(* The listener reads exactly while another connection fits. *)
admission_sync(t) ==
    IF t.listener # "bound" THEN {Out(t, "NOT_FOUND")} ELSE set_read(t, HasRoom(t))

(* One connection: accept, create, adopt, look up, attach; what fails gives back exactly *)
(* what it owns.                                                                         *)
Attached(t, i, peer) ==
    [t EXCEPT !.slots[i] = [Idle EXCEPT !.gen = t.leased[i], !.live = TRUE, !.bound = TRUE,
                                        !.peer = peer, !.ints = {"READ"}],
              !.handles = @ \cup {[slot |-> i, gen |-> t.leased[i], peer |-> peer]}]

Adopted(t, peer) ==
    UNION {IF o.r # "OK" THEN {Out(clean_pending(o.s, peer, 0), o.r)}
           ELSE LET i == Head(t.free)
                IN Ok(Attached(o.s, i, peer))
                   \cup {Out(clean_pending(f.s, peer, i), f.r) : f \in Fault(o.s, "ATTACH")} :
           o \in adopt(t)}

admit_one(t, peer) ==
    UNION {IF o.r # "OK" THEN {o}
           ELSE Adopted(o.s, peer)
                \cup {Out(clean_pending(f.s, peer, 0), f.r) : f \in Fault(o.s, "CREATE")} :
           o \in accept(t, peer)}

RECURSIVE admit_clients(_, _)
admit_clients(t, k) ==
    IF k = 0 \/ ~HasRoom(t) \/ t.backlog = {} THEN Ok(t)
    ELSE UNION {AndThen(admit_one(t, p), LAMBDA u : admit_clients(u, k - 1)) : p \in t.backlog}

(* serve_round admits one at a time and gives each client its marks. *)
RECURSIVE AdmitAndConfigure(_, _)
AdmitAndConfigure(t, k) ==
    IF k = 0 \/ ~HasRoom(t) \/ t.backlog = {} THEN Ok(t)
    ELSE LET i == Head(t.free)
         IN UNION {AndThen(AndThen(admit_one(t, p), LAMBDA u : flow_configure(u, i)),
                           LAMBDA u : AdmitAndConfigure(Settle(u, i), k - 1)) : p \in t.backlog}

(* The listener is brought into line before and after, except when the wait failed. *)
SyncAfter(o) ==
    {Turn([y.s EXCEPT !.levents = {}], IF o.r = "OK" THEN y.r ELSE o.r, "NONE") :
       y \in admission_sync(o.s)}

serve_round(t) ==
    IF ~t.admission \/ t.listener # "bound" THEN {Turn(t, "NOT_FOUND", "NONE")}
    ELSE IF t.stop THEN {Turn(t, "OK", "NONE")}
    ELSE UNION {
      IF o.r # "OK" THEN {Turn(o.s, o.r, "NONE")}
      ELSE UNION {
        IF r.r = "WAIT" THEN {r}
        ELSE IF r.r # "OK" \/ r.s.levents = {} THEN SyncAfter(r)
        ELSE UNION {SyncAfter(Turn(a.s, a.r, "NONE")) : a \in AdmitAndConfigure(r.s, AcceptBudget)} :
        r \in run_round(o.s)} :
      o \in admission_sync(t)}

-----------------------------------------------------------------------------
(* Sweeps and single-client calls. *)

CloseStep(t, mode) ==
    LET i == t.closeNext
        moved == [t EXCEPT !.closeNext = Following(i)]
    IN IF ~t.slots[i].live THEN Ok(moved)
       ELSE AndThen(request_close([moved EXCEPT !.slots[i].settled = FALSE], i, mode),
                    LAMBDA u : Ok(queue_append(u, i)) \cup Fault(u, "GATE"))

RECURSIVE CloseSweep(_, _, _)
CloseSweep(t, k, mode) ==
    IF Live(t) = {} \/ k = 0 THEN Ok(t)
    ELSE AndThen(CloseStep(t, mode), LAMBDA u : CloseSweep(u, k - 1, mode))

close_batch(t, slots, mode) == IF t.stop THEN {Out(t, "BUSY")} ELSE CloseSweep(t, slots, mode)

(* The application takes ready clients itself; a gate that refuses leaves them queued. *)
RECURSIVE Select(_, _)
Select(t, k) ==
    IF k = 0 \/ t.queue = <<>> THEN Ok(t)
    ELSE AndThen(Ok(t) \cup Fault(t, "GATE"),
                 LAMBDA u : LET i == Head(u.queue)
                            IN Select([queue_remove(u, i) EXCEPT !.slots[i].settled = FALSE], k - 1))

poll_ready(t) ==
    IF t.stop THEN Ok(t)
    ELSE Fault(t, "WAIT") \cup UNION {Select([u EXCEPT !.levents = {}], RoundClients) : u \in Observed(t)}

(* client_policy and the calls that move bytes: the caller's lease must be current, and  *)
(* from then on the client is the caller's until its next turn.                          *)
Owned(t, i) == [t EXCEPT !.slots[i].settled = FALSE]
client_policy(t, i, call) ==
    LET c == t.slots[i]
    IN CASE call = "FLOW_CONFIGURE" /\ c.close = "OPEN" /\ c.bound -> flow_configure(Owned(t, i), i)
         [] call = "FLOW_REFRESH" /\ c.close = "OPEN" /\ c.bound /\ c.flow -> flow_refresh(Owned(t, i), i)
         [] call = "CLOSE_DRAIN" -> request_close(Owned(t, i), i, "DRAIN")
         [] call = "CLOSE_NOW" -> request_close(Owned(t, i), i, "IMMEDIATE")
         [] call = "CLOSE_REFRESH" /\ c.close # "OPEN" -> close_refresh(Owned(t, i), i)
         [] call = "FLOW_DISABLE" /\ c.flow /\ c.close = "OPEN" ->
              Ok([Owned(t, i) EXCEPT !.slots[i].flow = FALSE, !.slots[i].rp = FALSE, !.slots[i].wp = FALSE])
         [] call = "ENQUEUE" /\ c.close = "OPEN" /\ c.wr < WriteCapacity ->
              Ok([Owned(t, i) EXCEPT !.slots[i].wr = @ + 1])
         [] call = "SCHEDULE" -> Ok(queue_append(Owned(t, i), i))
         [] OTHER -> {Out(t, "REFUSED")}

Calls == {"FLOW_CONFIGURE", "FLOW_REFRESH", "FLOW_DISABLE", "CLOSE_DRAIN", "CLOSE_NOW",
          "CLOSE_REFRESH", "ENQUEUE", "SCHEDULE"}

-----------------------------------------------------------------------------
(* The actions: each call is one step. *)

Becomes(outcomes) == /\ s.alive /\ calls < MaxCalls /\ calls' = calls + 1
                     /\ \E o \in outcomes : s' = o.s
Serve == s.alive /\ (\E o \in serve_round(s) : s' = o.s) /\ UNCHANGED <<auto, calls>>
Round == /\ s.alive /\ ~s.stop
         /\ \E o \in run_round(s) : s' = [o.s EXCEPT !.levents = {}]
         /\ UNCHANGED <<auto, calls>>
Poll == Becomes(poll_ready(s)) /\ UNCHANGED auto
Admit == s.listener # "none" /\ Becomes(admit_clients(s, AcceptBudget)) /\ UNCHANGED auto
Listener == Becomes(AdoptListener(s) \cup BindListener(s, TRUE) \cup SetListenerRead(s, FALSE)
                    \cup UnbindListener(s)) /\ UNCHANGED auto
AdmissionConfigure ==
    /\ Becomes(AndThen(admission_sync(s), LAMBDA t : Ok([t EXCEPT !.admission = TRUE])))
    /\ UNCHANGED auto
AdmissionRefresh == s.admission /\ Becomes(admission_sync(s)) /\ UNCHANGED auto
AdmissionDisable == Becomes(Ok([s EXCEPT !.admission = FALSE])) /\ UNCHANGED auto
Auxiliary == Becomes(AuxiliaryRegister(s) \cup AuxiliaryUnregister(s) \cup AuxiliaryTakeReady(s))
             /\ UNCHANGED auto
ClientCall(h, call) ==
    /\ find_client(s, [slot |-> h.slot, gen |-> h.gen]) = "OK"
    /\ Becomes(client_policy(s, h.slot, call)) /\ UNCHANGED auto
ReleaseClient(h) ==
    /\ find_client(s, [slot |-> h.slot, gen |-> h.gen]) = "OK"
    /\ Becomes(release_client(s, h.slot, Idle)) /\ UNCHANGED auto
CloseBatch == /\ \E m \in {"DRAIN", "IMMEDIATE"}, k \in Slots : Becomes(close_batch(s, k, m))
              /\ UNCHANGED auto
RequestStop == Becomes(Ok([s EXCEPT !.stop = TRUE])) /\ UNCHANGED auto
ShutdownBatch == (\E k \in Slots : Becomes(shutdown_batch(s, k, Idle))) /\ UNCHANGED auto
Destroy == s.listener # "none" /\ Becomes(destroy(s)) /\ UNCHANGED auto

(* External: the peers. *)
Arrive(p) ==
    /\ s.alive /\ p = s.arrived + 1
    /\ s' = [s EXCEPT !.backlog = @ \cup {p}, !.arrived = p]
    /\ UNCHANGED <<auto, calls>>
PeerSends(i) ==
    /\ s.slots[i].live /\ ~s.slots[i].fin /\ ~s.slots[i].broken /\ s.slots[i].sent < MaxRequests
    /\ s' = [s EXCEPT !.slots[i].sent = @ + 1, !.slots[i].unread = @ + 1]
    /\ UNCHANGED <<auto, calls>>
PeerCloses(i) ==
    /\ s.slots[i].live
    /\ \/ ~s.slots[i].fin /\ s' = [s EXCEPT !.slots[i].fin = TRUE]
       \/ /\ ~s.slots[i].broken
          /\ \E o \in Fault(s, "BROKEN") : s' = [o.s EXCEPT !.slots[i].broken = TRUE]
    /\ UNCHANGED <<auto, calls>>

Next == \/ Serve \/ Round \/ Poll \/ Admit \/ Listener \/ AdmissionConfigure \/ AdmissionRefresh
        \/ AdmissionDisable \/ Auxiliary \/ CloseBatch \/ RequestStop \/ ShutdownBatch \/ Destroy
        \/ \E h \in s.handles : ReleaseClient(h) \/ \E c \in Calls : ClientCall(h, c)
        \/ (\E p \in Peers : Arrive(p)) \/ \E i \in Slots : PeerSends(i) \/ PeerCloses(i)

Spec == Init /\ [][Next]_vars

-----------------------------------------------------------------------------
(* See CoreAgrees: slots, leases, queue and accepted sockets agree after every outcome of *)
(* admit_clients, release_client, run_round and the sweeps, their failures included.      *)
SlotsAgree == CoreAgrees(s)

(* See LeasesExact: a stale lease never reaches the connection that has its slot now. *)
LeasesReachOwner == LeasesExact(s)

(* No client is forgotten: when a turn of run_round has succeeded and nobody has touched  *)
(* the client since, its unsent replies ask for writability; buffered requests have their *)
(* client queued or wait for replies to leave; an idle one asks for readability; and one  *)
(* that is at its end is queued for its release or drains.                                *)
NoForgottenClient ==
    \A i \in Live(s) :
      LET c == s.slots[i]
      IN c.settled =>
           /\ c.wr # 0 /\ c.close # "READY" => "WRITE" \in c.ints
           /\ c.close = "OPEN" /\ c.rd # 0 => i \in Queued(s) \/ c.wr # 0
           /\ c.close = "OPEN" /\ ~c.eof /\ c.rd = 0 /\ c.wr = 0 => "READ" \in c.ints
           /\ auto /\ c.eof /\ c.rd = 0 /\ ~c.junk => c.close # "OPEN"
           /\ auto /\ c.close = "READY" => i \in Queued(s)
=============================================================================
