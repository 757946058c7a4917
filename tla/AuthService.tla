---------------------------- MODULE AuthService ----------------------------
(***************************************************************************)
(* The event loop of the authentication service (src/net/auth_service.c)   *)
(* with its client deadlines (auth_service_deadline.c), the request head   *)
(* (auth_request_head.c, auth_request_submit.c), the rejection answer      *)
(* (auth_request_rejection.c) and the response consumer.                   *)
(*                                                                         *)
(* auth_service_once is cut at the points where other actors interfere:    *)
(* pump, sweep, completions, poll, second pump, one turn per ready client, *)
(* admission.  The peers, the workers, the session table's other users and *)
(* the clock run between any two of these steps.                           *)
(*                                                                         *)
(* Deadlines are countdowns: the value left, NoDeadline when unset, and    *)
(* never below 0; Tick takes one from each.  Bytes are counted in units, a *)
(* request frame is FrameUnits of them, so that a read buffer of n units   *)
(* holds n \div FrameUnits whole frames and n % FrameUnits units of the    *)
(* next one.  The write buffer holds OutCapacity responses.                *)
(***************************************************************************)
EXTENDS Integers, Sequences, FiniteSets, SequencesExt, FiniteSetsExt

CONSTANTS
  Slots,            \* slots of the service, one per pool slot
  Generations,      \* lease generations (reused once nothing refers to them)
  Unauthenticated,  \* unauthenticated_timeout_ns, in ticks
  FrameTimeout,     \* frame_timeout_ns
  IdleTimeout,      \* authenticated_idle_timeout_ns
  LoopTimeout,      \* the timeout argument of auth_service_once
  FrameUnits,       \* units of a request frame
  ReadCapacity,     \* units of the TLS read buffer
  ReadLow,          \* read_low and read_high: the hysteresis of the read pressure
  ReadHigh,
  OutCapacity,      \* responses that fit the TLS write buffer
  WriteLow,         \* write_low and write_high: the hysteresis of the write pressure
  WriteHigh,
  MaxRequests,      \* max_client_requests
  MaxExpired,       \* max_expired, the expiries one pump takes
  CleanupRounds,    \* rounds in which cleanup has scanned all records and entries
  MaxInbox,         \* bound: units a peer may have under way
  MaxLag            \* bound: rounds in which the wheel is not caught up

\* tls_io.c refuses other watermarks: a partial frame never keeps the pressure up.
ASSUME Watermarks ==
  /\ FrameUnits - 1 <= ReadLow /\ ReadLow < ReadHigh /\ ReadHigh <= ReadCapacity
  /\ WriteLow < WriteHigh /\ WriteHigh <= OutCapacity

VARIABLES
  slot,       \* the client slots
  io,         \* per slot: the TLS buffers and the peer's side of the socket
  timer,      \* the wheel: per slot the time left of its timer, or NoDeadline
  lag,        \* rounds in a row in which the wheel was not caught up
  ready,      \* leases the last poll selected and no turn has served
  tasks,      \* requests handed over to the workers: [client, kind]
  queue,      \* the completion queue
  held,       \* s->completion, the completion in hand, or None
  pc,         \* the step of auth_service_once that comes next
  sleep,      \* time the poll may still wait
  quiescing,  \* s->quiescing
  stop,       \* the server's stop request
  age         \* history: age of the partial frame and of the unauthenticated phase

vars == <<slot, io, timer, lag, ready, tasks, queue, held, pc, sleep,
          quiescing, stop, age>>

NoDeadline == -1
None == [client |-> [slot |-> 0, gen |-> 0], kind |-> "none"]
NoClient == [slot |-> 0, gen |-> 0]
\* What a request leads to: "login" stands for every one that binds a session
\* (login and resume), "register" for every one without effect on sessions.
Kinds == {"login", "register", "logout"}

Vacant == [client |-> NoClient, established |-> FALSE, closing |-> FALSE,
           phase |-> NoDeadline, frame |-> NoDeadline, auth |-> FALSE,
           alive |-> FALSE, head |-> FALSE, sched |-> FALSE, cleaned |-> 0]
Silent == [inbox |-> 0, buf |-> 0, out |-> 0, eof |-> FALSE, seen |-> FALSE,
           writable |-> TRUE, rpress |-> FALSE, wpress |-> FALSE]
NoAge == [part |-> 0, anon |-> 0]

Active == {s \in Slots : slot[s].client # NoClient}
find(c) == {s \in Slots : slot[s].client = c /\ c # NoClient}
InFlight(c) == Cardinality({t \in tasks : t.client = c})
                 + Cardinality({i \in DOMAIN queue : queue[i].client = c})
                 + (IF held.client = c THEN 1 ELSE 0)

----------------------------------------------------------------------------
(* auth_service_deadline.c *)

earliest(d) == IF d.frame # NoDeadline /\ d.frame < d.phase THEN d.frame ELSE d.phase

closeSlot(d) == [d EXCEPT !.closing = TRUE]

\* auth_deadline_guard on the slot record d: a deadline that has passed closes
\* the client, a session that is gone puts the client back into the
\* unauthenticated phase.  The clock and the table do not fail in the model.
guard(d) ==
  IF d.phase = NoDeadline \/ d.closing THEN d
  ELSE IF earliest(d) = 0 THEN closeSlot(d)
  ELSE IF d.auth /\ ~d.alive THEN [d EXCEPT !.auth = FALSE, !.phase = Unauthenticated]
  ELSE d

(* Mutant: every turn of an authenticated client counts as activity. *)
activityAny(d, bound, submitted) ==
  LET g == guard(d)
  IN IF g.closing \/ (~bound /\ ~g.auth) THEN g
     ELSE [g EXCEPT !.auth = @ \/ bound, !.phase = IdleTimeout]

\* auth_deadline_activity: only a bound session, or a request of an
\* authenticated client that was handed over, renews the idle deadline.
activity(d, bound, submitted) ==
  LET g == guard(d)
  IN IF g.closing \/ (~bound /\ (~submitted \/ ~g.auth)) THEN g
     ELSE [g EXCEPT !.auth = @ \/ bound, !.phase = IdleTimeout]

\* auth_deadline_frames: `old' units were buffered before the receive, `new'
\* are now.  A trailing partial frame gets a deadline when it starts, and it
\* starts when everything that was there before belongs to whole frames.
frames(d, old, new) ==
  LET g == guard(d)
      offset == (new \div FrameUnits) * FrameUnits
  IN IF g.closing THEN g
     ELSE [g EXCEPT !.frame =
             IF offset = new THEN NoDeadline
             ELSE IF @ = NoDeadline \/ offset >= old THEN FrameTimeout
             ELSE @]

\* auth_deadline_start, at the end of the handshake.
start(d) == IF d.phase # NoDeadline THEN d ELSE [d EXCEPT !.phase = Unauthenticated]

(* Mutant: the timer is only registered, never moved. *)
sync_timerOnce(s, d) ==
  timer' = [timer EXCEPT ![s] = IF @ # NoDeadline THEN @ ELSE earliest(d)]

\* sync_timer: every change of a deadline moves the timer (registers it the
\* first time) to the earliest of the two.
sync_timer(s, d) == timer' = [timer EXCEPT ![s] = earliest(d)]

\* The timer after the deadlines of slot s went from d to e.
Resync(s, d, e) ==
  IF e.closing \/ (d.phase = e.phase /\ d.frame = e.frame) THEN UNCHANGED timer
  ELSE sync_timer(s, e)

\* auth_deadline_pump: the wheel catches up with the clock, or does not within
\* its budget; of the timers it found due up to max_expired are taken, and
\* auth_deadline_expired closes their clients.  timer_work_pending is set while
\* the wheel lags behind, whether a timer is due or not, or an expiry is left.
Due == {s \in Slots : timer[s] = 0}
Expiries == {t \in SUBSET Due : Cardinality(t) <= MaxExpired}
Pumps ==
  {[taken |-> t, pending |-> t # Due] :
     t \in {e \in Expiries : Cardinality(e) = Min({MaxExpired, Cardinality(Due)})}}
  \cup (IF lag < MaxLag THEN {[taken |-> t, pending |-> TRUE] : t \in Expiries} ELSE {})
Pump(p) ==
  /\ slot' = [s \in Slots |-> IF s \in p.taken /\ slot[s].client # NoClient
                              THEN closeSlot(slot[s]) ELSE slot[s]]
  /\ timer' = [s \in Slots |-> IF s \in p.taken THEN NoDeadline ELSE timer[s]]
  /\ lag' = IF p.pending THEN Min({lag + 1, MaxLag}) ELSE 0

----------------------------------------------------------------------------
(* auth_service_once *)

Init ==
  /\ slot = [s \in Slots |-> Vacant]
  /\ io = [s \in Slots |-> Silent]
  /\ timer = [s \in Slots |-> NoDeadline]
  /\ lag = 0
  /\ ready = {} /\ tasks = {} /\ queue = <<>> /\ held = None
  /\ pc = "pump" /\ sleep = 0
  /\ quiescing = FALSE /\ stop = FALSE
  /\ age = [s \in Slots |-> NoAge]

\* The beginning of a round: the stop request is read once, the timers are
\* pumped unless it is set.
FirstPump ==
  /\ pc = "pump"
  /\ \/ /\ stop
        /\ quiescing' = TRUE
        /\ slot' = [s \in Slots |-> IF s \in Active THEN closeSlot(slot[s]) ELSE slot[s]]
        /\ pc' = "sweepStopped"
        /\ UNCHANGED <<timer, lag>>
     \/ /\ ~stop
        /\ \E p \in Pumps : Pump(p) /\ pc' = IF p.pending THEN "sweepPending" ELSE "sweep"
        /\ UNCHANGED quiescing
  /\ UNCHANGED <<io, ready, tasks, queue, held, sleep, stop, age>>

\* cleanup of a closing slot: the timer and the completion in hand go at once,
\* the records in flight and the expected entries in batches, and with the last
\* batch the session, the lease and the slot; nothing of the client stays.
Cleaned == {s \in Active : guard(slot[s]).closing}
Released == {s \in Cleaned : slot[s].cleaned + 1 = CleanupRounds}
cleanup(s) == IF s \in Released THEN Vacant ELSE [guard(slot[s]) EXCEPT !.cleaned = @ + 1]
\* A request of a released client: only that it is under way still matters.
orphan(t) == IF \E s \in Released : slot[s].client = t.client
             THEN [t EXCEPT !.kind = "register"] ELSE t
\* What each pc value of the sweep continues with.
AfterSweep == [sweep |-> "completions", sweepPending |-> "pump",
               sweepStopped |-> "completionsStopped"]

\* The sweep over the slots: guard, then one batch of cleanup of the closing ones.  Until
\* the poll, `sleep' holds the wait it will ask for.
Sweep ==
  /\ pc \in {"sweep", "sweepPending", "sweepStopped"}
  /\ slot' = [s \in Slots |-> IF s \in Cleaned THEN cleanup(s) ELSE guard(slot[s])]
  /\ io' = [s \in Slots |-> IF s \in Released THEN Silent ELSE io[s]]
  /\ age' = [s \in Slots |->
               IF s \in Released THEN NoAge
               ELSE IF slot[s].auth /\ ~guard(slot[s]).auth THEN [age[s] EXCEPT !.anon = 0]
               ELSE age[s]]
  /\ timer' = [s \in Slots |->
                 IF s \in Cleaned THEN NoDeadline
                 ELSE IF guard(slot[s]) # slot[s] THEN earliest(guard(slot[s])) ELSE timer[s]]
  /\ held' = IF \E s \in Cleaned : slot[s].client = held.client THEN None ELSE held
  /\ pc' = AfterSweep[pc]
  /\ sleep' = IF Released # {} THEN 0 ELSE LoopTimeout
  /\ tasks' = {orphan(t) : t \in tasks}
  /\ queue' = [i \in DOMAIN queue |-> orphan(queue[i])]
  /\ UNCHANGED <<lag, ready, quiescing, stop>>

\* flow_refresh: the pressure marks follow the buffers with their hysteresis, and
\* the application reads while neither side is under pressure.
pressure(current, size, low, high) == size >= high \/ (size > low /\ current)
flow_refresh(i) == [i EXCEPT !.rpress = pressure(@, i.buf, ReadLow, ReadHigh),
                             !.wpress = pressure(@, i.out, WriteLow, WriteHigh)]
read_enabled(i) == ~i.seen /\ ~i.rpress /\ ~i.wpress

\* auth_response_consumer_step on the completion c for slot s: the answer is
\* enqueued, and a login or a resume that succeeded binds the session; a
\* logout ends it.
Deliver(s, g, c) ==
  LET binds == c.kind = "login"
      d == [g EXCEPT !.alive = binds \/ (@ /\ c.kind # "logout")]
      e == [(IF binds THEN activity(d, TRUE, FALSE) ELSE d) EXCEPT !.sched = TRUE]
  IN /\ slot' = [slot EXCEPT ![s] = e]
     /\ Resync(s, slot[s], e)
     /\ io' = [io EXCEPT ![s] = flow_refresh([@ EXCEPT !.out = @ + 1])]

\* One round of auth_completions with a budget of one: the completion in hand
\* first, else the head of the queue.  Without room for the answer it stays
\* in hand, and with it everything behind it.
TakeCompletion ==
  IF held # None THEN [c |-> held, rest |-> queue]
  ELSE [c |-> Head(queue), rest |-> Tail(queue)]

Consume(stopped) ==
  LET t == TakeCompletion
      to == find(t.c.client)
  IN \/ \* the client is gone: the record is not found, the completion dropped
        /\ to = {}
        /\ held' = None /\ queue' = t.rest /\ sleep' = 0
        /\ UNCHANGED <<slot, io, timer, age>>
     \/ \E s \in to :
          LET g == IF stopped THEN closeSlot(slot[s]) ELSE guard(slot[s])
          IN \/ /\ g.closing
                /\ slot' = [slot EXCEPT ![s] = [g EXCEPT !.alive = @ /\ t.c.kind # "logout"]]
                /\ held' = None /\ queue' = t.rest /\ sleep' = 0
                /\ UNCHANGED <<io, timer, age>>
             \/ /\ ~g.closing /\ io[s].out = OutCapacity
                /\ slot' = [slot EXCEPT ![s] =
                              [g EXCEPT !.alive = @ /\ t.c.kind # "logout"]]
                /\ Resync(s, slot[s], g)
                /\ age' = IF slot[s].auth /\ ~g.auth THEN [age EXCEPT ![s].anon = 0] ELSE age
                /\ held' = t.c /\ queue' = t.rest
                /\ UNCHANGED <<io, sleep>>
             \/ /\ ~g.closing /\ io[s].out < OutCapacity
                /\ Deliver(s, g, t.c)
                /\ age' = IF slot'[s].auth # slot[s].auth THEN [age EXCEPT ![s].anon = 0] ELSE age
                /\ held' = None /\ queue' = t.rest /\ sleep' = 0

Completions ==
  /\ pc \in {"completions", "completionsStopped"}
  /\ \/ /\ held = None /\ queue = <<>>
        /\ UNCHANGED <<slot, io, timer, age, held, queue, sleep>>
     \/ /\ held # None \/ queue # <<>>
        /\ Consume(pc = "completionsStopped")
  /\ pc' = IF pc = "completions" THEN "poll" ELSE "pump"
  /\ ready' = IF pc = "completions" THEN ready ELSE {}
  /\ UNCHANGED <<lag, tasks, quiescing, stop>>

\* The poll is skipped while leases of the last one are left.  Otherwise
\* timer_loop_plan_wait shortens the wait to the next tick while a timer is
\* active, and to nothing while a timer is due.
Planned == Min({sleep} \cup {Min({timer[s], 1}) : s \in {t \in Slots : timer[t] # NoDeadline}}
                       \cup (IF \E s \in Slots : slot[s].closing THEN {0} ELSE {}))
PlanWait ==
  /\ pc = "poll"
  /\ IF ready # {} THEN pc' = "pump2" /\ UNCHANGED sleep
     ELSE pc' = "asleep" /\ sleep' = Planned
  /\ UNCHANGED <<slot, io, timer, lag, ready, tasks, queue, held, quiescing, stop, age>>

\* What the poll selects: the scheduled clients and those with an event they
\* are interested in: reading unless the pressure of a buffer forbids it, writing
\* while an answer is buffered.
Interested(s) ==
  /\ slot[s].client # NoClient
  /\ \/ slot[s].sched
     \/ (io[s].inbox > 0 \/ io[s].eof) /\ read_enabled(io[s])
     \/ io[s].out > 0 /\ io[s].writable
Notified == queue # <<>>
\* A connection may wait at the listener whenever the service could admit it.
CanAdmit == ~quiescing /\ Active # Slots
PollReady ==
  /\ pc = "asleep"
  /\ LET now == {s \in Slots : Interested(s)}
     IN /\ sleep = 0 \/ now # {} \/ Notified \/ stop \/ CanAdmit
        /\ ready' = {slot[s].client : s \in now}
        /\ slot' = [s \in Slots |-> [slot[s] EXCEPT !.sched = FALSE]]
        /\ quiescing' = (quiescing \/ stop)
        /\ pc' = IF stop THEN "pump" ELSE "pump2"
  /\ sleep' = 0
  /\ UNCHANGED <<io, timer, lag, tasks, queue, held, stop, age>>

SecondPump ==
  /\ pc = "pump2"
  /\ \E p \in Pumps : Pump(p) /\ pc' = IF p.pending THEN "pump" ELSE "turns"
  /\ UNCHANGED <<io, ready, tasks, queue, held, sleep, quiescing, stop, age>>

\* The handshake's last step starts the deadlines and schedules the client.
Handshake(s) ==
  LET d == [start(slot[s]) EXCEPT !.established = TRUE, !.sched = TRUE]
  IN /\ slot' = [slot EXCEPT ![s] = d]
     /\ sync_timer(s, d)
     /\ age' = [age EXCEPT ![s] = NoAge]
     /\ UNCHANGED <<io, tasks>>

\* auth_request_rejection_step: the answer is enqueued, or waits in the head.
rejection(units, out) ==
  [kind |-> "rejection", head |-> out = OutCapacity, units |-> units,
   out |-> IF out = OutCapacity THEN out ELSE out + 1]

\* peek_frame: a whole frame at the front of the buffer.
peek_frame(units) == units >= FrameUnits

\* What auth_request_submit can make of the first frame: a request handed over
\* (async_request_copy_try_submit, with room under max_client_requests; a logout
\* needs a session), or one that is refused: an invalid body, a throttled login,
\* a duplicate or too many requests.
submit(d) == {"refused"} \cup
  (IF InFlight(d.client) >= MaxRequests THEN {}
   ELSE IF d.auth /\ d.alive THEN Kinds ELSE Kinds \ {"logout"})

\* The request head of a turn, on the slot record d with `units' buffered.  The
\* frame is consumed whatever became of it; a refused one stays in the head
\* until its answer is enqueued; a frame that is not a request of this service
\* ends the client.
HeadOutcomes(d, units, out) ==
  IF d.head THEN {rejection(units, out)}
  ELSE IF quiescing \/ ~peek_frame(units)
  THEN {[kind |-> "none", head |-> FALSE, units |-> units, out |-> out]}
  ELSE {[kind |-> "malformed", head |-> FALSE, units |-> units, out |-> out]} \cup
       {IF k = "refused" THEN rejection(units - FrameUnits, out)
        ELSE [kind |-> k, head |-> FALSE, units |-> units - FrameUnits, out |-> out] :
          k \in submit(d)}

\* Whether the end of the turn schedules the client: a waiting head that has
\* room for its answer, or a further whole frame.
schedule(d, units, out) ==
  \/ d.head /\ out < OutCapacity
  \/ ~d.head /\ ~quiescing /\ peek_frame(units)

\* application: receive unless under pressure, deadline of the frame, head,
\* activity, send, and what keeps the client going.  `got' units are received and
\* `sent' answers leave.
Application(s) ==
  LET d == slot[s]
      old == io[s].buf
      room == IF read_enabled(flow_refresh(io[s])) THEN ReadCapacity - old ELSE 0
  IN \E got \in 0..Min({room, io[s].inbox}) :
       /\ got = 0 => room = 0 \/ io[s].inbox = 0
       /\ LET units == old + got
              e == frames(d, old, units)
              end == io[s].eof /\ got = io[s].inbox /\ room > 0
              born == units % FrameUnits # 0
                        /\ (old % FrameUnits = 0 \/ units \div FrameUnits # old \div FrameUnits)
          IN IF e.closing
             THEN /\ slot' = [slot EXCEPT ![s] = e]
                  /\ io' = [io EXCEPT ![s] = [flow_refresh(@) EXCEPT !.buf = units, !.inbox = @ - got]]
                  /\ age' = IF born THEN [age EXCEPT ![s].part = 0] ELSE age
                  /\ UNCHANGED <<timer, tasks>>
             ELSE \E h \in HeadOutcomes(e, units, io[s].out) :
                    LET e2 == activity([e EXCEPT !.head = h.head], FALSE, h.kind \in Kinds)
                        sent == IF io[s].writable THEN h.out ELSE 0
                        left == h.out - sent
                        bad == h.kind = "malformed"
                        over == /\ end /\ h.units = 0 /\ left = 0 /\ ~h.head
                                /\ InFlight(d.client) + (IF h.kind \in Kinds THEN 1 ELSE 0) = 0
                        e3 == IF bad \/ over THEN closeSlot(e2)
                              ELSE [e2 EXCEPT !.sched = schedule(e2, h.units, left)]
                    IN /\ slot' = [slot EXCEPT ![s] = e3]
                       /\ io' = [io EXCEPT ![s] =
                                   flow_refresh([flow_refresh(@) EXCEPT
                                     !.inbox = @ - got, !.buf = h.units, !.out = left, !.seen = @ \/ end])]
                       /\ tasks' = IF h.kind \in Kinds
                                   THEN tasks \cup {[client |-> d.client, kind |-> h.kind]} ELSE tasks
                       /\ age' = [age EXCEPT ![s] =
                                   [part |-> IF born \/ h.units % FrameUnits = 0 THEN 0 ELSE @.part,
                                    anon |-> IF d.auth /\ ~e2.auth THEN 0 ELSE @.anon]]
                       /\ Resync(s, d, e2)

\* A turn of one client of the list: a lease that is no longer in its slot is
\* skipped, the deadlines are checked first.
Turn ==
  /\ pc = "turns" /\ ready # {}
  /\ \E c \in ready :
       /\ ready' = ready \ {c}
       /\ \/ /\ find(c) = {} \/ \E s \in find(c) : slot[s].closing
             /\ UNCHANGED <<slot, io, timer, tasks, age>>
          \/ \E s \in find(c) :
               /\ ~slot[s].closing
               /\ IF guard(slot[s]).closing
                  THEN /\ slot' = [slot EXCEPT ![s] = closeSlot(slot[s])]
                       /\ UNCHANGED <<io, timer, tasks, age>>
                  ELSE IF ~slot[s].established
                  THEN IF io[s].inbox > 0 \/ io[s].eof
                       THEN \/ io[s].inbox > 0 /\ Handshake(s)
                            \/ /\ slot' = [slot EXCEPT ![s] = closeSlot(slot[s])]
                               /\ UNCHANGED <<io, timer, tasks, age>>
                       ELSE UNCHANGED <<slot, io, timer, tasks, age>>
                  ELSE Application(s)
  /\ UNCHANGED <<lag, queue, held, pc, sleep, quiescing, stop>>

\* The leases anything still refers to: their generations are not reused.
Referred == {t.client : t \in tasks} \cup {queue[i].client : i \in DOMAIN queue}
              \cup {held.client} \cup ready
Admit ==
  /\ pc = "turns" /\ ready = {}
  /\ pc' = "pump"
  /\ \/ /\ CanAdmit
        /\ \E s \in Slots \ Active, g \in Generations :
             /\ [slot |-> s, gen |-> g] \notin Referred
             /\ slot' = [slot EXCEPT ![s].client = [slot |-> s, gen |-> g]]
     \/ UNCHANGED slot
  /\ UNCHANGED <<io, timer, lag, ready, tasks, queue, held, sleep, quiescing, stop, age>>

\* auth_service_quiesce and auth_service_disconnect, between two rounds.
Quiesce ==
  /\ pc = "pump" /\ ~quiescing
  /\ quiescing' = TRUE
  /\ UNCHANGED <<slot, io, timer, lag, ready, tasks, queue, held, pc, sleep, stop, age>>
Disconnect ==
  /\ pc = "pump"
  /\ \E s \in Active : /\ ~slot[s].closing
                       /\ slot' = [slot EXCEPT ![s] = closeSlot(slot[s])]
  /\ UNCHANGED <<io, timer, lag, ready, tasks, queue, held, pc, sleep, quiescing, stop, age>>

\* auth_service_destroy: refused while a client or a completion is left.
Destroy ==
  /\ pc = "pump" /\ stop
  /\ Active = {} /\ held = None
  /\ pc' = "destroyed"
  /\ UNCHANGED <<slot, io, timer, lag, ready, tasks, queue, held, sleep, quiescing, stop, age>>

Once == FirstPump \/ Sweep \/ Completions \/ PlanWait \/ PollReady \/ SecondPump \/ Turn \/ Admit

----------------------------------------------------------------------------
(* The other actors.  Each acts only at the steps of the loop that look at    *)
(* what it changes: its steps commute with the loop's other steps.            *)

less(d) == IF d > 0 THEN d - 1 ELSE d
\* Ages are only told apart up to the deadline they are compared with.
older(a, d) == Min({a + 1, d + 1})
Tick ==
  /\ pc \in {"pump", "sweep", "asleep", "turns"}
  /\ slot' = [s \in Slots |-> [slot[s] EXCEPT !.phase = less(@), !.frame = less(@)]]
  /\ timer' = [s \in Slots |-> less(timer[s])]
  /\ sleep' = IF pc = "asleep" THEN less(sleep) ELSE sleep
  /\ age' = [s \in Slots |->
               IF slot[s].phase = NoDeadline THEN NoAge
               ELSE [part |-> IF io[s].buf % FrameUnits # 0 THEN older(age[s].part, FrameTimeout) ELSE 0,
                     anon |-> IF slot[s].auth THEN 0 ELSE older(age[s].anon, Unauthenticated)]]
  /\ UNCHANGED <<io, lag, ready, tasks, queue, held, pc, quiescing, stop>>

AtPoll == pc \in {"asleep", "turns"}
PeerSends(s) ==
  /\ AtPoll /\ slot[s].client # NoClient /\ io[s].inbox < MaxInbox /\ ~io[s].eof
  /\ io' = [io EXCEPT ![s].inbox = @ + 1]
  /\ UNCHANGED <<slot, timer, lag, ready, tasks, queue, held, pc, sleep, quiescing, stop, age>>
PeerCloses(s) ==
  /\ AtPoll /\ slot[s].client # NoClient /\ ~io[s].eof
  /\ io' = [io EXCEPT ![s].eof = TRUE]
  /\ UNCHANGED <<slot, timer, lag, ready, tasks, queue, held, pc, sleep, quiescing, stop, age>>
PeerReads(s) ==
  /\ AtPoll /\ slot[s].client # NoClient
  /\ io' = [io EXCEPT ![s].writable = ~@]
  /\ UNCHANGED <<slot, timer, lag, ready, tasks, queue, held, pc, sleep, quiescing, stop, age>>
\* A worker finishes a task: a login or a resume may also be refused, which
\* is an answer without effect like that of a register.
WorkerDone ==
  /\ pc \in {"completions", "completionsStopped", "asleep"}
  /\ \E t \in tasks :
       /\ tasks' = tasks \ {t}
       /\ \E k \in {t.kind, "register"} : queue' = Append(queue, [t EXCEPT !.kind = k])
  /\ UNCHANGED <<slot, io, timer, lag, ready, held, pc, sleep, quiescing, stop, age>>

\* A session ends without this client: it expires, or another one logs it out.
SessionEnds(s) ==
  /\ slot[s].alive
  /\ slot' = [slot EXCEPT ![s].alive = FALSE]
  /\ UNCHANGED <<io, timer, lag, ready, tasks, queue, held, pc, sleep, quiescing, stop, age>>

RequestStop ==
  /\ pc \in {"pump", "asleep"}
  /\ ~stop /\ stop' = TRUE
  /\ UNCHANGED <<slot, io, timer, lag, ready, tasks, queue, held, pc, sleep, quiescing, age>>

Others ==
  \/ WorkerDone \/ RequestStop
  \/ \E s \in Slots : PeerSends(s) \/ PeerCloses(s) \/ PeerReads(s) \/ SessionEnds(s)

Next == pc # "destroyed" /\ (Once \/ Quiesce \/ Disconnect \/ Destroy \/ Others \/ Tick)

\* The owner calls once again and again and time passes; peers, workers and
\* the owner's other calls owe nothing.  Tick is strongly fair because it is
\* left out at the steps of the loop that read no clock.
Spec == Init /\ [][Next]_vars /\ WF_vars(Once) /\ SF_vars(Tick)

----------------------------------------------------------------------------
(* Properties *)

Live(s) == slot[s].established /\ ~slot[s].closing

\* A sleeping loop wakes in time: while the poll waits, every live client
\* has a deadline, its timer on the wheel is at the earliest of them, and the
\* poll ends by then.  A deadline that moved without its timer, after a login, a
\* lost session or a new frame, would leave a dead peer in its slot or cut off
\* a live one.
WakesInTime ==
  pc = "asleep" =>
    \A s \in Slots : Live(s) =>
      /\ slot[s].phase # NoDeadline
      /\ timer[s] = earliest(slot[s])
      /\ sleep <= timer[s]

\* No peer buys time: the deadline of a partial frame counts from its first
\* byte whatever arrives later, and that of an unauthenticated client from the
\* end of the handshake or the loss of its session, whatever it requests.
DeadlinesFirm ==
  \A s \in Slots : Live(s) =>
    /\ slot[s].frame # NoDeadline => slot[s].frame + age[s].part <= FrameTimeout \/ slot[s].frame = 0
    /\ ~slot[s].auth /\ slot[s].phase # NoDeadline =>
         slot[s].phase + age[s].anon <= Unauthenticated \/ slot[s].phase = 0

\* No request is forgotten in a buffer: a loop that sleeps has scheduled
\* every live client with a whole frame or a waiting head, unless that client
\* has answers to take first.
NoForgottenRequest ==
  pc = "asleep" =>
    \A s \in Slots :
      Live(s) /\ (slot[s].head \/ (io[s].buf >= FrameUnits /\ ~quiescing)) =>
        slot[s].sched \/ io[s].out > 0

\* What the loop promises its clients: the three properties above.
LoopAwake == WakesInTime /\ DeadlinesFirm /\ NoForgottenRequest

\* A completion in hand does not block the loop for ever: a client that never
\* takes its answers cannot renew its deadline without end (its requests are
\* bounded by max_client_requests), so what waits behind its completion is only
\* held up for a bounded time.
BlockedEnds == []<>(held = None \/ pc = "destroyed")
============================================================================
