-------------------------- MODULE ClientDeadlines --------------------------
(***************************************************************************)
(* Client deadlines of the library (src/net/client_deadline_*.c and        *)
(* timer_loop_*.c): a binding couples the lease of a client with a timer.  *)
(* Bindings, idle records, request records and expired events are plain    *)
(* values: the caller may hold on to them after the client, the timer or   *)
(* both are gone and the client's slot is leased again, and use them again.*)
(* The wheel is TimerService, the specification TimerWheel is shown to     *)
(* implement.                                                              *)
(***************************************************************************)
EXTENDS TimerService, FiniteSets

CONSTANTS
  Slots,        \* slots of the connection pool
  MaxGeneration,\* bound: leases given out of a slot
  Capacity,     \* records of the store
  Timeouts,     \* idle and total timeouts
  MaxTimers     \* bound: timers registered

VARIABLES
  slot,      \* of each slot: generation of its last lease, and close state
             \* of the client in it: free, open, closing or ready
  bindings,  \* every binding the caller has been given (values, never lost)
  store,     \* the records of the deadline store
  idle,      \* the idle record, NoRecord when empty
  request,   \* the request record, NoRecord when empty
  events,    \* expired events taken from the wheel (values, never lost)
  taken,     \* history: how often an expired event was given its binding
  acted      \* history: what the last step did on behalf of an expiry

libraryVars == <<slot, bindings, store, idle, request, events, taken, acted>>
vars == <<serviceVars, libraryVars>>

Client == [slot : Slots, generation : 1..MaxGeneration]

NoRecord == [client |-> [slot |-> 0, generation |-> 0],
             timer |-> 0, timeout |-> 0, started |-> 0, deadline |-> 0]
Nothing == [event |-> Timer(0, 0), there |-> TRUE, hit |-> {}]

Init ==
  /\ ServiceInit /\ now = 0
  /\ slot = [s \in Slots |-> [generation |-> 0, close |-> "free"]]
  /\ bindings = {} /\ store = {} /\ idle = NoRecord /\ request = NoRecord
  /\ events = {} /\ taken = [i \in 1..MaxTimers |-> 0]
  /\ acted = Nothing

\* find_entry of the pool, which every call of the server goes through: the
\* lease names the slot's present client, not an earlier one.
Alive(c) ==
  /\ slot[c.slot].close # "free"
  /\ slot[c.slot].generation = c.generation
Present(s) == [slot |-> s, generation |-> slot[s].generation]
Armed(i) == {t \in armed : t.id = i}

----------------------------------------------------------------------------
(* Registration, binding and rearming *)

\* client_deadline_register: the client must be there, the wheel arms a timer.
Register(c, d) ==
  /\ Alive(c) /\ issued < MaxTimers
  /\ Arm(d)
  /\ bindings' = bindings \cup {[client |-> c, timer |-> issued + 1]}
DeadlineRegister ==
  /\ \E c \in Client, d \in Times : Register(c, d)
  /\ UNCHANGED <<slot, store, idle, request, events, taken>>
  /\ acted' = Nothing

\* client_deadline_make pairs a client and a timer of the caller's choice
\* while both are there.
client_deadline_make(b) == Alive(b.client) /\ Armed(b.timer) # {}
DeadlineMake ==
  /\ \E b \in [client : Client, timer : 1..MaxTimers] :
       client_deadline_make(b) /\ bindings' = bindings \cup {b}
  /\ UNCHANGED <<serviceVars, slot, store, idle, request, events, taken>>
  /\ acted' = Nothing

\* client_deadline_rearm: the client is checked, the wheel moves the timer.
client_deadline_rearm(b, d) ==
  /\ Alive(b.client)
  /\ \E t \in Armed(b.timer) : Move(t, d)
DeadlineRearm ==
  /\ \E b \in bindings, d \in Times : client_deadline_rearm(b, d)
  /\ UNCHANGED <<slot, bindings, store, idle, request, events, taken>>
  /\ acted' = Nothing

\* client_deadline_cancel looks at the timer only.
client_deadline_cancel(b) == \E t \in Armed(b.timer) : Disarm(t)
DeadlineCancel ==
  /\ \E b \in bindings : client_deadline_cancel(b)
  /\ UNCHANGED <<slot, bindings, store, idle, request, events, taken>>
  /\ acted' = Nothing

----------------------------------------------------------------------------
(* The store *)

client_deadline_store_save ==
  /\ \E b \in bindings :
       /\ \A r \in store : r.timer # b.timer
       /\ Cardinality(store) < Capacity
       /\ client_deadline_make(b)
       /\ store' = store \cup {b}
  /\ UNCHANGED <<serviceVars, slot, bindings, idle, request, events, taken>>
  /\ acted' = Nothing

\* locate: a record is found by its timer alone.
locate(i) == {r \in store : r.timer = i}

\* client_deadline_store_withdraw: the record leaves with its binding.
withdraw(i) ==
  /\ locate(i) # {}
  /\ store' = store \ locate(i)
StoreWithdraw ==
  /\ \E b \in bindings : withdraw(b.timer)
  /\ UNCHANGED <<serviceVars, slot, bindings, idle, request, events, taken>>
  /\ acted' = Nothing
client_deadline_store_take_expired ==
  /\ \E e \in events : /\ withdraw(e.id)
                       /\ taken' = [taken EXCEPT ![e.id] = @ + 1]
  /\ UNCHANGED <<serviceVars, slot, bindings, idle, request, events>>
  /\ acted' = Nothing

----------------------------------------------------------------------------
(* Expiry *)

(* Mutant: whether the client of the binding is still there is not asked. *)
check_expiredAny(b, e) == b.timer = e.id

\* client_deadline_check_expired: the event is this binding's, and the client
\* of the binding is still there.
check_expired(b, e) == b.timer = e.id /\ Alive(b.client)

\* What the server does with the client a lease names: nothing if it has left.
ToClient(c, states, e) ==
  LET reached == {s \in Slots : s = c.slot /\ Alive(c)} IN
  /\ \E to \in states :
       slot' = [s \in Slots |-> IF s \in reached THEN [slot[s] EXCEPT !.close = to] ELSE slot[s]]
  /\ acted' = [event |-> e, there |-> Alive(c), hit |-> {Present(s) : s \in reached}]

\* client_deadline_request_close_expired: the server is asked to drain or to
\* close at once, whatever the client's close state; it may refuse, and a close
\* never goes back.
request_close_expired ==
  /\ \E b \in bindings, e \in events :
       /\ check_expired(b, e)
       /\ ToClient(b.client, {slot[b.client.slot].close, "ready"} \cup
                   (IF slot[b.client.slot].close = "open" THEN {"closing"} ELSE {}), e)
  /\ UNCHANGED <<serviceVars, bindings, store, idle, request, events, taken>>

\* client_deadline_release_ready_expired: only a client whose close is done;
\* the server may fail and keep it.
release_ready_expired ==
  /\ \E b \in bindings, e \in events :
       /\ check_expired(b, e) /\ slot[b.client.slot].close = "ready"
       /\ ToClient(b.client, {"free", "ready"}, e)
  /\ UNCHANGED <<serviceVars, bindings, store, idle, request, events, taken>>

----------------------------------------------------------------------------
(* Idle records: a deadline that activity pushes on *)

open_client(c) == Alive(c) /\ slot[c.slot].close = "open"

\* client_deadline_idle_start at the caller's time `at', not before the wheel's.
idle_start ==
  /\ idle = NoRecord /\ open
  /\ \E c \in Client, w \in Timeouts, at \in Times :
       /\ open_client(c) /\ at >= now /\ at + w \in Times
       /\ Register(c, at + w)
       /\ idle' = [client |-> c, timer |-> issued + 1, timeout |-> w,
                   started |-> at, deadline |-> at + w]
  /\ UNCHANGED <<slot, store, request, events, taken>>
  /\ acted' = Nothing

\* client_deadline_idle_refresh at the caller's time `at', with bytes moved:
\* not before the wheel's time, nor before the last refresh, nor once the
\* deadline is reached, whether or not the wheel has noticed.
idle_refresh ==
  /\ idle # NoRecord /\ open /\ open_client(idle.client)
  /\ \E t \in Armed(idle.timer), at \in Times :
       /\ at >= now
       /\ t.deadline >= idle.timeout
       /\ at >= t.deadline - idle.timeout
       /\ at < t.deadline
       /\ at + idle.timeout \in Times
       /\ client_deadline_rearm(idle, at + idle.timeout)
       /\ idle' = [idle EXCEPT !.started = at, !.deadline = at + idle.timeout]
  /\ UNCHANGED <<slot, bindings, store, request, events, taken>>
  /\ acted' = Nothing

idle_cancel ==
  /\ idle # NoRecord
  /\ client_deadline_cancel(idle)
  /\ idle' = NoRecord
  /\ UNCHANGED <<slot, bindings, store, request, events, taken>>
  /\ acted' = Nothing

----------------------------------------------------------------------------
(* Request records: one deadline from the start to the end *)

\* client_deadline_request_start, likewise.
request_start ==
  /\ request = NoRecord /\ open
  /\ \E c \in Client, w \in Timeouts, at \in Times :
       /\ open_client(c) /\ at >= now /\ at + w \in Times
       /\ Register(c, at + w)
       /\ request' = [client |-> c, timer |-> issued + 1, timeout |-> w,
                      started |-> at, deadline |-> at + w]
  /\ UNCHANGED <<slot, store, idle, events, taken>>
  /\ acted' = Nothing

\* client_deadline_request_check: what it says about the request at a time.
request_check(at) ==
  IF ~Alive(request.client) \/ Armed(request.timer) = {} THEN "NOT_FOUND"
  ELSE IF \A t \in Armed(request.timer) : t.deadline # request.deadline THEN "INVALID_ARGUMENT"
  ELSE IF at < request.started \/ at < now THEN "RANGE"
  ELSE IF at >= request.deadline THEN "expired" ELSE "pending"

request_cancel ==
  /\ request # NoRecord
  /\ client_deadline_cancel(request)
  /\ request' = NoRecord
  /\ UNCHANGED <<slot, bindings, store, idle, events, taken>>
  /\ acted' = Nothing

----------------------------------------------------------------------------
(* The loop *)

\* one round of timer_loop_dispatch: a ready timer is taken and delivered; the
\* caller keeps the event.  The rounds up to max_events are independent.
timer_loop_dispatch ==
  /\ \E t \in armed :
       /\ Fire(t)
       /\ events' = events \cup {t}
  /\ UNCHANGED <<slot, bindings, store, idle, request, taken>>
  /\ acted' = Nothing

\* timer_loop_plan_wait: nothing while a timer is due, one tick while one is
\* armed, else the caller's limit.
timer_loop_plan_wait(limit) ==
  IF \E t \in armed : t.deadline <= now THEN 0
  ELSE IF armed = {} THEN limit
  ELSE IF limit < 1 THEN limit ELSE 1

\* The common frame of the two loops: the clock before, the planned wait, the
\* clock after, the wheel advanced to it.
Round ==
  /\ open
  /\ \E limit \in Times, slept \in Times :
       /\ slept <= timer_loop_plan_wait(limit)
       /\ now + slept \in Times /\ now' = now + slept
  /\ UNCHANGED <<armed, fired, issued, open>>

\* timer_loop_run_once: the event loop runs in between.
run_once == Round /\ UNCHANGED libraryVars

\* client_deadline_serve_once: the server serves in between, and may close or
\* release clients.
ServeOnce ==
  /\ Round
  /\ \E s \in Slots, to \in {"closing", "free"} :
       /\ slot[s].close \in {"open", "closing"}
       /\ slot' = [slot EXCEPT ![s].close = to]
  /\ UNCHANGED <<bindings, store, idle, request, events, taken>>
  /\ acted' = Nothing

\* The server behind: clients connect and are leased a slot under its next
\* generation, their close completes, they are released by other paths, and
\* the wheel shuts down.
ClientConnects ==
  /\ \E s \in Slots :
       /\ slot[s].close = "free" /\ slot[s].generation < MaxGeneration
       /\ slot' = [slot EXCEPT ![s] = [generation |-> @.generation + 1, close |-> "open"]]
  /\ UNCHANGED <<serviceVars, bindings, store, idle, request, events, taken>>
  /\ acted' = Nothing
ClientDrains ==
  /\ \E s \in Slots : /\ slot[s].close = "closing"
                      /\ slot' = [slot EXCEPT ![s].close = "ready"]
  /\ UNCHANGED <<serviceVars, bindings, store, idle, request, events, taken>>
  /\ acted' = Nothing
ClientLeaves ==
  /\ \E s \in Slots : /\ slot[s].close # "free"
                      /\ slot' = [slot EXCEPT ![s].close = "free"]
  /\ UNCHANGED <<serviceVars, bindings, store, idle, request, events, taken>>
  /\ acted' = Nothing
WheelCloses == CloseService /\ UNCHANGED libraryVars

Next ==
  \/ DeadlineRegister \/ DeadlineMake \/ DeadlineRearm \/ DeadlineCancel
  \/ client_deadline_store_save \/ StoreWithdraw \/ client_deadline_store_take_expired
  \/ request_close_expired \/ release_ready_expired
  \/ idle_start \/ idle_refresh \/ idle_cancel
  \/ request_start \/ request_cancel
  \/ timer_loop_dispatch \/ run_once \/ ServeOnce
  \/ ClientConnects \/ ClientDrains \/ ClientLeaves \/ WheelCloses

Spec == Init /\ [][Next]_vars

----------------------------------------------------------------------------
(* Properties *)

\* Leases, bindings and events are values that outlive what they name.  The
\* server is asked to act on an expiry only while the very client the caller
\* paired with that timer is there, and what it acts on is that client: never
\* the next one in its slot, whose lease differs in the generation only, and
\* not before the deadline.
ExpiryExact ==
  acted # Nothing =>
    /\ acted.there
    /\ \A c \in acted.hit : [client |-> c, timer |-> acted.event.id] \in bindings
    /\ acted.event.deadline <= now

\* A request whose timer was delivered is not called pending, though the caller
\* moved that timer forward behind the record's back.
DeliveredNotPending ==
  \A e \in events, at \in Times : e.id = request.timer => request_check(at) # "pending"

\* An expired event gets its binding from the store at most once, however
\* often it is replayed: a record is not saved again once its timer is gone.
OncePerTimer == \A i \in 1..MaxTimers : taken[i] <= 1
============================================================================
