----------------------------- MODULE MysqlPool -----------------------------
(***************************************************************************)
(* The MySQL client runtime: per-thread guards and connections (mysql.c),  *)
(* the bounded connection pool (mysql_pool.c) and prepared statements      *)
(* (mysql_statement.c).  Worker threads lease a connection, run statements *)
(* on it and return it; the pool lock is dropped while a returned          *)
(* connection is reset and while a vacant slot is refilled, and close and  *)
(* destroy race with both.                                                 *)
(*                                                                         *)
(* A connection is a record: its statements, the statement the client      *)
(* believes active, the statement whose rows really are outstanding on the *)
(* wire, whether the server session holds work of an earlier borrower, and *)
(* the unusable mark.  Failures of the database are nondeterministic;      *)
(* failures of the pthread calls are counted by MaxFaults.                 *)
(***************************************************************************)
EXTENDS Integers, FiniteSets, Sequences

CONSTANTS Threads,      \* worker threads, each with its guard
          Capacity,     \* connections the pool owns
          Stms,         \* statements a borrower may hold on one connection
          MaxWaiters,   \* acquirers that may wait at once
          GenMax,       \* UINT64_MAX: the last generation of a slot
          MaxOpens,     \* bound: connections opened in a behaviour
          MaxFaults     \* bound: failing pthread calls

Slots == 1 .. Capacity
NoThread == "nobody"
NoLease == [slot |-> 0, generation |-> 0]
NoConnection == 0

VARIABLES runtime,      \* process_state and the live runtime
          attached,     \* threads holding a guard
          pool,         \* "none", "OPEN", "CLOSED", "destroying", "freed"
          slots,        \* slots[i]: state, generation, borrower, connection
          conns,        \* conns[c]: the connection opened as the c-th
          live,         \* connections open and not yet disposed of
          doubled,      \* ghost: a connection was disposed of twice
          counted,      \* runtime->connections
          pc,           \* where each thread is
          lease,        \* the lease each thread holds
          copy,         \* a lease value each thread kept from before
          local,        \* locals of a release or refill: slot, connection
          waiters,      \* pool->waiters
          faults        \* pthread failures so far

vars == <<runtime, attached, pool, slots, conns, live, doubled, counted, pc,
          lease, copy, local, waiters, faults>>

poolVars == <<pool, slots, lease, copy, local, waiters>>
wireVars == <<conns, live, doubled, counted>>

Fresh == [stm |-> [s \in Stms |-> "none"], active |-> 0, wire |-> 0,
          dirty |-> FALSE, unusable |-> FALSE]

Vacant == [state |-> "VACANT", generation |-> 0, borrower |-> NoThread,
           connection |-> NoConnection]

Init ==
  /\ runtime = "new" /\ attached = {} /\ pool = "none"
  /\ slots = [i \in Slots |-> Vacant]
  /\ conns = <<>> /\ live = {} /\ doubled = FALSE /\ counted = 0
  /\ pc = [t \in Threads |-> "out"]
  /\ lease = [t \in Threads |-> NoLease]
  /\ copy = [t \in Threads |-> NoLease]
  /\ local = [t \in Threads |-> [slot |-> 0, connection |-> NoConnection,
                                 recycle |-> FALSE]]
  /\ waiters = 0 /\ faults = 0

Ready(t) == t \in attached /\ pc[t] = "out"

\* One failing pthread call.
Fault == faults < MaxFaults /\ faults' = faults + 1

-----------------------------------------------------------------------------
(* mysql.c: the runtime, its guards and its connections                    *)

runtime_create ==
  /\ runtime = "new"
  /\ runtime' \in {"active", "ended"}      \* library_init may fail
  /\ UNCHANGED <<attached, poolVars, wireVars, pc, faults>>

runtime_destroy ==
  /\ runtime = "active"
  /\ attached = {} /\ counted = 0 /\ pool \in {"none", "freed"}
  /\ runtime' = "ended"
  /\ UNCHANGED <<attached, poolVars, wireVars, pc, faults>>

thread_attach(t) ==
  /\ runtime = "active" /\ t \notin attached
  /\ attached' = attached \cup {t}
  /\ UNCHANGED <<runtime, poolVars, wireVars, pc, faults>>

thread_detach(t) ==
  /\ Ready(t) /\ lease[t] = NoLease
  /\ attached' = attached \ {t}
  /\ UNCHANGED <<runtime, poolVars, wireVars, pc, faults>>

\* connection_open that succeeds: session set up and verified; n of them.
opened(n) ==
  /\ Len(conns) + n <= MaxOpens
  /\ conns' = conns \o [i \in 1 .. n |-> Fresh]
  /\ live' = live \cup (Len(conns) + 1 .. Len(conns) + n)
  /\ counted' = counted + n
  /\ UNCHANGED doubled

\* mysql_connection_dispose of the connections in C.
disposed(C) ==
  /\ live' = live \ C
  /\ doubled' = (doubled \/ ~(C \subseteq live))
  /\ counted' = counted - Cardinality(C)

\* mysql_connection_restore: a reset drops the session's open work, then the
\* session is set up and verified again; any step failing marks it unusable.
restore(c, ok) ==
  conns' = [conns EXCEPT ![c] = IF ok THEN Fresh ELSE [@ EXCEPT !.unusable = TRUE]]

-----------------------------------------------------------------------------
(* mysql_pool.c                                                            *)

SetSlot(i, s, g, b, c) ==
  slots' = [slots EXCEPT ![i] = [state |-> s, generation |-> g,
                                 borrower |-> b, connection |-> c]]

\* Every connection opens and the pool is published; a failure at any step
\* disposes of the connections opened so far and leaves nothing.
pool_create(t) ==
  /\ pool = "none" /\ Ready(t)
  /\ opened(Capacity)
  /\ slots' = [i \in Slots |-> [Vacant EXCEPT !.state = "IDLE",
                                              !.connection = Len(conns) + i]]
  /\ pool' = "OPEN"
  /\ UNCHANGED <<runtime, attached, pc, lease, copy, local, waiters, faults>>

pool_create_fails(t) ==
  /\ pool = "none" /\ Ready(t)
  /\ \E n \in 0 .. Capacity - 1 :
       /\ Len(conns) + n <= MaxOpens
       /\ conns' = conns \o [i \in 1 .. n |-> Fresh]
  /\ UNCHANGED <<runtime, attached, poolVars, live, doubled, counted, pc,
                 faults>>

IdleSlots == {i \in Slots : slots[i].state = "IDLE"}
First(S) == CHOOSE i \in S : \A j \in S : i <= j
AllRetired == \A i \in Slots : slots[i].state = "RETIRED"

\* The tail of the acquire loop that found an idle slot: the lowest one.
grant(t) ==
  LET i == First(IdleSlots)
      g == slots[i].generation + 1
  IN /\ SetSlot(i, "LEASED", g, t, slots[i].connection)
     /\ lease' = [lease EXCEPT ![t] = [slot |-> i, generation |-> g]]

\* Leaves the acquire loop without a lease.
refuse(t, waiting) ==
  /\ pc' = [pc EXCEPT ![t] = "out"]
  /\ waiters' = waiters - (IF waiting THEN 1 ELSE 0)
  /\ UNCHANGED <<slots, lease>>

\* One pass of the acquire loop: closed first, then the deadline of a thread
\* that waited, then the lowest idle slot, then a pool with no slot left to
\* use, then a place among the waiters.
acquire_pass(t, waiting) ==
  \/ /\ pool = "CLOSED" /\ refuse(t, waiting)
  \/ /\ pool = "OPEN" /\ waiting /\ refuse(t, waiting)    \* TIMEOUT
  \/ /\ pool = "OPEN" /\ IdleSlots # {}
     /\ grant(t)
     /\ pc' = [pc EXCEPT ![t] = "out"]
     /\ waiters' = waiters - (IF waiting THEN 1 ELSE 0)
  \/ /\ pool = "OPEN" /\ IdleSlots = {} /\ AllRetired /\ refuse(t, waiting)
  \/ /\ pool = "OPEN" /\ IdleSlots = {} /\ ~AllRetired
     /\ ~waiting /\ waiters = MaxWaiters /\ refuse(t, FALSE)   \* BUSY
  \/ /\ pool = "OPEN" /\ IdleSlots = {} /\ ~AllRetired
     /\ waiting \/ waiters < MaxWaiters
     /\ pc' = [pc EXCEPT ![t] = "wait"]
     /\ waiters' = waiters + (IF waiting THEN 0 ELSE 1)
     /\ UNCHANGED <<slots, lease>>

acquire(t) ==
  /\ pool \in {"OPEN", "CLOSED"} /\ Ready(t) /\ lease[t] = NoLease
  /\ acquire_pass(t, FALSE)
  /\ UNCHANGED <<runtime, attached, pool, wireVars, copy, local, faults>>

\* cond_timedwait returns: signalled or at the deadline.
reacquire(t) ==
  /\ pc[t] \in {"wait", "woken"}
  /\ acquire_pass(t, TRUE)
  /\ UNCHANGED <<runtime, attached, pool, wireVars, copy, local, faults>>

\* The wait, or the clock read before it, fails.
wait_fails(t) ==
  /\ pc[t] \in {"wait", "woken"} /\ Fault
  /\ refuse(t, TRUE)
  /\ UNCHANGED <<runtime, attached, pool, wireVars, copy, local>>

\* pthread_cond_broadcast; on failure nobody is woken and the caller learns.
notify(t, wake) ==
  pc' = [u \in Threads |-> CASE u = t -> "out"
                             [] wake /\ pc[u] = "wait" -> "woken"
                             [] OTHER -> pc[u]]

Notified(t) == (notify(t, TRUE) /\ UNCHANGED faults) \/ (Fault /\ notify(t, FALSE))

\* A lease is honoured only for the slot's current generation and borrower.
identity(t, l) ==
  /\ l.generation # 0
  /\ slots[l.slot].state = "LEASED"
  /\ slots[l.slot].generation = l.generation
  /\ slots[l.slot].borrower = t

\* mysql_pool_connection_access: the connection its caller may touch.
access(t) == {slots[i].connection : i \in {j \in Slots :
                  slots[j].state = "LEASED" /\ slots[j].borrower = t}}

StatementCount(c) == Cardinality({s \in Stms : conns[c].stm[s] # "none"})

\* Mutant: a slot is recycled at its last generation, which then wraps.
releaseWraps(t, disposition) ==
  /\ pool \in {"OPEN", "CLOSED"} /\ Ready(t) /\ identity(t, lease[t])
  /\ LET i == lease[t].slot
         c == slots[i].connection
     IN /\ StatementCount(c) = 0
        /\ SetSlot(i, "RETURNING", slots[i].generation % GenMax, NoThread, c)
        /\ lease' = [lease EXCEPT ![t] = NoLease]
        /\ copy' \in {copy, [copy EXCEPT ![t] = lease[t]]}
        /\ local' = [local EXCEPT ![t] =
             [slot |-> i, connection |-> c,
              recycle |-> /\ disposition = "RECYCLE" /\ ~conns[c].unusable
                          /\ pool = "OPEN"]]
  /\ pc' = [pc EXCEPT ![t] = "returning"]
  /\ UNCHANGED <<runtime, attached, pool, wireVars, waiters, faults>>

\* mysql_pool_release up to the unlock: refused while statements remain.
release(t, disposition) ==
  /\ pool \in {"OPEN", "CLOSED"} /\ Ready(t) /\ identity(t, lease[t])
  /\ LET i == lease[t].slot
         c == slots[i].connection
     IN /\ StatementCount(c) = 0
        /\ SetSlot(i, "RETURNING", slots[i].generation, NoThread, c)
        /\ lease' = [lease EXCEPT ![t] = NoLease]
        /\ copy' \in {copy, [copy EXCEPT ![t] = lease[t]]}
        /\ local' = [local EXCEPT ![t] =
             [slot |-> i, connection |-> c,
              recycle |-> /\ disposition = "RECYCLE" /\ ~conns[c].unusable
                          /\ pool = "OPEN" /\ slots[i].generation # GenMax]]
  /\ \/ pc' = [pc EXCEPT ![t] = "returning"] /\ UNCHANGED faults
     \/ Fault /\ UNCHANGED pc        \* the unlock failed: the slot stays out
  /\ UNCHANGED <<runtime, attached, pool, wireVars, waiters>>

\* Outside the lock: the session is restored, or the connection disposed of.
restoring(t) ==
  /\ pc[t] = "returning"
  /\ LET c == local[t].connection IN
       \/ /\ local[t].recycle
          /\ restore(c, TRUE)
          /\ UNCHANGED <<live, doubled, counted, local>>
       \/ /\ \/ local[t].recycle /\ restore(c, FALSE)
             \/ ~local[t].recycle /\ UNCHANGED conns
          /\ disposed({c})
          /\ local' = [local EXCEPT ![t].connection = NoConnection]
  /\ pc' = [pc EXCEPT ![t] = "returned"]
  /\ UNCHANGED <<runtime, attached, pool, slots, lease, copy, waiters, faults>>

\* The lock is taken again; a pool closed meanwhile keeps no connection.
release_end(t) ==
  /\ pc[t] = "returned"
  /\ LET i == local[t].slot
         keep == local[t].connection # NoConnection /\ pool # "CLOSED"
         g == slots[i].generation
     IN /\ SetSlot(i, CASE keep -> "IDLE"
                        [] ~keep /\ g = GenMax -> "RETIRED"
                        [] OTHER -> "VACANT",
                   g, NoThread, IF keep THEN local[t].connection ELSE NoConnection)
        /\ IF keep THEN UNCHANGED <<live, doubled, counted>>
           ELSE disposed({local[t].connection} \ {NoConnection})
  /\ Notified(t)
  /\ UNCHANGED <<runtime, attached, pool, conns, lease, copy, local, waiters>>

\* The relock failed: the slot is left as it is, and blocks destroy for good.
release_lost(t) ==
  /\ pc[t] = "returned" /\ Fault
  /\ pc' = [pc EXCEPT ![t] = "out"]
  /\ UNCHANGED <<runtime, attached, pool, slots, wireVars, lease, copy, local,
                 waiters>>

VacantSlots == {i \in Slots : slots[i].state = "VACANT"}

\* mysql_pool_refill up to the unlock: the lowest vacant slot.
refill(t) ==
  /\ pool = "OPEN" /\ Ready(t) /\ VacantSlots # {}
  /\ LET i == First(VacantSlots) IN
       /\ slots' = [slots EXCEPT ![i].state = "REFILLING"]
       /\ local' = [local EXCEPT ![t] = [slot |-> i, recycle |-> FALSE,
                                         connection |-> NoConnection]]
  /\ \/ pc' = [pc EXCEPT ![t] = "refilling"] /\ UNCHANGED faults
     \/ Fault /\ UNCHANGED pc
  /\ UNCHANGED <<runtime, attached, pool, wireVars, lease, copy, waiters>>

refill_open(t) ==
  /\ pc[t] = "refilling"
  /\ \/ /\ opened(1)
        /\ local' = [local EXCEPT ![t].connection = Len(conns) + 1]
     \/ UNCHANGED <<wireVars, local>>
  /\ pc' = [pc EXCEPT ![t] = "refilled"]
  /\ UNCHANGED <<runtime, attached, pool, slots, lease, copy, waiters, faults>>

refill_end(t) ==
  /\ pc[t] = "refilled"
  /\ LET i == local[t].slot
         keep == local[t].connection # NoConnection /\ pool # "CLOSED"
     IN /\ SetSlot(i, IF keep THEN "IDLE" ELSE "VACANT", slots[i].generation,
                   NoThread, IF keep THEN local[t].connection ELSE NoConnection)
        /\ IF keep THEN UNCHANGED <<live, doubled, counted>>
           ELSE disposed({local[t].connection} \ {NoConnection})
  /\ Notified(t)
  /\ UNCHANGED <<runtime, attached, pool, conns, lease, copy, local, waiters>>

\* The relock failed (the new connection is disposed of), or the unlock around
\* the disposal in a closed pool failed (it is not); the slot stays REFILLING.
refill_lost(t) ==
  /\ pc[t] = "refilled" /\ Fault
  /\ \/ disposed({local[t].connection} \ {NoConnection})
     \/ pool = "CLOSED" /\ UNCHANGED <<live, doubled, counted>>
  /\ pc' = [pc EXCEPT ![t] = "out"]
  /\ UNCHANGED <<runtime, attached, pool, slots, conns, lease, copy, local,
                 waiters>>

close(t) ==
  /\ pool \in {"OPEN", "CLOSED"} /\ Ready(t)
  /\ pool' = "CLOSED"
  /\ Notified(t)
  /\ UNCHANGED <<runtime, attached, slots, wireVars, lease, copy, local, waiters>>

Busy == \/ waiters # 0
        \/ \E i \in Slots : slots[i].state \in {"LEASED", "RETURNING", "REFILLING"}

\* mysql_pool_destroy: once "destroying" every other call is refused, and the
\* call may be repeated after a failure to destroy the condition or the mutex.
destroy(t) ==
  /\ Ready(t)
  /\ pool = "destroying" \/ (pool = "CLOSED" /\ ~Busy)
  /\ \/ /\ pool = "CLOSED" /\ Fault /\ pool' = "destroying"  \* unlock failed
        /\ UNCHANGED <<slots, live, doubled, counted>>
     \/ /\ disposed({slots[i].connection : i \in Slots} \ {NoConnection})
        /\ slots' = [i \in Slots |-> [slots[i] EXCEPT !.connection = NoConnection]]
        /\ \/ Fault /\ pool' = "destroying"
           \/ pool' = "freed" /\ UNCHANGED faults
  /\ UNCHANGED <<runtime, attached, conns, pc, lease, copy, local, waiters>>

-----------------------------------------------------------------------------
(* mysql_statement.c: the holder of a lease runs statements                *)

\* The client library saw a failure: a lost connection marks it unusable.
diagnostic(r, lost) == [r EXCEPT !.unusable = @ \/ lost]

\* fail(): the statement is FAILED and keeps the connection to itself.
fail(r, s, lost) ==
  [diagnostic(r, lost) EXCEPT !.stm[s] = "FAILED", !.active = s]

Occupied(r, s) == r.active \notin {0, s}

\* The connections after statement_prepare of s on r.
prepare(r, s) ==
  IF r.stm[s] # "none" \/ r.unusable \/ r.active # 0 THEN {}
  ELSE {[r EXCEPT !.stm[s] = "READY"]} \cup
       {diagnostic(r, lost) : lost \in BOOLEAN}

\* execute: READY only, and nobody else active; the server may have changed
\* state whatever the reply.  A failed bind sends nothing; a failed reply, a
\* reply of another shape or further results leave the statement FAILED.
execute(r, s) ==
  IF r.unusable \/ Occupied(r, s) \/ r.stm[s] # "READY" THEN {}
  ELSE LET sent == [r EXCEPT !.dirty = TRUE, !.active = s]
       IN {fail(r, s, lost) : lost \in BOOLEAN}
          \cup {fail(sent, s, lost) : lost \in BOOLEAN}
          \cup {[sent EXCEPT !.stm[s] = "FAILED", !.wire = s]}
          \cup {fail([sent EXCEPT !.wire = s], s, TRUE)}
          \cup {[sent EXCEPT !.stm[s] = "ROWS", !.wire = s]}
          \cup {[sent EXCEPT !.stm[s] = "DONE", !.active = 0]}

\* fetch: a row; the end of the rows, which frees the result; an error; or a
\* truncated row, which fails the statement without freeing anything.
fetch(r, s) ==
  IF r.unusable \/ r.stm[s] \notin {"ROW", "ROWS"} THEN {}
  ELSE {[r EXCEPT !.stm[s] = "ROW"],
        [r EXCEPT !.stm[s] = "DONE", !.active = 0, !.wire = 0],
        [r EXCEPT !.stm[s] = "FAILED"]}
       \cup {fail(r, s, lost) : lost \in BOOLEAN}

\* reset: FAILED until the result is freed and the statement reset.
reset(r, s) ==
  IF r.stm[s] = "none" \/ r.unusable \/ Occupied(r, s) THEN {}
  ELSE {fail(r, s, TRUE),
        [r EXCEPT !.stm[s] = "READY", !.active = 0,
                  !.wire = IF @ = s THEN 0 ELSE @]}

\* destroy: frees an outstanding result, closes, and always gives the
\* statement up; any failure makes the connection unusable.
statement_destroy(r, s) ==
  IF r.stm[s] = "none" \/ (~r.unusable /\ Occupied(r, s)) THEN {}
  ELSE LET gone == [r EXCEPT !.stm[s] = "none",
                             !.active = IF @ = s THEN 0 ELSE @]
       IN {[gone EXCEPT !.unusable = TRUE]} \cup
          (IF r.unusable THEN {}
           ELSE {[gone EXCEPT !.wire = IF r.active = s THEN 0 ELSE @]})

StatementStep(t) ==
  /\ pc[t] = "out" /\ t \in attached
  /\ \E c \in access(t), s \in Stms :
       \E r \in prepare(conns[c], s) \cup execute(conns[c], s)
                \cup fetch(conns[c], s) \cup reset(conns[c], s)
                \cup statement_destroy(conns[c], s) :
         conns' = [conns EXCEPT ![c] = r]
  /\ UNCHANGED <<runtime, attached, poolVars, live, doubled, counted, pc, faults>>

-----------------------------------------------------------------------------

Next ==
  \/ runtime_create \/ runtime_destroy
  \/ \E t \in Threads :
       \/ thread_attach(t) \/ thread_detach(t)
       \/ pool_create(t) \/ pool_create_fails(t)
       \/ acquire(t) \/ reacquire(t) \/ wait_fails(t)
       \/ \E d \in {"RECYCLE", "DISCARD"} : release(t, d)
       \/ restoring(t) \/ release_end(t) \/ release_lost(t)
       \/ refill(t) \/ refill_open(t) \/ refill_end(t) \/ refill_lost(t)
       \/ close(t) \/ destroy(t) \/ StatementStep(t)

Spec == Init /\ [][Next]_vars

-----------------------------------------------------------------------------

\* The slot's connection belongs to exactly one place: no two slots share one.
NoSharing ==
  \A i, j \in Slots : i # j /\ slots[i].connection # NoConnection
                      => slots[i].connection # slots[j].connection

\* What an acquirer finds in an idle slot: an open connection, usable, with no
\* statement, no rows on the wire and no work of the previous borrower.
IdleClean ==
  pool \in {"OPEN", "CLOSED"} => \A i \in IdleSlots :
    /\ slots[i].connection \in live
    /\ conns[slots[i].connection] = Fresh

\* A lease kept from before never passes for the lease of today.
StaleRefused ==
  pool \in {"OPEN", "CLOSED"} =>
    \A t \in Threads : copy[t] # NoLease => ~identity(t, copy[t])

\* A borrower works on an open connection, and the statement whose rows are on
\* the wire is the one the client considers active, so that no other command
\* is sent in between.
HeldInSync ==
  \A i \in Slots : slots[i].state = "LEASED" =>
    LET c == slots[i].connection IN
      /\ c \in live
      /\ ~conns[c].unusable /\ conns[c].wire # 0 => conns[c].active = conns[c].wire

\* mysql_pool.c, mysql_statement.c: a leased connection is its borrower's own,
\* open and in step with the server; a connection waiting in the pool carries
\* nothing over from whoever used it before; an outdated lease is refused even
\* after its slot has gone through every generation.
LeasesSafe == NoSharing /\ IdleClean /\ StaleRefused /\ HeldInSync

\* mysql_pool_release, refill, close, destroy: connections are closed once,
\* runtime->connections counts the open ones, and a pool that is gone has left
\* none open, so that the runtime can end; while no pthread call has failed
\* every open connection is held by a slot or by the thread replacing it.
ConnectionsAccounted ==
  /\ ~doubled /\ counted = Cardinality(live)
  /\ pool = "freed" => live = {}
  /\ faults = 0 =>
       live \subseteq {slots[i].connection : i \in Slots}
                      \cup {local[t].connection : t \in
                             {u \in Threads : pc[u] \in {"refilled", "returned"}}}

\* mysql_pool_acquire: unless a broadcast failed, no thread sleeps in the pool
\* while a connection is idle, after the pool was closed, or when every slot
\* has been retired.
NoneStranded ==
  faults = 0 =>
    \A t \in Threads : pc[t] = "wait" =>
      pool = "OPEN" /\ IdleSlots = {} /\ ~AllRetired

=============================================================================
