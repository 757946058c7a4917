----------------------------- MODULE TaskLifetime -----------------------------
(***************************************************************************)
(* The lifetime of a cancellation token shared between the reactor thread, *)
(* the tasks it hands to the workers and the record of the in-flight store *)
(* (thread/task_cancel.c, thread/task.c, net/inflight_store*.c).           *)
(*                                                                         *)
(* The token counts its owners with atomic operations and no lock: retain  *)
(* is a load followed by compare-and-swap turns, destroy a fetch-and-sub   *)
(* whose last caller frees.  `claims` says who really owns a reference;    *)
(* the code has only the number.  A task moves from the reactor through    *)
(* the queue to a worker, and carries one reference; the in-flight record  *)
(* of its request carries another, so that the client's cleanup can        *)
(* request the cancellation after the task has left.                       *)
(***************************************************************************)
EXTENDS Naturals, FiniteSets

CONSTANTS
  Workers,     \* worker threads
  Tasks,       \* tasks of one request (a first attempt and a later one)
  MaxRefs      \* UINT64_MAX

Reactor == "reactor"
Queue == "queue"
Nowhere == "nowhere"
Threads == Workers \cup {Reactor}

Handle(t) == <<"handle", t>>     \* a local owner pointer of thread t
Held(t) == <<"held", t>>         \* held_cancel inside create_copy
OfTask(k) == <<"task", k>>       \* task->cancel
Record == <<"record">>           \* slots[i].cancel of the in-flight store

VARIABLES
  token,     \* [state : absent | live | freed, refs, requested]
  claims,    \* the owner pointers that name the token
  task,      \* task[k]: the thread that owns it, Queue or Nowhere
  store,     \* the in-flight store: "none", "empty" or "one" record
  at         \* at[t]: what thread t is in the middle of

vars == <<token, claims, task, store, at>>

Idle == [step |-> "idle"]

Init ==
  /\ token = [state |-> "absent", refs |-> 0, requested |-> FALSE]
  /\ claims = {}
  /\ task = [k \in Tasks |-> Nowhere]
  /\ store = "none"
  /\ at = [t \in Threads |-> Idle]

Free(t) == at[t] = Idle

\* The owner pointers thread t may read: its own, those of the tasks it owns
\* and, for the reactor, the in-flight record.
Reachable(t) ==
  claims \cap ({Handle(t)} \cup {OfTask(k) : k \in {j \in Tasks : task[j] = t}}
                 \cup (IF t = Reactor THEN {Record} ELSE {}))

------------------------------------------------------------------------------
(* The token *)

\* A failed allocation leaves nothing behind.
cancel_create(t) ==
  /\ Free(t) /\ t = Reactor
  /\ token.state = "absent"
  /\ token' = [state |-> "live", refs |-> 1, requested |-> FALSE]
  /\ claims' = {Handle(t)}
  /\ UNCHANGED <<task, store, at>>

\* retain: the first load of the count.
Load(t, purpose) ==
  at' = [at EXCEPT ![t] = [step |-> "exchange", count |-> token.refs,
                           purpose |-> purpose]]

\* The owner pointer a successful retain fills in.
Target(t, purpose) ==
  CASE purpose = "handle" -> Handle(t)
    [] purpose = "record" -> Record
    [] OTHER -> Held(t)

\* One turn of the loop: the count is at its limit; the exchange succeeds; or
\* it fails and the count is observed again.
cancel_retain(t) ==
  LET p == at[t]
  IN /\ p.step = "exchange"
     /\ \/ /\ p.count = MaxRefs
           /\ at' = [at EXCEPT ![t] = Idle]
           /\ UNCHANGED <<token, claims, store>>
        \/ /\ p.count < MaxRefs
           /\ token.refs = p.count
           /\ token' = [token EXCEPT !.refs = p.count + 1]
           /\ claims' = claims \cup {Target(t, p.purpose)}
           /\ store' = IF p.purpose = "record" THEN "one" ELSE store
           /\ at' = [at EXCEPT ![t] =
                       IF p.purpose \in {"handle", "record"} THEN Idle
                       ELSE [step |-> "allocate", purpose |-> p.purpose]]
        \/ /\ p.count < MaxRefs
           /\ token.refs # p.count
           /\ at' = [at EXCEPT ![t].count = token.refs]
           /\ UNCHANGED <<token, claims, store>>
     /\ UNCHANGED task

\* destroy: the reference is given up; who gave up the last one frees next.
Release(t, owner) ==
  /\ token' = [token EXCEPT !.refs = @ - 1]
  /\ claims' = claims \ {owner}
  /\ at' = [at EXCEPT ![t] = IF token.refs = 1 THEN [step |-> "free"] ELSE Idle]

cancel_destroy(t) ==
  /\ Free(t) /\ Handle(t) \in claims
  /\ Release(t, Handle(t))
  /\ UNCHANGED <<task, store>>

Deallocate(t) ==
  /\ at[t].step = "free"
  /\ token' = [token EXCEPT !.state = "freed"]
  /\ at' = [at EXCEPT ![t] = Idle]
  /\ UNCHANGED <<claims, task, store>>

cancel_request(t) ==
  /\ Free(t) /\ Reachable(t) # {}
  /\ token' = [token EXCEPT !.requested = TRUE]
  /\ UNCHANGED <<claims, task, store, at>>

\* An owner pointer handed to another thread; the count does not change.
cancel_move(t, u) ==
  /\ Free(t) /\ t # u
  /\ Handle(t) \in claims /\ Handle(u) \notin claims
  /\ Free(u)
  /\ claims' = (claims \ {Handle(t)}) \cup {Handle(u)}
  /\ UNCHANGED <<token, task, store, at>>

------------------------------------------------------------------------------
(* Tasks *)

\* create_copy: the token is retained before the task is allocated.
create_copy(k) ==
  /\ Free(Reactor) /\ Handle(Reactor) \in claims
  /\ task[k] = Nowhere
  /\ Load(Reactor, k)
  /\ UNCHANGED <<token, claims, task, store>>

\* The allocation of the task, and the release of held_cancel when it fails.
create_copy_allocate(t) ==
  /\ at[t].step = "allocate"
  /\ \/ /\ claims' = (claims \ {Held(t)}) \cup {OfTask(at[t].purpose)}
        /\ task' = [task EXCEPT ![at[t].purpose] = t]
        /\ at' = [at EXCEPT ![t] = Idle]
        /\ UNCHANGED token
     \/ /\ Release(t, Held(t))
        /\ UNCHANGED task
  /\ UNCHANGED store

task_retain_cancel(t, k) ==
  /\ Free(t) /\ task[k] = t /\ Handle(t) \notin claims
  /\ Load(t, "handle")
  /\ UNCHANGED <<token, claims, task, store>>

\* The queue takes a task from the reactor and gives it to a worker.
task_move(k, t) ==
  /\ \/ task[k] = Reactor /\ Free(Reactor) /\ task' = [task EXCEPT ![k] = Queue]
     \/ task[k] = Queue /\ Free(t) /\ t # Reactor /\ task' = [task EXCEPT ![k] = t]
  /\ UNCHANGED <<token, claims, store, at>>

\* The reference goes first, then the task is wiped and freed by its owner.
task_destroy(t, k) ==
  /\ Free(t) /\ task[k] = t
  /\ Release(t, OfTask(k))
  /\ task' = [task EXCEPT ![k] = Nowhere]
  /\ UNCHANGED store

------------------------------------------------------------------------------
(* The in-flight record *)

inflight_store_create ==
  /\ Free(Reactor) /\ store = "none"
  /\ store' = "empty"
  /\ UNCHANGED <<token, claims, task, at>>

\* A record and its reference appear together, or not at all.
inflight_store_register_task(k) ==
  /\ Free(Reactor) /\ task[k] = Reactor /\ store = "empty"
  /\ Load(Reactor, "record")
  /\ UNCHANGED <<token, claims, task, store>>

inflight_store_retain_cancel ==
  /\ Free(Reactor) /\ store = "one" /\ Handle(Reactor) \notin claims
  /\ Load(Reactor, "handle")
  /\ UNCHANGED <<token, claims, task, store>>

inflight_store_take ==
  /\ Free(Reactor) /\ store = "one"
  /\ Release(Reactor, Record)
  /\ store' = "empty"
  /\ UNCHANGED task

\* A store that still has records refuses to be destroyed.
inflight_store_destroy ==
  /\ Free(Reactor) /\ store = "empty"
  /\ store' = "none"
  /\ UNCHANGED <<token, claims, task, at>>

Next ==
  \/ \E t \in Threads :
       \/ cancel_create(t) \/ cancel_retain(t) \/ cancel_destroy(t)
       \/ Deallocate(t) \/ cancel_request(t) \/ create_copy_allocate(t)
       \/ \E u \in Threads : cancel_move(t, u)
       \/ \E k \in Tasks : task_retain_cancel(t, k) \/ task_move(k, t) \/ task_destroy(t, k)
  \/ \E k \in Tasks : create_copy(k) \/ inflight_store_register_task(k)
  \/ inflight_store_create \/ inflight_store_retain_cancel
  \/ inflight_store_take \/ inflight_store_destroy

Spec == Init /\ [][Next]_vars

------------------------------------------------------------------------------
(* Properties *)

\* The count is the number of owner pointers whatever retains and releases
\* overlap; the token is not freed while an owner pointer names it or a thread
\* is between the load and the exchange of a retain; when the last owner is
\* gone exactly one thread is about to free it or it is freed.
TokenLifetime ==
  LET freeing == {t \in Threads : at[t].step = "free"}
  IN /\ token.refs = Cardinality(claims)
     /\ (claims # {} \/ \E t \in Threads : at[t].step \in {"exchange", "allocate"})
          => token.state = "live" /\ freeing = {}
     /\ token.state = "live" /\ claims = {} => Cardinality(freeing) = 1
     /\ token.state # "live" => freeing = {}
==============================================================================
