------------------------ MODULE CompletionPathProofs -------------------------
(***************************************************************************)
(* Proof that results take the completion path safely, for every number of *)
(* workers, domains, requests, capacity and budget and whichever calls     *)
(* fail.  The properties are not inductive by themselves:                  *)
(*  - that a request is counted once rests on it being in one place and    *)
(*    on no place holding it twice (PlacesSound);                          *)
(*  - that the reactor sleeps on nothing rests on every domain that the    *)
(*    turn under way is done with being marked (TurnQuiet);                *)
(*  - that the final loop drains in time rests on the turns left having    *)
(*    budget for what is queued (FinalOnTime);                             *)
(*  - all of them rest on who owns a mutex, a request and a fault bit      *)
(*    (WorkersSound) and on where the reactor is in each phase             *)
(*    (PhaseSound): with the types, the Base of every other argument.      *)
(***************************************************************************)
EXTENDS CompletionPath, FiniteSetTheorems, SequenceTheorems, TLAPS

\* The groups of variables that steps leave alone.
USE DEF taskVars, queueVars, workerVars, turnVars, loopVars, exitVars

\* A worker has a request exactly while it works on one, has no fault to latch
\* before it executes, and owns a queue's mutex exactly while it looks into it.
WorkersSound ==
    /\ \A w \in Workers : wreq[w] = NoRequest <=> wpc[w] \in {"idle", "exited"}
    /\ \A w \in Workers : wpc[w] \in {"idle", "execute", "exited"} => wbits[w] = {}
    /\ \A w \in Workers, d \in DomainSet : mutex[d] = w <=> wpc[w] = "check" /\ Dom(w) = d

\* Where the reactor is in each phase; nobody works after the join.
PhaseSound ==
    /\ rpc \in {"sample", "poll", "stop"} => phase = "run"
    /\ rpc \in {"close", "join"} => phase = "close"
    /\ rpc = "after" => phase # "run"
    /\ rpc = "done" => phase = "final"
    /\ attempts < CleanupAttempts \/ rpc \in {"done", "fatal"}
    /\ phase = "final" => tasks = <<>> /\ \A w \in Workers : wpc[w] = "exited"

\* Membership in a sequence, and a sequence without repetitions.
In(r, s) == \E i \in 1 .. Len(s) : s[i] = r
Distinct(s) == \A i, j \in 1 .. Len(s) : s[i] = s[j] => i = j

\* The four places a request can be in.
InTasks(r) == In(r, tasks)
Carried(r) == Carriers(r) # {}
Queued(r) == In(r, queue[DomainOf[r]])
Held(r) == held[DomainOf[r]] = r

\* No place holds a request twice, and every completion is at its own domain.
PlacesTidy ==
    /\ Distinct(tasks)
    /\ \A d \in DomainSet : Distinct(queue[d])
    /\ \A d \in DomainSet : \A r \in Requests : In(r, queue[d]) => DomainOf[r] = d
    /\ \A d \in DomainSet : held[d] # NoRequest => DomainOf[held[d]] = d
    /\ \A v, w \in Workers : \A r \in Requests : v \in Carriers(r) /\ w \in Carriers(r) => v = w

\* r is in one place while it has no outcome, and in none otherwise.
OnePlace(r) ==
    /\ InTasks(r) => ~Carried(r) /\ ~Queued(r) /\ ~Held(r)
    /\ Carried(r) => ~Queued(r) /\ ~Held(r)
    /\ Queued(r) => ~Held(r)
    /\ Unsettled(r) <=> InTasks(r) \/ Carried(r) \/ Queued(r) \/ Held(r)

\* Every request is in one place, or in none once it has an outcome.
PlacesSound == PlacesTidy /\ \A r \in Requests : OnePlace(r)

\* A completion the reactor could take has left a mark.
Marked(d) ==
    \/ notifier > 0
    \/ "PUBLISH" \in fault[d]
    \/ \E w \in Workers : wreq[w] # NoRequest /\ Dom(w) = d /\ (wpc[w] = "notify" \/ "PUBLISH" \in wbits[w])
\* Domain d has nothing that the reactor could overlook.
Quiet(d) == queue[d] # <<>> /\ held[d] = NoRequest => Marked(d)

\* The domain the turn reaches after k others.
Visited(k) == Domains[1 + ((cursor + k) % Len(Domains))]

\* The domains of this turn that are done with are quiet.
TurnQuiet ==
    /\ rpc = "drain" => \A k \in 0 .. turn - 1 : Visited(k) # Current => Quiet(Visited(k))
    /\ rpc = "poll" => \A d \in DomainSet : Quiet(d)

\* Turns of the final loop that are left, the one under way included.
TurnsLeft == CleanupAttempts - attempts

\* The final loop is on time: the turns left have budget for what is queued.
OnTime ==
    /\ rpc # "fatal"
    /\ rpc \in {"once", "drain"} =>
         \A d \in DomainSet : Len(queue[d]) <= TurnsLeft * Budget
    /\ rpc = "drain" =>
         /\ \A d \in DomainSet : held[d] # NoRequest => d = Current /\ spent < Budget
         /\ Len(queue[Current]) + spent + (IF held[Current] = NoRequest THEN 0 ELSE 1)
              <= TurnsLeft * Budget
         /\ \A k \in 0 .. turn - 1 : Visited(k) # Current =>
              Len(queue[Visited(k)]) <= (TurnsLeft - 1) * Budget
    /\ rpc = "after" =>
         \A d \in DomainSet : held[d] = NoRequest /\ Len(queue[d]) <= (TurnsLeft - 1) * Budget

\* Once the workers are joined the final loop stays on time, unless the turns
\* or the signals fail.
FinalOnTime == Faults \cap {"once", "signal"} = {} /\ phase = "final" => OnTime

\* run returns from an empty house.
DoneDrained == rpc = "done" => Drained

\* The inductive invariant: the properties and what they rest on.
IInv == /\ TypeOK /\ WorkersSound /\ PhaseSound /\ PlacesSound /\ TurnQuiet /\ ProducersWoken
        /\ FinalOnTime /\ DoneDrained /\ NoSilentLoss

-----------------------------------------------------------------------------
\* The remainder by the number of domains, for one or two rounds.
LEMMA Mod ==
    ASSUME NEW n \in Nat, n > 0, NEW a \in Nat
    PROVE  /\ a % n \in 0 .. n - 1
           /\ a < n => a % n = a
           /\ n <= a /\ a < n + n => a % n = a - n
OBVIOUS

\* The bounds are positive and there is a domain.
LEMMA Numbers ==
    /\ Len(Domains) \in Nat /\ Len(Domains) > 0
    /\ Capacity \in Nat /\ Capacity > 0 /\ Budget \in Nat /\ Budget > 0
    /\ TaskCapacity \in Nat /\ TaskCapacity > 0 /\ NotifierMax \in Nat /\ NotifierMax > 0
    /\ CleanupAttempts \in Nat /\ CleanupAttempts > 0
<1>1. /\ TaskCapacity \in Nat \ {0} /\ Capacity \in Nat \ {0} /\ Budget \in Nat \ {0}
      /\ NotifierMax \in Nat \ {0}
  BY BoundAssumption
<1>2. Len(Domains) \in Nat /\ Len(Domains) > 0
  BY DomainAssumption, LenProperties
<1>3. CleanupAttempts # 0
  BY <1>1, BoundAssumption
<1> QED BY <1>1, <1>2, <1>3, BoundAssumption

\* The domains are exactly the members of the list the reactor goes round.
LEMMA DomainAt ==
    /\ \A i \in 1 .. Len(Domains) : Domains[i] \in DomainSet
    /\ \A d \in DomainSet : \E i \in 1 .. Len(Domains) : Domains[i] = d
    /\ \A r \in Requests : DomainOf[r] \in DomainSet
BY DomainAssumption DEF DomainSet

\* The domain of the turn is one of them.
LEMMA CurrentDomain ==
    ASSUME cursor \in 0 .. Len(Domains) - 1, turn \in 0 .. Len(Domains) - 1
    PROVE  Current \in DomainSet
<1>1. cursor + turn \in Nat
  BY Numbers
<1>2. (cursor + turn) % Len(Domains) \in 0 .. Len(Domains) - 1
  BY <1>1, Numbers, Mod
<1>3. 1 + ((cursor + turn) % Len(Domains)) \in 1 .. Len(Domains)
  BY <1>2, Numbers
<1> QED BY <1>3, DomainAt DEF Current

\* What every other argument rests on.
Base == TypeOK /\ WorkersSound /\ PhaseSound

\* A worker that is not idle has a request, and its domain.
LEMMA AtWork ==
    ASSUME TypeOK, WorkersSound, NEW w \in Workers, wpc[w] \notin {"idle", "exited"}
    PROVE  wreq[w] \in Requests /\ Dom(w) \in DomainSet /\ wreq[w] # NoRequest
BY DomainAt DEF TypeOK, WorkersSound, MaybeRequest, Dom

\* The points of a worker.
Points == {"idle", "execute", "push", "relock", "check", "wait", "notify", "settle", "exited"}

\* Only worker w changes, and it keeps what WorkersSound asks of it.
WorkerAlone(w) ==
    /\ wpc' = [wpc EXCEPT ![w] = wpc'[w]] /\ wpc'[w] \in Points
    /\ wreq' = [wreq EXCEPT ![w] = wreq'[w]] /\ wreq'[w] \in MaybeRequest
    /\ wbits' = [wbits EXCEPT ![w] = wbits'[w]] /\ wbits'[w] \in SUBSET Bits
    /\ wreq'[w] = NoRequest <=> wpc'[w] \in {"idle", "exited"}
    /\ wpc'[w] \in {"idle", "execute", "exited"} => wbits'[w] = {}

\* A step of worker w alone, that takes no mutex and at most frees the one it
\* owns.
LEMMA WorkerChange ==
    ASSUME Base, NEW w \in Workers, WorkerAlone(w),
           wpc'[w] = "check" => mutex[DomainOf[wreq'[w]]] = Free,
           \A d \in DomainSet :
               mutex'[d] = IF wpc'[w] = "check" /\ DomainOf[wreq'[w]] = d THEN w
                           ELSE IF mutex[d] = w THEN Free ELSE mutex[d]
    PROVE  /\ WorkersSound'
           /\ wpc' \in [Workers -> Points] /\ wreq' \in [Workers -> MaybeRequest]
           /\ wbits' \in [Workers -> SUBSET Bits]
<1>1. /\ wpc' \in [Workers -> Points] /\ wreq' \in [Workers -> MaybeRequest]
      /\ wbits' \in [Workers -> SUBSET Bits]
  BY DEF WorkerAlone, Base, TypeOK, Points
<1>2. \A v \in Workers : v # w => /\ wpc'[v] = wpc[v] /\ wreq'[v] = wreq[v]
                                  /\ wbits'[v] = wbits[v]
  BY DEF WorkerAlone, Base, TypeOK
<1>3. ASSUME NEW v \in Workers, NEW d \in DomainSet
      PROVE  (mutex'[d] = v <=> wpc'[v] = "check" /\ Dom(v)' = d)
  <2>1. mutex[d] = v <=> wpc[v] = "check" /\ DomainOf[wreq[v]] = d
    BY DEF Base, WorkersSound, Dom
  <2>2. Free # v /\ Free # w
    BY IdentityAssumption
  <2>3. CASE v = w
    BY <1>2, <2>1, <2>2, <2>3 DEF Dom
  <2>4. CASE v # w
    BY <1>2, <2>1, <2>2, <2>4 DEF Dom
  <2> QED BY <2>3, <2>4
<1>4. \A v \in Workers : /\ wreq'[v] = NoRequest <=> wpc'[v] \in {"idle", "exited"}
                         /\ wpc'[v] \in {"idle", "execute", "exited"} => wbits'[v] = {}
  BY <1>2 DEF WorkerAlone, Base, WorkersSound
<1> QED BY <1>1, <1>3, <1>4 DEF WorkersSound

\* One lemma per action: each keeps the types, the owners and the phases.
LEMMA TakeTaskBase == ASSUME Base, NEW w \in Workers, TakeTask(w) PROVE Base'
<1>0. wpc[w] = "idle" /\ wreq[w] = NoRequest /\ wbits[w] = {} /\ (\A d \in DomainSet : mutex[d] # w)
  BY DEF TakeTask, IsAt, Base, WorkersSound
<1>1. mutex' = mutex /\ wbits' = wbits /\ wpc'[w] \in {"execute", "exited"}
  BY DEF TakeTask, WorkerGoes, Base, TypeOK
<1>2. tasks # <<>> => /\ Head(tasks) \in Requests /\ Head(tasks) # NoRequest
                      /\ Tail(tasks) \in Seq(Requests) /\ Len(Tail(tasks)) <= TaskCapacity
  BY Numbers, HeadTailProperties, LenProperties, IdentityAssumption DEF Base, TypeOK
<1>3. WorkerAlone(w)
  BY <1>0, <1>2 DEF TakeTask, WorkerGoes, WorkerAlone, Points, MaybeRequest, Base, TypeOK
<1>4. /\ WorkersSound' /\ wpc' \in [Workers -> Points]
      /\ wreq' \in [Workers -> MaybeRequest] /\ wbits' \in [Workers -> SUBSET Bits]
  BY <1>0, <1>1, <1>3, WorkerChange
<1>5. tasks' \in Seq(Requests) /\ Len(tasks') <= TaskCapacity
  BY <1>2 DEF TakeTask, Base, TypeOK
<1>6. TypeOK'
  BY <1>4, <1>5 DEF TakeTask, Base, TypeOK, Points
<1>7. PhaseSound'
  BY <1>0 DEF TakeTask, Base, TypeOK, PhaseSound
<1> QED BY <1>4, <1>6, <1>7 DEF Base

\* A worker executes its request.
LEMMA ExecuteBase == ASSUME Base, NEW w \in Workers, Execute(w) PROVE Base'
<1>0. /\ wpc[w] = "execute" /\ wreq[w] \in Requests /\ wreq[w] # NoRequest /\ wbits[w] = {}
      /\ (\A d \in DomainSet : mutex[d] # w)
  BY AtWork DEF Execute, IsAt, Base, WorkersSound
<1>1. mutex' = mutex /\ wpc'[w] \in {"idle", "push", "settle"}
  BY DEF Execute, WorkerGoes, Base, TypeOK
<1>2. WorkerAlone(w)
  <2>1. \E bits \in {{}, {"OTHER"}, {"OTHER", "PUBLISH"}} : wbits' = [wbits EXCEPT ![w] = bits]
    BY <1>0 DEF Execute, Base, TypeOK
  <2>2. wbits' = [wbits EXCEPT ![w] = wbits'[w]] /\ wbits'[w] \in SUBSET Bits
    BY <2>1 DEF Base, TypeOK, Bits
  <2>3. wpc'[w] = "idle" => wbits'[w] = {}
    BY <1>0 DEF Execute, WorkerGoes, Base, TypeOK
  <2> QED BY <1>0, <2>2, <2>3
     DEF Execute, WorkerGoes, WorkerAlone, Points, MaybeRequest, Base, TypeOK
<1>3. /\ WorkersSound' /\ wpc' \in [Workers -> Points]
      /\ wreq' \in [Workers -> MaybeRequest] /\ wbits' \in [Workers -> SUBSET Bits]
  BY <1>0, <1>1, <1>2, WorkerChange
<1>4. fate' = fate \/ fate' = [fate EXCEPT ![wreq[w]] = "dropped"]
  BY DEF Execute
<1>6. TypeOK'
  BY <1>0, <1>3, <1>4 DEF Execute, Base, TypeOK, Points
<1>7. PhaseSound'
  BY <1>0 DEF Execute, Base, PhaseSound
<1> QED BY <1>3, <1>6, <1>7 DEF Base

\* It locks the completion queue.
LEMMA WaitPushLockBase == ASSUME Base, NEW w \in Workers, WaitPushLock(w) PROVE Base'
<1>1. TypeOK'
  BY DEF Base, TypeOK, WaitPushLock, WorkerGoes
<1>2. WorkersSound'
  BY IdentityAssumption DEF Base, TypeOK, WorkersSound, Dom, WaitPushLock, IsAt, WorkerGoes
<1>3. PhaseSound'
  BY DEF Base, TypeOK, PhaseSound, WaitPushLock, IsAt
<1> QED BY <1>1, <1>2, <1>3 DEF Base

\* It finds no room.
LEMMA WaitPushSleepBase == ASSUME Base, NEW w \in Workers, WaitPushSleep(w) PROVE Base'
<1> DEFINE d == Dom(w)
<1>0. /\ wpc[w] = "check" /\ wreq[w] \in Requests /\ wreq[w] # NoRequest /\ d \in DomainSet
      /\ \A e \in DomainSet : mutex[e] = w <=> e = d
  BY AtWork DEF WaitPushSleep, IsAt, Base, WorkersSound
<1>1. /\ mutex' = [mutex EXCEPT ![d] = Free] /\ wreq' = wreq
      /\ wpc'[w] \in {"wait", "settle", "notify"}
  BY DEF WaitPushSleep, WorkerGoes, Base, TypeOK
<1>2. WorkerAlone(w)
  <2>1. wbits' = [wbits EXCEPT ![w] = wbits'[w]] /\ wbits'[w] \in SUBSET Bits
    BY DEF WaitPushSleep, Base, TypeOK, Bits
  <2> QED BY <1>0, <1>1, <2>1 DEF WaitPushSleep, WorkerGoes, WorkerAlone, Points, Base, TypeOK
<1>3. /\ WorkersSound' /\ wpc' \in [Workers -> Points]
      /\ wreq' \in [Workers -> MaybeRequest] /\ wbits' \in [Workers -> SUBSET Bits]
  <2>1. \A e \in DomainSet : mutex'[e] = IF mutex[e] = w THEN Free ELSE mutex[e]
    BY <1>0, <1>1 DEF Base, TypeOK
  <2> QED BY <1>1, <1>2, <2>1, WorkerChange
<1>4. /\ mutex' \in [DomainSet -> Workers \cup {Free}]
      /\ fate' = fate \/ fate' = [fate EXCEPT ![wreq[w]] = "dropped"]
  BY <1>0, <1>1 DEF WaitPushSleep, Base, TypeOK
<1>5. queue' = queue
  BY DEF WaitPushSleep
<1>6. TypeOK'
  BY <1>0, <1>3, <1>4, <1>5 DEF WaitPushSleep, Base, TypeOK, Points
<1>7. PhaseSound'
  BY <1>0 DEF WaitPushSleep, Base, PhaseSound
<1> QED BY <1>3, <1>6, <1>7 DEF Base

\* It pushes, or finds the queue closed.
LEMMA WaitPushReturnBase == ASSUME Base, NEW w \in Workers, WaitPushReturn(w) PROVE Base'
<1> DEFINE d == Dom(w)
<1>0. /\ wpc[w] = "check" /\ wreq[w] \in Requests /\ wreq[w] # NoRequest /\ d \in DomainSet
      /\ \A e \in DomainSet : mutex[e] = w <=> e = d
  BY AtWork DEF WaitPushReturn, IsAt, Base, WorkersSound
<1>1. /\ mutex' = [mutex EXCEPT ![d] = Free] /\ wreq' = wreq
      /\ wpc'[w] \in {"wait", "settle", "notify"}
  BY DEF WaitPushReturn, WorkerGoes, Base, TypeOK
<1>2. WorkerAlone(w)
  <2>1. wbits' = [wbits EXCEPT ![w] = wbits'[w]] /\ wbits'[w] \in SUBSET Bits
    BY DEF WaitPushReturn, Base, TypeOK, Bits
  <2> QED BY <1>0, <1>1, <2>1 DEF WaitPushReturn, WorkerGoes, WorkerAlone, Points, Base, TypeOK
<1>3. /\ WorkersSound' /\ wpc' \in [Workers -> Points]
      /\ wreq' \in [Workers -> MaybeRequest] /\ wbits' \in [Workers -> SUBSET Bits]
  <2>1. \A e \in DomainSet : mutex'[e] = IF mutex[e] = w THEN Free ELSE mutex[e]
    BY <1>0, <1>1 DEF Base, TypeOK
  <2> QED BY <1>1, <1>2, <2>1, WorkerChange
<1>4. /\ mutex' \in [DomainSet -> Workers \cup {Free}]
      /\ fate' = fate \/ fate' = [fate EXCEPT ![wreq[w]] = "dropped"]
  BY <1>0, <1>1 DEF WaitPushReturn, Base, TypeOK
<1>5. queue' \in [DomainSet -> Seq(Requests)] /\ \A e \in DomainSet : Len(queue'[e]) <= Capacity
  <2>1. /\ Append(queue[d], wreq[w]) \in Seq(Requests)
        /\ Len(Append(queue[d], wreq[w])) = Len(queue[d]) + 1 /\ Len(queue[d]) \in Nat
    BY <1>0, AppendProperties, LenProperties DEF Base, TypeOK
  <2>2. CASE queue' = queue
    BY <2>2 DEF Base, TypeOK
  <2>3. CASE Len(queue[d]) < Capacity /\ queue' = [queue EXCEPT ![d] = Append(queue[d], wreq[w])]
    BY <1>0, <2>1, <2>3, Numbers DEF Base, TypeOK
  <2> QED BY <2>2, <2>3 DEF WaitPushReturn
<1>6. TypeOK'
  BY <1>0, <1>3, <1>4, <1>5 DEF WaitPushReturn, Base, TypeOK, Points
<1>7. PhaseSound'
  BY <1>0 DEF WaitPushReturn, Base, PhaseSound
<1> QED BY <1>3, <1>6, <1>7 DEF Base

\* It wakes without cause.
LEMMA SpuriousWakeupBase == ASSUME Base, NEW w \in Workers, SpuriousWakeup(w) PROVE Base'
<1>1. TypeOK'
  BY DEF Base, TypeOK, SpuriousWakeup, WorkerGoes
<1>2. WorkersSound'
  BY DEF Base, TypeOK, WorkersSound, Dom, SpuriousWakeup, IsAt, WorkerGoes
<1>3. PhaseSound'
  BY DEF Base, TypeOK, PhaseSound, SpuriousWakeup, IsAt
<1> QED BY <1>1, <1>2, <1>3 DEF Base

\* It rings the notifier.
LEMMA NotifyBase == ASSUME Base, NEW w \in Workers, Notify(w) PROVE Base'
<1>0. /\ wpc[w] = "notify" /\ wreq[w] \in Requests /\ wreq[w] # NoRequest /\ (\A d \in DomainSet : mutex[d] # w)
  BY AtWork DEF Notify, IsAt, Base, WorkersSound
<1>1. mutex' = mutex /\ wreq' = wreq /\ wpc'[w] = "settle"
  BY DEF Notify, WorkerGoes, Base, TypeOK
<1>2. WorkerAlone(w)
  <2>1. wbits' = [wbits EXCEPT ![w] = wbits'[w]] /\ wbits'[w] \in SUBSET Bits
    BY DEF Notify, Base, TypeOK, Bits
  <2> QED BY <1>0, <1>1, <2>1 DEF Notify, WorkerGoes, WorkerAlone, Points, Base, TypeOK
<1>3. /\ WorkersSound' /\ wpc' \in [Workers -> Points]
      /\ wreq' \in [Workers -> MaybeRequest] /\ wbits' \in [Workers -> SUBSET Bits]
  BY <1>0, <1>1, <1>2, WorkerChange
<1>4. notifier' \in 0 .. NotifierMax
  BY Numbers DEF Notify, Increment, Base, TypeOK
<1>6. TypeOK'
  BY <1>0, <1>3, <1>4 DEF Notify, Base, TypeOK, Points
<1>7. PhaseSound'
  BY <1>0 DEF Notify, Base, PhaseSound
<1> QED BY <1>3, <1>6, <1>7 DEF Base

\* It latches its faults and is idle again.
LEMMA SettleBase == ASSUME Base, NEW w \in Workers, Settle(w) PROVE Base'
<1>0. /\ wpc[w] = "settle" /\ wreq[w] \in Requests /\ wreq[w] # NoRequest /\ Dom(w) \in DomainSet
      /\ (\A d \in DomainSet : mutex[d] # w) /\ mutex' = mutex
  BY AtWork DEF Settle, IsAt, Base, WorkersSound
<1>1. fault' \in [DomainSet -> SUBSET Bits]
  <2>1. fault[Dom(w)] \cup wbits[w] \in SUBSET Bits
    BY <1>0 DEF Base, TypeOK
  <2> QED BY <1>0, <2>1 DEF Settle, Latch, Base, TypeOK
<1>2. WorkerAlone(w) /\ wpc'[w] \in {"idle", "settle"}
  <2>1. CASE UNCHANGED workerVars
    BY <1>0, <2>1 DEF WorkerAlone, Points, Base, TypeOK
  <2>2. CASE /\ wreq' = [wreq EXCEPT ![w] = NoRequest] /\ wbits' = [wbits EXCEPT ![w] = {}]
             /\ WorkerGoes(w, "idle")
    BY <1>0, <2>2 DEF WorkerGoes, WorkerAlone, Points, MaybeRequest, Base, TypeOK
  <2>3. CASE wbits' = [wbits EXCEPT ![w] = wbits[w] \cup {"OTHER"}] /\ UNCHANGED <<wpc, wreq>>
    <3>1. wbits[w] \cup {"OTHER"} \in SUBSET Bits
      BY DEF Base, TypeOK, Bits
    <3> QED BY <1>0, <2>3, <3>1 DEF WorkerAlone, Points, Base, TypeOK
  <2> QED BY <2>1, <2>2, <2>3 DEF Settle
<1>3. /\ WorkersSound' /\ wpc' \in [Workers -> Points]
      /\ wreq' \in [Workers -> MaybeRequest] /\ wbits' \in [Workers -> SUBSET Bits]
  BY <1>0, <1>2, WorkerChange
<1>4. rpc' = rpc \/ rpc' = "residual"
  BY DEF Settle
<1>5. TypeOK'
  BY <1>1, <1>3, <1>4 DEF Settle, Base, TypeOK, Points
<1>6. PhaseSound'
  <2>1. phase # "final"
    BY <1>0 DEF Base, PhaseSound
  <2> QED BY <1>4, <2>1 DEF Settle, IsAt, Ended, Base, PhaseSound
<1> QED BY <1>3, <1>5, <1>6 DEF Base

\* The reactor samples the faults.
LEMMA SampleBase == ASSUME Base, Sample PROVE Base'
<1>1. TypeOK'
  BY DEF Base, TypeOK, PhaseSound, Sample
<1>2. WorkersSound'
  BY DEF Base, TypeOK, WorkersSound, Dom, Sample
<1>3. PhaseSound'
  BY DEF Base, TypeOK, PhaseSound, Sample
<1> QED BY <1>1, <1>2, <1>3 DEF Base

\* It finds timer work.
LEMMA TimerWorkPendingBase == ASSUME Base, TimerWorkPending PROVE Base'
<1>1. TypeOK'
  BY DEF Base, TypeOK, TimerWorkPending, Stopped
<1>2. WorkersSound'
  BY DEF Base, TypeOK, WorkersSound, Dom, TimerWorkPending
<1>3. PhaseSound'
  BY DEF Base, TypeOK, PhaseSound, TimerWorkPending, Stopped
<1> QED BY <1>1, <1>2, <1>3 DEF Base

\* It begins a turn.
LEMMA BeginTurnBase == ASSUME Base, BeginTurn PROVE Base'
<1>1. TypeOK'
  BY Numbers DEF Base, TypeOK, MaybeRequest, BeginTurn
<1>2. WorkersSound'
  BY DEF Base, TypeOK, WorkersSound, Dom, BeginTurn
<1>3. PhaseSound'
  BY DEF Base, TypeOK, PhaseSound, BeginTurn
<1> QED BY <1>1, <1>2, <1>3 DEF Base

\* A turn fails.
LEMMA OnceFailsBase == ASSUME Base, OnceFails PROVE Base'
<1>1. TypeOK'
  BY DEF Base, TypeOK, OnceFails, OnceAborts
<1>2. WorkersSound'
  BY DEF Base, TypeOK, WorkersSound, Dom, OnceFails
<1>3. PhaseSound'
  BY DEF Base, TypeOK, PhaseSound, OnceFails, OnceAborts, Stopped
<1> QED BY <1>1, <1>2, <1>3 DEF Base

\* A domain used up its budget.
LEMMA DrainYieldsBase == ASSUME Base, DrainYields PROVE Base'
<1>1. TypeOK'
  BY Numbers DEF Base, TypeOK, DrainYields, NextDomain, Renotify, Increment
<1>2. WorkersSound'
  BY DEF Base, TypeOK, WorkersSound, Dom, DrainYields
<1>3. PhaseSound'
  BY DEF Base, TypeOK, PhaseSound, DrainYields, NextDomain, Stopped
<1> QED BY <1>1, <1>2, <1>3 DEF Base

\* A queue is empty.
LEMMA DrainEmptyBase == ASSUME Base, DrainEmpty PROVE Base'
<1>1. TypeOK'
  BY Numbers DEF Base, TypeOK, DrainEmpty, NextDomain
<1>2. WorkersSound'
  BY DEF Base, TypeOK, WorkersSound, Dom, DrainEmpty
<1>3. PhaseSound'
  BY DEF Base, TypeOK, PhaseSound, DrainEmpty, NextDomain, Stopped
<1> QED BY <1>1, <1>2, <1>3 DEF Base

\* The reactor takes a completion in hand.
LEMMA DrainPopBase == ASSUME Base, DrainPop PROVE Base'
<1>1. TypeOK'
  <2>0. Current \in DomainSet
    BY CurrentDomain DEF Base, TypeOK
  <2>1. /\ Head(queue[Current]) \in Requests /\ Tail(queue[Current]) \in Seq(Requests)
        /\ Len(Tail(queue[Current])) <= Capacity
    BY <2>0, Numbers, HeadTailProperties, LenProperties DEF DrainPop, Base, TypeOK
  <2>2. held' \in [DomainSet -> MaybeRequest]
    BY <2>0, <2>1 DEF DrainPop, MaybeRequest, Base, TypeOK
  <2>3. queue' \in [DomainSet -> Seq(Requests)] /\ \A d \in DomainSet : Len(queue'[d]) <= Capacity
    BY <2>0, <2>1 DEF DrainPop, Base, TypeOK
  <2>4. wpc' \in [Workers -> Points]
    BY DEF DrainPop, WakeOne, Sleepers, WorkerGoes, Points, Base, TypeOK
  <2>5. /\ rpc' \in {"drain", "after", "stop"} /\ rc' \in {"OK", "INTERNAL"}
        /\ cleanupResult' \in {"OK", "INTERNAL"}
    BY DEF DrainPop, OnceAborts, Base, TypeOK
  <2> QED BY <2>2, <2>3, <2>4, <2>5 DEF DrainPop, Points, Base, TypeOK
<1>2. WorkersSound'
  BY Numbers DEF Base, TypeOK, WorkersSound, Dom, DrainPop, WorkerGoes, WakeOne, Sleepers
<1>3. PhaseSound'
  BY DEF Base, TypeOK, PhaseSound, DrainPop, WakeOne, Sleepers, OnceAborts, Stopped
<1> QED BY <1>1, <1>2, <1>3 DEF Base

\* It settles the completion in hand.
LEMMA DrainFinishBase == ASSUME Base, DrainFinish PROVE Base'
<1>1. TypeOK'
  BY Numbers, CurrentDomain DEF Base, TypeOK, MaybeRequest, DrainFinish, MustRenotify
<1>2. WorkersSound'
  BY DEF Base, TypeOK, WorkersSound, Dom, DrainFinish
<1>3. PhaseSound'
  BY DEF Base, TypeOK, PhaseSound, DrainFinish
<1> QED BY <1>1, <1>2, <1>3 DEF Base

\* The completion in hand has to wait.
LEMMA DrainBlockedBase == ASSUME Base, DrainBlocked PROVE Base'
<1>1. TypeOK'
  BY Numbers DEF Base, TypeOK, DrainBlocked, NextDomain
<1>2. WorkersSound'
  BY DEF Base, TypeOK, WorkersSound, Dom, DrainBlocked
<1>3. PhaseSound'
  BY DEF Base, TypeOK, PhaseSound, DrainBlocked, NextDomain, Stopped
<1> QED BY <1>1, <1>2, <1>3 DEF Base

\* The reactor accepts a request.
LEMMA SubmitBase == ASSUME Base, NEW r \in Requests, Submit(r) PROVE Base'
<1>1. TypeOK'
  BY Numbers DEF Base, TypeOK, Submit
<1>2. WorkersSound'
  BY DEF Base, TypeOK, WorkersSound, Dom, Submit
<1>3. PhaseSound'
  BY DEF Base, TypeOK, PhaseSound, Submit
<1> QED BY <1>1, <1>2, <1>3 DEF Base

\* A client goes away.
LEMMA CloseClientBase == ASSUME Base, NEW r \in Requests, CloseClient(r) PROVE Base'
<1>1. TypeOK'
  BY DEF Base, TypeOK, PhaseSound, CloseClient
<1>2. WorkersSound'
  BY DEF Base, TypeOK, WorkersSound, Dom, CloseClient
<1>3. PhaseSound'
  BY DEF Base, TypeOK, PhaseSound, CloseClient
<1> QED BY <1>1, <1>2, <1>3 DEF Base

\* The reactor wakes.
LEMMA PollReturnsBase == ASSUME Base, PollReturns PROVE Base'
<1>1. TypeOK'
  BY DEF Base, TypeOK, PhaseSound, PollReturns
<1>2. WorkersSound'
  BY DEF Base, TypeOK, WorkersSound, Dom, PollReturns
<1>3. PhaseSound'
  BY DEF Base, TypeOK, PhaseSound, PollReturns
<1> QED BY <1>1, <1>2, <1>3 DEF Base

\* The stop begins.
LEMMA BeginStopBase == ASSUME Base, BeginStop PROVE Base'
<1>1. TypeOK'
  BY Numbers DEF Base, TypeOK, BeginStop
<1>2. WorkersSound'
  BY DEF Base, TypeOK, WorkersSound, Dom, BeginStop
<1>3. PhaseSound'
  BY Numbers DEF Base, TypeOK, PhaseSound, BeginStop
<1> QED BY <1>1, <1>2, <1>3 DEF Base

\* The task queue is closed.
LEMMA CloseTasksBase == ASSUME Base, CloseTasks PROVE Base'
<1>1. TypeOK'
  <2>1. tasksClosed' \in BOOLEAN /\ rpc' \in {"close", "fatal"} /\ closeAt' = 1
    BY DEF CloseTasks, Base, TypeOK
  <2>2. 1 \in 0 .. Len(Domains) + 1
    BY Numbers
  <2> QED BY <2>1, <2>2 DEF CloseTasks, Base, TypeOK
<1>2. WorkersSound'
  BY DEF Base, TypeOK, WorkersSound, Dom, CloseTasks
<1>3. PhaseSound'
  BY DEF Base, TypeOK, PhaseSound, CloseTasks
<1> QED BY <1>1, <1>2, <1>3 DEF Base

\* A completion queue is closed, or found busy.
LEMMA CloseDomainBase == ASSUME Base, CloseDomain PROVE Base'
<1>0. Domains[closeAt] \in DomainSet
  BY DomainAt DEF CloseDomain
<1>1. TypeOK'
  <2>1. closed' \in [DomainSet -> BOOLEAN]
    BY <1>0 DEF CloseDomain, Base, TypeOK
  <2>2. wpc' \in [Workers -> Points] /\ rpc' \in {"close", "fatal"}
    BY DEF CloseDomain, Sleepers, Points, Base, TypeOK
  <2>3. closeAt' \in 0 .. Len(Domains) + 1
    BY Numbers DEF CloseDomain
  <2> QED BY <2>1, <2>2, <2>3 DEF CloseDomain, Points, Base, TypeOK
<1>2. WorkersSound'
  <2>1. \A w \in Workers : wpc'[w] = wpc[w] \/ (wpc[w] = "wait" /\ wpc'[w] = "relock")
    BY DEF CloseDomain, Sleepers, Base, TypeOK
  <2>2. wreq' = wreq /\ wbits' = wbits /\ mutex' = mutex
    BY DEF CloseDomain
  <2> QED BY <2>1, <2>2 DEF Base, WorkersSound, Dom
<1>3. PhaseSound'
  BY DEF Base, TypeOK, PhaseSound, CloseDomain, Sleepers
<1> QED BY <1>1, <1>2, <1>3 DEF Base

\* A round of closing ends.
LEMMA CloseRoundEndsBase == ASSUME Base, CloseRoundEnds PROVE Base'
<1>1. TypeOK'
  BY DEF Base, TypeOK, PhaseSound, CloseRoundEnds
<1>2. WorkersSound'
  BY DEF Base, TypeOK, WorkersSound, Dom, CloseRoundEnds
<1>3. PhaseSound'
  BY DEF Base, TypeOK, PhaseSound, CloseRoundEnds
<1> QED BY <1>1, <1>2, <1>3 DEF Base

\* A turn between two rounds ends.
LEMMA CloseTurnEndsBase == ASSUME Base, CloseTurnEnds PROVE Base'
<1>1. TypeOK'
  BY Numbers DEF Base, TypeOK, PhaseSound, CloseTurnEnds
<1>2. WorkersSound'
  BY DEF Base, TypeOK, WorkersSound, Dom, CloseTurnEnds
<1>3. PhaseSound'
  BY DEF Base, TypeOK, PhaseSound, CloseTurnEnds
<1> QED BY <1>1, <1>2, <1>3 DEF Base

\* The workers are joined.
LEMMA JoinBase == ASSUME Base, Join PROVE Base'
<1>1. TypeOK'
  BY Numbers DEF Base, TypeOK, Join
<1>2. WorkersSound'
  BY DEF Base, TypeOK, WorkersSound, Join
<1>3. PhaseSound'
  BY Numbers DEF Base, TypeOK, PhaseSound, Join
<1> QED BY <1>1, <1>2, <1>3 DEF Base

\* A turn of the final loop ends.
LEMMA FinalTurnEndsBase == ASSUME Base, FinalTurnEnds PROVE Base'
<1>1. TypeOK'
  BY Numbers DEF Base, TypeOK, PhaseSound, FinalTurnEnds
<1>2. WorkersSound'
  BY DEF Base, TypeOK, WorkersSound, Dom, FinalTurnEnds
<1>3. PhaseSound'
  BY DEF Base, TypeOK, PhaseSound, FinalTurnEnds
<1> QED BY <1>1, <1>2, <1>3 DEF Base

\* The first state.
LEMMA BaseInit == Init => Base
<1> SUFFICES ASSUME Init PROVE Base
  OBVIOUS
<1>1. TypeOK
  <2>1. NoFaults \in [DomainSet -> SUBSET Bits]
    BY DEF NoFaults
  <2>2. /\ queue \in [DomainSet -> Seq(Requests)] /\ tasks \in Seq(Requests)
        /\ Len(tasks) <= TaskCapacity /\ \A d \in DomainSet : Len(queue[d]) <= Capacity
    BY EmptySeq, Numbers DEF Init
  <2>3. /\ 0 \in 0 .. NotifierMax /\ 0 \in 0 .. Len(Domains) - 1 /\ 0 \in 0 .. Budget
        /\ 0 \in 0 .. Len(Domains) + 1 /\ 0 \in 0 .. CleanupAttempts
    BY Numbers
  <2> QED BY <2>1, <2>2, <2>3 DEF Init, TypeOK, MaybeRequest
<1>2. WorkersSound
  BY IdentityAssumption DEF Init, WorkersSound
<1>3. PhaseSound
  BY Numbers DEF Init, PhaseSound
<1> QED BY <1>1, <1>2, <1>3 DEF Base

\* Every step.
LEMMA BaseNext == Base /\ [Next]_vars => Base'
<1> SUFFICES ASSUME Base, [Next]_vars PROVE Base'
  OBVIOUS
<1>1. ASSUME NEW w \in Workers, TakeTask(w) PROVE Base'
  BY <1>1, TakeTaskBase
<1>2. ASSUME NEW w \in Workers, Execute(w) PROVE Base'
  BY <1>2, ExecuteBase
<1>3. ASSUME NEW w \in Workers, WaitPushLock(w) PROVE Base'
  BY <1>3, WaitPushLockBase
<1>4. ASSUME NEW w \in Workers, WaitPushSleep(w) PROVE Base'
  BY <1>4, WaitPushSleepBase
<1>5. ASSUME NEW w \in Workers, WaitPushReturn(w) PROVE Base'
  BY <1>5, WaitPushReturnBase
<1>6. ASSUME NEW w \in Workers, SpuriousWakeup(w) PROVE Base'
  BY <1>6, SpuriousWakeupBase
<1>7. ASSUME NEW w \in Workers, Notify(w) PROVE Base'
  BY <1>7, NotifyBase
<1>8. ASSUME NEW w \in Workers, Settle(w) PROVE Base'
  BY <1>8, SettleBase
<1>9. ASSUME NEW r \in Requests, Submit(r) PROVE Base'
  BY <1>9, SubmitBase
<1>10. ASSUME NEW r \in Requests, CloseClient(r) PROVE Base'
  BY <1>10, CloseClientBase
<1>11. CASE Reactor
  BY <1>11, SampleBase, TimerWorkPendingBase, BeginTurnBase, OnceFailsBase, DrainYieldsBase,
     DrainEmptyBase, DrainPopBase, DrainFinishBase, DrainBlockedBase, PollReturnsBase,
     BeginStopBase, CloseTasksBase, CloseDomainBase, CloseRoundEndsBase, CloseTurnEndsBase,
     JoinBase, FinalTurnEndsBase
     DEF Reactor
<1>12. CASE TimerWorkPending \/ OnceFails
  BY <1>12, TimerWorkPendingBase, OnceFailsBase
<1>13. CASE UNCHANGED vars
  BY <1>13 DEF Base, TypeOK, WorkersSound, PhaseSound, Dom, vars
<1> QED BY <1>1, <1>2, <1>3, <1>4, <1>5, <1>6, <1>7, <1>8, <1>9, <1>10, <1>11, <1>12, <1>13
   DEF Next, Worker, Environment, Terminated

-----------------------------------------------------------------------------
\* The result of r was thrown away.
Dropped(r) == fate[r] = "dropped"

\* Whatever the reactor does, it drops nothing and forgets no fault.
LEMMA ReactorKeepsFaults ==
    ASSUME Base, Reactor \/ Environment
    PROVE  /\ UNCHANGED <<wbits, fault>>
           /\ Stopped => Stopped'
           /\ \A r \in Requests : Dropped(r)' => Dropped(r)
           /\ Ended => Ended'
<1>1. CASE Sample
  BY <1>1 DEF Sample, Dropped, Stopped, Ended, Base, TypeOK
<1>2. CASE TimerWorkPending
  BY <1>2 DEF TimerWorkPending, Dropped, Ended, Base, TypeOK
<1>3. CASE BeginTurn
  BY <1>3 DEF BeginTurn, Dropped, Stopped, Ended, Base, TypeOK
<1>4. CASE OnceFails
  BY <1>4 DEF OnceFails, Dropped, Stopped, Ended, Base, TypeOK
<1>5. CASE DrainYields
  BY <1>5 DEF DrainYields, Dropped, Stopped, Ended, Base, TypeOK
<1>6. CASE DrainEmpty
  BY <1>6 DEF DrainEmpty, Dropped, Stopped, Ended, Base, TypeOK
<1>7. CASE DrainPop
  BY <1>7 DEF DrainPop, Dropped, Stopped, Ended, Base, TypeOK
<1>8. CASE DrainFinish
  BY <1>8 DEF DrainFinish, Dropped, Stopped, Ended, Base, TypeOK
<1>9. CASE DrainBlocked
  BY <1>9 DEF DrainBlocked, Dropped, Stopped, Ended, Base, TypeOK
<1>10. CASE PollReturns
  BY <1>10 DEF PollReturns, Dropped, Stopped, Ended, Base, TypeOK
<1>11. CASE BeginStop
  BY <1>11 DEF BeginStop, Dropped, Stopped, Ended, Base, TypeOK
<1>12. CASE CloseTasks
  BY <1>12 DEF CloseTasks, Dropped, Stopped, Ended, Base, TypeOK
<1>13. CASE CloseDomain
  BY <1>13 DEF CloseDomain, Dropped, Stopped, Ended, Base, TypeOK
<1>14. CASE CloseRoundEnds
  BY <1>14 DEF CloseRoundEnds, Dropped, Stopped, Ended, Base, TypeOK
<1>15. CASE CloseTurnEnds
  BY <1>15 DEF CloseTurnEnds, Dropped, Stopped, Ended, Base, TypeOK
<1>16. CASE Join
  BY <1>16 DEF Join, Dropped, Stopped, Ended, Base, TypeOK
<1>17. CASE FinalTurnEnds
  BY <1>17 DEF FinalTurnEnds, Dropped, Stopped, Ended, Base, TypeOK
<1>18. ASSUME NEW r \in Requests, Submit(r) \/ CloseClient(r)
      PROVE  /\ UNCHANGED <<wbits, fault, phase, rpc>> /\ \A q \in Requests : Dropped(q)' => Dropped(q)
  BY <1>18 DEF Submit, CloseClient, Dropped, Base, TypeOK
<1>19. ASSUME NEW w \in Workers, SpuriousWakeup(w)
       PROVE  UNCHANGED <<wbits, fault, phase, rpc, fate>>
  BY <1>19 DEF SpuriousWakeup
<1> QED BY <1>1, <1>2, <1>3, <1>4, <1>5, <1>6, <1>7, <1>8, <1>9, <1>10, <1>11, <1>12, <1>13,
   <1>14, <1>15, <1>16, <1>17, <1>18, <1>19
   DEF Reactor, Environment, Stopped, Ended, Dropped

\* A worker that drops a result has a bit to latch or found one latched, and
\* settling moves its bits into the fault word of its domain.
LEMMA WorkerNotesLoss ==
    ASSUME Base, NEW w \in Workers, Worker(w)
    PROVE  /\ phase' = phase
           /\ \A d \in DomainSet : fault[d] \subseteq fault'[d]
           /\ \A v \in Workers : wbits[v] # {} => wbits'[v] # {} \/ AnyFault'
           /\ \A r \in Requests : Dropped(r)' => Dropped(r) \/ AnyFault \/ wbits'[w] # {}
<1>1. CASE TakeTask(w)
  BY <1>1 DEF TakeTask, Dropped
<1>2. CASE Execute(w)
  <2>1. wpc[w] = "execute" /\ wbits[w] = {} /\ wreq[w] \in Requests
    BY <1>2, AtWork DEF Execute, IsAt, Base, WorkersSound
  <2>2. \A v \in Workers : v # w => wbits'[v] = wbits[v]
    BY <1>2 DEF Execute, Base, TypeOK
  <2>3. \A r \in Requests : Dropped(r)' => Dropped(r) \/ AnyFault \/ wbits'[w] # {}
    <3>1. \/ AnyFault
          \/ fate' = fate
          \/ \E bits \in {{"OTHER"}, {"OTHER", "PUBLISH"}} : wbits' = [wbits EXCEPT ![w] = bits]
      BY <1>2 DEF Execute
    <3>2. (\E bits \in {{"OTHER"}, {"OTHER", "PUBLISH"}} : wbits' = [wbits EXCEPT ![w] = bits])
            => wbits'[w] # {}
      <4>1. wbits \in [Workers -> SUBSET Bits]
        BY DEF Base, TypeOK
      <4>2. ASSUME NEW bits \in {{"OTHER"}, {"OTHER", "PUBLISH"}},
                   wbits' = [wbits EXCEPT ![w] = bits]
            PROVE  wbits'[w] # {}
        <5>1. wbits'[w] = bits
          BY <4>1, <4>2
        <5>2. "OTHER" \in bits
          OBVIOUS
        <5> QED BY <5>1, <5>2
      <4> QED BY <4>2
    <3> QED BY <3>1, <3>2 DEF Dropped
  <2> QED BY <1>2, <2>1, <2>2, <2>3 DEF Execute
<1>3. CASE WaitPushLock(w)
  BY <1>3 DEF WaitPushLock, Dropped
<1>4. CASE WaitPushSleep(w) \/ WaitPushReturn(w)
  <2>1. wreq[w] \in Requests
    BY <1>4, AtWork DEF WaitPushSleep, WaitPushReturn, IsAt, Base
  <2>2. \/ UNCHANGED <<wbits, fate>>
        \/ /\ wbits' = [wbits EXCEPT ![w] = wbits[w] \cup {"PUBLISH"}]
           /\ fate' = [fate EXCEPT ![wreq[w]] = "dropped"]
    BY <1>4 DEF WaitPushSleep, WaitPushReturn
  <2>3. UNCHANGED <<fault, phase>>
    BY <1>4 DEF WaitPushSleep, WaitPushReturn
  <2> QED BY <2>1, <2>2, <2>3 DEF Dropped, Base, TypeOK
<1>5. CASE Notify(w)
  <2>1. UNCHANGED <<fault, phase, fate>>
        /\ (wbits' = wbits \/ wbits' = [wbits EXCEPT ![w] = wbits[w] \cup {"PUBLISH"}])
    BY <1>5 DEF Notify
  <2> QED BY <2>1 DEF Dropped, Base, TypeOK
<1>6. CASE Settle(w)
  <2>1. Dom(w) \in DomainSet
    BY <1>6, AtWork DEF Settle, IsAt, Base
  <2>2. fault' = [fault EXCEPT ![Dom(w)] = fault[Dom(w)] \cup wbits[w]] /\ UNCHANGED <<phase, fate>>
    BY <1>6 DEF Settle, Latch
  <2>3. \A d \in DomainSet : fault[d] \subseteq fault'[d]
    BY <2>1, <2>2 DEF Base, TypeOK
  <2>4. wbits[w] # {} => AnyFault'
    BY <2>1, <2>2 DEF AnyFault, Base, TypeOK
  <2>5. \A v \in Workers : v # w => wbits'[v] = wbits[v]
    BY <1>6 DEF Settle, Base, TypeOK
  <2> QED BY <2>2, <2>3, <2>4, <2>5 DEF Dropped
<1> QED BY <1>1, <1>2, <1>3, <1>4, <1>5, <1>6 DEF Worker

\* No step loses a result in silence.
LEMMA LossNext == ASSUME Base, NoSilentLoss, [Next]_vars PROVE NoSilentLoss'
<1> SUFFICES ASSUME NEW r \in Requests, Dropped(r)', ~Ended'
             PROVE  Stopped' \/ AnyFault' \/ \E w \in Workers : wbits'[w] # {}
  BY DEF NoSilentLoss, Dropped
<1>1. CASE Reactor \/ Environment
  BY <1>1, ReactorKeepsFaults DEF NoSilentLoss, Dropped, AnyFault
<1>2. ASSUME NEW w \in Workers, Worker(w)
      PROVE  Stopped' \/ AnyFault' \/ \E v \in Workers : wbits'[v] # {}
  <2>1. ~Ended
    BY <1>2
       DEF Worker, TakeTask, Execute, WaitPushLock, WaitPushSleep, WaitPushReturn, Notify,
           Settle, IsAt
  <2>2. AnyFault => AnyFault'
    BY <1>2, WorkerNotesLoss DEF AnyFault
  <2>3. CASE Dropped(r)
    BY <1>2, <2>1, <2>2, <2>3, WorkerNotesLoss DEF NoSilentLoss, Dropped, Stopped
  <2>4. CASE ~Dropped(r)
    BY <1>2, <2>2, <2>4, WorkerNotesLoss
  <2> QED BY <2>3, <2>4
<1>3. CASE UNCHANGED vars
  BY <1>3 DEF NoSilentLoss, Dropped, Ended, Stopped, AnyFault, vars
<1> QED BY <1>1, <1>2, <1>3 DEF Next, Terminated

-----------------------------------------------------------------------------
\* A turn visits every domain, and domains only.
LEMMA VisitedDomain ==
    ASSUME cursor \in 0 .. Len(Domains) - 1
    PROVE  /\ \A k \in 0 .. Len(Domains) - 1 : Visited(k) \in DomainSet
           /\ \A d \in DomainSet : \E k \in 0 .. Len(Domains) - 1 : Visited(k) = d
<1>1. ASSUME NEW k \in 0 .. Len(Domains) - 1 PROVE Visited(k) \in DomainSet
  <2>1. cursor + k \in Nat
    BY Numbers
  <2>2. (cursor + k) % Len(Domains) \in 0 .. Len(Domains) - 1
    BY <2>1, Numbers, Mod
  <2> QED BY <2>2, Numbers, DomainAt DEF Visited
<1>2. ASSUME NEW d \in DomainSet PROVE \E k \in 0 .. Len(Domains) - 1 : Visited(k) = d
  <2>1. PICK i \in 1 .. Len(Domains) : Domains[i] = d
    BY DomainAt
  <2> DEFINE k == IF cursor <= i - 1 THEN i - 1 - cursor ELSE i - 1 - cursor + Len(Domains)
  <2>2. /\ k \in 0 .. Len(Domains) - 1 /\ cursor + k \in Nat
        /\ cursor + k = i - 1 \/ cursor + k = i - 1 + Len(Domains)
    BY Numbers
  <2> HIDE DEF k
  <2>3. (cursor + k) % Len(Domains) = i - 1
    <3>1. i - 1 < Len(Domains) /\ i - 1 \in Nat
      BY Numbers
    <3>2. (i - 1) % Len(Domains) = i - 1
      BY <3>1, Numbers, Mod
    <3>3. (i - 1 + Len(Domains)) % Len(Domains) = i - 1 + Len(Domains) - Len(Domains)
      BY <3>1, Numbers, Mod
    <3> QED BY <2>2, <3>1, <3>2, <3>3, Numbers
  <2>4. Visited(k) = d
    <3>1. 1 + (i - 1) = i
      OBVIOUS
    <3> QED BY <2>1, <2>3, <3>1 DEF Visited
  <2> QED BY <2>2, <2>4
<1> QED BY <1>1, <1>2

\* A worker leaves its mark before the completion it pushed can be missed, and
\* takes no mark away without leaving another.
LEMMA WorkerKeepsQuiet ==
    ASSUME Base, NEW w \in Workers, Worker(w), NEW d \in DomainSet, Quiet(d)
    PROVE  Quiet(d)'
<1> DEFINE Mark(v) == wreq[v] # NoRequest /\ Dom(v) = d /\ (wpc[v] = "notify" \/ "PUBLISH" \in wbits[v])
<1>0. held' = held
  BY DEF Worker, TakeTask, Execute, WaitPushLock, WaitPushSleep, WaitPushReturn, Notify, Settle
<1>1. \A v \in Workers : v # w => wpc'[v] = wpc[v] /\ wreq'[v] = wreq[v] /\ wbits'[v] = wbits[v]
  BY DEF Worker, TakeTask, Execute, WaitPushLock, WaitPushSleep, WaitPushReturn, Notify, Settle,
         WorkerGoes, Base, TypeOK
<1>2. \A v \in Workers : v # w /\ Mark(v) => Mark(v)'
  BY <1>1 DEF Dom
<1>3. "PUBLISH" \in fault[d] => "PUBLISH" \in fault'[d]
  BY WorkerNotesLoss
<1>4. notifier > 0 => notifier' > 0
  BY DEF Worker, TakeTask, Execute, WaitPushLock, WaitPushSleep, WaitPushReturn, Notify, Settle,
         Increment, Base, TypeOK
<1>5. Mark(w) => notifier' > 0 \/ "PUBLISH" \in fault'[d] \/ Mark(w)'
  <2> SUFFICES ASSUME Mark(w) PROVE notifier' > 0 \/ "PUBLISH" \in fault'[d] \/ Mark(w)'
    OBVIOUS
  <2>1. CASE TakeTask(w) \/ Execute(w)
    BY <2>1 DEF TakeTask, Execute, IsAt, Base, WorkersSound
  <2>2. CASE WaitPushLock(w) \/ WaitPushSleep(w) \/ WaitPushReturn(w)
    <3>1. wpc[w] # "notify" /\ wreq' = wreq /\ wbits[w] \subseteq wbits'[w]
      BY <2>2 DEF WaitPushLock, WaitPushSleep, WaitPushReturn, IsAt, Base, TypeOK
    <3> QED BY <3>1 DEF Dom
  <2>3. CASE Notify(w)
    <3>1. wreq' = wreq /\ (notifier' = Increment(notifier) \/ "PUBLISH" \in wbits'[w])
      BY <2>3 DEF Notify, Base, TypeOK
    <3>2. Increment(notifier) > 0
      BY Numbers DEF Increment, Base, TypeOK
    <3> QED BY <3>1, <3>2 DEF Dom
  <2>4. CASE Settle(w)
    <3>1. wpc[w] = "settle" /\ Dom(w) = d /\ "PUBLISH" \in wbits[w]
      BY <2>4 DEF Settle, IsAt
    <3>2. fault' = [fault EXCEPT ![d] = fault[d] \cup wbits[w]]
      BY <2>4, <3>1 DEF Settle, Latch
    <3> QED BY <3>1, <3>2 DEF Base, TypeOK
  <2> QED BY <2>1, <2>2, <2>3, <2>4 DEF Worker
<1>6. Marked(d) => Marked(d)'
  BY <1>2, <1>3, <1>4, <1>5 DEF Marked
<1>7. queue'[d] = queue[d] \/ Mark(w)'
  <2>1. CASE WaitPushReturn(w)
    <3>1. wreq[w] # NoRequest /\ wreq' = wreq /\ Dom(w) \in DomainSet
      BY <2>1, AtWork DEF WaitPushReturn, IsAt, Base
    <3>2. CASE queue' = queue
      BY <3>2
    <3>3. CASE queue' = [queue EXCEPT ![Dom(w)] = Append(queue[Dom(w)], wreq[w])]
               /\ wpc' = [wpc EXCEPT ![w] = "notify"]
      BY <3>1, <3>3 DEF Dom, Base, TypeOK
    <3> QED BY <2>1, <3>2, <3>3 DEF WaitPushReturn, WorkerGoes
  <2>2. CASE ~WaitPushReturn(w)
    BY <2>2 DEF Worker, TakeTask, Execute, WaitPushLock, WaitPushSleep, Notify, Settle
  <2> QED BY <2>1, <2>2
<1>8. Mark(w)' => Marked(d)'
  BY DEF Marked
<1> QED BY <1>0, <1>6, <1>7, <1>8 DEF Quiet

\* The turn goes on to the next domain, or is over with every domain quiet.
LEMMA QuietAdvance ==
    ASSUME Base, rpc = "drain", NextDomain, cursor' = cursor,
           \A k \in 0 .. turn : Quiet(Visited(k))'
    PROVE  TurnQuiet'
<1>1. cursor \in 0 .. Len(Domains) - 1 /\ turn \in 0 .. Len(Domains) - 1
  BY DEF Base, TypeOK
<1>2. CASE turn + 1 < Len(Domains)
  <2>1. rpc' = "drain" /\ turn' = turn + 1
    BY <1>2 DEF NextDomain
  <2>2. 0 .. turn' - 1 = 0 .. turn
    BY <1>1, <2>1
  <2> QED BY <2>1, <2>2 DEF TurnQuiet
<1>3. CASE ~(turn + 1 < Len(Domains))
  <2>1. rpc' # "drain" /\ turn = Len(Domains) - 1
    BY <1>1, <1>3, Numbers DEF NextDomain
  <2>2. \A d \in DomainSet : \E k \in 0 .. turn : Visited(k)' = d
    BY <1>1, <2>1, VisitedDomain DEF Visited
  <2>3. \A d \in DomainSet : Quiet(d)'
    BY <2>2 DEF Quiet, Marked, Dom
  <2> QED BY <2>1, <2>3 DEF TurnQuiet
<1> QED BY <1>2, <1>3

\* A step that leaves the turn where it is and the other domains quiet.
LEMMA QuietFrame ==
    ASSUME Base, TurnQuiet, rpc' = rpc, cursor' = cursor, turn' = turn,
           \A d \in DomainSet : Quiet(d) /\ (rpc = "drain" => d # Current) => Quiet(d)'
    PROVE  TurnQuiet'
<1>1. cursor \in 0 .. Len(Domains) - 1 /\ turn \in 0 .. Len(Domains) - 1
  BY DEF Base, TypeOK
<1>2. \A k \in 0 .. turn - 1 : Visited(k) \in DomainSet /\ Visited(k)' = Visited(k)
  <2>1. 0 .. turn - 1 \subseteq 0 .. Len(Domains) - 1
    BY <1>1, Numbers
  <2> QED BY <1>1, <2>1, VisitedDomain DEF Visited
<1>3. Current' = Current
  BY DEF Current
<1>4. ASSUME rpc = "drain", NEW k \in 0 .. turn - 1, Visited(k) # Current
      PROVE  Quiet(Visited(k))'
  <2>1. Quiet(Visited(k))
    BY <1>4 DEF TurnQuiet
  <2>2. PICK d \in DomainSet : d = Visited(k) /\ d = Visited(k)'
    BY <1>2, <1>4
  <2>3. Quiet(d)'
    BY <1>4, <2>1, <2>2
  <2> QED BY <2>2, <2>3 DEF Quiet, Marked
<1>5. rpc = "poll" => \A d \in DomainSet : Quiet(d)'
  BY DEF TurnQuiet
<1> QED BY <1>2, <1>3, <1>4, <1>5 DEF TurnQuiet

\* No step leaves an unmarked completion behind the turn.
LEMMA QuietNext == ASSUME Base, TurnQuiet, [Next]_vars PROVE TurnQuiet'
<1>1. CASE Sample \/ TimerWorkPending \/ OnceFails \/ PollReturns \/ BeginStop \/ CloseTasks
           \/ CloseDomain \/ CloseRoundEnds \/ CloseTurnEnds \/ Join \/ FinalTurnEnds
  <2>1. rpc' \notin {"drain", "poll"}
    BY <1>1
       DEF Sample, TimerWorkPending, OnceFails, OnceAborts, PollReturns, BeginStop, CloseTasks,
           CloseDomain, CloseRoundEnds, CloseTurnEnds, Join, FinalTurnEnds
  <2> QED BY <2>1 DEF TurnQuiet
<1>2. CASE BeginTurn
  <2>1. rpc' = "drain" /\ turn' = 0
    BY <1>2 DEF BeginTurn
  <2> QED BY <2>1 DEF TurnQuiet
<1>3. CASE DrainYields
  <2>1. notifier' > 0
    BY <1>3, Numbers DEF DrainYields, Renotify, Increment, Base, TypeOK
  <2>2. \A k \in 0 .. turn : Quiet(Visited(k))'
    BY <2>1 DEF Quiet, Marked
  <2> QED BY <1>3, <2>2, QuietAdvance DEF DrainYields
<1>4. CASE DrainEmpty \/ DrainBlocked
  <2>1. /\ rpc = "drain" /\ NextDomain /\ cursor' = cursor
        /\ queue' = queue /\ held' = held /\ notifier' = notifier /\ fault' = fault
        /\ wpc' = wpc /\ wreq' = wreq /\ wbits' = wbits
        /\ queue[Current] = <<>> \/ held[Current] # NoRequest
    BY <1>4 DEF DrainEmpty, DrainBlocked
  <2>2. ASSUME NEW k \in 0 .. turn PROVE Quiet(Visited(k))'
    <3>1. Quiet(Visited(k))
      <4>1. CASE Visited(k) = Current
        BY <2>1, <4>1 DEF Quiet
      <4>2. CASE Visited(k) # Current
        <5>1. k # turn
          BY <4>2 DEF Visited, Current
        <5>2. k \in 0 .. turn - 1
          BY <5>1 DEF Base, TypeOK
        <5> QED BY <2>1, <4>2, <5>2 DEF TurnQuiet
      <4> QED BY <4>1, <4>2
    <3> QED BY <2>1, <3>1 DEF Quiet, Marked, Visited, Dom
  <2> QED BY <2>1, <2>2, QuietAdvance
<1>5. CASE DrainPop \/ DrainFinish
  <2>1. Current \in DomainSet
    BY CurrentDomain DEF Base, TypeOK
  <2>2. /\ rpc = "drain" /\ cursor' = cursor /\ turn' = turn /\ notifier' = notifier /\ fault' = fault
        /\ wreq' = wreq /\ wbits' = wbits
        /\ \A d \in DomainSet : d # Current => queue'[d] = queue[d] /\ held'[d] = held[d]
        /\ \A w \in Workers : wpc[w] = "notify" => wpc'[w] = "notify"
    BY <1>5, <2>1 DEF DrainPop, DrainFinish, WakeOne, Sleepers, WorkerGoes, Base, TypeOK
  <2>3. \A d \in DomainSet : Quiet(d) /\ d # Current => Quiet(d)'
    BY <2>2 DEF Quiet, Marked, Dom
  <2>4. rpc' = "drain" \/ rpc' \in {"after", "stop"}
    BY <1>5 DEF DrainPop, DrainFinish, OnceAborts
  <2>5. CASE rpc' = "drain"
    BY <2>2, <2>3, <2>5, QuietFrame
  <2> QED BY <2>4, <2>5 DEF TurnQuiet
<1>6. ASSUME NEW r \in Requests, Submit(r) \/ CloseClient(r) PROVE TurnQuiet'
  <2>1. UNCHANGED <<rpc, cursor, turn, queue, held, notifier, fault, wpc, wreq, wbits>>
    BY <1>6 DEF Submit, CloseClient
  <2> QED BY <2>1, QuietFrame DEF Quiet, Marked, Dom
<1>7. ASSUME NEW w \in Workers, SpuriousWakeup(w) PROVE TurnQuiet'
  <2>1. /\ UNCHANGED <<rpc, cursor, turn, queue, held, notifier, fault, wreq, wbits>>
        /\ \A v \in Workers : wpc[v] = "notify" => wpc'[v] = "notify"
    BY <1>7 DEF SpuriousWakeup, IsAt, WorkerGoes, Base, TypeOK
  <2> QED BY <2>1, QuietFrame DEF Quiet, Marked, Dom
<1>8. ASSUME NEW w \in Workers, Worker(w) PROVE TurnQuiet'
  <2>1. cursor' = cursor /\ turn' = turn /\ (rpc' = rpc \/ rpc' = "residual")
    BY <1>8
       DEF Worker, TakeTask, Execute, WaitPushLock, WaitPushSleep, WaitPushReturn, Notify,
           Settle
  <2>2. CASE rpc' = rpc
    BY <1>8, <2>1, <2>2, WorkerKeepsQuiet, QuietFrame
  <2>3. CASE rpc' = "residual"
    BY <2>3 DEF TurnQuiet
  <2> QED BY <2>1, <2>2, <2>3
<1>9. CASE UNCHANGED vars
  BY <1>9, QuietFrame DEF Quiet, Marked, Dom, vars
<1> QED BY <1>1, <1>2, <1>3, <1>4, <1>5, <1>6, <1>7, <1>8, <1>9
   DEF Next, Reactor, Environment, Terminated

-----------------------------------------------------------------------------
\* The workers on their way to a slot of the queue of d.
Coming(d) == {w \in Workers : wpc[w] \in {"push", "relock", "check"} /\ Dom(w) = d}

\* No free slot of d is left to sleeping producers only.
Woken(d) == Sleepers(d) # {} => ~closed[d] /\ Capacity - Len(queue[d]) <= Cardinality(Coming(d))

\* ProducersWoken, one domain at a time.
LEMMA WokenByDomain ==
    /\ ProducersWoken <=> (Faults \cap {"signal", "broadcast"} = {} => \A d \in DomainSet : Woken(d))
    /\ ProducersWoken' <=> (Faults \cap {"signal", "broadcast"} = {} => \A d \in DomainSet : Woken(d)')
BY DEF ProducersWoken, Woken, Coming

\* Workers can be counted.
LEMMA ComingFinite ==
    ASSUME NEW T, T \subseteq Workers
    PROVE  IsFiniteSet(T) /\ Cardinality(T) \in Nat
BY IdentityAssumption, FS_Subset, FS_CardinalityType

\* A step that touches neither the queue of d nor the workers of d.
LEMMA WokenFrame ==
    ASSUME Base, NEW d \in DomainSet, Woken(d), closed'[d] = closed[d], queue'[d] = queue[d],
           Sleepers(d)' \subseteq Sleepers(d), Coming(d) \subseteq Coming(d)'
    PROVE  Woken(d)'
<1>1. Coming(d) \subseteq Workers /\ Coming(d)' \subseteq Workers
  BY DEF Coming
<1>2. Cardinality(Coming(d)) <= Cardinality(Coming(d)')
  BY <1>1, ComingFinite, FS_Subset
<1>3. Cardinality(Coming(d)) \in Nat /\ Cardinality(Coming(d)') \in Nat /\ Len(queue[d]) \in Nat
  BY <1>1, ComingFinite, LenProperties DEF Base, TypeOK
<1>4. Cardinality(Coming(d))' = Cardinality(Coming(d)')
  OBVIOUS
<1> QED BY <1>2, <1>3, <1>4, Numbers DEF Woken

\* Every freed slot wakes a producer, every close wakes them all.
LEMMA WokenNext == ASSUME Base, ProducersWoken, [Next]_vars PROVE ProducersWoken'
<1> SUFFICES ASSUME Faults \cap {"signal", "broadcast"} = {}, NEW d \in DomainSet
             PROVE  Woken(d)'
  BY WokenByDomain
<1>0. Woken(d) /\ "signal" \notin Faults /\ "broadcast" \notin Faults
  BY WokenByDomain
<1>1. ASSUME NEW w \in Workers, WaitPushSleep(w) PROVE Woken(d)'
  <2>1. /\ wpc[w] = "check" /\ Dom(w) \in DomainSet
        /\ queue' = queue /\ closed' = closed /\ wreq' = wreq
        /\ Len(queue[Dom(w)]) = Capacity /\ ~closed[Dom(w)]
        /\ \A v \in Workers : v # w => wpc'[v] = wpc[v]
    BY <1>1, AtWork DEF WaitPushSleep, IsAt, WorkerGoes, Base, TypeOK
  <2>2. CASE Dom(w) = d
    <3>1. Cardinality(Coming(d)') \in Nat
      BY ComingFinite DEF Coming
    <3> QED BY <2>1, <2>2, <3>1, Numbers DEF Woken
  <2>3. CASE Dom(w) # d
    BY <1>0, <2>1, <2>3, WokenFrame DEF Sleepers, Coming, Dom
  <2> QED BY <2>2, <2>3
<1>2. ASSUME NEW w \in Workers, WaitPushReturn(w) PROVE Woken(d)'
  <2>1. /\ wpc[w] = "check" /\ wpc'[w] \in {"settle", "notify"} /\ Dom(w) \in DomainSet /\ wreq[w] \in Requests
        /\ closed' = closed /\ wreq' = wreq
        /\ \A v \in Workers : v # w => wpc'[v] = wpc[v]
    BY <1>2, AtWork DEF WaitPushReturn, IsAt, WorkerGoes, Base, TypeOK
  <2>2. CASE Dom(w) # d
    <3>1. queue'[d] = queue[d]
      BY <1>2, <2>1, <2>2 DEF WaitPushReturn, Base, TypeOK
    <3> QED BY <1>0, <2>1, <2>2, <3>1, WokenFrame DEF Sleepers, Coming, Dom
  <2>3. CASE Dom(w) = d /\ closed[d]
    <3>1. Sleepers(d)' \subseteq Sleepers(d)
      BY <2>1 DEF Sleepers, Dom
    <3>2. Sleepers(d) = {}
      BY <1>0, <2>3 DEF Woken
    <3> QED BY <3>1, <3>2 DEF Woken
  <2>4. CASE Dom(w) = d /\ ~closed[d]
    <3>1. queue'[d] = Append(queue[d], wreq[w])
      BY <1>2, <2>1, <2>4 DEF WaitPushReturn, Base, TypeOK
    <3>2. Len(queue'[d]) = Len(queue[d]) + 1 /\ Len(queue[d]) \in Nat
      BY <2>1, <3>1, AppendProperties, LenProperties DEF Base, TypeOK
    <3>3. w \in Coming(d) /\ Coming(d)' = Coming(d) \ {w}
      BY <2>1, <2>4 DEF Coming, Dom
    <3>4. Cardinality(Coming(d)') = Cardinality(Coming(d)) - 1 /\ Cardinality(Coming(d)) \in Nat
      <4>1. IsFiniteSet(Coming(d)) /\ Cardinality(Coming(d)) \in Nat
        BY ComingFinite DEF Coming
      <4> HIDE DEF Coming
      <4> QED BY <3>3, <4>1, FS_RemoveElement
    <3>5. Sleepers(d)' \subseteq Sleepers(d)
      BY <2>1 DEF Sleepers, Dom
    <3> QED BY <1>0, <2>1, <2>4, <3>2, <3>4, <3>5, Numbers DEF Woken
  <2> QED BY <2>2, <2>3, <2>4
<1>3. ASSUME NEW w \in Workers,
             TakeTask(w) \/ Execute(w) \/ WaitPushLock(w) \/ Notify(w) \/ Settle(w) \/ SpuriousWakeup(w)
      PROVE  Woken(d)'
  <2>1. queue' = queue /\ closed' = closed
    BY <1>3 DEF TakeTask, Execute, WaitPushLock, Notify, Settle, SpuriousWakeup
  <2>2. \A v \in Workers : v # w => wpc'[v] = wpc[v] /\ wreq'[v] = wreq[v]
    BY <1>3
       DEF TakeTask, Execute, WaitPushLock, Notify, Settle, SpuriousWakeup, WorkerGoes, Base,
           TypeOK
  <2>3. /\ wpc'[w] # "wait"
        /\ wpc[w] \in {"push", "relock", "check"} =>
             wpc'[w] \in {"push", "relock", "check"} /\ wreq'[w] = wreq[w]
    BY <1>3
       DEF TakeTask, Execute, WaitPushLock, Notify, Settle, SpuriousWakeup, WorkerGoes, IsAt,
           Base, TypeOK
  <2> QED BY <1>0, <2>1, <2>2, <2>3, WokenFrame DEF Sleepers, Coming, Dom
<1>4. CASE DrainPop
  <2>1. /\ Current \in DomainSet /\ queue[Current] # <<>> /\ closed' = closed /\ wreq' = wreq
        /\ queue' = [queue EXCEPT ![Current] = Tail(queue[Current])] /\ WakeOne(Current)
    BY <1>0, <1>4, CurrentDomain DEF DrainPop, Base, TypeOK
  <2>2. CASE Sleepers(Current) = {}
    <3>1. wpc' = wpc
      BY <2>1, <2>2 DEF WakeOne
    <3>2. CASE d = Current
      BY <2>1, <2>2, <3>1, <3>2 DEF Woken, Sleepers, Dom
    <3>3. CASE d # Current
      BY <1>0, <2>1, <3>1, <3>3, WokenFrame DEF Sleepers, Coming, Dom, Base, TypeOK
    <3> QED BY <3>2, <3>3
  <2>3. CASE Sleepers(Current) # {}
    <3>1. PICK w \in Sleepers(Current) : wpc' = [wpc EXCEPT ![w] = "relock"]
      BY <2>1, <2>3 DEF WakeOne, WorkerGoes
    <3>2. w \in Workers /\ wpc[w] = "wait" /\ Dom(w) = Current
      BY DEF Sleepers
    <3>3. wpc'[w] = "relock" /\ \A v \in Workers : v # w => wpc'[v] = wpc[v]
      BY <3>1, <3>2 DEF Base, TypeOK
    <3>4. CASE d # Current
      BY <1>0, <2>1, <3>2, <3>3, <3>4, WokenFrame DEF Sleepers, Coming, Dom, Base, TypeOK
    <3>5. CASE d = Current
      <4>1. w \notin Coming(d) /\ Coming(d)' = Coming(d) \cup {w}
        BY <2>1, <3>2, <3>3, <3>5 DEF Coming, Dom
      <4>2. IsFiniteSet(Coming(d)) /\ Cardinality(Coming(d)) \in Nat
        BY ComingFinite DEF Coming
      <4>3. Cardinality(Coming(d)') = Cardinality(Coming(d)) + 1
        BY <4>1, <4>2, FS_AddElement
      <4>4. Len(queue'[d]) = Len(queue[d]) - 1 /\ Len(queue[d]) \in Nat
        BY <2>1, <3>5, HeadTailProperties, LenProperties DEF Base, TypeOK
      <4> QED BY <1>0, <2>1, <2>3, <3>5, <4>2, <4>3, <4>4, Numbers DEF Woken
    <3> QED BY <3>4, <3>5
  <2> QED BY <2>2, <2>3
<1>5. CASE CloseDomain
  <2> DEFINE e == Domains[closeAt]
  <2>1. e \in DomainSet /\ queue' = queue /\ wreq' = wreq
    BY <1>5, DomainAt DEF CloseDomain
  <2>2. CASE UNCHANGED <<closed, wpc>>
    BY <1>0, <2>1, <2>2, WokenFrame DEF Sleepers, Coming, Dom
  <2>3. CASE /\ closed' = [closed EXCEPT ![e] = TRUE]
             /\ wpc' = [w \in Workers |-> IF w \in Sleepers(e) THEN "relock" ELSE wpc[w]]
    <3>1. CASE d = e
      BY <2>1, <2>3, <3>1 DEF Woken, Sleepers, Dom
    <3>2. CASE d # e
      <4>1. closed'[d] = closed[d]
        BY <2>1, <2>3, <3>2 DEF Base, TypeOK
      <4> QED BY <1>0, <2>1, <2>3, <3>2, <4>1, WokenFrame DEF Sleepers, Coming, Dom
    <3> QED BY <3>1, <3>2
  <2> QED BY <1>0, <1>5, <2>2, <2>3 DEF CloseDomain
<1>6. CASE Sample \/ TimerWorkPending \/ BeginTurn \/ OnceFails \/ DrainYields \/ DrainEmpty \/ DrainFinish
           \/ DrainBlocked \/ PollReturns \/ BeginStop \/ CloseTasks \/ CloseRoundEnds \/ CloseTurnEnds
           \/ Join \/ FinalTurnEnds \/ UNCHANGED vars
           \/ \E r \in Requests : Submit(r) \/ CloseClient(r)
  <2>1. queue' = queue /\ closed' = closed /\ wpc' = wpc /\ wreq' = wreq
    BY <1>6
       DEF Sample, TimerWorkPending, BeginTurn, OnceFails, DrainYields, DrainEmpty, DrainFinish,
           DrainBlocked, PollReturns, BeginStop, CloseTasks, CloseRoundEnds, CloseTurnEnds,
           Join, FinalTurnEnds, Submit, CloseClient, vars
  <2> QED BY <1>0, <2>1, WokenFrame DEF Sleepers, Coming, Dom
<1> QED BY <1>1, <1>2, <1>3, <1>4, <1>5, <1>6 DEF Next, Reactor, Environment, Worker, Terminated

-----------------------------------------------------------------------------
\* Arithmetic of the turns left and their budget.
LEMMA Slack ==
    ASSUME Base, rpc \notin {"done", "fatal"}
    PROVE  /\ TurnsLeft \in Nat /\ TurnsLeft * Budget \in Nat
           /\ (TurnsLeft - 1) * Budget = TurnsLeft * Budget - Budget
           /\ (TurnsLeft - 1) * Budget \in Nat
<1>1. TurnsLeft \in Nat /\ TurnsLeft > 0 /\ TurnsLeft - 1 \in Nat
  BY Numbers DEF TurnsLeft, Base, TypeOK, PhaseSound
<1>2. \A a, b \in Nat : a * b \in Nat
  OBVIOUS
<1>3. \A a \in Nat : (a - 1) * Budget = a * Budget - Budget
  BY Numbers
<1> QED BY <1>1, <1>2, <1>3, Numbers

\* The length of a queue is a number.
LEMMA QueueLengths ==
    ASSUME TypeOK PROVE \A d \in DomainSet : Len(queue[d]) \in Nat
BY LenProperties DEF TypeOK

\* One more domain of a final turn is done with.
LEMMA OnTimeAdvance ==
    ASSUME Base, OnTime, phase = "final", rpc = "drain", NextDomain,
           UNCHANGED <<phase, cursor, attempts, queue, held>>,
           held[Current] = NoRequest, Len(queue[Current]) <= (TurnsLeft - 1) * Budget
    PROVE  OnTime'
<1>1. /\ cursor \in 0 .. Len(Domains) - 1 /\ turn \in 0 .. Len(Domains) - 1
      /\ Current \in DomainSet
  BY CurrentDomain DEF Base, TypeOK
<1>2. TurnsLeft' = TurnsLeft /\ \A k \in Nat : Visited(k)' = Visited(k)
  BY DEF TurnsLeft, Visited
<1>3. \A d \in DomainSet : held'[d] = NoRequest /\ Len(queue'[d]) <= TurnsLeft * Budget
  BY DEF OnTime
<1>4. ASSUME NEW k \in 0 .. turn PROVE Len(queue[Visited(k)]) <= (TurnsLeft - 1) * Budget
  <2>1. CASE Visited(k) = Current
    BY <2>1
  <2>2. CASE Visited(k) # Current
    <3>1. k # turn
      BY <2>2 DEF Visited, Current
    <3>2. k \in 0 .. turn - 1
      BY <1>1, <3>1
    <3> QED BY <2>2, <3>2 DEF OnTime
  <2> QED BY <2>1, <2>2
<1>5. CASE turn + 1 < Len(Domains)
  <2>1. rpc' = "drain" /\ turn' = turn + 1 /\ spent' = 0
    BY <1>5 DEF NextDomain
  <2>2. Current' \in DomainSet
    <3>1. cursor' \in 0 .. Len(Domains) - 1 /\ turn' \in 0 .. Len(Domains) - 1
      BY <1>1, <1>5, <2>1
    <3>2. Current' = Visited(turn')
      BY DEF Current, Visited
    <3> QED BY <1>1, <3>1, <3>2, VisitedDomain DEF Visited
  <2>3. Len(queue'[Current']) + 0 + 0 <= TurnsLeft * Budget
    BY <1>3, <2>2, QueueLengths, Slack DEF Base
  <2>4. \A k \in 0 .. turn' - 1 : Len(queue'[Visited(k)']) <= (TurnsLeft - 1) * Budget
    BY <1>1, <1>2, <1>4, <2>1
  <2> QED BY <1>2, <1>3, <2>1, <2>2, <2>3, <2>4 DEF OnTime
<1>6. CASE ~(turn + 1 < Len(Domains))
  <2>1. rpc' = "after" /\ turn = Len(Domains) - 1
    BY <1>1, <1>6, Numbers DEF NextDomain, Stopped
  <2>2. \A d \in DomainSet : Len(queue'[d]) <= (TurnsLeft - 1) * Budget
    BY <1>1, <1>4, <2>1, VisitedDomain
  <2> QED BY <1>2, <1>3, <2>1, <2>2 DEF OnTime
<1> QED BY <1>5, <1>6

\* The final loop stays on time: every turn takes a budget from each queue or
\* empties it, and no worker is left to refill one.
LEMMA OnTimeNext == ASSUME Base, FinalOnTime, [Next]_vars PROVE FinalOnTime'
<1> SUFFICES ASSUME Faults \cap {"once", "signal"} = {}, phase' = "final" PROVE OnTime'
  BY DEF FinalOnTime
<1>1. CASE Join
  <2>1. rpc' = "once" /\ attempts' = 0 /\ queue' = queue
    BY <1>1 DEF Join
  <2>2. TurnsLeft' = CleanupAttempts
    BY <2>1, Numbers DEF TurnsLeft
  <2>3. \A d \in DomainSet : Len(queue'[d]) <= CleanupAttempts * Budget
    <3>1. CleanupAttempts * Budget \in Nat /\ Capacity <= CleanupAttempts * Budget
      BY Numbers, BoundAssumption
    <3> QED BY <2>1, <3>1, QueueLengths, Numbers DEF Base, TypeOK
  <2> QED BY <2>1, <2>2, <2>3 DEF OnTime
<1>2. ASSUME phase = "final", ~UNCHANGED vars
      PROVE  BeginTurn \/ DrainYields \/ DrainEmpty \/ DrainPop \/ DrainFinish \/ DrainBlocked
             \/ FinalTurnEnds
  <2>1. \A w \in Workers : ~Worker(w) /\ ~SpuriousWakeup(w)
    <3>1. \A w \in Workers : wpc[w] = "exited"
      BY <1>2 DEF Base, PhaseSound
    <3> QED BY <3>1
       DEF Worker, TakeTask, Execute, WaitPushLock, WaitPushSleep, WaitPushReturn, Notify,
           Settle, SpuriousWakeup, IsAt
  <2>2. rpc \notin {"sample", "poll", "stop", "close", "join"}
    BY <1>2 DEF Base, PhaseSound
  <2>3. ~OnceFails /\ ~TimerWorkPending /\ ~Terminated
    BY <1>2 DEF OnceFails, TimerWorkPending, Stopped, Terminated
  <2> QED BY <1>2, <2>1, <2>2, <2>3
     DEF Next, Reactor, Environment, Sample, PollReturns, BeginStop, CloseTasks, CloseDomain,
         CloseRoundEnds, CloseTurnEnds, Join, Submit, CloseClient
<1>3. ASSUME phase = "final", OnTime, BeginTurn PROVE OnTime'
  <2>1. /\ rpc = "once" /\ rpc' = "drain" /\ turn' = 0 /\ spent' = 0 /\ queue' = queue
        /\ attempts' = attempts
        /\ \A d \in DomainSet : held'[d] = NoRequest
    BY <1>3 DEF BeginTurn, Discards, Stopped
  <2>2. Current' \in DomainSet
    <3>1. cursor' \in 0 .. Len(Domains) - 1 /\ turn' \in 0 .. Len(Domains) - 1
      BY <1>3, BeginTurnBase DEF Base, TypeOK
    <3>2. cursor' + turn' \in Nat
      <4>1. \A n \in Nat : \A a, b \in 0 .. n - 1 : a + b \in Nat
        OBVIOUS
      <4> QED BY <3>1, <4>1, Numbers
    <3>3. (cursor' + turn') % Len(Domains) \in 0 .. Len(Domains) - 1
      BY <3>2, Numbers, Mod
    <3> QED BY <3>3, Numbers, DomainAt DEF Current
  <2>3. Len(queue'[Current']) + 0 + 0 <= TurnsLeft * Budget
    BY <1>3, <2>1, <2>2, QueueLengths DEF OnTime, Base
  <2>4. TurnsLeft' = TurnsLeft /\ 0 .. turn' - 1 = {}
    BY <2>1 DEF TurnsLeft
  <2>5. \A d \in DomainSet : Len(queue'[d]) <= TurnsLeft * Budget
    BY <1>3, <2>1 DEF OnTime
  <2> QED BY <2>1, <2>2, <2>3, <2>4, <2>5 DEF OnTime
<1>4. ASSUME phase = "final" PROVE \A d \in DomainSet : mutex[d] = Free
  BY <1>4 DEF Base, PhaseSound, WorkersSound, TypeOK
<1>5. Current \in DomainSet /\ spent \in 0 .. Budget
  BY CurrentDomain DEF Base, TypeOK
<1>6. ASSUME phase = "final", OnTime, DrainYields PROVE OnTime'
  <2>1. spent = Budget /\ rpc = "drain" /\ NextDomain
        /\ UNCHANGED <<phase, cursor, attempts, queue, held>>
    BY <1>4, <1>5, <1>6 DEF DrainYields, MustRenotify
  <2>2. held[Current] = NoRequest
    BY <1>5, <1>6, <2>1, Numbers DEF OnTime
  <2>3. Len(queue[Current]) + Budget + 0 <= TurnsLeft * Budget
    BY <1>6, <2>1, <2>2 DEF OnTime
  <2>4. Len(queue[Current]) <= (TurnsLeft - 1) * Budget
    BY <1>5, <2>1, <2>3, Slack, QueueLengths, Numbers DEF Base
  <2> QED BY <1>6, <2>1, <2>2, <2>4, OnTimeAdvance
<1>7. ASSUME phase = "final", OnTime, DrainEmpty PROVE OnTime'
  <2>1. /\ rpc = "drain" /\ NextDomain /\ UNCHANGED <<phase, cursor, attempts, queue, held>>
        /\ held[Current] = NoRequest /\ queue[Current] = <<>>
    BY <1>7 DEF DrainEmpty
  <2>2. Len(queue[Current]) <= (TurnsLeft - 1) * Budget
    BY <2>1, Slack, EmptySeq
  <2> QED BY <1>7, <2>1, <2>2, OnTimeAdvance
<1>8. ASSUME phase = "final", DrainBlocked PROVE FALSE
  BY <1>8 DEF DrainBlocked, Discards, Stopped
<1>9. ASSUME phase = "final", OnTime, DrainPop PROVE OnTime'
  <2>0. "signal" \notin Faults /\ spent # Budget
    BY <1>9 DEF DrainPop, MustRenotify
  <2>a. spent < Budget
    BY <1>5, <2>0, Numbers
  <2>1. /\ rpc = "drain" /\ rpc' = rpc /\ UNCHANGED <<cursor, turn, spent, attempts>>
        /\ spent < Budget /\ held[Current] = NoRequest /\ queue[Current] # <<>>
        /\ held' = [held EXCEPT ![Current] = Head(queue[Current])]
        /\ queue' = [queue EXCEPT ![Current] = Tail(queue[Current])]
    BY <1>5, <1>9, <2>0, <2>a DEF DrainPop
  <2>2. Len(queue'[Current]) = Len(queue[Current]) - 1 /\ Len(queue[Current]) \in Nat
    BY <1>5, <2>1, HeadTailProperties, LenProperties DEF Base, TypeOK
  <2>3. \A d \in DomainSet : d # Current => queue'[d] = queue[d] /\ held'[d] = held[d]
    BY <1>5, <2>1 DEF Base, TypeOK
  <2>4. Current' = Current /\ TurnsLeft' = TurnsLeft /\ \A k \in Nat : Visited(k)' = Visited(k)
    BY <2>1 DEF Current, TurnsLeft, Visited
  <2>5. \A d \in DomainSet : Len(queue'[d]) <= TurnsLeft * Budget
    BY <1>9, <2>1, <2>2, <2>3, Slack DEF OnTime
  <2>6. \A d \in DomainSet : held'[d] # NoRequest => d = Current /\ spent < Budget
    BY <1>9, <2>1, <2>3 DEF OnTime
  <2>7. Len(queue'[Current]) + spent + (IF held'[Current] = NoRequest THEN 0 ELSE 1)
          <= TurnsLeft * Budget
    <3>1. Len(queue[Current]) + spent + 0 <= TurnsLeft * Budget
      BY <1>9, <2>1 DEF OnTime
    <3>2. TurnsLeft * Budget \in Nat
      BY <2>1, Slack
    <3>3. \A x, y, s, m \in Nat : y = x - 1 /\ x + s + 0 <= m => y + s + 0 <= m /\ y + s + 1 <= m
      OBVIOUS
    <3>4. spent \in Nat /\ Len(queue'[Current]) \in Nat
      BY <1>5, <2>1, <2>2, HeadTailProperties, LenProperties DEF Base, TypeOK
    <3> HIDE DEF TurnsLeft
    <3> QED BY <2>2, <3>1, <3>2, <3>3, <3>4
  <2>8. ASSUME NEW k \in 0 .. turn - 1, Visited(k) # Current
        PROVE  Len(queue'[Visited(k)]) <= (TurnsLeft - 1) * Budget
    <3>1. k \in 0 .. Len(Domains) - 1 /\ cursor \in 0 .. Len(Domains) - 1
      BY Numbers DEF Base, TypeOK
    <3>2. Visited(k) \in DomainSet
      BY <3>1, VisitedDomain
    <3> QED BY <1>9, <2>1, <2>3, <2>8, <3>2 DEF OnTime
  <2>9. \A k \in 0 .. turn - 1 : k \in Nat
    OBVIOUS
  <2> QED BY <2>1, <2>4, <2>5, <2>6, <2>7, <2>8, <2>9 DEF OnTime
<1>10. ASSUME phase = "final", OnTime, DrainFinish PROVE OnTime'
  <2>0. spent # Budget
    BY <1>10 DEF DrainFinish, MustRenotify
  <2>a. spent < Budget
    BY <1>5, <2>0, Numbers
  <2>1. /\ rpc = "drain" /\ rpc' = rpc /\ UNCHANGED <<cursor, turn, attempts, queue>>
        /\ spent < Budget /\ held[Current] # NoRequest /\ spent' = spent + 1
        /\ held' = [held EXCEPT ![Current] = NoRequest]
    BY <1>10, <2>a DEF DrainFinish
  <2>2. \A d \in DomainSet : held'[d] = NoRequest
    BY <1>5, <1>10, <2>1 DEF OnTime, Base, TypeOK
  <2>3. Current' = Current /\ TurnsLeft' = TurnsLeft /\ \A k \in Nat : Visited(k)' = Visited(k)
    BY <2>1 DEF Current, TurnsLeft, Visited
  <2>4. Len(queue[Current]) + (spent + 1) + 0 <= TurnsLeft * Budget
    <3>1. Len(queue[Current]) + spent + 1 <= TurnsLeft * Budget
      BY <1>10, <2>1 DEF OnTime
    <3>2. TurnsLeft * Budget \in Nat
      BY <2>1, Slack
    <3>3. \A x, s, m \in Nat : x + s + 1 <= m => x + (s + 1) + 0 <= m
      OBVIOUS
    <3>4. spent \in Nat /\ Len(queue[Current]) \in Nat
      BY <1>5, QueueLengths, Numbers DEF Base
    <3> QED BY <3>1, <3>2, <3>3, <3>4
  <2>5. \A k \in 0 .. turn - 1 : k \in Nat
    OBVIOUS
  <2> QED BY <1>5, <1>10, <2>1, <2>2, <2>3, <2>4, <2>5 DEF OnTime
<1>11. ASSUME phase = "final", OnTime, FinalTurnEnds PROVE OnTime'
  <2>1. /\ rpc = "after" /\ attempts' = attempts + 1 /\ queue' = queue /\ held' = held
        /\ attempts \in Nat /\ attempts < CleanupAttempts
    BY <1>11 DEF FinalTurnEnds, Base, TypeOK, PhaseSound
  <2>2. TurnsLeft' = TurnsLeft - 1
    BY <2>1, Numbers DEF TurnsLeft
  <2>3. \A d \in DomainSet : held[d] = NoRequest /\ Len(queue[d]) <= (TurnsLeft - 1) * Budget
    BY <1>11, <2>1 DEF OnTime
  <2>4. CASE Drained
    BY <1>11, <2>4 DEF FinalTurnEnds, OnTime
  <2>5. CASE ~Drained /\ attempts + 1 < CleanupAttempts
    <3>1. rpc' = "once"
      BY <1>11, <2>1, <2>5 DEF FinalTurnEnds
    <3> QED BY <2>1, <2>2, <2>3, <3>1 DEF OnTime
  <2>6. CASE ~Drained /\ ~(attempts + 1 < CleanupAttempts)
    <3>1. TurnsLeft - 1 = 0
      BY <2>1, <2>6, Numbers DEF TurnsLeft
    <3>2. (TurnsLeft - 1) * Budget = 0
      BY <3>1, Numbers
    <3>3. \A d \in DomainSet : queue[d] = <<>>
      BY <2>3, <3>2, QueueLengths, EmptySeq DEF Base, TypeOK
    <3> QED BY <2>3, <2>6, <3>3 DEF Drained
  <2> QED BY <2>4, <2>5, <2>6
<1>12. ASSUME UNCHANGED vars PROVE OnTime'
  <2>1. OnTime
    BY <1>12 DEF FinalOnTime, vars
  <2> QED BY <1>12, <2>1 DEF OnTime, TurnsLeft, Visited, Current, vars
<1>13. phase = "final" \/ Join \/ UNCHANGED vars
  BY DEF Next, Reactor, Environment, Worker, Sample, TimerWorkPending, BeginTurn, OnceFails,
         DrainYields, DrainEmpty, DrainPop, DrainFinish, DrainBlocked, PollReturns, BeginStop,
         CloseTasks, CloseDomain, CloseRoundEnds, CloseTurnEnds, FinalTurnEnds, Submit,
         CloseClient, TakeTask, Execute, WaitPushLock, WaitPushSleep, WaitPushReturn, Notify,
         Settle, SpuriousWakeup, Terminated
<1> QED BY <1>1, <1>2, <1>3, <1>6, <1>7, <1>8, <1>9, <1>10, <1>11, <1>12, <1>13 DEF FinalOnTime

\* Only a drained service returns.
LEMMA DoneNext == ASSUME Base, DoneDrained, [Next]_vars PROVE DoneDrained'
<1> SUFFICES ASSUME rpc' = "done" PROVE Drained'
  BY DEF DoneDrained
<1>1. FinalTurnEnds \/ UNCHANGED vars
  BY DEF Next, Reactor, Environment, Worker, Sample, TimerWorkPending, BeginTurn, OnceFails,
         OnceAborts, DrainYields, DrainEmpty, DrainPop, DrainFinish, DrainBlocked, NextDomain,
         PollReturns, BeginStop, CloseTasks, CloseDomain, CloseRoundEnds, CloseTurnEnds, Join,
         Submit, CloseClient, TakeTask, Execute, WaitPushLock, WaitPushSleep, WaitPushReturn,
         Notify, Settle, SpuriousWakeup, Terminated, IsAt, Ended
<1>2. CASE FinalTurnEnds
  BY <1>2 DEF FinalTurnEnds, Drained
<1>3. CASE UNCHANGED vars
  BY <1>3 DEF DoneDrained, Drained, vars
<1> QED BY <1>1, <1>2, <1>3

-----------------------------------------------------------------------------
\* Appending a new member.
LEMMA AppendIn ==
    ASSUME NEW S, NEW s \in Seq(S), NEW x \in S, Distinct(s), ~In(x, s)
    PROVE  /\ Distinct(Append(s, x))
           /\ \A r : In(r, Append(s, x)) <=> In(r, s) \/ r = x
<1> DEFINE a == Append(s, x)
           n == Len(s)
<1>1. n \in Nat /\ Len(a) = n + 1 /\ a[n + 1] = x /\ \A i \in 1 .. n : a[i] = s[i]
  BY AppendProperties, LenProperties
<1>2. \A i \in 1 .. n + 1 : i \in 1 .. n \/ i = n + 1
  BY <1>1
<1>3. n + 1 \in 1 .. n + 1 /\ \A i \in 1 .. n : i \in 1 .. n + 1
  BY <1>1
<1> HIDE DEF a, n
<1>4. Distinct(a)
  BY <1>1, <1>2 DEF Distinct, In, n
<1>5. \A r : In(r, a) <=> In(r, s) \/ r = x
  BY <1>1, <1>2, <1>3 DEF In, n
<1> QED BY <1>4, <1>5 DEF a

\* Removing the first member.
LEMMA TailIn ==
    ASSUME NEW S, NEW s \in Seq(S), s # <<>>, Distinct(s)
    PROVE  /\ Distinct(Tail(s)) /\ Head(s) \in S /\ In(Head(s), s)
           /\ \A r : In(r, Tail(s)) <=> In(r, s) /\ r # Head(s)
<1> DEFINE a == Tail(s)
           n == Len(s)
<1>1. /\ n \in Nat /\ n > 0 /\ Len(a) = n - 1 /\ Head(s) = s[1] /\ Head(s) \in S
      /\ \A i \in 1 .. n - 1 : a[i] = s[i + 1]
  BY HeadTailProperties, LenProperties, EmptySeq
<1>2. /\ 1 \in 1 .. n
      /\ \A i \in 1 .. n - 1 : i + 1 \in 1 .. n /\ i + 1 # 1
      /\ \A i \in 1 .. n : i # 1 => i - 1 \in 1 .. n - 1 /\ (i - 1) + 1 = i
      /\ \A i, j \in 1 .. n - 1 : i + 1 = j + 1 => i = j
  BY <1>1
<1> HIDE DEF a, n
<1>3. Distinct(a)
  BY <1>1, <1>2 DEF Distinct, n
<1>4. ASSUME NEW r PROVE In(r, a) <=> In(r, s) /\ r # Head(s)
  <2>1. ASSUME NEW i \in 1 .. n - 1, a[i] = r PROVE In(r, s) /\ r # s[1]
    BY <1>1, <1>2, <2>1 DEF Distinct, In, n
  <2>2. ASSUME NEW i \in 1 .. n, s[i] = r, r # s[1] PROVE In(r, a)
    <3>1. i # 1
      BY <2>2
    <3>2. i - 1 \in 1 .. n - 1 /\ a[i - 1] = s[i]
      BY <1>1, <1>2, <3>1
    <3> QED BY <1>1, <2>2, <3>2 DEF In
  <2> QED BY <1>1, <2>1, <2>2 DEF In, n
<1>5. In(Head(s), s)
  BY <1>1, <1>2 DEF In, n
<1> QED BY <1>1, <1>3, <1>4, <1>5 DEF a

\* At these points a worker owns the completion of its request.
Carrying(w) == wpc[w] \in {"execute", "push", "relock", "check", "wait"}

\* Who carries a request, before and after a step.
LEMMA CarriersDef ==
    /\ \A r : Carriers(r) = {w \in Workers : wreq[w] = r /\ Carrying(w)}
    /\ \A r : Carriers(r)' = {w \in Workers : wreq'[w] = r /\ Carrying(w)'}
BY DEF Carriers, Carrying

\* A step that moves no request.
LEMMA PlacesFrame ==
    ASSUME Base, PlacesSound, UNCHANGED <<tasks, queue, held>>,
           \A w \in Workers : /\ Carrying(w)' <=> Carrying(w)
                              /\ Carrying(w) => wreq'[w] = wreq[w],
           \A r \in Requests : Unsettled(r)' <=> Unsettled(r)
    PROVE  PlacesSound'
<1>1. \A r : Carriers(r)' = Carriers(r)
  BY CarriersDef
<1>2. PlacesTidy'
  BY <1>1 DEF PlacesSound, PlacesTidy
<1>3. ASSUME NEW r \in Requests PROVE OnePlace(r)'
  <2>1. OnePlace(r)
    BY DEF PlacesSound
  <2> QED BY <1>1, <2>1 DEF OnePlace, InTasks, Carried, Queued, Held
<1> QED BY <1>2, <1>3 DEF PlacesSound

\* Worker w lets go of its completion.
LEMMA PlacesDrop ==
    ASSUME Base, PlacesSound, UNCHANGED <<tasks, queue, held>>,
           NEW w \in Workers, Carrying(w), ~Carrying(w)',
           \A v \in Workers : v # w => wpc'[v] = wpc[v] /\ wreq'[v] = wreq[v],
           fate' = [fate EXCEPT ![wreq[w]] = "dropped"]
    PROVE  PlacesSound'
<1>1. PICK x \in Requests : x = wreq[w]
  BY AtWork DEF Base, Carrying
<1>2. /\ \A r : Carriers(r)' = Carriers(r) \ {w}
      /\ w \in Carriers(x) /\ \A r : r # x => w \notin Carriers(r)
  BY <1>1, CarriersDef DEF Carrying
<1>3. PlacesTidy'
  BY <1>2 DEF PlacesSound, PlacesTidy
<1>4. Carriers(x)' = {}
  <2>1. ASSUME NEW u \in Carriers(x)' PROVE FALSE
    <3>1. u \in Workers /\ u \in Carriers(x) /\ u # w
      BY <1>2, <2>1, CarriersDef
    <3> QED BY <1>1, <1>2, <3>1 DEF PlacesSound, PlacesTidy
  <2> QED BY <2>1
<1>5. ~Unsettled(x)' /\ \A r \in Requests : r # x => (Unsettled(r)' <=> Unsettled(r))
  <2>1. fate'[x] = "dropped" /\ \A r \in Requests : r # x => fate'[r] = fate[r]
    BY <1>1 DEF Base, TypeOK
  <2> QED BY <2>1 DEF Unsettled
<1>6. ASSUME NEW r \in Requests PROVE OnePlace(r)'
  <2>1. OnePlace(r)
    BY DEF PlacesSound
  <2>2. CASE r = x
    <3>1. Carried(r) /\ ~Carried(r)' /\ ~Unsettled(r)'
      BY <1>2, <1>4, <1>5, <2>2 DEF Carried
    <3> QED BY <2>1, <3>1 DEF OnePlace, InTasks, Queued, Held
  <2>3. CASE r # x
    <3>1. Carriers(r)' = Carriers(r)
      BY <1>2, <2>3
    <3> QED BY <1>5, <2>1, <2>3, <3>1 DEF OnePlace, InTasks, Carried, Queued, Held
  <2> QED BY <2>2, <2>3
<1> QED BY <1>3, <1>6 DEF PlacesSound

\* A worker takes a request from the task queue, or leaves.
LEMMA TakeTaskPlaces ==
    ASSUME Base, PlacesSound, NEW w \in Workers, TakeTask(w)
    PROVE  PlacesSound'
<1>1. /\ wpc[w] = "idle" /\ ~Carrying(w) /\ queue' = queue /\ held' = held /\ fate' = fate
      /\ \A v \in Workers : v # w => wpc'[v] = wpc[v] /\ wreq'[v] = wreq[v]
  BY DEF TakeTask, IsAt, WorkerGoes, Carrying, Base, TypeOK
<1>2. CASE wpc'[w] = "exited"
  <2>1. tasks' = tasks /\ wreq' = wreq
    BY <1>2 DEF TakeTask, WorkerGoes, Base, TypeOK
  <2> QED BY <1>1, <1>2, <2>1, PlacesFrame DEF Carrying, Unsettled
<1>3. CASE wpc'[w] # "exited"
  <2>0. tasks # <<>>
    BY <1>3 DEF TakeTask, WorkerGoes, Base, TypeOK
  <2>a. PICK x \in Requests : x = Head(tasks)
    BY <2>0, HeadTailProperties DEF Base, TypeOK
  <2>1. tasks # <<>> /\ tasks' = Tail(tasks) /\ wreq'[w] = x /\ wpc'[w] = "execute"
    BY <1>3, <2>a DEF TakeTask, WorkerGoes, Base, TypeOK
  <2>2. /\ Distinct(tasks') /\ x \in Requests /\ InTasks(x)
        /\ \A r \in Requests : InTasks(r)' <=> InTasks(r) /\ r # x
    BY <2>1, <2>a, TailIn DEF PlacesSound, PlacesTidy, InTasks, Base, TypeOK
  <2>3. Carriers(x)' = Carriers(x) \cup {w} /\ \A r : r # x => Carriers(r)' = Carriers(r)
    <3>1. Carrying(w)' /\ ~Carrying(w) /\ \A v \in Workers : v # w => (Carrying(v)' <=> Carrying(v))
      BY <1>1, <2>1 DEF Carrying
    <3> QED BY <1>1, <2>1, <3>1, CarriersDef
  <2>4. Carriers(x) = {}
    BY <2>2 DEF PlacesSound, OnePlace, Carried
  <2>5. PlacesTidy'
    <3>1. /\ \A d \in DomainSet : Distinct(queue'[d])
          /\ \A d \in DomainSet : \A r \in Requests : In(r, queue'[d]) => DomainOf[r] = d
          /\ \A d \in DomainSet : held'[d] # NoRequest => DomainOf[held'[d]] = d
      BY <1>1 DEF PlacesSound, PlacesTidy
    <3>2. ASSUME NEW v \in Workers, NEW u \in Workers, NEW r \in Requests,
                 v \in Carriers(r)', u \in Carriers(r)'
          PROVE  v = u
      <4>1. CASE r = x
        <5>1. v \in Carriers(x)' /\ u \in Carriers(x)'
          BY <3>2, <4>1
        <5> QED BY <2>3, <2>4, <5>1
      <4>2. CASE r # x
        BY <2>3, <3>2, <4>2 DEF PlacesSound, PlacesTidy
      <4> QED BY <4>1, <4>2
    <3> QED BY <2>2, <3>1, <3>2 DEF PlacesTidy
  <2>6. ASSUME NEW r \in Requests PROVE OnePlace(r)'
    <3>1. OnePlace(r) /\ (Unsettled(r)' <=> Unsettled(r)) /\ (Queued(r)' <=> Queued(r)) /\ (Held(r)' <=> Held(r))
      BY <1>1 DEF PlacesSound, Unsettled, Queued, Held
    <3>2. Carried(r)' <=> Carried(r) \/ r = x
      <4>1. CASE r = x
        <5>1. w \in Carriers(r)'
          BY <2>3, <4>1
        <5> QED BY <4>1, <5>1 DEF Carried
      <4>2. CASE r # x
        BY <2>3, <4>2 DEF Carried
      <4> QED BY <4>1, <4>2
    <3> QED BY <2>2, <3>1, <3>2 DEF OnePlace
  <2> QED BY <2>5, <2>6 DEF PlacesSound
<1> QED BY <1>2, <1>3

\* It executes the request, and may drop the result.
LEMMA ExecutePlaces ==
    ASSUME Base, PlacesSound, NEW w \in Workers, Execute(w)
    PROVE  PlacesSound'
<1>1. /\ wpc[w] = "execute" /\ Carrying(w) /\ UNCHANGED <<tasks, queue, held>>
      /\ \A v \in Workers : v # w => wpc'[v] = wpc[v] /\ wreq'[v] = wreq[v]
  BY DEF Execute, IsAt, WorkerGoes, Carrying, Base, TypeOK
<1>2. CASE wpc'[w] = "push"
  <2>1. wreq' = wreq /\ fate' = fate
    BY <1>2 DEF Execute, WorkerGoes, Base, TypeOK
  <2> QED BY <1>1, <1>2, <2>1, PlacesFrame DEF Carrying, Unsettled
<1>3. CASE wpc'[w] # "push"
  <2>1. wpc'[w] \in {"idle", "settle"} /\ fate' = [fate EXCEPT ![wreq[w]] = "dropped"]
    BY <1>3 DEF Execute, WorkerGoes, Base, TypeOK
  <2> QED BY <1>1, <2>1, PlacesDrop DEF Carrying
<1> QED BY <1>2, <1>3

\* It finds no room, and sleeps or gives up.
LEMMA WaitPushSleepPlaces ==
    ASSUME Base, PlacesSound, NEW w \in Workers, WaitPushSleep(w)
    PROVE  PlacesSound'
<1>1. /\ wpc[w] = "check" /\ Carrying(w) /\ UNCHANGED <<tasks, queue, held>> /\ wreq' = wreq
      /\ \A v \in Workers : v # w => wpc'[v] = wpc[v]
  BY DEF WaitPushSleep, IsAt, WorkerGoes, Carrying, Base, TypeOK
<1>2. CASE wpc'[w] = "wait"
  <2>1. fate' = fate
    BY <1>2 DEF WaitPushSleep, WorkerGoes, Base, TypeOK
  <2> QED BY <1>1, <1>2, <2>1, PlacesFrame DEF Carrying, Unsettled
<1>3. CASE wpc'[w] # "wait"
  <2>1. wpc'[w] = "settle" /\ fate' = [fate EXCEPT ![wreq[w]] = "dropped"]
    BY <1>3 DEF WaitPushSleep, WorkerGoes, Base, TypeOK
  <2> QED BY <1>1, <2>1, PlacesDrop DEF Carrying
<1> QED BY <1>2, <1>3

\* It pushes its completion, or drops it at a closed queue.
LEMMA WaitPushReturnPlaces ==
    ASSUME Base, PlacesSound, NEW w \in Workers, WaitPushReturn(w)
    PROVE  PlacesSound'
<1>a. PICK x \in Requests : x = wreq[w]
  BY AtWork DEF WaitPushReturn, IsAt, Base
<1>b. PICK d \in DomainSet : d = Dom(w)
  BY AtWork DEF WaitPushReturn, IsAt, Base
<1>1. /\ wpc[w] = "check" /\ Carrying(w) /\ UNCHANGED <<tasks, held>> /\ wreq' = wreq
      /\ \A v \in Workers : v # w => wpc'[v] = wpc[v]
      /\ x \in Requests /\ d \in DomainSet /\ d = DomainOf[x]
  BY <1>a, <1>b DEF WaitPushReturn, IsAt, WorkerGoes, Carrying, Base, TypeOK, Dom
<1>2. CASE closed[d]
  <2>1. wpc'[w] = "settle" /\ fate' = [fate EXCEPT ![wreq[w]] = "dropped"] /\ queue' = queue
    BY <1>1, <1>a, <1>b, <1>2 DEF WaitPushReturn, WorkerGoes, Base, TypeOK
  <2> QED BY <1>1, <2>1, PlacesDrop DEF Carrying
<1>3. CASE ~closed[d]
  <2>1. wpc'[w] = "notify" /\ fate' = fate /\ queue' = [queue EXCEPT ![d] = Append(queue[d], x)]
    BY <1>1, <1>a, <1>b, <1>3 DEF WaitPushReturn, WorkerGoes, Base, TypeOK
  <2>2. /\ \A r : Carriers(r)' = Carriers(r) \ {w}
        /\ w \in Carriers(x) /\ \A r : r # x => w \notin Carriers(r)
    BY <1>1, <1>a, <2>1, CarriersDef DEF Carrying
  <2>3. Carriers(x)' = {} /\ ~In(x, queue[d])
    <3>1. Carriers(x)' = {}
      BY <1>1, <2>2, CarriersDef DEF PlacesSound, PlacesTidy
    <3>2. ~In(x, queue[d])
      BY <1>1, <2>2 DEF PlacesSound, OnePlace, Carried, Queued
    <3> QED BY <3>1, <3>2
  <2>4. /\ queue[d] \in Seq(Requests) /\ Distinct(queue[d])
        /\ queue'[d] = Append(queue[d], x) /\ \A e \in DomainSet : e # d => queue'[e] = queue[e]
    BY <1>1, <2>1 DEF PlacesSound, PlacesTidy, Base, TypeOK
  <2>5. Distinct(queue'[d]) /\ \A r : In(r, queue'[d]) <=> In(r, queue[d]) \/ r = x
    BY <1>1, <2>3, <2>4, AppendIn
  <2>6. PlacesTidy'
    <3>1. Distinct(tasks') /\ \A e \in DomainSet : held'[e] # NoRequest => DomainOf[held'[e]] = e
      BY <1>1 DEF PlacesSound, PlacesTidy
    <3>2. \A e \in DomainSet : Distinct(queue'[e])
      BY <2>4, <2>5 DEF PlacesSound, PlacesTidy
    <3>3. \A e \in DomainSet : \A r \in Requests : In(r, queue'[e]) => DomainOf[r] = e
      BY <1>1, <2>4, <2>5 DEF PlacesSound, PlacesTidy
    <3>4. \A v, u \in Workers : \A r \in Requests : v \in Carriers(r)' /\ u \in Carriers(r)' => v = u
      BY <2>2 DEF PlacesSound, PlacesTidy
    <3> QED BY <3>1, <3>2, <3>3, <3>4 DEF PlacesTidy
  <2>7. ASSUME NEW r \in Requests PROVE OnePlace(r)'
    <3>1. OnePlace(r) /\ (Unsettled(r)' <=> Unsettled(r)) /\ (InTasks(r)' <=> InTasks(r)) /\ (Held(r)' <=> Held(r))
      BY <1>1, <2>1 DEF PlacesSound, Unsettled, InTasks, Held
    <3>2. Carried(r)' <=> Carried(r) /\ r # x
      <4>1. CASE r = x
        <5>1. Carriers(r)' = {}
          BY <2>3, <4>1
        <5> QED BY <4>1, <5>1 DEF Carried
      <4>2. CASE r # x
        <5>1. Carriers(r)' = Carriers(r)
          BY <2>2, <4>2
        <5> QED BY <4>2, <5>1 DEF Carried
      <4> QED BY <4>1, <4>2
    <3>3. Queued(r)' <=> Queued(r) \/ r = x
      BY <1>1, <2>4, <2>5, DomainAt DEF Queued
    <3>4. Carried(x)
      BY <2>2 DEF Carried
    <3> QED BY <3>1, <3>2, <3>3, <3>4 DEF OnePlace
  <2> QED BY <2>6, <2>7 DEF PlacesSound
<1> QED BY <1>2, <1>3

\* The reactor begins a turn.
LEMMA BeginTurnPlaces == ASSUME Base, PlacesSound, BeginTurn PROVE PlacesSound'
<1>1. /\ UNCHANGED <<tasks, queue, wpc, wreq>>
      /\ \A r : Carriers(r)' = Carriers(r)
  BY DEF BeginTurn, Carriers
<1>2. \A d \in DomainSet : held'[d] = held[d] \/ held'[d] = NoRequest
  BY DEF BeginTurn
<1>3. PlacesTidy'
  BY <1>1, <1>2 DEF PlacesSound, PlacesTidy
<1>4. ASSUME NEW r \in Requests PROVE OnePlace(r)'
  <2> DEFINE d == DomainOf[r]
             gone == \E e \in DomainSet : held[e] # NoRequest /\ Discards(held[e]) /\ held[e] = r
  <2>1. d \in DomainSet /\ r # NoRequest /\ OnePlace(r)
    BY DomainAt, IdentityAssumption DEF PlacesSound
  <2>2. (InTasks(r)' <=> InTasks(r)) /\ (Carried(r)' <=> Carried(r)) /\ (Queued(r)' <=> Queued(r))
    BY <1>1 DEF InTasks, Carried, Queued
  <2>3. gone <=> Held(r) /\ Discards(r)
    BY <2>1 DEF Held, PlacesSound, PlacesTidy
  <2>4. fate'[r] = IF gone THEN "discarded" ELSE fate[r]
    BY DEF BeginTurn
  <2>5. Held(r)' <=> Held(r) /\ ~Discards(r)
    BY <2>1 DEF BeginTurn, Held
  <2>6. Unsettled(r)' <=> Unsettled(r) /\ ~gone
    BY <2>4 DEF Unsettled
  <2> HIDE DEF gone
  <2> QED BY <2>1, <2>2, <2>3, <2>5, <2>6 DEF OnePlace
<1> QED BY <1>3, <1>4 DEF PlacesSound

\* It takes a completion in hand.
LEMMA DrainPopPlaces == ASSUME Base, PlacesSound, DrainPop PROVE PlacesSound'
<1>a. PICK d \in DomainSet : d = Current
  BY CurrentDomain DEF Base, TypeOK
<1>0. /\ held[d] = NoRequest /\ queue[d] # <<>> /\ queue[d] \in Seq(Requests) /\ Distinct(queue[d])
  BY <1>a DEF DrainPop, Base, TypeOK, PlacesSound, PlacesTidy
<1>b. PICK x \in Requests : x = Head(queue[d])
  BY <1>0, HeadTailProperties
<1>1. /\ tasks' = tasks /\ wreq' = wreq /\ fate' = fate /\ x # NoRequest
      /\ held' = [held EXCEPT ![d] = x] /\ queue' = [queue EXCEPT ![d] = Tail(queue[d])]
      /\ \A w \in Workers : Carrying(w)' <=> Carrying(w)
  <2>1. \A w \in Workers : wpc'[w] = wpc[w] \/ (wpc[w] = "wait" /\ wpc'[w] = "relock")
    <3>1. wpc' = wpc \/ \E v \in Sleepers(Current) : wpc' = [wpc EXCEPT ![v] = "relock"]
      BY DEF DrainPop, WakeOne, WorkerGoes
    <3>2. ASSUME NEW v \in Sleepers(Current), wpc' = [wpc EXCEPT ![v] = "relock"], NEW w \in Workers
          PROVE  wpc'[w] = wpc[w] \/ (wpc[w] = "wait" /\ wpc'[w] = "relock")
      BY <3>2 DEF Sleepers, Base, TypeOK
    <3> QED BY <3>1, <3>2
  <2> QED BY <1>a, <1>b, <2>1, IdentityAssumption DEF DrainPop, Carrying
<1>2. \A r : Carriers(r)' = Carriers(r)
  BY <1>1, CarriersDef
<1>3. /\ Distinct(Tail(queue[d])) /\ In(x, queue[d])
      /\ \A r : In(r, Tail(queue[d])) <=> In(r, queue[d]) /\ r # x
  BY <1>0, <1>b, TailIn
<1>4. /\ queue'[d] = Tail(queue[d]) /\ held'[d] = x
      /\ \A e \in DomainSet : e # d => queue'[e] = queue[e] /\ held'[e] = held[e]
  BY <1>1 DEF Base, TypeOK
<1>5. DomainOf[x] = d /\ Queued(x)
  BY <1>3 DEF PlacesSound, PlacesTidy, Queued
<1>6. PlacesTidy'
  <2>1. Distinct(tasks') /\ \A e \in DomainSet : Distinct(queue'[e])
    BY <1>1, <1>3, <1>4 DEF PlacesSound, PlacesTidy
  <2>2. \A e \in DomainSet : \A r \in Requests : In(r, queue'[e]) => DomainOf[r] = e
    BY <1>3, <1>4 DEF PlacesSound, PlacesTidy
  <2>3. \A e \in DomainSet : held'[e] # NoRequest => DomainOf[held'[e]] = e
    BY <1>4, <1>5 DEF PlacesSound, PlacesTidy
  <2>4. \A v, u \in Workers : \A r \in Requests : v \in Carriers(r)' /\ u \in Carriers(r)' => v = u
    BY <1>2 DEF PlacesSound, PlacesTidy
  <2> QED BY <2>1, <2>2, <2>3, <2>4 DEF PlacesTidy
<1>7. ASSUME NEW r \in Requests PROVE OnePlace(r)'
  <2>1. /\ OnePlace(r) /\ (Unsettled(r)' <=> Unsettled(r)) /\ (InTasks(r)' <=> InTasks(r))
        /\ (Carried(r)' <=> Carried(r)) /\ r # NoRequest
    BY <1>1, <1>2, IdentityAssumption DEF PlacesSound, Unsettled, InTasks, Carried
  <2>2. Queued(r)' <=> Queued(r) /\ r # x
    <3>1. CASE DomainOf[r] = d
      BY <1>3, <1>4, <3>1 DEF Queued
    <3>2. CASE DomainOf[r] # d
      BY <1>4, <1>5, <3>2, DomainAt DEF Queued
    <3> QED BY <3>1, <3>2
  <2>3. Held(r)' <=> Held(r) \/ r = x
    <3>1. CASE DomainOf[r] = d
      BY <1>0, <1>4, <2>1, <3>1 DEF Held
    <3>2. CASE DomainOf[r] # d
      BY <1>4, <1>5, <3>2, DomainAt DEF Held
    <3> QED BY <3>1, <3>2
  <2> QED BY <1>5, <2>1, <2>2, <2>3 DEF OnePlace
<1> QED BY <1>6, <1>7 DEF PlacesSound

\* It settles the completion in hand.
LEMMA DrainFinishPlaces == ASSUME Base, PlacesSound, DrainFinish PROVE PlacesSound'
<1>a. PICK d \in DomainSet : d = Current
  BY CurrentDomain DEF Base, TypeOK
<1>b. PICK x \in Requests : x = held[d]
  BY <1>a DEF DrainFinish, Base, TypeOK, MaybeRequest
<1>1. /\ UNCHANGED <<tasks, queue, wpc, wreq>>
      /\ \A r : Carriers(r)' = Carriers(r)
      /\ held' = [held EXCEPT ![d] = NoRequest] /\ x # NoRequest
      /\ \E f \in {"discarded", "delivered"} : fate' = [fate EXCEPT ![x] = f]
  BY <1>a, <1>b DEF DrainFinish, Carriers
<1>2. /\ held'[d] = NoRequest
      /\ \A e \in DomainSet : e # d => held'[e] = held[e]
  BY <1>1 DEF Base, TypeOK
<1>3. DomainOf[x] = d /\ Held(x)
  BY <1>1, <1>b DEF PlacesSound, PlacesTidy, Held
<1>4. PlacesTidy'
  BY <1>1, <1>2 DEF PlacesSound, PlacesTidy
<1>5. ASSUME NEW r \in Requests PROVE OnePlace(r)'
  <2>1. /\ OnePlace(r) /\ (Queued(r)' <=> Queued(r)) /\ (InTasks(r)' <=> InTasks(r))
        /\ (Carried(r)' <=> Carried(r)) /\ r # NoRequest
    BY <1>1, IdentityAssumption DEF PlacesSound, Queued, InTasks, Carried
  <2>2. Held(r)' <=> Held(r) /\ r # x
    <3>1. CASE DomainOf[r] = d
      BY <1>2, <1>b, <2>1, <3>1 DEF Held
    <3>2. CASE DomainOf[r] # d
      BY <1>2, <1>3, <3>2, DomainAt DEF Held
    <3> QED BY <3>1, <3>2
  <2>3. Unsettled(r)' <=> Unsettled(r) /\ r # x
    <3>1. CASE r = x
      <4>1. fate'[r] \in {"discarded", "delivered"}
        BY <1>1, <3>1 DEF Base, TypeOK
      <4> QED BY <3>1, <4>1 DEF Unsettled
    <3>2. CASE r # x
      <4>1. fate'[r] = fate[r]
        BY <1>1, <3>2 DEF Base, TypeOK
      <4> QED BY <3>2, <4>1 DEF Unsettled
    <3> QED BY <3>1, <3>2
  <2> QED BY <1>3, <2>1, <2>2, <2>3 DEF OnePlace
<1> QED BY <1>4, <1>5 DEF PlacesSound

\* It accepts a request.
LEMMA SubmitPlaces == ASSUME Base, PlacesSound, NEW x \in Requests, Submit(x) PROVE PlacesSound'
<1>1. /\ UNCHANGED <<queue, held, wpc, wreq>> /\ tasks' = Append(tasks, x) /\ fate[x] = "new"
      /\ \A r : Carriers(r)' = Carriers(r)
      /\ fate'[x] = "accepted" /\ \A r \in Requests : r # x => fate'[r] = fate[r]
  BY DEF Submit, Carriers, Base, TypeOK
<1>2. ~InTasks(x) /\ ~Carried(x) /\ ~Queued(x) /\ ~Held(x)
  BY <1>1 DEF PlacesSound, OnePlace, Unsettled
<1>3. Distinct(tasks') /\ \A r : In(r, tasks') <=> In(r, tasks) \/ r = x
  BY <1>1, <1>2, AppendIn DEF PlacesSound, PlacesTidy, InTasks, Base, TypeOK
<1>4. PlacesTidy'
  BY <1>1, <1>3 DEF PlacesSound, PlacesTidy
<1>5. ASSUME NEW r \in Requests PROVE OnePlace(r)'
  <2>1. /\ OnePlace(r) /\ (Queued(r)' <=> Queued(r)) /\ (Held(r)' <=> Held(r))
        /\ (Carried(r)' <=> Carried(r)) /\ (InTasks(r)' <=> InTasks(r) \/ r = x)
    BY <1>1, <1>3 DEF PlacesSound, Queued, InTasks, Carried, Held
  <2>2. Unsettled(r)' <=> Unsettled(r) \/ r = x
    BY <1>1 DEF Unsettled
  <2> QED BY <1>2, <2>1, <2>2 DEF OnePlace
<1> QED BY <1>4, <1>5 DEF PlacesSound

\* It joins the workers and cancels what they left.
LEMMA JoinPlaces == ASSUME Base, PlacesSound, Join PROVE PlacesSound'
<1>1. /\ UNCHANGED <<queue, held, wpc, wreq>> /\ tasks' = <<>>
      /\ \A r : Carriers(r)' = Carriers(r)
      /\ \A r : ~In(r, tasks')
      /\ \A r \in Requests : fate'[r] = IF InTasks(r) THEN "cancelled" ELSE fate[r]
  BY DEF Join, Carriers, InTasks, In
<1>2. Distinct(tasks')
  BY <1>1 DEF Distinct
<1>3. PlacesTidy'
  BY <1>1, <1>2 DEF PlacesSound, PlacesTidy
<1>4. ASSUME NEW r \in Requests PROVE OnePlace(r)'
  <2>1. /\ OnePlace(r) /\ (Queued(r)' <=> Queued(r)) /\ (Held(r)' <=> Held(r))
        /\ (Carried(r)' <=> Carried(r)) /\ ~InTasks(r)'
    BY <1>1 DEF PlacesSound, Queued, InTasks, Carried, Held
  <2>2. Unsettled(r)' <=> Unsettled(r) /\ ~InTasks(r)
    BY <1>1 DEF Unsettled
  <2> QED BY <2>1, <2>2 DEF OnePlace
<1> QED BY <1>3, <1>4 DEF PlacesSound

\* Every step keeps every request in one place.
LEMMA PlacesNext == ASSUME Base, PlacesSound, [Next]_vars PROVE PlacesSound'
<1>1. ASSUME NEW w \in Workers, WaitPushLock(w) \/ SpuriousWakeup(w) \/ Notify(w) \/ Settle(w)
      PROVE  PlacesSound'
  <2>1. UNCHANGED <<tasks, queue, held, fate>>
    BY <1>1 DEF WaitPushLock, SpuriousWakeup, Notify, Settle
  <2>2. \A v \in Workers : v # w => wpc'[v] = wpc[v] /\ wreq'[v] = wreq[v]
    BY <1>1 DEF WaitPushLock, SpuriousWakeup, Notify, Settle, WorkerGoes, Base, TypeOK
  <2>3. (Carrying(w)' <=> Carrying(w)) /\ (Carrying(w) => wreq'[w] = wreq[w])
    BY <1>1
       DEF WaitPushLock, SpuriousWakeup, Notify, Settle, WorkerGoes, IsAt, Carrying, Base,
           TypeOK
  <2> QED BY <2>1, <2>2, <2>3, PlacesFrame DEF Carrying, Unsettled
<1>2. CASE CloseDomain
  <2>1. UNCHANGED <<tasks, queue, held, fate, wreq>>
    BY <1>2 DEF CloseDomain
  <2>2. \A w \in Workers : wpc'[w] = wpc[w] \/ (wpc[w] = "wait" /\ wpc'[w] = "relock")
    <3> DEFINE d == Domains[closeAt]
    <3>1. wpc' = wpc \/ wpc' = [w \in Workers |-> IF w \in Sleepers(d) THEN "relock" ELSE wpc[w]]
      BY <1>2 DEF CloseDomain
    <3>2. \A w \in Sleepers(d) : wpc[w] = "wait"
      BY DEF Sleepers
    <3> HIDE DEF d
    <3> QED BY <3>1, <3>2
  <2> QED BY <2>1, <2>2, PlacesFrame DEF Carrying, Unsettled
<1>3. ASSUME NEW x \in Requests, CloseClient(x) PROVE PlacesSound'
  <2>1. UNCHANGED <<tasks, queue, held, wpc, wreq>>
    BY <1>3 DEF CloseClient
  <2>2. /\ fate[x] = "accepted" /\ fate'[x] = "abandoned"
        /\ \A r \in Requests : r # x => fate'[r] = fate[r]
    BY <1>3 DEF CloseClient, Base, TypeOK
  <2> QED BY <2>1, <2>2, PlacesFrame DEF Carrying, Unsettled
<1>4. CASE Sample \/ TimerWorkPending \/ OnceFails \/ DrainYields \/ DrainEmpty
           \/ DrainBlocked \/ PollReturns \/ BeginStop \/ CloseTasks \/ CloseRoundEnds \/ CloseTurnEnds
           \/ FinalTurnEnds \/ UNCHANGED vars
  <2>1. UNCHANGED <<tasks, queue, held, wpc, wreq, fate>>
    BY <1>4
       DEF Sample, TimerWorkPending, OnceFails, DrainYields, DrainEmpty, DrainBlocked,
           PollReturns, BeginStop, CloseTasks, CloseRoundEnds, CloseTurnEnds, FinalTurnEnds,
           vars
  <2> QED BY <2>1, PlacesFrame DEF Carrying, Unsettled
<1> QED BY <1>1, <1>2, <1>3, <1>4, TakeTaskPlaces, ExecutePlaces, WaitPushSleepPlaces,
   WaitPushReturnPlaces, BeginTurnPlaces, DrainPopPlaces, DrainFinishPlaces, SubmitPlaces,
   JoinPlaces
   DEF Next, Reactor, Environment, Worker, Terminated

-----------------------------------------------------------------------------
\* A set with at most one member.
LEMMA CountOne ==
    ASSUME NEW T, \A x, y \in T : x = y
    PROVE  Cardinality(T) = IF T = {} THEN 0 ELSE 1
<1>1. CASE T = {}
  BY <1>1, FS_EmptySet
<1>2. CASE T # {}
  <2>1. PICK x : x \in T
    BY <1>2
  <2>2. T = {x}
    BY <2>1
  <2> QED BY <1>2, <2>2, FS_Singleton
<1> QED BY <1>1, <1>2

\* One place is one occurrence.
LEMMA Accounted == ASSUME Base, PlacesSound PROVE CompletionsAccounted
<1> SUFFICES ASSUME NEW r \in Requests
             PROVE  Cardinality({i \in 1 .. Len(tasks) : tasks[i] = r})
                      + Cardinality(Carriers(r))
                      + Cardinality(QueuedAt(r))
                      + Cardinality({d \in DomainSet : held[d] = r})
                    = IF Unsettled(r) THEN 1 ELSE 0
  BY DEF CompletionsAccounted
<1>0. OnePlace(r) /\ DomainOf[r] \in DomainSet /\ r # NoRequest
  BY DomainAt, IdentityAssumption DEF PlacesSound
<1>1. Cardinality({i \in 1 .. Len(tasks) : tasks[i] = r}) = IF InTasks(r) THEN 1 ELSE 0
  <2> DEFINE T == {i \in 1 .. Len(tasks) : tasks[i] = r}
  <2>1. \A x, y \in T : x = y
    BY DEF PlacesSound, PlacesTidy, Distinct
  <2>2. T = {} <=> ~InTasks(r)
    BY DEF InTasks, In
  <2> HIDE DEF T
  <2>3. Cardinality(T) = IF T = {} THEN 0 ELSE 1
    BY <2>1, CountOne
  <2>4. Cardinality(T) = IF InTasks(r) THEN 1 ELSE 0
    BY <2>2, <2>3
  <2> QED BY <2>4 DEF T
<1>2. Cardinality(Carriers(r)) = IF Carried(r) THEN 1 ELSE 0
  <2>1. \A x, y \in Carriers(r) : x = y
    BY CarriersDef DEF PlacesSound, PlacesTidy
  <2>2. Cardinality(Carriers(r)) = IF Carriers(r) = {} THEN 0 ELSE 1
    BY <2>1, CountOne
  <2> QED BY <2>2 DEF Carried
<1>3. Cardinality(QueuedAt(r)) = IF Queued(r) THEN 1 ELSE 0
  <2>1. \A d \in DomainSet : d \in QueuedAt(r) <=> In(r, queue[d])
    BY DEF QueuedAt, In
  <2>2. \A x, y \in QueuedAt(r) : x = y
    BY <2>1 DEF PlacesSound, PlacesTidy, QueuedAt
  <2>3. QueuedAt(r) = {} <=> ~Queued(r)
    BY <1>0, <2>1 DEF PlacesSound, PlacesTidy, Queued, QueuedAt
  <2>4. Cardinality(QueuedAt(r)) = IF QueuedAt(r) = {} THEN 0 ELSE 1
    BY <2>2, CountOne
  <2> QED BY <2>3, <2>4
<1>4. Cardinality({d \in DomainSet : held[d] = r}) = IF Held(r) THEN 1 ELSE 0
  <2> DEFINE T == {d \in DomainSet : held[d] = r}
  <2>1. (\A x, y \in T : x = y) /\ (T = {} <=> ~Held(r))
    BY <1>0 DEF PlacesSound, PlacesTidy, Held
  <2> HIDE DEF T
  <2>2. Cardinality(T) = IF T = {} THEN 0 ELSE 1
    BY <2>1, CountOne
  <2>3. Cardinality(T) = IF Held(r) THEN 1 ELSE 0
    BY <2>1, <2>2
  <2> QED BY <2>3 DEF T
<1>5. ASSUME NEW t, NEW c, NEW q, NEW h,
             t = IF InTasks(r) THEN 1 ELSE 0, c = IF Carried(r) THEN 1 ELSE 0,
             q = IF Queued(r) THEN 1 ELSE 0, h = IF Held(r) THEN 1 ELSE 0
      PROVE  t + c + q + h = IF Unsettled(r) THEN 1 ELSE 0
  BY <1>0, <1>5 DEF OnePlace
<1> QED BY <1>1, <1>2, <1>3, <1>4, <1>5

\* A drained service without workers has settled everything.
LEMMA Settled == ASSUME Base, PlacesSound, DoneDrained PROVE SettledAtExit
<1> SUFFICES ASSUME rpc = "done"
             PROVE  (\A r \in Requests : ~Unsettled(r)) /\ (\A w \in Workers : wpc[w] = "exited")
  BY DEF SettledAtExit
<1>1. phase = "final" /\ tasks = <<>> /\ \A w \in Workers : wpc[w] = "exited"
  BY DEF Base, PhaseSound
<1>2. \A d \in DomainSet : queue[d] = <<>> /\ held[d] = NoRequest
  BY DEF DoneDrained, Drained
<1>3. ASSUME NEW r \in Requests PROVE ~Unsettled(r)
  <2>1. ~InTasks(r)
    BY <1>1 DEF InTasks, In
  <2>2. ~Carried(r)
    BY <1>1, CarriersDef DEF Carried, Carrying
  <2>3. ~Queued(r) /\ ~Held(r)
    BY <1>2, DomainAt, IdentityAssumption DEF Queued, Held, In
  <2> QED BY <2>1, <2>2, <2>3 DEF PlacesSound, OnePlace
<1> QED BY <1>1, <1>3

\* The invariant holds at first.
LEMMA Start == ASSUME Init PROVE IInv
<1>1. Base
  BY BaseInit
<1>2. /\ tasks = <<>> /\ rpc = "sample" /\ phase = "run"
      /\ \A d \in DomainSet : queue[d] = <<>> /\ held[d] = NoRequest
      /\ \A w \in Workers : wpc[w] = "idle"
      /\ \A r \in Requests : fate[r] = "new"
  BY DEF Init
<1>3. \A r : ~In(r, <<>>)
  BY DEF In
<1>4. Distinct(<<>>)
  BY DEF Distinct
<1>5. \A r : Carriers(r) = {}
  BY <1>2, CarriersDef DEF Carrying
<1>6. PlacesTidy
  BY <1>2, <1>3, <1>4, <1>5 DEF PlacesTidy
<1>7. ASSUME NEW r \in Requests PROVE OnePlace(r)
  <2>1. ~InTasks(r) /\ ~Carried(r) /\ ~Queued(r) /\ ~Held(r) /\ ~Unsettled(r)
    BY <1>2, <1>3, <1>5, DomainAt, IdentityAssumption
       DEF InTasks, Carried, Queued, Held, Unsettled
  <2> QED BY <2>1 DEF OnePlace
<1>8. TurnQuiet /\ FinalOnTime /\ DoneDrained
  BY <1>2 DEF TurnQuiet, FinalOnTime, DoneDrained
<1>9. ProducersWoken
  <2>1. \A d \in DomainSet : Sleepers(d) = {}
    BY <1>2 DEF Sleepers
  <2> QED BY <2>1 DEF ProducersWoken
<1>10. NoSilentLoss
  BY <1>2 DEF NoSilentLoss
<1> QED BY <1>1, <1>6, <1>7, <1>8, <1>9, <1>10 DEF IInv, Base, PlacesSound

\* Every step keeps it.
LEMMA Step == ASSUME IInv, [Next]_vars PROVE IInv'
<1>1. Base
  BY DEF IInv, Base
<1>2. Base' /\ PlacesSound' /\ TurnQuiet' /\ ProducersWoken' /\ FinalOnTime' /\ DoneDrained' /\ NoSilentLoss'
  BY <1>1, BaseNext, PlacesNext, QuietNext, WokenNext, OnTimeNext, DoneNext, LossNext DEF IInv
<1> QED BY <1>2 DEF IInv, Base

\* It implies the properties.
LEMMA Promises == ASSUME IInv PROVE CompletionsSound
<1>1. Base /\ PlacesSound /\ DoneDrained
  BY DEF IInv, Base
<1>2. NoStrandedCompletion
  BY DEF IInv, TurnQuiet, Quiet, Marked, NoStrandedCompletion
<1>3. NoFatalAfterJoin
  BY DEF IInv, FinalOnTime, OnTime, NoFatalAfterJoin
<1> QED BY <1>1, <1>2, <1>3, Accounted, Settled DEF IInv, CompletionsSound

\* The invariant holds throughout, whatever the interleaving of the workers of
\* the runtimes, the loop of the supervisor and the stop.
THEOREM Invariance == Spec => []IInv
<1>1. Init => IInv
  BY Start
<1>2. IInv /\ [Next]_vars => IInv'
  BY Step
<1> QED BY <1>1, <1>2, PTL DEF Spec

\* The completion queues, workers, turn and exit variables keep their types: no
\* queue grows past its capacity, no notifier past its maximum.
THEOREM TypeCorrect == Spec => []TypeOK
<1>1. IInv => TypeOK
  BY DEF IInv
<1> QED BY <1>1, Invariance, PTL

\* CompletionsSound holds for every value of the constants: publish, notify and
\* drain lose no completion and duplicate none, no wake-up of wait_push is
\* lost, and run returns with everything settled.
THEOREM CompletionsSoundCorrect == Spec => []CompletionsSound
<1>1. IInv => CompletionsSound
  BY Promises
<1> QED BY <1>1, Invariance, PTL

\* NoSilentLoss holds for every value of the constants: a worker that drops a
\* result latches a fault bit that stops the server.
THEOREM NoSilentLossCorrect == Spec => []NoSilentLoss
<1>1. IInv => NoSilentLoss
  BY DEF IInv
<1> QED BY <1>1, Invariance, PTL

==============================================================================
