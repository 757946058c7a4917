------------------------ MODULE AuthSessionsProofs --------------------------
(***************************************************************************)
(* Proofs about AuthSessions for every set of slots and all bounds: types, *)
(* ownership of candidates, leases of bindings, distinct handles, and that *)
(* no late answer revives a session whose LOGOUT has committed.            *)
(***************************************************************************)
EXTENDS AuthSessions, TLAPS

Outstanding == flight \cup completion

\* A LOGIN result whose session only its own answer knows of.
Fresh(r) == r.kind = "login" /\ r.outcome = "ok"

\* The RESUME watermark covers every RESUME, the cutoff never passes it.
Clocks ==
    /\ cutoff <= lastResume
    /\ lastResume <= lastInstance
    /\ \A r \in Outstanding : r.kind = "resume" => r.instance <= lastResume

\* A request instance is issued once and held in one place.
Instances ==
    /\ \A r \in Outstanding : r.instance <= lastInstance
    /\ \A r1, r2 \in Outstanding : r1.instance = r2.instance => r1 = r2
    /\ flight \cap completion = {}

\* One result is being answered; its ticket and the only candidate belong together.
OneReceipt ==
    /\ \A r1, r2 \in completion : r1 = r2
    /\ \A i \in Slots : table[i].candidate # 0 => table[i].ticket # 0
    /\ ticket # 0 => wireStatus /\ \E r \in completion : Binds(r) /\ HasTicket(r)

References(s) ==
    \/ \E i \in Slots : table[i].session = s
    \/ \E r \in Outstanding : r.kind # "login" /\ r.session = s

\* Nobody knows a session before it exists, and only its own LOGIN before it is answered.
SessionsKnown ==
    /\ \A r \in Outstanding : r.kind # "login" \/ r.outcome = "ok" => r.session # 0
    /\ \A s \in Sessions : db[s] = "absent" =>
        ~References(s) /\ \A r \in Outstanding : r.session # s
    /\ \A r \in Outstanding : Fresh(r) => db[r.session] # "revoked" /\ ~References(r.session)
    /\ \A r1, r2 \in Outstanding : Fresh(r1) /\ Fresh(r2) /\ r1.session = r2.session => r1 = r2

\* A validated RESUME of a revoked session is cut off, or will be before it is answered.
ResumesBounded ==
    \A r \in Outstanding : r.kind = "resume" /\ r.outcome = "ok" /\ db[r.session] = "revoked" =>
        r.instance <= cutoff \/ LogoutUnderway(r.session)

IInv ==
    /\ TypeOK /\ Clocks /\ Instances /\ OneReceipt /\ SessionsKnown /\ ResumesBounded
    /\ NoRevival /\ PendingOwned /\ HandlesDistinct /\ BoundToLease

USE BoundsAssumption

-----------------------------------------------------------------------------
(* What the operations of the table change *)

LEMMA ReserveTable ==
    ASSUME table \in [Slots -> SessionSlots], NEW r \in Requests, NEW h \in Handles
    PROVE  /\ Reserve(r, h) \in [Slots -> SessionSlots]
           /\ \A i \in Slots \ {r.slot} : Reserve(r, h)[i] = table[i]
           /\ Reserve(r, h)[r.slot].generation = r.generation
           /\ Reserve(r, h)[r.slot].candidate = r.session
           /\ Reserve(r, h)[r.slot].ticket = h
           /\ Reserve(r, h)[r.slot].candidateRevoked = FALSE
           /\ \/ /\ Reserve(r, h)[r.slot].session = table[r.slot].session
                 /\ Reserve(r, h)[r.slot].handle = table[r.slot].handle
                 /\ Reserve(r, h)[r.slot].revoked = table[r.slot].revoked
              \/ /\ Reserve(r, h)[r.slot].session = 0
                 /\ Reserve(r, h)[r.slot].handle = 0
                 /\ Reserve(r, h)[r.slot].revoked = FALSE
<1>1. r.slot \in Slots /\ r.session \in 0 .. MaxSessions /\ r.generation \in 0 .. MaxGeneration
  BY DEF Requests
<1>2. EmptySlot(r.generation) \in SessionSlots
  BY <1>1 DEF EmptySlot, SessionSlots
<1>3. PICK b \in SessionSlots :
        b = IF table[r.slot].generation = r.generation THEN table[r.slot] ELSE EmptySlot(r.generation)
  BY <1>1, <1>2
<1>4. Reserve(r, h) = [table EXCEPT ![r.slot] =
                         [b EXCEPT !.candidate = r.session, !.ticket = h, !.candidateRevoked = FALSE]]
  BY <1>1, <1>3 DEF Reserve
<1>5. b.generation = r.generation
  BY <1>1, <1>3 DEF EmptySlot
<1>6. \/ b.session = table[r.slot].session /\ b.handle = table[r.slot].handle /\ b.revoked = table[r.slot].revoked
      \/ b.session = 0 /\ b.handle = 0 /\ b.revoked = FALSE
  BY <1>3 DEF EmptySlot
<1>7. h \in 0 .. MaxHandles
  BY DEF Handles
<1>8. [b EXCEPT !.candidate = r.session, !.ticket = h, !.candidateRevoked = FALSE] \in SessionSlots
  BY <1>1, <1>7, Zenon DEF SessionSlots
<1> QED
  BY <1>1, <1>4, <1>5, <1>6, <1>8 DEF SessionSlots

LEMMA CommitTable ==
    ASSUME NEW t \in [Slots -> SessionSlots], NEW i \in Slots
    PROVE  /\ Commit(t, i) \in [Slots -> SessionSlots]
           /\ \A j \in Slots \ {i} : Commit(t, i)[j] = t[j]
           /\ Commit(t, i)[i].generation = t[i].generation
           /\ Commit(t, i)[i].session = t[i].candidate
           /\ Commit(t, i)[i].handle = t[i].ticket
           /\ Commit(t, i)[i].revoked = t[i].candidateRevoked
           /\ Commit(t, i)[i].candidate = 0 /\ Commit(t, i)[i].ticket = 0
<1> DEFINE c == t[i]
           d == [c EXCEPT !.session = c.candidate, !.handle = c.ticket, !.revoked = c.candidateRevoked,
                          !.candidate = 0, !.ticket = 0, !.candidateRevoked = FALSE]
<1>1. c \in SessionSlots
  OBVIOUS
<1>0. 0 \in 0 .. MaxSessions /\ 0 \in 0 .. MaxHandles
  OBVIOUS
<1>2. d \in SessionSlots
  BY <1>0, <1>1, Zenon DEF SessionSlots
<1>3. Commit(t, i) = [t EXCEPT ![i] = d]
  BY DEF Commit
<1>4. Commit(t, i)[i] = d /\ \A j \in Slots \ {i} : Commit(t, i)[j] = t[j]
  BY <1>2, <1>3
<1> QED
  BY <1>1, <1>2, <1>3, <1>4 DEF SessionSlots

LEMMA AbortTable ==
    ASSUME NEW t \in [Slots -> SessionSlots], NEW i \in Slots
    PROVE  /\ Abort(t, i) \in [Slots -> SessionSlots]
           /\ \A j \in Slots \ {i} : Abort(t, i)[j] = t[j]
           /\ Abort(t, i)[i].generation = t[i].generation
           /\ Abort(t, i)[i].session = t[i].session
           /\ Abort(t, i)[i].handle = t[i].handle
           /\ Abort(t, i)[i].revoked = t[i].revoked
           /\ Abort(t, i)[i].candidate = 0 /\ Abort(t, i)[i].ticket = 0
<1> DEFINE d == [t[i] EXCEPT !.candidate = 0, !.ticket = 0, !.candidateRevoked = FALSE]
<1>0. 0 \in 0 .. MaxSessions /\ 0 \in 0 .. MaxHandles
  OBVIOUS
<1>1. d \in SessionSlots
  BY <1>0, Zenon DEF SessionSlots
<1>2. Abort(t, i) = [t EXCEPT ![i] = d]
  BY DEF Abort
<1>3. Abort(t, i)[i] = d /\ \A j \in Slots \ {i} : Abort(t, i)[j] = t[j]
  BY <1>1, <1>2
<1> QED
  BY <1>1, <1>2, <1>3 DEF SessionSlots

LEMMA ForgetTable ==
    ASSUME NEW t \in [Slots -> SessionSlots], NEW i \in Slots, NEW g \in Nat
    PROVE  /\ Forget(t, i, g) \in [Slots -> SessionSlots]
           /\ \A j \in Slots \ {i} : Forget(t, i, g)[j] = t[j]
           /\ t[i].generation # g => Forget(t, i, g)[i] = t[i]
           /\ t[i].generation = g => Forget(t, i, g)[i] = EmptySlot(0)
BY DEF Forget, SessionSlots, EmptySlot

LEMMA RevokeTable ==
    ASSUME NEW t \in [Slots -> SessionSlots], NEW s \in Sessions
    PROVE  /\ Revoke(t, s) \in [Slots -> SessionSlots]
           /\ \A i \in Slots :
                /\ Revoke(t, s)[i].generation = t[i].generation
                /\ Revoke(t, s)[i].session = t[i].session
                /\ Revoke(t, s)[i].handle = t[i].handle
                /\ Revoke(t, s)[i].candidate = t[i].candidate
                /\ Revoke(t, s)[i].ticket = t[i].ticket
                /\ t[i].revoked \/ t[i].session = s => Revoke(t, s)[i].revoked
                /\ t[i].candidateRevoked \/ t[i].candidate = s => Revoke(t, s)[i].candidateRevoked
<1> SUFFICES ASSUME NEW i \in Slots
             PROVE  LET x == Revoke(t, s)[i]
                    IN  /\ x \in SessionSlots
                        /\ x.generation = t[i].generation /\ x.session = t[i].session /\ x.handle = t[i].handle
                        /\ x.candidate = t[i].candidate /\ x.ticket = t[i].ticket
                        /\ t[i].revoked \/ t[i].session = s => x.revoked
                        /\ t[i].candidateRevoked \/ t[i].candidate = s => x.candidateRevoked
  BY DEF Revoke
<1>0. s # 0
  BY DEF Sessions
<1> DEFINE P == t[i].revoked \/ (t[i].session # 0 /\ t[i].session = s)
           Q == t[i].candidateRevoked \/ (t[i].candidate # 0 /\ t[i].candidate = s)
<1>1. PICK p \in BOOLEAN : p = P
  OBVIOUS
<1>2. PICK q \in BOOLEAN : q = Q
  OBVIOUS
<1>3. Revoke(t, s)[i] = [t[i] EXCEPT !.revoked = p, !.candidateRevoked = q]
  BY <1>1, <1>2 DEF Revoke
<1>4. /\ t[i].revoked \/ t[i].session = s => P
      /\ t[i].candidateRevoked \/ t[i].candidate = s => Q
  BY <1>0
<1>5. /\ P => p
      /\ Q => q
  <2> HIDE DEF P, Q
  <2> QED
    BY <1>1, <1>2
<1> QED
  BY <1>3, <1>4, <1>5 DEF SessionSlots

-----------------------------------------------------------------------------
(* What the operations on requests change *)

LEMMA NewRequest ==
    ASSUME TypeOK, NEW i \in Slots, NEW k \in {"login", "resume", "logout"}, NEW s \in 0 .. MaxSessions,
           lastInstance < MaxInstances
    PROVE  /\ Request(i, k, s) \in Requests
           /\ Request(i, k, s).kind = k
           /\ Request(i, k, s).instance = lastInstance + 1
           /\ Request(i, k, s).session = s
           /\ Request(i, k, s).outcome = "queued"
BY DEF TypeOK, Request, Requests, Leases

LEMMA RequestFields ==
    ASSUME NEW r \in Requests
    PROVE  /\ r.kind \in {"login", "resume", "logout"}
           /\ r.slot \in Slots
           /\ r.generation \in Nat /\ r.generation \in 0 .. MaxGeneration
           /\ r.instance \in Nat /\ r.instance \in 1 .. MaxInstances
           /\ r.session \in 0 .. MaxSessions
           /\ r.session # 0 => r.session \in Sessions
           /\ r.outcome \in {"queued", "ok", "unknown", "failed"}
BY DEF Requests, Sessions

LEMMA SlotFields ==
    ASSUME NEW t \in [Slots -> SessionSlots], NEW i \in Slots
    PROVE  /\ t[i].generation \in Nat
           /\ t[i].session \in 0 .. MaxSessions /\ (t[i].session # 0 => t[i].session \in Sessions)
           /\ t[i].candidate \in 0 .. MaxSessions /\ (t[i].candidate # 0 => t[i].candidate \in Sessions)
           /\ t[i].handle \in 0 .. MaxHandles /\ t[i].ticket \in 0 .. MaxHandles
BY DEF SessionSlots, Sessions

\* The candidate of a receipt that holds a ticket, and no other.
LEMMA Ownership ==
    ASSUME IInv
    PROVE  /\ \A i \in Slots : table[i].candidate # 0 => ticket # 0
           /\ \A r \in completion : ticket # 0 => Binds(r) /\ HasTicket(r) /\ table[r.slot].candidate = r.session
           /\ \A r \in completion, i \in Slots : table[i].candidate # 0 => i = r.slot
           /\ completion = {} => ticket = 0 /\ \A i \in Slots : table[i].candidate = 0
<1>1. \A i \in Slots : table[i].candidate # 0 => ticket # 0
  BY DEF IInv, OneReceipt, PendingOwned, HasTicket
<1>2. \A r \in completion, i \in Slots : table[i].candidate # 0 => i = r.slot /\ r.session = table[i].candidate
  BY DEF IInv, OneReceipt, PendingOwned
<1>3. \A r \in completion : ticket # 0 => Binds(r) /\ HasTicket(r)
  BY DEF IInv, OneReceipt
<1>4. \A r \in completion : ticket # 0 => table[r.slot].candidate = r.session
  <2> SUFFICES ASSUME NEW r \in completion, ticket # 0 PROVE table[r.slot].candidate = r.session
    OBVIOUS
  <2>1. r.slot \in Slots /\ table[r.slot].candidate # 0
    BY <1>3, RequestFields DEF HasTicket, IInv, TypeOK
  <2> QED
    BY <1>2, <2>1
<1> QED
  BY <1>1, <1>2, <1>3, <1>4 DEF IInv, OneReceipt

\* A result that passes the cutoff may be bound.
LEMMA BindSound ==
    ASSUME IInv, NEW r \in Outstanding, Binds(r), CheckResume(r)
    PROVE  /\ r.session \in Sessions
           /\ db[r.session] = "revoked" => LogoutUnderway(r.session)
<1>1. r \in Requests
  BY DEF IInv, TypeOK, Outstanding
<1>2. r.session \in Sessions
  BY <1>1, RequestFields DEF IInv, SessionsKnown, Binds
<1>3. CASE r.kind = "login"
  BY <1>2, <1>3 DEF IInv, SessionsKnown, Fresh, Binds
<1>4. CASE r.kind = "resume"
  <2>1. ~(r.instance <= cutoff)
    BY <1>1, <1>4, RequestFields DEF CheckResume, IInv, TypeOK
  <2> QED
    BY <1>2, <1>4, <2>1 DEF IInv, ResumesBounded, Binds
<1> QED
  BY <1>2, <1>3, <1>4 DEF Binds

\* Answering a result takes it out of one place at most.
LEMMA Shrink ==
    ASSUME IInv, NEW r \in Outstanding, completion \subseteq {r},
           flight' = flight \ {r}, completion' \in {{}, {r}},
           UNCHANGED <<lastInstance, lastResume>>, cutoff' \in {cutoff, lastResume}
    PROVE  /\ flight' \subseteq Requests /\ completion' \subseteq Requests
           /\ Outstanding' \subseteq Outstanding
           /\ Clocks' /\ Instances'
           /\ \A r1, r2 \in completion' : r1 = r2
<1>1. Outstanding' \subseteq Outstanding
  BY DEF Outstanding
<1>2. Outstanding \subseteq Requests
  BY DEF Outstanding, IInv, TypeOK
<1>3. Clocks'
  BY <1>1, <1>2 DEF IInv, Clocks, TypeOK
<1>4. Instances'
  BY <1>1, <1>2 DEF IInv, Instances
<1> QED
  BY <1>1, <1>2, <1>3, <1>4 DEF Outstanding

\* No binding appears but the one of the result that is answered.
LEMMA KnownStep ==
    ASSUME IInv, Outstanding' \subseteq Outstanding, UNCHANGED db,
           NEW r \in Outstanding,
           \A i \in Slots : \/ table'[i].session \in {0, table[i].session}
                            \/ table'[i].session = r.session /\ Binds(r) /\ r \notin Outstanding'
    PROVE  SessionsKnown'
<1>1. Outstanding \subseteq Requests
  BY DEF Outstanding, IInv, TypeOK
<1>2. ASSUME NEW s \in Sessions, References(s)'
      PROVE  References(s) \/ (s = r.session /\ Binds(r) /\ r \notin Outstanding')
  BY <1>2 DEF References, Sessions
<1>3. \A s \in Sessions : db'[s] = "absent" => ~References(s)' /\ \A x \in Outstanding' : x.session # s
  BY <1>2 DEF IInv, SessionsKnown
<1>4. ASSUME NEW x \in Outstanding', Fresh(x)
      PROVE  db'[x.session] # "revoked" /\ ~References(x.session)'
  <2>1. x.session \in Sessions /\ ~References(x.session) /\ db[x.session] # "revoked"
    BY <1>1, <1>4, RequestFields DEF IInv, SessionsKnown, Fresh
  <2>2. ASSUME x.session = r.session, Binds(r), r \notin Outstanding' PROVE FALSE
    BY <1>4, <2>1, <2>2 DEF IInv, SessionsKnown, Fresh, Binds, References
  <2> QED
    BY <1>2, <2>1, <2>2
<1> QED
  BY <1>3, <1>4 DEF IInv, SessionsKnown, Fresh

-----------------------------------------------------------------------------
(* Answers *)

\* The answer of a result by an open client: plain, downgraded or binding.
LEMMA AnswerStep ==
    ASSUME IInv, NEW r \in Outstanding, completion \subseteq {r}, Open(r),
           r \in flight => ~HasEffect(r),
           flight' = flight \ {r},
           UNCHANGED <<lease, db, lastInstance, lastResume, cutoff>>,
           \/ AnswerBinding(r)
           \/ UNCHANGED table /\ ticket = 0 /\ \E ok \in BOOLEAN : AnswerPlain(r, ok)
    PROVE  IInv'
<1>1. r \in Requests /\ r.slot \in Slots /\ r.generation \in 0 .. MaxGeneration
  BY RequestFields DEF IInv, TypeOK, Outstanding
<1>2. completion' \in {{}, {r}} /\ wireStatus' \in BOOLEAN /\ stopped' \in BOOLEAN
  BY DEF AnswerBinding, AnswerDowngraded, AnswerBinds, AnswerCollides, AnswerPlain, ClearReceipt, KeepReceipt, IInv, TypeOK
<1>3. /\ flight' \subseteq Requests /\ completion' \subseteq Requests
      /\ Outstanding' \subseteq Outstanding
      /\ Clocks' /\ Instances'
      /\ \A r1, r2 \in completion' : r1 = r2
  BY <1>2, Shrink
<1>4. \A s : LogoutUnderway(s) => LogoutUnderway(s)'
  BY DEF LogoutUnderway, HasEffect
<1>5. ResumesBounded'
  BY <1>3, <1>4 DEF IInv, ResumesBounded
<1>6. lease[r.slot].state # "free" /\ lease[r.slot].generation = r.generation
  BY DEF Open
<1> DEFINE Goal ==
        /\ table' \in [Slots -> SessionSlots] /\ ticket' \in 0 .. MaxHandles
        /\ \A i \in Slots : \/ table'[i].generation = table[i].generation
                            \/ i = r.slot /\ table'[i].generation = r.generation
        /\ \A i \in Slots : \/ table'[i].session \in {0, table[i].session}
                            \/ table'[i].session = r.session /\ Binds(r) /\ r \notin Outstanding'
        /\ NoRevival' /\ OneReceipt' /\ PendingOwned' /\ HandlesDistinct'
<1>7. SUFFICES Goal
  <2>1. TypeOK'
    BY <1>2, <1>3, <1>7 DEF IInv, TypeOK
  <2>2. SessionsKnown'
    BY <1>3, <1>7, KnownStep
  <2>3. BoundToLease'
    BY <1>6, <1>7 DEF IInv, BoundToLease
  <2> QED
    BY <1>3, <1>5, <1>7, <2>1, <2>2, <2>3 DEF IInv
<1>8. table \in [Slots -> SessionSlots] /\ ticket \in 0 .. MaxHandles /\ 0 \in 0 .. MaxHandles
  BY DEF IInv, TypeOK
<1>9. CASE table' = table /\ ticket = 0 /\ ticket' = 0
  <2>1. \A i \in Slots : table[i].candidate = 0
    BY <1>9, Ownership
  <2>2. NoRevival'
    BY <1>4, <1>9 DEF IInv, NoRevival
  <2>3. OneReceipt' /\ PendingOwned' /\ HandlesDistinct'
    BY <1>3, <1>9, <2>1 DEF IInv, OneReceipt, PendingOwned, HandlesDistinct
  <2> QED
    BY <1>8, <1>9, <2>2, <2>3
<1>10. CASE table' = Abort(table, r.slot) /\ ticket # 0 /\ ticket' = 0
  <2>1. /\ table' \in [Slots -> SessionSlots]
        /\ \A j \in Slots \ {r.slot} : table'[j] = table[j]
        /\ table'[r.slot].generation = table[r.slot].generation
        /\ table'[r.slot].session = table[r.slot].session
        /\ table'[r.slot].handle = table[r.slot].handle
        /\ table'[r.slot].revoked = table[r.slot].revoked
        /\ table'[r.slot].candidate = 0
    BY <1>1, <1>8, <1>10, AbortTable
  <2>2. \A i \in Slots : table'[i].candidate = 0
    <3>1. completion = {r}
      BY <1>10, Ownership
    <3> QED
      BY <2>1, <3>1, Ownership
  <2>3. NoRevival'
    BY <1>4, <2>1, <2>2 DEF IInv, NoRevival
  <2>4. OneReceipt' /\ PendingOwned'
    BY <1>3, <1>10, <2>2 DEF OneReceipt, PendingOwned
  <2>5. HandlesDistinct'
    BY <2>1, <2>2 DEF IInv, HandlesDistinct
  <2> QED
    BY <1>8, <1>10, <2>1, <2>3, <2>4, <2>5
<1>11. CASE table' = table /\ ticket # 0 /\ ticket' = ticket /\ wireStatus' = TRUE /\ completion' = {r}
  <2>1. completion = {r}
    BY <1>11, Ownership
  <2>2. NoRevival'
    BY <1>4, <1>11 DEF IInv, NoRevival
  <2>3. OneReceipt' /\ PendingOwned' /\ HandlesDistinct'
    BY <1>3, <1>11, <2>1 DEF IInv, OneReceipt, PendingOwned, HandlesDistinct, HasTicket
  <2> QED
    BY <1>8, <1>11, <2>2, <2>3
<1>12. ASSUME Binds(r), CheckResume(r), ticket = 0, NEW h \in Handles, h \notin UsedHandles,
              table' = Reserve(r, h), ticket' = h, wireStatus' = TRUE, completion' = {r}
       PROVE  Goal
  <2>0. h \in 0 .. MaxHandles /\ h # 0
    BY DEF Handles
  <2>1. /\ table' \in [Slots -> SessionSlots]
        /\ \A j \in Slots \ {r.slot} : table'[j] = table[j]
        /\ table'[r.slot].generation = r.generation
        /\ table'[r.slot].candidate = r.session
        /\ table'[r.slot].ticket = h
        /\ \/ /\ table'[r.slot].session = table[r.slot].session
              /\ table'[r.slot].handle = table[r.slot].handle
              /\ table'[r.slot].revoked = table[r.slot].revoked
           \/ table'[r.slot].session = 0
    <3> DEFINE t == Reserve(r, h)
    <3>1. /\ t \in [Slots -> SessionSlots]
          /\ \A j \in Slots \ {r.slot} : t[j] = table[j]
          /\ t[r.slot].generation = r.generation /\ t[r.slot].candidate = r.session /\ t[r.slot].ticket = h
          /\ \/ /\ t[r.slot].session = table[r.slot].session
                /\ t[r.slot].handle = table[r.slot].handle
                /\ t[r.slot].revoked = table[r.slot].revoked
             \/ t[r.slot].session = 0
      BY <1>1, <1>8, ReserveTable
    <3>2. table' = t
      BY <1>12
    <3> HIDE DEF t
    <3> QED
      BY <3>1, <3>2
  <2>2. \A i \in Slots : table[i].candidate = 0
    BY <1>12, Ownership
  <2>3. r.session \in Sessions /\ r.session # 0 /\ (db[r.session] = "revoked" => LogoutUnderway(r.session))
    BY <1>12, BindSound DEF Sessions
  <2>4. NoRevival'
    BY <1>4, <2>1, <2>2, <2>3 DEF IInv, NoRevival
  <2>5. HasTicket(r)'
    BY <1>12, <2>1, <2>3 DEF HasTicket
  <2>6. OneReceipt' /\ PendingOwned'
    BY <1>1, <1>3, <1>12, <2>0, <2>1, <2>2, <2>5 DEF OneReceipt, PendingOwned
  <2>7. HandlesDistinct'
    BY <1>1, <1>12, <2>1, <2>2 DEF IInv, HandlesDistinct, UsedHandles
  <2> QED
    BY <1>12, <2>0, <2>1, <2>4, <2>6, <2>7
<1>13. ASSUME ticket # 0, Binds(r), table' = Commit(table, r.slot), ticket' = 0, completion' = {}
       PROVE  Goal
  <2>1. /\ table' \in [Slots -> SessionSlots]
        /\ \A j \in Slots \ {r.slot} : table'[j] = table[j]
        /\ table'[r.slot].generation = table[r.slot].generation
        /\ table'[r.slot].session = table[r.slot].candidate
        /\ table'[r.slot].handle = table[r.slot].ticket
        /\ table'[r.slot].revoked = table[r.slot].candidateRevoked
        /\ table'[r.slot].candidate = 0
    BY <1>1, <1>8, <1>13, CommitTable
  <2>2. completion = {r} /\ table[r.slot].candidate = r.session /\ table[r.slot].candidate # 0
    BY <1>13, Ownership DEF HasTicket
  <2>3. \A i \in Slots : table'[i].candidate = 0
    BY <2>1, <2>2, Ownership
  <2>4. r \notin Outstanding'
    BY <1>13 DEF Outstanding
  <2>5. NoRevival'
    BY <1>1, <1>4, <2>1, <2>2, <2>3 DEF IInv, NoRevival
  <2>6. OneReceipt' /\ PendingOwned'
    BY <1>3, <1>13, <2>3 DEF OneReceipt, PendingOwned
  <2>7. HandlesDistinct'
    BY <1>1, <2>1, <2>2, <2>3 DEF IInv, HandlesDistinct
  <2> QED
    BY <1>8, <1>13, <2>1, <2>2, <2>4, <2>5, <2>6, <2>7
<1>14. ASSUME Binds(r), CheckResume(r), ticket = 0, NEW h \in Handles, h \notin UsedHandles,
              table' = Commit(Reserve(r, h), r.slot), ticket' = 0, completion' = {}
       PROVE  Goal
  <2>1. /\ Reserve(r, h) \in [Slots -> SessionSlots]
        /\ \A j \in Slots \ {r.slot} : Reserve(r, h)[j] = table[j]
        /\ Reserve(r, h)[r.slot].generation = r.generation
        /\ Reserve(r, h)[r.slot].candidate = r.session
        /\ Reserve(r, h)[r.slot].ticket = h
    BY <1>1, <1>8, <1>14, ReserveTable
  <2>2. /\ table' \in [Slots -> SessionSlots]
        /\ \A j \in Slots \ {r.slot} : table'[j] = table[j]
        /\ table'[r.slot].generation = r.generation
        /\ table'[r.slot].session = r.session
        /\ table'[r.slot].handle = h
        /\ table'[r.slot].candidate = 0
    BY <1>1, <1>14, <2>1, CommitTable
  <2>3. r.session \in Sessions /\ (db[r.session] = "revoked" => LogoutUnderway(r.session))
    BY <1>14, BindSound
  <2>4. \A i \in Slots : table[i].candidate = 0 /\ table'[i].candidate = 0
    BY <1>14, <2>2, Ownership
  <2>5. r \notin Outstanding'
    BY <1>14 DEF Outstanding
  <2>6. NoRevival'
    BY <1>1, <1>4, <2>2, <2>3, <2>4 DEF IInv, NoRevival
  <2>7. OneReceipt' /\ PendingOwned'
    BY <1>3, <1>14, <2>4 DEF OneReceipt, PendingOwned
  <2>8. HandlesDistinct'
    BY <1>1, <1>14, <2>2, <2>4 DEF IInv, HandlesDistinct, UsedHandles
  <2> QED
    BY <1>8, <1>14, <2>2, <2>5, <2>6, <2>7, <2>8
<1> HIDE DEF Goal
<1>15. CASE \E expired \in BOOLEAN : AnswerDowngraded(r, expired)
  BY <1>9, <1>10, <1>15 DEF AnswerDowngraded, ClearReceipt, KeepReceipt
<1>16. CASE AnswerBinds(r)
  BY <1>11, <1>12, <1>13, <1>14, <1>16 DEF AnswerBinds, ClearReceipt, KeepReceipt
<1>17. CASE AnswerCollides(r)
  BY <1>9, <1>17 DEF AnswerCollides, KeepReceipt
<1>18. CASE UNCHANGED table /\ ticket = 0 /\ \E ok \in BOOLEAN : AnswerPlain(r, ok)
  BY <1>9, <1>18 DEF AnswerPlain, ClearReceipt, KeepReceipt
<1> QED
  BY <1>15, <1>16, <1>17, <1>18 DEF AnswerBinding

\* A result taken from the queue that binds nothing, with the effect it may have.
LEMMA TakenStep ==
    ASSUME IInv, NEW r \in flight, completion = {},
           flight' = flight \ {r}, completion' \in {{}, {r}},
           ticket' = 0, wireStatus' \in BOOLEAN, stopped' \in BOOLEAN,
           cutoff' = CutoffAfterEffect(r),
           \/ table' = TableAfterEffect(r)
           \/ table' = Forget(TableAfterEffect(r), r.slot, r.generation),
           lease' = lease \/ lease' = [lease EXCEPT ![r.slot].state = "closing"],
           Open(r) \/ lease' = lease,
           UNCHANGED <<db, lastInstance, lastResume>>
    PROVE  IInv'
<1>1. r \in Requests /\ r.slot \in Slots /\ r.generation \in Nat /\ r \in Outstanding
  BY RequestFields DEF IInv, TypeOK, Outstanding
<1>2. HasEffect(r) => r.session \in Sessions
  BY <1>1, RequestFields DEF HasEffect, IInv, SessionsKnown
<1>3. cutoff' \in {cutoff, lastResume} /\ (HasEffect(r) => cutoff' = lastResume) /\ (~HasEffect(r) => cutoff' = cutoff)
  BY DEF CutoffAfterEffect
<1>4. /\ flight' \subseteq Requests /\ completion' \subseteq Requests
      /\ Outstanding' \subseteq Outstanding
      /\ Clocks' /\ Instances'
      /\ \A r1, r2 \in completion' : r1 = r2
  BY <1>1, <1>3, Shrink
<1>5. PICK t \in [Slots -> SessionSlots] :
        /\ t = TableAfterEffect(r)
        /\ \A i \in Slots :
            /\ t[i].generation = table[i].generation /\ t[i].session = table[i].session
            /\ t[i].handle = table[i].handle /\ t[i].candidate = table[i].candidate
            /\ table[i].revoked \/ (HasEffect(r) /\ table[i].session = r.session) => t[i].revoked
  <2>1. table \in [Slots -> SessionSlots]
    BY DEF IInv, TypeOK
  <2>2. CASE HasEffect(r)
    BY <1>2, <2>1, <2>2, RevokeTable DEF TableAfterEffect
  <2>3. CASE ~HasEffect(r)
    BY <2>1, <2>3 DEF TableAfterEffect
  <2> QED
    BY <2>2, <2>3
<1>6. /\ table' \in [Slots -> SessionSlots]
      /\ \A i \in Slots : table'[i] = t[i] \/ table'[i] = EmptySlot(0)
  <2>1. CASE table' = TableAfterEffect(r)
    BY <1>5, <2>1
  <2>2. CASE table' = Forget(TableAfterEffect(r), r.slot, r.generation)
    <3> DEFINE u == Forget(t, r.slot, r.generation)
    <3>1. /\ u \in [Slots -> SessionSlots]
          /\ \A i \in Slots : u[i] = t[i] \/ u[i] = EmptySlot(0)
      BY <1>1 DEF Forget, SessionSlots, EmptySlot
    <3>2. table' = u
      BY <1>5, <2>2
    <3> HIDE DEF u
    <3> QED
      BY <3>1, <3>2
  <2> QED
    BY <2>1, <2>2
<1>7. \A i \in Slots :
        /\ table'[i].candidate = 0
        /\ \/ table'[i].generation = 0 /\ table'[i].session = 0
           \/ /\ table'[i].generation = table[i].generation /\ table'[i].session = table[i].session
              /\ table'[i].handle = table[i].handle
              /\ table[i].revoked \/ (HasEffect(r) /\ table[i].session = r.session) => table'[i].revoked
  BY <1>5, <1>6, Ownership DEF EmptySlot
<1>8. \A s : LogoutUnderway(s) => LogoutUnderway(s)' \/ (HasEffect(r) /\ s = r.session)
  BY DEF LogoutUnderway, HasEffect
<1>9. TypeOK'
  <2>1. lease' \in [Slots -> Leases]
    BY <1>1 DEF IInv, TypeOK, Leases
  <2>2. cutoff' \in 0 .. MaxInstances /\ ticket' \in 0 .. MaxHandles
    BY <1>3 DEF IInv, TypeOK
  <2> QED
    BY <1>4, <1>6, <2>1, <2>2 DEF IInv, TypeOK
<1>10. SessionsKnown'
  BY <1>1, <1>4, <1>7, KnownStep
<1>11. ResumesBounded'
  BY <1>3, <1>4, <1>8 DEF IInv, ResumesBounded, Clocks
<1>12. NoRevival'
  BY <1>7, <1>8 DEF IInv, NoRevival
<1>13. OneReceipt' /\ PendingOwned'
  BY <1>4, <1>7 DEF OneReceipt, PendingOwned
<1>14. HandlesDistinct'
  BY <1>7 DEF IInv, HandlesDistinct
<1>15. BoundToLease'
  <2>1. \A i \in Slots : lease'[i].generation = lease[i].generation /\ (lease[i].state # "free" => lease'[i].state # "free")
    BY <1>1 DEF IInv, TypeOK, Leases
  <2> QED
    BY <1>7, <2>1 DEF IInv, BoundToLease
<1> QED
  BY <1>4, <1>9, <1>10, <1>11, <1>12, <1>13, <1>14, <1>15 DEF IInv

LEMMA TakeStep == ASSUME IInv, NEW r \in flight, Take(r) PROVE IInv'
<1>1. completion = {} /\ ticket = 0
  BY Ownership DEF Take
<1>2. r \in Outstanding /\ completion \subseteq {r}
  BY <1>1 DEF Outstanding
<1>3. stopped \in BOOLEAN
  BY DEF IInv, TypeOK
<1>4. CASE ~Open(r) \/ stopped
  BY <1>1, <1>3, <1>4, TakenStep DEF Take, ClearReceipt, AnswerPlain, AnswerBinding
<1>5. CASE Open(r) /\ ~stopped /\ table' = TableAfterEffect(r) /\ AnswerPlain(r, TRUE)
  <2>1. completion' \in {{}, {r}} /\ ticket' = 0 /\ wireStatus' \in BOOLEAN /\ stopped' \in BOOLEAN
    BY <1>3, <1>5 DEF AnswerPlain, ClearReceipt, KeepReceipt
  <2> QED
    BY <1>1, <1>5, <2>1, TakenStep DEF Take
<1>6. CASE Open(r) /\ ~stopped /\ AnswerBinding(r)
  <2>1. ~HasEffect(r)
    BY <1>6 DEF AnswerBinding, AnswerDowngraded, AnswerBinds, AnswerCollides, Binds, HasEffect
  <2>2. cutoff' = cutoff
    BY <2>1 DEF Take, CutoffAfterEffect
  <2>3. flight' = flight \ {r} /\ UNCHANGED <<lease, db, lastInstance, lastResume>>
    BY <1>6 DEF Take
  <2> QED
    BY <1>2, <1>6, <2>1, <2>2, <2>3, AnswerStep
<1> QED
  BY <1>4, <1>5, <1>6 DEF Take

LEMMA ResumeStep == ASSUME IInv, NEW r \in completion, Resume(r) PROVE IInv'
<1>1. r \in Outstanding /\ completion \subseteq {r} /\ r \notin flight
  BY DEF IInv, OneReceipt, Instances, Outstanding
<1>2. flight' = flight \ {r} /\ UNCHANGED <<lease, db, lastInstance, lastResume, cutoff>> /\ Open(r)
  BY <1>1 DEF Resume
<1>3. CASE AnswerPlain(r, wireStatus) /\ UNCHANGED table
  <2>1. ticket = 0
    BY <1>3, Ownership DEF AnswerPlain, IInv, OneReceipt
  <2>2. wireStatus \in BOOLEAN
    BY DEF IInv, TypeOK
  <2> QED
    BY <1>1, <1>2, <1>3, <2>1, <2>2, AnswerStep
<1>4. CASE AnswerBinding(r)
  BY <1>1, <1>2, <1>4, AnswerStep
<1> QED
  BY <1>3, <1>4 DEF Resume

LEMMA AbandonStep == ASSUME IInv, NEW r \in completion, Abandon(r) PROVE IInv'
<1>1. /\ r \in Requests /\ r.slot \in Slots /\ r \in Outstanding
      /\ completion = {r} /\ r \notin flight
  BY RequestFields DEF IInv, TypeOK, OneReceipt, Instances, Outstanding
<1>2. /\ flight' = flight \ {r} /\ completion' = {} /\ ticket' = 0 /\ wireStatus' = FALSE
      /\ UNCHANGED <<db, lastInstance, lastResume, cutoff, stopped>>
  BY <1>1 DEF Abandon, ClearReceipt
<1>3. /\ flight' \subseteq Requests /\ completion' \subseteq Requests
      /\ Outstanding' \subseteq Outstanding
      /\ Clocks' /\ Instances'
  BY <1>1, <1>2, Shrink
<1>4. /\ table' \in [Slots -> SessionSlots]
      /\ \A i \in Slots :
            /\ table'[i].generation = table[i].generation /\ table'[i].session = table[i].session
            /\ table'[i].handle = table[i].handle /\ table'[i].revoked = table[i].revoked
            /\ table'[i].candidate = 0
  <2>1. table \in [Slots -> SessionSlots]
    BY DEF IInv, TypeOK
  <2>2. CASE ticket # 0
    <3>1. table' = Abort(table, r.slot)
      BY <2>2, Ownership DEF Abandon
    <3>2. \A i \in Slots \ {r.slot} : table[i].candidate = 0
      BY Ownership
    <3> QED
      BY <1>1, <2>1, <3>1, <3>2, AbortTable
  <2>3. CASE ticket = 0
    BY <2>1, <2>3, Ownership DEF Abandon
  <2> QED
    BY <2>2, <2>3
<1>5. /\ lease' \in [Slots -> Leases]
      /\ \A i \in Slots : lease'[i].generation = lease[i].generation /\ (lease[i].state # "free" => lease'[i].state # "free")
  BY <1>1 DEF IInv, TypeOK, Leases, Abandon
<1>6. TypeOK'
  <2>1. wireStatus' \in BOOLEAN /\ stopped' \in BOOLEAN
    BY <1>2 DEF IInv, TypeOK
  <2>2. ticket' \in 0 .. MaxHandles
    BY <1>2
  <2> QED
    BY <1>2, <1>3, <1>4, <1>5, <2>1, <2>2 DEF IInv, TypeOK
<1>7. SessionsKnown'
  BY <1>1, <1>2, <1>3, <1>4, KnownStep
<1>8. ResumesBounded' /\ NoRevival'
  <2>1. flight' = flight
    BY <1>1, <1>2
  <2>2. \A s : LogoutUnderway(s)' <=> LogoutUnderway(s)
    BY <2>1 DEF LogoutUnderway, HasEffect
  <2> QED
    BY <1>2, <1>3, <1>4, <2>2 DEF IInv, ResumesBounded, NoRevival
<1>9. OneReceipt' /\ PendingOwned' /\ HandlesDistinct' /\ BoundToLease'
  BY <1>2, <1>4, <1>5 DEF IInv, OneReceipt, PendingOwned, HandlesDistinct, BoundToLease
<1> QED
  BY <1>3, <1>6, <1>7, <1>8, <1>9 DEF IInv

-----------------------------------------------------------------------------
(* Clients, submissions and workers *)

\* Everything but the leases depends on the requests, the table and the database.
LEMMA LeaseStep ==
    ASSUME IInv, UNCHANGED <<table, db, flight, receipt, lastInstance, lastResume, cutoff>>,
           stopped' \in BOOLEAN, lease' \in [Slots -> Leases], BoundToLease'
    PROVE  IInv'
<1>1. \A s : LogoutUnderway(s)' <=> LogoutUnderway(s)
  BY DEF LogoutUnderway, HasEffect
<1>2. TypeOK' /\ Clocks' /\ Instances'
  BY DEF IInv, TypeOK, Clocks, Instances, Outstanding, receipt
<1>3. OneReceipt' /\ PendingOwned' /\ HandlesDistinct'
  BY DEF IInv, OneReceipt, PendingOwned, HandlesDistinct, HasTicket, receipt
<1>4. SessionsKnown' /\ ResumesBounded' /\ NoRevival'
  BY <1>1 DEF IInv, SessionsKnown, References, ResumesBounded, NoRevival, Outstanding, receipt
<1> QED
  BY <1>2, <1>3, <1>4 DEF IInv

LEMMA ReleaseStep == ASSUME IInv, NEW i \in Slots, Release(i) PROVE IInv'
<1>1. /\ table \in [Slots -> SessionSlots] /\ lease \in [Slots -> Leases]
      /\ completion \subseteq Requests /\ flight \subseteq Requests
  BY DEF IInv, TypeOK
<1>2. lease[i].generation \in Nat
  BY <1>1 DEF Leases
<1>3. /\ table' \in [Slots -> SessionSlots]
      /\ \A j \in Slots \ {i} : table'[j] = table[j]
      /\ table[i].generation # lease[i].generation => table'[i] = table[i]
      /\ table[i].generation = lease[i].generation => table'[i] = EmptySlot(0)
  BY <1>1, <1>2 DEF Release, Forget, SessionSlots, EmptySlot
<1>4. \A j \in Slots : \/ table'[j] = table[j]
                       \/ /\ j = i /\ table[i].generation = lease[i].generation
                          /\ table'[j].generation = 0 /\ table'[j].session = 0 /\ table'[j].candidate = 0
  BY <1>3 DEF EmptySlot
<1>5. /\ lease' \in [Slots -> Leases]
      /\ \A j \in Slots \ {i} : lease'[j] = lease[j]
  BY <1>1 DEF Release, Leases
<1>6. \A s : LogoutUnderway(s)' <=> LogoutUnderway(s)
  BY DEF LogoutUnderway, HasEffect, Release
<1>7. TypeOK' /\ Clocks' /\ Instances'
  BY <1>3, <1>5 DEF IInv, TypeOK, Clocks, Instances, Outstanding, Release, receipt
<1>8. SessionsKnown'
  <2>1. \A s \in Sessions : References(s)' => References(s)
    BY <1>4 DEF References, Release, Outstanding, receipt, Sessions
  <2>2. Outstanding' = Outstanding /\ db' = db
    BY DEF Outstanding, Release, receipt
  <2>3. \A r \in Outstanding : Fresh(r) => r.session \in Sessions
    BY <1>1, RequestFields DEF Fresh, IInv, SessionsKnown, Outstanding
  <2> QED
    BY <2>1, <2>2, <2>3 DEF IInv, SessionsKnown, Fresh
<1>9. ResumesBounded' /\ NoRevival'
  BY <1>4, <1>6 DEF IInv, ResumesBounded, NoRevival, Release, Outstanding, receipt
<1>10. ASSUME NEW r \in completion, HasTicket(r) PROVE HasTicket(r)' /\ table'[r.slot] = table[r.slot]
  <2>1. r.slot \in Slots
    BY <1>1, RequestFields
  <2> QED
    BY <1>4, <1>10, <2>1 DEF HasTicket, Release, receipt
<1>11. OneReceipt'
  BY <1>4, <1>10 DEF IInv, OneReceipt, Binds, Release, receipt
<1>12. PendingOwned'
  BY <1>4, <1>10 DEF IInv, PendingOwned, Release, receipt
<1>13. HandlesDistinct'
  BY <1>4 DEF IInv, HandlesDistinct
<1>14. BoundToLease'
  <2>1. table'[i].generation = 0
    BY <1>3 DEF IInv, BoundToLease, EmptySlot
  <2> QED
    BY <1>3, <1>5, <2>1 DEF IInv, BoundToLease
<1> QED
  BY <1>7, <1>8, <1>9, <1>11, <1>12, <1>13, <1>14 DEF IInv

LEMMA ClientStep ==
    ASSUME IInv, NEW i \in Slots, Admit(i) \/ Close(i) \/ Stop
    PROVE  IInv'
<1>1. lease \in [Slots -> Leases] /\ stopped \in BOOLEAN
  BY DEF IInv, TypeOK
<1>2. CASE Admit(i)
  <2>1. lease' \in [Slots -> Leases]
    BY <1>1, <1>2 DEF Admit, Leases
  <2>2. BoundToLease'
    BY <1>1, <1>2 DEF Admit, IInv, BoundToLease, Leases
  <2> QED
    BY <1>1, <1>2, <2>1, <2>2, LeaseStep DEF Admit
<1>3. CASE Close(i)
  <2>1. lease' \in [Slots -> Leases] /\ BoundToLease'
    BY <1>1, <1>3 DEF Close, Leases, IInv, BoundToLease
  <2> QED
    BY <1>1, <1>3, <2>1, LeaseStep DEF Close
<1>4. CASE Stop
  <2>1. BoundToLease' /\ stopped' \in BOOLEAN
    BY <1>4 DEF Stop, IInv, BoundToLease
  <2> QED
    BY <1>1, <1>4, <2>1, LeaseStep DEF Stop
<1> QED
  BY <1>2, <1>3, <1>4

\* A new request, known to refer to an existing session that is not fresh.
LEMMA IssueStep ==
    ASSUME IInv, NEW i \in Slots, NEW k \in {"login", "resume", "logout"}, NEW s \in 0 .. MaxSessions,
           Issue(i, k, s),
           k = "resume" => lastResume' = lastInstance + 1,
           k # "resume" => lastResume' = lastResume,
           k = "login" => s = 0,
           k # "login" => /\ s \in Sessions /\ db[s] # "absent"
                          /\ \A r \in Outstanding : Fresh(r) => r.session # s
    PROVE  IInv'
<1> DEFINE q == Request(i, k, s)
<1>1. /\ q \in Requests /\ q.kind = k /\ q.instance = lastInstance + 1 /\ q.session = s
      /\ q.outcome = "queued"
  BY NewRequest DEF Issue, IInv
<1>2. /\ Outstanding' \subseteq Outstanding \cup {q} /\ Outstanding \subseteq Requests
      /\ flight' \in {flight, flight \cup {q}} /\ completion' = completion
      /\ lastInstance' = lastInstance + 1 /\ lastInstance' <= MaxInstances
      /\ UNCHANGED <<lease, table, db, wireStatus, ticket, cutoff, stopped>>
  BY DEF Issue, Outstanding, receipt, IInv, TypeOK
<1> HIDE DEF q
<1>3. lastInstance \in Nat /\ lastResume \in Nat /\ cutoff \in Nat /\ \A r \in Requests : r.instance \in Nat
  BY RequestFields DEF IInv, TypeOK
<1>4. TypeOK'
  <2>1. lastResume' \in 0 .. MaxInstances /\ lastInstance' \in 0 .. MaxInstances
    BY <1>2, <1>3 DEF IInv, TypeOK
  <2> QED
    BY <1>1, <1>2, <2>1 DEF IInv, TypeOK
<1>5. Clocks'
  BY <1>1, <1>2, <1>3 DEF IInv, Clocks
<1>6. Instances'
  BY <1>1, <1>2, <1>3 DEF IInv, Instances, Outstanding
<1>7. SessionsKnown'
  <2>1. \A t \in Sessions : References(t)' => References(t) \/ (k # "login" /\ t = s)
    BY <1>1, <1>2 DEF References
  <2>2. ~Fresh(q)
    BY <1>1 DEF Fresh
  <2>3. \A r \in Outstanding : Fresh(r) => r.session \in Sessions
    BY <1>2, RequestFields DEF Fresh, IInv, SessionsKnown
  <2>4. \A t \in Sessions : t # 0
    BY DEF Sessions
  <2>5. \A r \in Outstanding' : r.kind # "login" \/ r.outcome = "ok" => r.session # 0
    BY <1>1, <1>2, <2>4 DEF IInv, SessionsKnown
  <2>6. \A t \in Sessions : db'[t] = "absent" => ~References(t)' /\ \A r \in Outstanding' : r.session # t
    BY <1>1, <1>2, <2>1, <2>4 DEF IInv, SessionsKnown
  <2>7. \A r \in Outstanding' : Fresh(r) => db'[r.session] # "revoked" /\ ~References(r.session)'
    BY <1>2, <2>1, <2>2, <2>3 DEF IInv, SessionsKnown
  <2>8. \A r1, r2 \in Outstanding' : Fresh(r1) /\ Fresh(r2) /\ r1.session = r2.session => r1 = r2
    BY <1>2, <2>2 DEF IInv, SessionsKnown
  <2> QED
    BY <2>5, <2>6, <2>7, <2>8 DEF SessionsKnown, Fresh
<1>8. \A t : LogoutUnderway(t) => LogoutUnderway(t)'
  BY <1>2 DEF LogoutUnderway, HasEffect
<1>9. ResumesBounded' /\ NoRevival'
  BY <1>1, <1>2, <1>8 DEF IInv, ResumesBounded, NoRevival
<1>10. OneReceipt' /\ PendingOwned' /\ HandlesDistinct' /\ BoundToLease'
  BY <1>2 DEF IInv, OneReceipt, PendingOwned, HandlesDistinct, BoundToLease, HasTicket, Binds
<1> QED
  BY <1>4, <1>5, <1>6, <1>7, <1>9, <1>10 DEF IInv

LEMMA SubmitStep ==
    ASSUME IInv, NEW i \in Slots,
           SubmitLogin(i) \/ SubmitLogout(i) \/ \E s \in Sessions : SubmitResume(i, s)
    PROVE  IInv'
<1>1. CASE SubmitLogin(i)
  BY <1>1, IssueStep DEF SubmitLogin
<1>2. CASE SubmitLogout(i)
  <2>1. table[i].session \in Sessions /\ table[i].session \in 0 .. MaxSessions /\ References(table[i].session)
    BY <1>2, SlotFields DEF SubmitLogout, Authorized, IInv, TypeOK, References
  <2>2. db[table[i].session] # "absent" /\ \A r \in Outstanding : Fresh(r) => r.session # table[i].session
    BY <2>1 DEF IInv, SessionsKnown
  <2> QED
    BY <1>2, <2>1, <2>2, IssueStep DEF SubmitLogout
<1>3. ASSUME NEW s \in Sessions, SubmitResume(i, s) PROVE IInv'
  <2>1. db[s] # "absent" /\ \A r \in Outstanding : Fresh(r) => r.session # s
    BY <1>3 DEF SubmitResume, TokenKnown, Outstanding, Fresh
  <2>2. s \in 0 .. MaxSessions
    BY DEF Sessions
  <2> QED
    BY <1>3, <2>1, <2>2, IssueStep DEF SubmitResume, NoteResume
<1> QED
  BY <1>1, <1>2, <1>3

\* A worker replaces a queued request by its result.
LEMMA ExecutedStep ==
    ASSUME IInv, NEW r \in flight, r.outcome = "queued",
           NEW s \in 0 .. MaxSessions, NEW o \in {"ok", "unknown", "failed"}, Executed(r, s, o),
           db' \in [Sessions -> {"absent", "live", "doubtful", "revoked"}],
           r.kind # "login" => s = r.session,
           r.kind = "login" => \/ o = "failed" /\ s = r.session
                               \/ o = "ok" /\ s \in Sessions /\ db[s] = "absent" /\ db'[s] = "live",
           \A t \in Sessions : db'[t] = "absent" => db[t] = "absent",
           \A t \in Sessions : db'[t] = "revoked" =>
                db[t] = "revoked" \/ (r.kind = "logout" /\ t = r.session /\ o = "ok"),
           r.kind = "resume" /\ o = "ok" => db'[s] # "revoked",
           UNCHANGED <<lease, table, receipt, lastInstance, lastResume, cutoff, stopped>>
    PROVE  IInv'
<1> DEFINE x == [r EXCEPT !.session = s, !.outcome = o]
<1>1. r \in Requests /\ r \in Outstanding /\ Outstanding \subseteq Requests /\ r \notin completion
  BY DEF IInv, TypeOK, Outstanding, Instances
<1>2. /\ x \in Requests /\ x.kind = r.kind /\ x.instance = r.instance /\ x.session = s /\ x.outcome = o
  BY <1>1 DEF Requests
<1>3. flight' = (flight \ {r}) \cup {x} /\ completion' = completion
  BY DEF Executed, receipt
<1> HIDE DEF x
<1>4. Outstanding' = (Outstanding \ {r}) \cup {x}
  BY <1>1, <1>3 DEF Outstanding
<1>5. UNCHANGED <<lease, table, wireStatus, ticket, lastInstance, lastResume, cutoff, stopped>>
  BY DEF receipt
<1>6. TypeOK' /\ Clocks'
  BY <1>1, <1>2, <1>3, <1>4, <1>5 DEF IInv, TypeOK, Clocks
<1>7. Instances'
  <2>1. \A y \in completion : y \in Outstanding /\ y # r
    BY <1>1 DEF Outstanding
  <2>2. x \notin completion
    BY <1>1, <1>2, <2>1 DEF IInv, Instances
  <2> QED
    BY <1>1, <1>2, <1>3, <1>4, <1>5, <2>2 DEF IInv, Instances
<1>8. OneReceipt' /\ PendingOwned' /\ HandlesDistinct' /\ BoundToLease'
  BY <1>3, <1>5 DEF IInv, OneReceipt, PendingOwned, HandlesDistinct, BoundToLease, HasTicket, Binds
<1>9. SessionsKnown'
  <2>1. \A t \in Sessions : References(t)' => References(t)
    BY <1>1, <1>2, <1>4, <1>5 DEF References
  <2>2. \A t \in Sessions : t # 0
    BY DEF Sessions
  <2>3. \A y \in Outstanding : Fresh(y) => y.session \in Sessions
    BY <1>1, RequestFields DEF Fresh, IInv, SessionsKnown
  <2>4. Fresh(x) => s \in Sessions /\ db[s] = "absent" /\ db'[s] = "live"
    BY <1>2 DEF Fresh
  <2>5. r.kind # "login" => r.session # 0 /\ r.session \in Sessions /\ References(r.session)
    BY <1>1, RequestFields DEF IInv, SessionsKnown, References
  <2>6. \A y \in Outstanding' : y.kind # "login" \/ y.outcome = "ok" => y.session # 0
    BY <1>2, <1>4, <2>2, <2>5 DEF IInv, SessionsKnown
  <2>7. \A t \in Sessions : db'[t] = "absent" => ~References(t)' /\ \A y \in Outstanding' : y.session # t
    BY <1>1, <1>2, <1>4, <2>1 DEF IInv, SessionsKnown
  <2>8. \A y \in Outstanding' : Fresh(y) => db'[y.session] # "revoked" /\ ~References(y.session)'
    BY <1>2, <1>4, <2>1, <2>3, <2>4, <2>5 DEF IInv, SessionsKnown
  <2>9. \A r1, r2 \in Outstanding' : Fresh(r1) /\ Fresh(r2) /\ r1.session = r2.session => r1 = r2
    BY <1>2, <1>4, <2>4 DEF IInv, SessionsKnown
  <2> QED
    BY <2>6, <2>7, <2>8, <2>9 DEF SessionsKnown, Fresh
<1>10. \A t : LogoutUnderway(t) => LogoutUnderway(t)'
  BY <1>3 DEF LogoutUnderway, HasEffect
<1>11. \A t \in Sessions : db'[t] = "revoked" => db[t] = "revoked" \/ LogoutUnderway(t)'
  BY <1>2, <1>3 DEF LogoutUnderway, HasEffect
<1>12. ResumesBounded'
  <2>1. \A y \in Outstanding : y.kind = "resume" => y.session \in Sessions
    BY <1>1, RequestFields DEF IInv, SessionsKnown
  <2> QED
    BY <1>2, <1>4, <1>5, <1>10, <1>11, <2>1 DEF IInv, ResumesBounded
<1>13. NoRevival'
  <2>1. \A i \in Slots : /\ table[i].session # 0 => table[i].session \in Sessions
                         /\ table[i].candidate # 0 => table[i].candidate \in Sessions
    BY SlotFields DEF IInv, TypeOK
  <2> QED
    BY <1>5, <1>10, <1>11, <2>1 DEF IInv, NoRevival
<1> QED
  BY <1>6, <1>7, <1>8, <1>9, <1>12, <1>13 DEF IInv

LEMMA ExecuteStep == ASSUME IInv, NEW r \in flight, Execute(r) PROVE IInv'
<1>1. r \in Requests /\ r \in Outstanding /\ r.outcome = "queued"
  BY DEF IInv, TypeOK, Outstanding, Execute
<1>2. r.session \in 0 .. MaxSessions /\ (r.kind # "login" => r.session \in Sessions)
  BY <1>1, RequestFields DEF IInv, SessionsKnown
<1>3. db \in [Sessions -> {"absent", "live", "doubtful", "revoked"}]
  BY DEF IInv, TypeOK
<1>4. UNCHANGED <<lease, table, receipt, lastInstance, lastResume, cutoff, stopped>>
  BY DEF Execute
<1>5. CASE ExecuteFails(r)
  BY <1>1, <1>2, <1>3, <1>4, <1>5, ExecutedStep DEF ExecuteFails
<1>6. CASE ExecuteLogin(r)
  <2>1. PICK s \in Sessions : /\ \A t \in Sessions : db[t] = "absent" <=> t >= s
                              /\ db' = [db EXCEPT ![s] = "live"]
                              /\ Executed(r, s, "ok")
    BY <1>6 DEF ExecuteLogin
  <2>2. s \in 0 .. MaxSessions /\ s >= s
    BY DEF Sessions
  <2>3. db[s] = "absent" /\ db'[s] = "live" /\ r.kind = "login"
    BY <1>3, <1>6, <2>1, <2>2 DEF ExecuteLogin
  <2>4. db' \in [Sessions -> {"absent", "live", "doubtful", "revoked"}]
    BY <1>3, <2>1
  <2>5. \A t \in Sessions : (db'[t] = "absent" => db[t] = "absent") /\ (db'[t] = "revoked" => db[t] = "revoked")
    BY <1>3, <2>1
  <2> QED
    BY <1>1, <1>4, <2>1, <2>2, <2>3, <2>4, <2>5, ExecutedStep
<1>7. CASE ExecuteResume(r)
  <2>1. db' = db /\ db[r.session] # "revoked" /\ r.kind = "resume" /\ Executed(r, r.session, "ok")
    BY <1>7 DEF ExecuteResume
  <2> QED
    BY <1>1, <1>2, <1>3, <1>4, <2>1, ExecutedStep
<1>8. ASSUME r.kind = "logout", db' = [db EXCEPT ![r.session] = "revoked"], Executed(r, r.session, "ok")
      PROVE  IInv'
  <2>1. \A t \in Sessions : /\ db'[t] = "absent" => db[t] = "absent"
                            /\ db'[t] = "revoked" => db[t] = "revoked" \/ t = r.session
    BY <1>2, <1>3, <1>8
  <2>2. db' \in [Sessions -> {"absent", "live", "doubtful", "revoked"}]
    BY <1>3, <1>8
  <2> QED
    BY <1>1, <1>2, <1>4, <1>8, <2>1, <2>2, ExecutedStep
<1>9. ASSUME r.kind = "logout", Executed(r, r.session, "unknown"),
             db' = [db EXCEPT ![r.session] = IF db[r.session] = "live" THEN "doubtful" ELSE db[r.session]]
      PROVE  IInv'
  <2>1. \A t \in Sessions : /\ db'[t] = "absent" => db[t] = "absent"
                            /\ db'[t] = "revoked" => db[t] = "revoked"
    BY <1>2, <1>3, <1>9
  <2>2. db' \in [Sessions -> {"absent", "live", "doubtful", "revoked"}]
    BY <1>2, <1>3, <1>9
  <2> QED
    BY <1>1, <1>2, <1>4, <1>9, <2>1, <2>2, ExecutedStep
<1> QED
  BY <1>5, <1>6, <1>7, <1>8, <1>9 DEF Execute, ExecuteLogout

-----------------------------------------------------------------------------
(* The theorems *)

LEMMA InitInv == Init => IInv
<1> SUFFICES ASSUME Init PROVE IInv
  OBVIOUS
<1>1. EmptySlot(0) \in SessionSlots
  <2>1. 0 \in 0 .. MaxSessions /\ 0 \in 0 .. MaxHandles /\ 0 \in 0 .. MaxGeneration
    OBVIOUS
  <2> QED
    BY <2>1, Zenon DEF EmptySlot, SessionSlots
<1>2. TypeOK
  <2>1. lease \in [Slots -> Leases]
    BY DEF Init, Leases
  <2>2. ticket \in 0 .. MaxHandles /\ lastInstance \in 0 .. MaxInstances /\ lastResume \in 0 .. MaxInstances
        /\ cutoff \in 0 .. MaxInstances
    BY DEF Init
  <2>3. wireStatus \in BOOLEAN /\ stopped \in BOOLEAN
    BY DEF Init
  <2>4. table \in [Slots -> SessionSlots]
    BY <1>1 DEF Init
  <2>5. db \in [Sessions -> {"absent", "live", "doubtful", "revoked"}] /\ flight \subseteq Requests /\ completion \subseteq Requests
    BY DEF Init
  <2> QED
    BY <2>1, <2>2, <2>3, <2>4, <2>5 DEF TypeOK
<1>3. \A i \in Slots : table[i].session = 0 /\ table[i].candidate = 0 /\ table[i].generation = 0
  BY DEF Init, EmptySlot
<1>4. Outstanding = {} /\ completion = {} /\ flight = {} /\ ticket = 0
  BY DEF Init, Outstanding
<1>5. Clocks /\ Instances /\ OneReceipt
  BY <1>3, <1>4 DEF Init, Clocks, Instances, OneReceipt
<1>6. SessionsKnown /\ ResumesBounded
  BY <1>3, <1>4 DEF SessionsKnown, ResumesBounded, References, Sessions
<1>7. NoRevival /\ PendingOwned /\ HandlesDistinct /\ BoundToLease
  BY <1>3 DEF NoRevival, PendingOwned, HandlesDistinct, BoundToLease
<1> QED
  BY <1>2, <1>5, <1>6, <1>7 DEF IInv

LEMMA NextInv == IInv /\ [Next]_vars => IInv'
<1> SUFFICES ASSUME IInv, [Next]_vars PROVE IInv'
  OBVIOUS
<1>1. CASE UNCHANGED vars
  <2>1. stopped' \in BOOLEAN /\ lease' \in [Slots -> Leases] /\ BoundToLease'
    BY <1>1 DEF vars, IInv, TypeOK, BoundToLease
  <2> QED
    BY <1>1, <2>1, LeaseStep DEF vars
<1>2. ASSUME NEW i \in Slots, Admit(i) \/ Close(i) PROVE IInv'
  BY <1>2, ClientStep
<1>3. ASSUME NEW i \in Slots, Release(i) PROVE IInv'
  BY <1>3, ReleaseStep
<1>4. ASSUME NEW i \in Slots, SubmitLogin(i) \/ SubmitLogout(i) \/ \E s \in Sessions : SubmitResume(i, s) PROVE IInv'
  BY <1>4, SubmitStep
<1>5. ASSUME NEW r \in flight, Execute(r) PROVE IInv'
  BY <1>5, ExecuteStep
<1>6. ASSUME NEW r \in flight, Take(r) PROVE IInv'
  BY <1>6, TakeStep
<1>7. ASSUME NEW r \in completion, Resume(r) PROVE IInv'
  BY <1>7, ResumeStep
<1>8. ASSUME NEW r \in completion, Abandon(r) PROVE IInv'
  BY <1>8, AbandonStep
<1>9. CASE Stop
  <2>1. stopped' \in BOOLEAN /\ lease' \in [Slots -> Leases] /\ BoundToLease'
    BY <1>9 DEF Stop, IInv, TypeOK, BoundToLease
  <2> QED
    BY <1>9, <2>1, LeaseStep DEF Stop
<1> QED
  BY <1>1, <1>2, <1>3, <1>4, <1>5, <1>6, <1>7, <1>8, <1>9 DEF Next

\* The conjunction of the inductive invariant holds in every reachable state.
THEOREM Invariance == Spec => []IInv
<1>1. Init => IInv
  BY InitInv
<1>2. IInv /\ [Next]_vars => IInv'
  BY NextInv
<1> QED
  BY <1>1, <1>2, PTL DEF Spec

\* The session table, the requests and the receipt keep their types.
THEOREM TypeCorrect == Spec => []TypeOK
<1>1. IInv => TypeOK
  BY DEF IInv
<1> QED
  BY <1>1, Invariance, PTL

\* No answer that arrives late revives a session whose LOGOUT has committed,
\* however requests, results and reconnections of any number of clients interleave.
THEOREM NoRevivalCorrect == Spec => []NoRevival
<1>1. IInv => NoRevival
  BY DEF IInv
<1> QED
  BY <1>1, Invariance, PTL

\* A pending candidate always belongs to the receipt that will commit or abort it.
THEOREM PendingOwnedCorrect == Spec => []PendingOwned
<1>1. IInv => PendingOwned
  BY DEF IInv
<1> QED
  BY <1>1, Invariance, PTL

\* Handles of bindings and candidates are distinct.
THEOREM HandlesDistinctCorrect == Spec => []HandlesDistinct
<1>1. IInv => HandlesDistinct
  BY DEF IInv
<1> QED
  BY <1>1, Invariance, PTL

\* A binding belongs to the current lease of its slot.
THEOREM BoundToLeaseCorrect == Spec => []BoundToLease
<1>1. IInv => BoundToLease
  BY DEF IInv
<1> QED
  BY <1>1, Invariance, PTL

\* The table of auth_session.c keeps its four promises together, for any number of
\* slots, requests and reconnections: nothing revived, no candidate or handle
\* without its owner, no binding beyond its lease.
THEOREM SessionsSoundCorrect == Spec => []SessionsSound
<1>1. IInv => SessionsSound
  BY DEF IInv, SessionsSound
<1> QED
  BY <1>1, Invariance, PTL

=============================================================================
