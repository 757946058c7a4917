---------------------------- MODULE AuthSessions ----------------------------
(***************************************************************************)
(* The reactor's session table (net/auth_session.c) and the consumer of    *)
(* authentication results (net/auth_response_consumer.c).  Workers run     *)
(* LOGIN, RESUME and LOGOUT against the database and answer in any order;  *)
(* the reactor binds a session to a connection when it queues the answer,  *)
(* and a LOGOUT revokes the session on every connection.  A RESUME that    *)
(* was verified before a LOGOUT committed may be answered after it: the    *)
(* resume cutoff is what keeps it from reviving the session.               *)
(*                                                                         *)
(* As in the C structures, zero stands for no session and no handle.       *)
(***************************************************************************)
EXTENDS Integers

CONSTANTS
    Slots,          \* client slots of the service
    MaxSessions,    \* bound: sessions the database may create
    MaxHandles,     \* bound: values a random handle may take
    MaxInstances,   \* bound: request instances issued
    MaxGeneration   \* bound: leases of one slot

ASSUME BoundsAssumption ==
    /\ MaxSessions \in Nat
    /\ MaxHandles \in Nat
    /\ MaxInstances \in Nat
    /\ MaxGeneration \in Nat

VARIABLES
    lease,          \* generation and state of every client slot
    table,          \* the session slots, one per client slot
    db,             \* sessions as the database knows them
    flight,         \* requests a worker or the completion queue owns
    completion,     \* the result the consumer is working on, at most one
    wireStatus,     \* its receipt: the answer is still OK
    ticket,         \* its receipt: handle of the candidate it reserved, or 0
    lastInstance,   \* last request instance issued
    lastResume,     \* last_resume_instance
    cutoff,         \* resume_cutoff
    stopped         \* the service is stopping

receipt == <<completion, wireStatus, ticket>>
vars == <<lease, table, db, flight, receipt, lastInstance, lastResume, cutoff, stopped>>

-----------------------------------------------------------------------------
Sessions == 1 .. MaxSessions
Handles == 1 .. MaxHandles

Leases == [generation : 0 .. MaxGeneration, state : {"free", "open", "closing"}]

\* active is session # 0, pending is candidate # 0.
SessionSlots == [generation : 0 .. MaxGeneration,
                 session : 0 .. MaxSessions, handle : 0 .. MaxHandles, revoked : BOOLEAN,
                 candidate : 0 .. MaxSessions, ticket : 0 .. MaxHandles, candidateRevoked : BOOLEAN]

\* outcome: COMMITTED or validated, COMMIT_UNKNOWN, or anything else.
Requests == [kind : {"login", "resume", "logout"}, slot : Slots, generation : 0 .. MaxGeneration,
             instance : 1 .. MaxInstances, session : 0 .. MaxSessions,
             outcome : {"queued", "ok", "unknown", "failed"}]

\* The type invariant: the shapes of the table, of the requests and of the receipt.
TypeOK ==
    /\ lease \in [Slots -> Leases]
    /\ table \in [Slots -> SessionSlots]
    /\ db \in [Sessions -> {"absent", "live", "doubtful", "revoked"}]
    /\ flight \subseteq Requests
    /\ completion \subseteq Requests
    /\ wireStatus \in BOOLEAN
    /\ ticket \in 0 .. MaxHandles
    /\ lastInstance \in 0 .. MaxInstances
    /\ lastResume \in 0 .. MaxInstances
    /\ cutoff \in 0 .. MaxInstances
    /\ stopped \in BOOLEAN

EmptySlot(generation) ==
    [generation |-> generation, session |-> 0, handle |-> 0, revoked |-> FALSE,
     candidate |-> 0, ticket |-> 0, candidateRevoked |-> FALSE]

Init ==
    /\ lease = [i \in Slots |-> [generation |-> 0, state |-> "free"]]
    /\ table = [i \in Slots |-> EmptySlot(0)]
    /\ db = [s \in Sessions |-> "absent"]
    /\ flight = {}
    /\ completion = {}
    /\ wireStatus = FALSE
    /\ ticket = 0
    /\ lastInstance = 0
    /\ lastResume = 0
    /\ cutoff = 0
    /\ stopped = FALSE

-----------------------------------------------------------------------------
(* Clients *)

Leased(r) == lease[r.slot].state # "free" /\ lease[r.slot].generation = r.generation
Open(r) == lease[r.slot].state = "open" /\ lease[r.slot].generation = r.generation

Admit(i) ==
    /\ ~stopped
    /\ lease[i].state = "free"
    /\ lease[i].generation < MaxGeneration
    /\ lease' = [lease EXCEPT ![i] = [generation |-> @.generation + 1, state |-> "open"]]
    /\ UNCHANGED <<table, db, flight, receipt, lastInstance, lastResume, cutoff, stopped>>

Close(i) ==
    /\ lease[i].state = "open"
    /\ lease' = [lease EXCEPT ![i].state = "closing"]
    /\ UNCHANGED <<table, db, flight, receipt, lastInstance, lastResume, cutoff, stopped>>

Stop ==
    /\ ~stopped
    /\ stopped' = TRUE
    /\ UNCHANGED <<lease, table, db, flight, receipt, lastInstance, lastResume, cutoff>>

\* vireo_auth_session_forget: only the lease it was bound under is cleared.
Forget(t, i, generation) ==
    IF t[i].generation = generation THEN [t EXCEPT ![i] = EmptySlot(0)] ELSE t

\* The last turn of the cleanup: nothing of the client is held any more.
Release(i) ==
    /\ lease[i].state = "closing"
    /\ ~ \E r \in completion : r.slot = i /\ r.generation = lease[i].generation
    /\ table' = Forget(table, i, lease[i].generation)
    /\ lease' = [lease EXCEPT ![i].state = "free"]
    /\ UNCHANGED <<db, flight, receipt, lastInstance, lastResume, cutoff, stopped>>

-----------------------------------------------------------------------------
(* Submission of requests *)

Request(i, kind, session) ==
    [kind |-> kind, slot |-> i, generation |-> lease[i].generation, instance |-> lastInstance + 1,
     session |-> session, outcome |-> "queued"]

\* The instance is issued before the submission may be refused.
Issue(i, kind, session) ==
    /\ ~stopped
    /\ lease[i].state = "open"
    /\ lastInstance < MaxInstances
    /\ lastInstance' = lastInstance + 1
    /\ flight' \in {flight, flight \cup {Request(i, kind, session)}}
    /\ UNCHANGED <<lease, table, db, receipt, cutoff, stopped>>

SubmitLogin(i) ==
    /\ Issue(i, "login", 0)
    /\ UNCHANGED lastResume

\* vireo_auth_session_note_resume: the watermark stays, also when the submission fails.
NoteResume == lastInstance + 1

\* A client holds a token only once the answer to its LOGIN has been queued.
TokenKnown(s) ==
    /\ db[s] # "absent"
    /\ ~ \E r \in flight \cup completion : r.kind = "login" /\ r.session = s

SubmitResume(i, s) ==
    /\ TokenKnown(s)
    /\ Issue(i, "resume", s)
    /\ lastResume' = NoteResume

\* vireo_auth_session_lookup by the client's own handle (expiry: see Answer).
Authorized(i) ==
    /\ table[i].generation = lease[i].generation
    /\ table[i].session # 0
    /\ ~table[i].revoked

SubmitLogout(i) ==
    /\ Authorized(i)
    /\ Issue(i, "logout", table[i].session)
    /\ UNCHANGED lastResume

-----------------------------------------------------------------------------
(* Workers: one transaction per request *)

Executed(r, session, outcome) ==
    flight' = (flight \ {r}) \cup {[r EXCEPT !.session = session, !.outcome = outcome]}

\* Expired deadline, wrong password, database error: nothing happened.  A LOGIN
\* whose COMMIT is in doubt reports no session and sends no token either.
ExecuteFails(r) ==
    /\ Executed(r, r.session, "failed")
    /\ UNCHANGED db

\* The session identifier is the AUTO_INCREMENT key of the new row.
ExecuteLogin(r) ==
    /\ r.kind = "login"
    /\ \E s \in Sessions :
        /\ \A t \in Sessions : db[t] = "absent" <=> t >= s
        /\ db' = [db EXCEPT ![s] = "live"]
        /\ Executed(r, s, "ok")

\* Whether a LOGOUT whose COMMIT got no reply has taken effect is not known.
ExecuteResume(r) ==
    /\ r.kind = "resume"
    /\ db[r.session] \in {"live", "doubtful"}
    /\ Executed(r, r.session, "ok")
    /\ UNCHANGED db

ExecuteLogout(r) ==
    /\ r.kind = "logout"
    /\ \/ /\ db' = [db EXCEPT ![r.session] = "revoked"]
          /\ Executed(r, r.session, "ok")
       \/ /\ db' = [db EXCEPT ![r.session] = IF @ = "live" THEN "doubtful" ELSE @]
          /\ Executed(r, r.session, "unknown")

Execute(r) ==
    /\ r \in flight
    /\ r.outcome = "queued"
    /\ ExecuteFails(r) \/ ExecuteLogin(r) \/ ExecuteResume(r) \/ ExecuteLogout(r)
    /\ UNCHANGED <<lease, table, receipt, lastInstance, lastResume, cutoff, stopped>>

-----------------------------------------------------------------------------
(* The effect of a LOGOUT: applied once, whoever is left to be answered *)

HasEffectIfLeased(r) == r.kind = "logout" /\ r.outcome \in {"ok", "unknown"} /\ Leased(r)

HasEffect(r) == r.kind = "logout" /\ r.outcome \in {"ok", "unknown"}

\* vireo_auth_session_revoke: every active and every pending binding of it.
Revoke(t, s) ==
    [i \in Slots |-> [t[i] EXCEPT !.revoked = @ \/ (t[i].session # 0 /\ t[i].session = s),
                                  !.candidateRevoked = @ \/ (t[i].candidate # 0 /\ t[i].candidate = s)]]

TableAfterEffect(r) == IF HasEffect(r) THEN Revoke(table, r.session) ELSE table

\* vireo_auth_session_apply_logout: no RESUME noted so far may bind any more.
CutoffAfterEffect(r) == IF HasEffect(r) THEN lastResume ELSE cutoff

-----------------------------------------------------------------------------
(* Answers *)

\* Only a committed LOGIN and a validated RESUME bind a session.
Binds(r) == r.kind \in {"login", "resume"} /\ r.outcome = "ok"

CheckResumeLenient(r) == r.kind = "resume" => r.instance >= cutoff

\* vireo_auth_session_check_resume.
CheckResume(r) == r.kind = "resume" => r.instance > cutoff

UsedHandles == {table[i].handle : i \in Slots} \cup {table[i].ticket : i \in Slots}

HasTicket(r) ==
    /\ table[r.slot].candidate # 0
    /\ table[r.slot].generation = r.generation
    /\ table[r.slot].ticket = ticket

\* A slot of an earlier lease is overwritten.
Reserve(r, h) ==
    [table EXCEPT ![r.slot] =
        [(IF @.generation = r.generation THEN @ ELSE EmptySlot(r.generation)) EXCEPT
            !.candidate = r.session, !.ticket = h, !.candidateRevoked = FALSE]]

Commit(t, i) ==
    LET c == t[i]
    IN  [t EXCEPT ![i] = [c EXCEPT !.session = c.candidate, !.handle = c.ticket, !.revoked = c.candidateRevoked,
                                   !.candidate = 0, !.ticket = 0, !.candidateRevoked = FALSE]]

Abort(t, i) ==
    [t EXCEPT ![i] = [t[i] EXCEPT !.candidate = 0, !.ticket = 0, !.candidateRevoked = FALSE]]

ClearReceipt ==
    /\ completion' = {}
    /\ wireStatus' = FALSE
    /\ ticket' = 0

KeepReceipt(r, ok, h) ==
    /\ completion' = {r}
    /\ wireStatus' = ok
    /\ ticket' = h

\* An answer that binds nothing: queued, or kept until the send buffer has room.
AnswerPlain(r, ok) ==
    /\ ~(ok /\ Binds(r))
    /\ ClearReceipt \/ KeepReceipt(r, ok, 0)
    /\ UNCHANGED stopped

\* The cutoff or the clock downgrades the answer; a reserved candidate is dropped.
AnswerDowngraded(r, expired) ==
    /\ Binds(r)
    /\ ~CheckResume(r) \/ expired
    /\ table' = IF ticket # 0 THEN Abort(table, r.slot) ELSE table
    /\ ClearReceipt \/ KeepReceipt(r, FALSE, 0)
    /\ UNCHANGED stopped

\* Reserve a handle if there is none yet; bind once the whole frame is queued.
AnswerBinds(r) ==
    /\ Binds(r) /\ CheckResume(r)
    /\ \E h \in Handles :
        /\ IF ticket # 0 THEN h = ticket ELSE h \notin UsedHandles
        /\ LET reserved == IF ticket # 0 THEN table ELSE Reserve(r, h)
           IN  \/ table' = Commit(reserved, r.slot) /\ ClearReceipt
               \/ table' = reserved /\ KeepReceipt(r, TRUE, h)
    /\ UNCHANGED stopped

\* A random handle that is zero or taken: BUSY ends the service loop.
AnswerCollides(r) ==
    /\ Binds(r) /\ CheckResume(r)
    /\ ticket = 0
    /\ KeepReceipt(r, TRUE, 0)
    /\ stopped' = TRUE
    /\ UNCHANGED table

AnswerBinding(r) ==
    \/ \E expired \in BOOLEAN : AnswerDowngraded(r, expired)
    \/ AnswerBinds(r)
    \/ AnswerCollides(r)

\* vireo_auth_response_consumer_step on a result just taken from the queue.
Take(r) ==
    /\ completion = {}
    /\ r \in flight
    /\ r.outcome # "queued"
    /\ flight' = flight \ {r}
    /\ cutoff' = CutoffAfterEffect(r)
    /\ \/ /\ ~Open(r) \/ stopped                     \* abandoned, or the client is gone
          /\ table' = IF Leased(r) THEN TableAfterEffect(r)
                      ELSE Forget(TableAfterEffect(r), r.slot, r.generation)
          /\ lease' = IF Open(r) THEN [lease EXCEPT ![r.slot].state = "closing"] ELSE lease
          /\ ClearReceipt
          /\ UNCHANGED stopped
       \/ /\ Open(r) /\ ~stopped
          /\ \/ table' = TableAfterEffect(r) /\ AnswerPlain(r, TRUE)
             \/ AnswerBinding(r)
          /\ UNCHANGED lease
    /\ UNCHANGED <<db, lastInstance, lastResume>>

\* ... and on the one it still holds from an earlier turn.
Resume(r) ==
    /\ r \in completion
    /\ Open(r) /\ ~stopped
    /\ \/ AnswerPlain(r, wireStatus) /\ UNCHANGED table
       \/ wireStatus /\ AnswerBinding(r)
    /\ UNCHANGED <<lease, db, flight, lastInstance, lastResume, cutoff>>

\* vireo_auth_response_consumer_abandon: its client is closing.
Abandon(r) ==
    /\ r \in completion
    /\ ~Open(r) \/ stopped
    /\ table' = IF ticket # 0 /\ HasTicket(r) THEN Abort(table, r.slot) ELSE table
    /\ lease' = IF Open(r) THEN [lease EXCEPT ![r.slot].state = "closing"] ELSE lease
    /\ ClearReceipt
    /\ UNCHANGED <<db, flight, lastInstance, lastResume, cutoff, stopped>>

Next ==
    \/ \E i \in Slots : Admit(i) \/ Close(i) \/ Release(i) \/ SubmitLogin(i) \/ SubmitLogout(i)
    \/ \E i \in Slots, s \in Sessions : SubmitResume(i, s)
    \/ \E r \in flight : Execute(r) \/ Take(r)
    \/ \E r \in completion : Resume(r) \/ Abandon(r)
    \/ Stop

Spec == Init /\ [][Next]_vars

\* Workers finish, the queue is FIFO, a blocked client reads or is closed by its
\* deadline, and a stopping service closes and releases every slot.
Fairness ==
    /\ \A n \in 1 .. MaxInstances :
        /\ WF_vars(\E r \in flight : r.instance = n /\ Execute(r))
        /\ SF_vars(\E r \in flight : r.instance = n /\ Take(r))
    /\ WF_vars(\E r \in completion : (Resume(r) \/ Abandon(r)) /\ completion' = {})

FairSpec == Spec /\ Fairness

-----------------------------------------------------------------------------
(* Properties *)

LogoutUnderway(s) == \E r \in flight : HasEffect(r) /\ r.session = s

\* A session whose LOGOUT has committed authorizes nothing: a connection that
\* still has it bound and not revoked, or is about to, will be told by a LOGOUT
\* result that is already on its way.  No late RESUME brings it back.
NoRevival ==
    \A i \in Slots :
        /\ table[i].session # 0 /\ ~table[i].revoked /\ db[table[i].session] = "revoked"
            => LogoutUnderway(table[i].session)
        /\ table[i].candidate # 0 /\ ~table[i].candidateRevoked /\ db[table[i].candidate] = "revoked"
            => LogoutUnderway(table[i].candidate)

\* A candidate is always owned by the one receipt that can commit or abort it,
\* so closing a client at any moment leaves no pending binding behind and
\* vireo_auth_sessions_destroy does not find one.
PendingOwned ==
    \A i \in Slots : table[i].candidate # 0 =>
        \E r \in completion : r.slot = i /\ HasTicket(r) /\ r.session = table[i].candidate

\* Handles of all bindings and candidates of the table are distinct.
HandlesDistinct ==
    \A i, j \in Slots :
        /\ i # j /\ table[i].session # 0 /\ table[j].session # 0 => table[i].handle # table[j].handle
        /\ table[i].candidate # 0 /\ table[j].session # 0 => table[i].ticket # table[j].handle

\* A binding ends with the connection it was made for: when the slot is leased
\* again no trace of it is left.
BoundToLease ==
    \A i \in Slots : table[i].generation # 0 =>
        lease[i].state # "free" /\ lease[i].generation = table[i].generation

\* What the table promises at every moment: the four properties above.
SessionsSound == NoRevival /\ PendingOwned /\ HandlesDistinct /\ BoundToLease

Authorizes(s) == \E i \in Slots : table[i].session = s /\ ~table[i].revoked

\* A LOGOUT that has committed reaches every connection, also when the client
\* that asked for it is gone before the answer.
LogoutTakesEffect ==
    \A s \in Sessions : []<>(db[s] = "revoked" => ~Authorizes(s))

=============================================================================
