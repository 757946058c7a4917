----------------------------- MODULE Migration -----------------------------
(***************************************************************************)
(* Schema migration at start-up (mysql_migration.c, mysql_schema.c): every *)
(* process brings the database to its own catalogue of versions, on a      *)
(* connection of its own and under a named server lock.  A version is      *)
(* recorded dirty before its first DDL step and applied after its last;    *)
(* DDL is not transactional, so a process that stops half-way leaves a     *)
(* dirty version that nobody may repeat.                                   *)
(*                                                                         *)
(* A process may crash at any point and a reply may be lost: the server    *)
(* may then execute the outstanding statement long after the client gave   *)
(* up, and holds the session's lock until it has.  A catalogue is a        *)
(* sequence of versions, each standing for its checksum.                   *)
(***************************************************************************)
EXTENDS Integers, Sequences, FiniteSets

CONSTANTS Runs,         \* processes that migrate the database
          Catalogs,     \* the catalogues a process may carry
          Steps,        \* Steps[x]: DDL steps of the version with checksum x
          MaxLost       \* bound: crashes and lost replies

Nobody == "nobody"

VARIABLES db,           \* history table present, its rows, tables created
          lock,         \* the session holding the named lock
          session,      \* session[r]: "none", "open", "ending"
          sent,         \* sent[r]: statement the server has yet to execute
          pc, cat,      \* the stage each process is in; its catalogue
          at,           \* version and step a process works on
          report,       \* ready, applied_before, applied_after
          lost          \* crashes and lost replies so far

vars == <<db, lock, session, sent, pc, cat, at, report, lost>>

NoStatement == [op |-> "none", version |-> 0, step |-> 0]
NoReport == [ready |-> FALSE, applied |-> 0]

Init ==
  /\ db \in [table : {FALSE}, rows : {<<>>}, ddl : {<<>>}, foreign : BOOLEAN]
  /\ lock = Nobody
  /\ session = [r \in Runs |-> "none"]
  /\ sent = [r \in Runs |-> NoStatement]
  /\ pc = [r \in Runs |-> "OPEN"]
  /\ cat \in [Runs -> Catalogs]
  /\ at = [r \in Runs |-> [version |-> 0, step |-> 0]]
  /\ report = [r \in Runs |-> NoReport]
  /\ lost = 0

-----------------------------------------------------------------------------
(* The server                                                              *)

\* What a write statement of process r does to the database.
effect(d, s, x) ==
  CASE s.op = "create" -> [d EXCEPT !.table = TRUE]
    [] s.op = "dirty"  -> [d EXCEPT !.rows = Append(@, [sum |-> x, applied |-> FALSE])]
    [] s.op = "ddl"    -> [d EXCEPT !.ddl = Append(@, <<s.version, s.step>>)]
    [] s.op = "applied" -> [d EXCEPT !.rows[s.version].applied = TRUE]
    [] OTHER -> d

Sum(r, v) == IF v \in DOMAIN cat[r] THEN cat[r][v] ELSE "none"

\* A session whose client is gone: its outstanding statement may still run,
\* then the session ends and its lock is free.
ServerEnds(r) ==
  /\ session[r] = "ending"
  /\ \/ db' = effect(db, sent[r], Sum(r, sent[r].version))
     \/ db' = db
  /\ session' = [session EXCEPT ![r] = "none"]
  /\ sent' = [sent EXCEPT ![r] = NoStatement]
  /\ lock' = IF lock = r THEN Nobody ELSE lock
  /\ UNCHANGED <<pc, cat, at, report, lost>>

-----------------------------------------------------------------------------
(* The client                                                              *)

Goto(r, p) == pc' = [pc EXCEPT ![r] = p]

\* A statement the server refused: fail, stop, unlock, close.
refused(r) ==
  Goto(r, "UNLOCK") /\ UNCHANGED <<db, lock, session, sent, at, report, lost>>

\* The reply never came: the connection is unusable, so nothing more is sent
\* on it, the lock included, and closing it leaves the session to the server.
gone(r, s) ==
  /\ lost < MaxLost /\ lost' = lost + 1
  /\ Goto(r, "END")
  /\ session' = [session EXCEPT ![r] = "ending"]
  /\ sent' = [sent EXCEPT ![r] = s]
  /\ UNCHANGED <<db, lock, at, report>>

Crash(r) ==
  /\ pc[r] \notin {"OPEN", "END"}
  /\ gone(r, NoStatement)
  /\ UNCHANGED cat

open(r) ==
  /\ pc[r] = "OPEN"
  /\ \/ session[r] = "none" /\ session' = [session EXCEPT ![r] = "open"] /\ Goto(r, "LOCK")
     \/ UNCHANGED session /\ Goto(r, "END")
  /\ UNCHANGED <<db, lock, sent, cat, at, report, lost>>

\* Mutant: goes on when the lock was not granted.
get_lockAny(r) ==
  /\ pc[r] = "LOCK"
  /\ lock' = (IF lock = Nobody THEN r ELSE lock)
  /\ Goto(r, "BOOTSTRAP")
  /\ UNCHANGED <<db, session, sent, at, report, lost, cat>>

\* GET_LOCK(name, 0): granted at once or BUSY; its reply may be lost too.
get_lock(r) ==
  /\ pc[r] = "LOCK"
  /\ \/ /\ \/ /\ lock = Nobody /\ lock' = r
              /\ Goto(r, "BOOTSTRAP") /\ UNCHANGED session
           \/ /\ session' = [session EXCEPT ![r] = "none"]   \* BUSY, or refused
              /\ Goto(r, "END") /\ UNCHANGED lock
        /\ UNCHANGED <<db, sent, at, report, lost>>
     \/ gone(r, NoStatement)
  /\ UNCHANGED cat

\* A query and the rows it returns: as expected, of another shape, or lost.
query(r, next) ==
  \/ next /\ UNCHANGED <<db, lock, session, sent, lost>>
  \/ refused(r)
  \/ gone(r, NoStatement)

\* empty_schema: no table but the history's own.
empty_schema == db.ddl = <<>> /\ ~db.foreign

\* write_sql: executed and confirmed, executed but then not inspected or closed
\* (what the reply confirmed is reported all the same), refused, or its reply
\* lost.
write_sql(r, s, next) ==
  \/ /\ db' = effect(db, s, Sum(r, s.version))
     /\ \/ next
        \/ /\ report' = [report EXCEPT ![r].applied = IF s.op = "applied" THEN s.version ELSE @]
           /\ Goto(r, "UNLOCK") /\ UNCHANGED at
     /\ UNCHANGED <<lock, session, sent, lost>>
  \/ refused(r)
  \/ gone(r, s)

Statement(op, v, j) == [op |-> op, version |-> v, step |-> j]

bootstrap(r) ==
  /\ pc[r] = "BOOTSTRAP"
  /\ IF db.table THEN query(r, Goto(r, "METADATA") /\ UNCHANGED <<at, report>>)
     ELSE IF ~empty_schema THEN refused(r)
     ELSE write_sql(r, Statement("create", 0, 0),
                    Goto(r, "METADATA") /\ UNCHANGED <<at, report>>)
  /\ UNCHANGED cat

\* The history table has the columns, key and constraints expected of it.
metadata(r) ==
  /\ pc[r] = "METADATA"
  /\ query(r, Goto(r, "HISTORY") /\ UNCHANGED <<at, report>>)
  /\ UNCHANGED cat

\* history: the rows are versions 1, 2, ... of this catalogue, all applied.
valid_history(r) ==
  /\ Len(db.rows) <= Len(cat[r])
  /\ \A v \in DOMAIN db.rows : db.rows[v].applied /\ db.rows[v].sum = cat[r][v]
  /\ db.rows = <<>> => empty_schema

\* The next version to apply, or the end.
begin(r, v) ==
  /\ at' = [at EXCEPT ![r] = [version |-> v, step |-> 0]]
  /\ Goto(r, IF v <= Len(cat[r]) THEN "DIRTY" ELSE "UNLOCK")

history(r) ==
  /\ pc[r] = "HISTORY"
  /\ IF valid_history(r)
     THEN query(r, /\ begin(r, Len(db.rows) + 1)
                   /\ report' = [report EXCEPT ![r].applied = Len(db.rows)])
     ELSE refused(r)
  /\ UNCHANGED cat

\* The dirty record comes before the first step of its version.
mark_dirty(r) ==
  /\ pc[r] = "DIRTY"
  /\ write_sql(r, Statement("dirty", at[r].version, 0),
               /\ at' = [at EXCEPT ![r].step = 1]
               /\ Goto(r, "STEP") /\ UNCHANGED report)
  /\ UNCHANGED cat

step(r) ==
  /\ pc[r] = "STEP"
  /\ LET v == at[r].version
         j == at[r].step
     IN write_sql(r, Statement("ddl", v, j),
                  /\ at' = [at EXCEPT ![r].step = j + 1]
                  /\ Goto(r, IF j = Steps[cat[r][v]] THEN "APPLIED" ELSE "STEP")
                  /\ UNCHANGED report)
  /\ UNCHANGED cat

mark_applied(r) ==
  /\ pc[r] = "APPLIED"
  /\ LET v == at[r].version IN
       write_sql(r, Statement("applied", v, 0),
                 /\ begin(r, v + 1)
                 /\ report' = [report EXCEPT ![r].applied = v])
  /\ UNCHANGED cat

\* RELEASE_LOCK and close: ready when every version was gone through and
\* nothing failed, these two included.  The release is left out while a statement
\* cannot be closed; the lock also goes with the session, and a connection that
\* cannot be closed with its process.
unlock(r) ==
  /\ pc[r] = "UNLOCK"
  /\ \/ /\ \E released, closed \in BOOLEAN :
             /\ lock' = IF released \/ closed THEN Nobody ELSE lock
             /\ session' = [session EXCEPT ![r] = IF closed THEN "none" ELSE "ending"]
             /\ report' = [report EXCEPT ![r].ready =
                             released /\ closed /\ at[r].version > Len(cat[r])]
        /\ Goto(r, "END")
        /\ UNCHANGED <<db, sent, at, lost>>
     \/ gone(r, NoStatement)
  /\ UNCHANGED cat

\* The same process starts again, with a catalogue of its own.
Restart(r) ==
  /\ pc[r] = "END" /\ session[r] = "none" /\ lost < MaxLost
  /\ \E c \in Catalogs : cat' = [cat EXCEPT ![r] = c]
  /\ Goto(r, "OPEN")
  /\ at' = [at EXCEPT ![r] = [version |-> 0, step |-> 0]]
  /\ report' = [report EXCEPT ![r] = NoReport]
  /\ lost' = lost + 1
  /\ UNCHANGED <<db, lock, session, sent>>

Next == \E r \in Runs :
  \/ ServerEnds(r) \/ Crash(r) \/ open(r) \/ get_lock(r) \/ bootstrap(r)
  \/ metadata(r)
  \/ history(r) \/ mark_dirty(r) \/ step(r) \/ mark_applied(r) \/ unlock(r)
  \/ Restart(r)

Spec == Init /\ [][Next]_vars

-----------------------------------------------------------------------------

Done(v) == Cardinality({k \in DOMAIN db.ddl : db.ddl[k][1] = v})

\* The DDL executed so far: each step once, versions and steps in order.
InOrder ==
  \A j, k \in DOMAIN db.ddl : j < k =>
    \/ db.ddl[j][1] < db.ddl[k][1]
    \/ db.ddl[j][1] = db.ddl[k][1] /\ db.ddl[j][2] < db.ddl[k][2]

\* run_locked: whatever crashes, late executions and competing processes
\* happen, no DDL step ever runs twice or out of order; a step runs only for a
\* version already on record; a version on record as applied has run all its
\* steps, and nothing follows a version that is dirty.
StepsOnce ==
  /\ InOrder
  /\ \A k \in DOMAIN db.ddl : db.ddl[k][1] \in DOMAIN db.rows
  /\ \A v \in DOMAIN db.rows :
       /\ db.rows[v].applied => Done(v) = Steps[db.rows[v].sum]
       /\ ~db.rows[v].applied => v = Len(db.rows)

\* mysql_migration_apply_with_ops: a process that reports ready finds the
\* history of its catalogue complete and applied, and none reports a version
\* applied that is not.
ReadyTrue ==
  \A r \in Runs :
    /\ \A v \in 1 .. report[r].applied : v \in DOMAIN db.rows /\ db.rows[v].applied
    /\ pc[r] = "END" /\ report[r].ready =>
         /\ Len(cat[r]) <= Len(db.rows)
         /\ \A v \in DOMAIN cat[r] : db.rows[v] = [sum |-> cat[r][v], applied |-> TRUE]

=============================================================================
