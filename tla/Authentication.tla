-------------------------- MODULE Authentication --------------------------
(***************************************************************************)
(* What an authentication worker does with one task, from                  *)
(* vireo_auth_worker_run to the published completion: the context and the  *)
(* checks of auth_task.c, registration and login of auth_service.c, the    *)
(* password gate of auth_password.c, the transactions of                   *)
(* mysql_user_repository.c, and the projection of auth_completion.c.       *)
(*                                                                         *)
(* Workers run at the same time.  A login reads the credentials without a  *)
(* lock, spends a long time hashing, and only then opens its transaction,  *)
(* so an administrator may change or disable the account in between; two   *)
(* registrations may race for a name; a connection may break anywhere.     *)
(* A password hash is the password with the salt it was hashed with.       *)
(***************************************************************************)
EXTENDS Integers, FiniteSets, Sequences, TLC

CONSTANTS
  Workers,
  Accounts,      \* accounts the database holds at the start: name -> hash
  NewNames,      \* names no account has at the start
  BadName,       \* a name that username_prepare refuses
  Passwords,     \* passwords clients send
  CreateMemory,  \* KiB one new hash takes (65536)
  HashMemory,    \* KiB a verification takes, by salt
  MaxParallel, Budget,   \* the gate's limits
  MaxTries,      \* compare-exchange attempts of reserve (32)
  MaxFaults,     \* bound: calls that fail
  MaxChanges     \* bound: changes an administrator makes

VARIABLES
  users,   \* name -> committed account, or NoUser
  txn,     \* worker -> its transaction as the server sees it
  conn,    \* worker -> "none", "leased", "broken", or "stuck": an open statement holds it back
  gate,    \* the packed word: closed bit, memory, count
  live,    \* the gate object exists
  w,       \* worker -> its control state and report
  answers, \* worker -> published outcome, or NoAnswer
  events,  \* history: failure events offered to the audit queue, <<worker, status>>
  applied, \* history: workers whose transaction took effect
  steady,  \* history: login workers whose account has not changed since they began
  faults, changes

vars == <<users, txn, conn, gate, live, w, answers, events, applied, steady, faults, changes>>

Names == DOMAIN Accounts \cup NewNames
NoUser == [state |-> "absent"]
NoAnswer == [version |-> 0]
NoTxn == [state |-> "none", rows |-> {}, lock |-> "", hash |-> <<>>]

account(hash, status, rows) == [state |-> "present", hash |-> hash, status |-> status, rows |-> rows]

idle == [pc |-> "new", command |-> "", name |-> "", password |-> "", rc |-> "OK", stage |-> "CONTEXT",
         commit |-> "NOT_COMMITTED", conflict |-> FALSE, valid |-> FALSE, executed |-> FALSE,
         found |-> FALSE, hash |-> <<>>, active |-> FALSE, matched |-> FALSE,
         seen |-> 0, tries |-> 0, guard |-> FALSE, repository |-> FALSE, validated |-> FALSE]

Init ==
  /\ users = [n \in Names |-> IF n \in DOMAIN Accounts
                              THEN account(Accounts[n], "ACTIVE", {"user", "root", "audit"}) ELSE NoUser]
  /\ txn = [x \in Workers |-> NoTxn]
  /\ conn = [x \in Workers |-> "none"]
  /\ gate = 0
  /\ live = TRUE
  /\ w = [x \in Workers |-> idle]
  /\ answers = [x \in Workers |-> NoAnswer]
  /\ events = {}
  /\ applied = {}
  /\ steady = {}
  /\ faults = 0
  /\ changes = 0

database == <<users, txn, conn>>
history == <<applied, steady>>

(* A call that may fail: "ok", or a fault while the budget lasts.          *)
Call(outcome, kinds) ==
  \/ outcome = "ok" /\ UNCHANGED faults
  \/ outcome \in kinds /\ faults < MaxFaults /\ faults' = faults + 1

Set(x, fields) == w' = [w EXCEPT ![x] = fields @@ @]
Finish(x, rc) == Set(x, [pc |-> "completed", rc |-> rc])

-----------------------------------------------------------------------------
(* The server: the account as an administrator changes it, and the end of  *)
(* a transaction whose connection is gone.                                 *)
Locked(n) == \E x \in Workers : txn[x].state # "none" /\ txn[x].lock = n

AccountChanges(n, to) ==
  /\ changes < MaxChanges
  /\ users[n].state = "present" /\ ~Locked(n)
  /\ users' = [users EXCEPT ![n] = IF to = "DISABLED" THEN [@ EXCEPT !.status = to]
                                   ELSE [@ EXCEPT !.hash = <<to, "new">>]]
  /\ steady' = {x \in steady : w[x].name # n}
  /\ changes' = changes + 1
  /\ UNCHANGED <<txn, conn, gate, live, w, answers, events, applied, faults>>

effect(x) ==
  IF "user" \in txn[x].rows
  THEN [users EXCEPT ![w[x].name] = account(txn[x].hash, "ACTIVE", txn[x].rows)]
  ELSE users

ServerEnds(x, committed) ==
  /\ txn[x].state \in {"limbo", "orphan"}
  /\ committed => txn[x].state = "limbo"
  /\ txn' = [txn EXCEPT ![x] = NoTxn]
  /\ users' = IF committed THEN effect(x) ELSE users
  /\ applied' = IF committed THEN applied \cup {x} ELSE applied
  /\ UNCHANGED <<conn, gate, live, w, answers, events, steady, faults, changes>>

-----------------------------------------------------------------------------
(* One task: validation, the MySQL guard, the repository, the context, and *)
(* the checks that come before the service is called.                      *)
Commands == {"REGISTER", "LOGIN", "RESUME", "LOGOUT"}

validate(command) == command \in Commands

(* Where the service starts, by command.  A name that cannot be prepared   *)
(* is refused before anything is hashed or looked up.  Cancellation and the*)
(* deadline are looked at once, before the service.                        *)
prepared(n) == n # BadName

register(n) == IF prepared(n) THEN [pc |-> "register", rc |-> "OK"] ELSE [pc |-> "completed", rc |-> "PROTOCOL"]

login(n) == IF prepared(n) THEN [pc |-> "lookup", rc |-> "OK"] ELSE [pc |-> "completed", rc |-> "PROTOCOL"]

service(command, n) ==
  CASE command = "REGISTER" -> register(n)
    [] command = "LOGIN"    -> login(n)
    [] OTHER                -> [pc |-> "session", rc |-> "OK"]

execute(command, n, seen) ==
  CASE seen = "cancelled" -> [pc |-> "completed", rc |-> "CANCELLED", stage |-> "CANCEL"]
    [] seen = "late"      -> [pc |-> "completed", rc |-> "TIMEOUT", stage |-> "DEADLINE"]
    [] seen = "go"        -> [stage |-> "SERVICE"] @@ service(command, n)

(* How far the worker gets before that: the guard, the repository and the  *)
(* context are acquired in this order, and what was acquired stays until   *)
(* the cleanup.                                                            *)
attach == [guard |-> FALSE, repository |-> FALSE, executed |-> FALSE, pc |-> "completed", rc |-> "DATABASE"]
repository_create == [attach EXCEPT !.guard = TRUE, !.rc = "NO_MEMORY"]
capture == [repository_create EXCEPT !.repository = TRUE, !.rc = "IO"]
Prologue == [attach |-> attach, create |-> repository_create, capture |-> capture]

run(x, command, n, p) ==
  /\ w[x].pc = "new"
  /\ \E o \in {"ok"} \cup DOMAIN Prologue, seen \in {"go", "cancelled", "late"} :
       LET task  == [command |-> command, name |-> n, password |-> p, validated |-> validate(command)]
           ready == [guard |-> TRUE, repository |-> TRUE, executed |-> TRUE]
       IN  IF ~validate(command)
           THEN o = "ok" /\ seen = "go" /\ UNCHANGED faults
                /\ Set(x, task @@ [pc |-> "completed", rc |-> "INVALID"])
           ELSE /\ Call(o, DOMAIN Prologue)
                /\ o # "ok" => seen = "go"
                /\ Set(x, task @@ IF o = "ok" THEN ready @@ execute(command, n, seen) ELSE Prologue[o])
  /\ steady' = IF n \in Names /\ users[n].state = "present" /\ users[n].status = "ACTIVE"
               THEN steady \cup {x} ELSE steady
  /\ UNCHANGED <<database, gate, live, answers, events, applied, changes>>

-----------------------------------------------------------------------------
(* The password gate: one word holds the closed bit, the memory in use and *)
(* the number of hash computations.                                        *)
COUNT_MASK == 511
CLOSED_BIT == 2^30
amount(kib) == kib * (COUNT_MASK + 1) + 1
count(word) == word % (COUNT_MASK + 1)
used(word) == (word % CLOSED_BIT) \div (COUNT_MASK + 1)
closed(word) == word >= CLOSED_BIT

release(word, kib) == word - amount(kib)

memory(x) == IF w[x].command = "REGISTER" THEN CreateMemory
             ELSE IF w[x].found THEN HashMemory[w[x].hash[2]] ELSE CreateMemory

reserve(x) ==
  /\ w[x].pc \in {"register", "verify"}
  /\ Set(x, [pc |-> "exchange", seen |-> gate, tries |-> 0])
  /\ UNCHANGED <<database, gate, live, answers, events, history, faults, changes>>

(* One turn of reserve's loop on the word it read; the weak exchange may   *)
(* fail although the word is unchanged, and reads the word again.          *)
exchange(x, happens) ==
  /\ w[x].pc = "exchange"
  /\ IF w[x].tries = MaxTries THEN happens /\ Finish(x, "BUSY") /\ UNCHANGED gate
     ELSE IF closed(w[x].seen) THEN happens /\ Finish(x, "CANCELLED") /\ UNCHANGED gate
     ELSE IF count(w[x].seen) >= MaxParallel \/ memory(x) > Budget - used(w[x].seen)
     THEN happens /\ Finish(x, "BUSY") /\ UNCHANGED gate
     ELSE IF happens /\ gate = w[x].seen
     THEN gate' = gate + amount(memory(x)) /\ Set(x, [pc |-> "hash", seen |-> 0, tries |-> 0])
     ELSE UNCHANGED gate /\ Set(x, [seen |-> gate, tries |-> w[x].tries + 1])
  /\ UNCHANGED <<database, live, answers, events, history, faults, changes>>

(* hash_create and hash_verify: the computation, then the reservation is   *)
(* given back whether it succeeded or not.  A name without an account is   *)
(* verified against a dummy hash of the same cost.                         *)
hash_create(x, o) ==
  IF o = "ok" THEN [pc |-> "begin", hash |-> <<w[x].password, "new">>] ELSE [pc |-> "completed", rc |-> "NO_MEMORY"]

authenticated(x) == w[x].found /\ w[x].active /\ w[x].hash[1] = w[x].password

hash_verify(x, o) ==
  IF o # "ok" THEN [pc |-> "completed", rc |-> "NO_MEMORY"]
  ELSE IF authenticated(x) THEN [pc |-> "token", matched |-> TRUE]
  ELSE [pc |-> "completed", rc |-> "NOT_FOUND"]

hash(x) ==
  /\ w[x].pc = "hash"
  /\ \E o \in {"ok", "fails"} :
       /\ Call(o, {"fails"})
       /\ Set(x, IF w[x].command = "REGISTER" THEN hash_create(x, o) ELSE hash_verify(x, o))
  /\ gate' = release(gate, memory(x))
  /\ UNCHANGED <<database, live, answers, events, history, changes>>

token(x) ==
  /\ w[x].pc = "token"
  /\ \E o \in {"ok", "fails"} : Call(o, {"fails"}) /\
       IF o = "ok" THEN Set(x, [pc |-> "begin"]) ELSE Finish(x, "IO")
  /\ UNCHANGED <<database, gate, live, answers, events, history, changes>>

gate_close ==
  /\ live /\ ~closed(gate)
  /\ gate' = gate + CLOSED_BIT
  /\ UNCHANGED <<database, live, w, answers, events, history, faults, changes>>

gate_destroy ==
  /\ live /\ gate = CLOSED_BIT
  /\ \A x \in Workers : w[x].pc \in {"new", "gone"}
  /\ live' = FALSE
  /\ UNCHANGED <<database, gate, w, answers, events, history, faults, changes>>

-----------------------------------------------------------------------------
(* The repository.  A command is prepared, executed and its statement      *)
(* closed: "refused" is never executed, "lost" has no reply and no         *)
(* connection any more, "unclosed" is replied to but the statement, and so *)
(* the lease, cannot be given back.                                        *)
Commanded == {"refused", "lost", "unclosed"}

(* The connection after a command; ROLLBACK on a broken one fails as well. *)
after(o, c) == CASE o = "unclosed" -> "stuck" [] o = "lost" -> "broken" [] OTHER -> c

find_credentials(x) ==
  /\ w[x].pc = "lookup"
  /\ \E o \in {"ok"} \cup Commanded :
       /\ Call(o, Commanded)
       /\ conn' = [conn EXCEPT ![x] = IF o = "unclosed" THEN "stuck" ELSE "none"]
       /\ IF o # "ok" THEN Finish(x, "DATABASE")
          ELSE LET u == users[w[x].name]
               IN  IF u.state = "absent" THEN Set(x, [pc |-> "verify", found |-> FALSE])
                   ELSE Set(x, [pc |-> "verify", found |-> TRUE, hash |-> u.hash, active |-> u.status = "ACTIVE"])
  /\ UNCHANGED <<users, txn, gate, live, answers, events, history, changes>>

begin(x) ==
  /\ w[x].pc = "begin"
  /\ \E o \in {"ok", "busy", "lost", "refused"} :
       /\ Call(o, {"busy", "lost", "refused"})
       /\ CASE o = "ok"      -> Set(x, [pc |-> "rows"]) /\ txn' = [txn EXCEPT ![x].state = "open"]
            [] o = "busy"    -> Finish(x, "BUSY") /\ UNCHANGED txn
            [] OTHER         -> Set(x, [pc |-> "rollback", rc |-> "DATABASE"]) /\ UNCHANGED txn
       /\ conn' = [conn EXCEPT ![x] = IF o = "busy" THEN @ ELSE IF o = "lost" THEN "broken" ELSE "leased"]
  /\ UNCHANGED <<users, gate, live, answers, events, history, changes>>

(* The rows either transaction writes, one statement each, in this order.  *)
rows == [REGISTER |-> <<"user", "root", "audit">>, LOGIN |-> <<"session", "last_login", "audit">>]
written(x) == Cardinality(txn[x].rows)
all_written(x) == written(x) = Len(rows[w[x].command])

(* The first statement of either transaction takes the account's row.      *)
insert_user(x) ==
  LET u == users[w[x].name]
  IN  IF u.state = "present" THEN [rc |-> "CONFLICT", rows |-> {}] ELSE [rc |-> "OK", rows |-> {"user"}]

\* Mutant: the row is locked, and what it holds by now is not compared with
\* what was verified.
lock_accountTrusting(x, early) == [rc |-> "OK", rows |-> {}]

\* `early': the worker's clock shows a time before the account was created.
lock_account(x, early) ==
  LET u == users[w[x].name]
  IN  [rc |-> IF u.state = "absent" \/ u.status # "ACTIVE" \/ u.hash # w[x].hash THEN "NOT_FOUND"
              ELSE IF early THEN "RANGE" ELSE "OK",
       rows |-> {}]

first(x) ==
  /\ w[x].pc = "rows" /\ txn[x].state = "open" /\ txn[x].lock = ""
  /\ \E o \in {"ok", "early"} \cup Commanded :
       /\ Call(o, Commanded \cup IF w[x].command = "LOGIN" THEN {"early"} ELSE {})
       /\ o \in {"ok", "early", "unclosed"} => ~Locked(w[x].name)
       /\ LET r == IF w[x].command = "REGISTER" THEN insert_user(x) ELSE lock_account(x, o = "early")
          IN  CASE o \in {"lost", "refused"} ->
                     /\ txn' = [txn EXCEPT ![x].state = IF o = "lost" THEN "orphan" ELSE @]
                     /\ Set(x, [pc |-> "rollback", rc |-> "DATABASE"])
                     /\ conn' = [conn EXCEPT ![x] = after(o, @)]
                [] o \in {"ok", "early", "unclosed"} ->
                     /\ txn' = [txn EXCEPT ![x] = [@ EXCEPT !.lock = w[x].name, !.rows = r.rows, !.hash = w[x].hash]]
                     /\ conn' = [conn EXCEPT ![x] = after(o, @)]
                     /\ Set(x, [pc |-> IF o # "unclosed" /\ r.rc = "OK" THEN "rows" ELSE "rollback",
                                rc |-> IF o = "unclosed" \/ r.rc = "CONFLICT" THEN "DATABASE" ELSE r.rc,
                                conflict |-> r.rc = "CONFLICT"])
  /\ UNCHANGED <<users, gate, live, answers, events, history, changes>>

insert(x) ==
  /\ w[x].pc = "rows" /\ txn[x].state = "open" /\ txn[x].lock # ""
  /\ ~all_written(x)
  /\ \E o \in {"ok"} \cup Commanded :
       /\ Call(o, Commanded)
       /\ txn' = [txn EXCEPT ![x] =
                    IF o = "lost" THEN [@ EXCEPT !.state = "orphan"]
                    ELSE IF o = "refused" THEN @ ELSE [@ EXCEPT !.rows = @ \cup {rows[w[x].command][written(x) + 1]}]]
       /\ conn' = [conn EXCEPT ![x] = after(o, @)]
       /\ IF o = "ok" THEN UNCHANGED w ELSE Set(x, [pc |-> "rollback", rc |-> "DATABASE"])
  /\ UNCHANGED <<users, gate, live, answers, events, history, changes>>

(* A connection that is discarded takes its open transaction with it.      *)
ended(x) == IF txn[x].state = "open" THEN [txn EXCEPT ![x].state = "orphan"] ELSE txn

(* The lease is given back unless a statement is open; a lease that ended  *)
(* without a confirmed COMMIT or ROLLBACK is discarded, not reused.        *)
release_lease(c) == IF c = "stuck" THEN c ELSE "none"

lostCommit(x) == "UNKNOWN"

commit(x) ==
  /\ w[x].pc = "rows" /\ txn[x].state = "open" /\ txn[x].lock # "" /\ all_written(x)
  /\ \E o \in {"ok"} \cup Commanded :
       /\ Call(o, Commanded)
       /\ CASE o \in {"ok", "unclosed"} ->
                 /\ users' = effect(x) /\ txn' = [txn EXCEPT ![x] = NoTxn] /\ applied' = applied \cup {x}
                 /\ Set(x, [pc |-> "completed", commit |-> "COMMITTED", rc |-> IF o = "ok" THEN "OK" ELSE "DATABASE"])
            [] o = "lost" ->
                 /\ txn' = [txn EXCEPT ![x].state = "limbo"] /\ UNCHANGED <<users, applied>>
                 /\ Set(x, [pc |-> "rollback", commit |-> lostCommit(x), rc |-> "DATABASE"])
            [] o = "refused" ->
                 /\ UNCHANGED <<users, txn, applied>>
                 /\ Set(x, [pc |-> "rollback", rc |-> "DATABASE"])
       /\ conn' = [conn EXCEPT ![x] = IF o = "ok" THEN release_lease(@) ELSE after(o, @)]
  /\ UNCHANGED <<gate, live, answers, events, steady, changes>>

(* The end of a transaction that was not committed: ROLLBACK unless a      *)
(* statement is still open or the outcome of COMMIT is unknown.  A failed  *)
(* cleanup replaces the NOT_FOUND of a login.                              *)
rollback(x) ==
  /\ w[x].pc = "rollback"
  /\ IF w[x].commit = "NOT_COMMITTED" /\ conn[x] = "leased"
     THEN \E o \in {"ok", "lost"} :
            /\ Call(o, {"lost"})
            /\ txn' = IF o = "ok" THEN [txn EXCEPT ![x] = NoTxn] ELSE ended(x)
            /\ Finish(x, IF o # "ok" /\ w[x].rc = "NOT_FOUND" THEN "DATABASE" ELSE w[x].rc)
     ELSE /\ txn' = IF conn[x] = "stuck" THEN txn ELSE ended(x)
          /\ Finish(x, w[x].rc)
          /\ UNCHANGED faults
  /\ conn' = [conn EXCEPT ![x] = release_lease(@)]
  /\ UNCHANGED <<users, gate, live, answers, events, history, changes>>

(* RESUME and LOGOUT as this module sees them (AuthSessions has their      *)
(* effect): a report the repository returns, with its result.  The reply   *)
(* to a LOGOUT's COMMIT may be lost, before or after it took effect.       *)
session_reports ==
  [RESUME |-> {[rc |-> rc, valid |-> rc = "OK", commit |-> "NOT_COMMITTED"] :
                 rc \in {"OK", "NOT_FOUND", "DATABASE"}},
   LOGOUT |-> {[rc |-> rc, valid |-> FALSE, commit |-> "COMMITTED"] : rc \in {"OK", "DATABASE"}}
         \cup {[rc |-> rc, valid |-> FALSE, commit |-> "NOT_COMMITTED"] :
                 rc \in {"NOT_FOUND", "RANGE", "DATABASE"}}
         \cup {[rc |-> "DATABASE", valid |-> FALSE, commit |-> "UNKNOWN"]}]

session_call(x) ==
  /\ w[x].pc = "session"
  /\ \E r \in session_reports[w[x].command], takes \in BOOLEAN :
       /\ r.commit # "UNKNOWN" => (takes <=> r.commit = "COMMITTED")
       /\ Set(x, r @@ [pc |-> "completed"])
       /\ applied' = IF takes THEN applied \cup {x} ELSE applied
  /\ UNCHANGED <<database, gate, live, answers, events, steady, faults, changes>>

-----------------------------------------------------------------------------
(* The projection of a result, the failure event it may give, the cleanup  *)
(* and the publication.                                                    *)
status(r) ==
  IF r.commit = "COMMITTED" \/ r.valid THEN "OK"
  ELSE IF r.commit = "UNKNOWN" THEN "INTERNAL_ERROR"
  ELSE IF r.stage = "SERVICE" /\ r.command # "REGISTER" /\ r.rc = "NOT_FOUND" THEN "AUTHENTICATION_FAILED"
  ELSE IF r.stage = "SERVICE" /\ r.command = "REGISTER" /\ r.conflict THEN "USER_EXISTS"
  ELSE IF r.stage = "DECODE" /\ r.rc = "PROTOCOL" THEN "BAD_REQUEST"  \* validate has decoded it already
  ELSE IF r.rc = "TIMEOUT" THEN "TIMEOUT"
  ELSE IF r.rc = "BUSY" THEN "BUSY"
  ELSE IF r.rc = "CANCELLED" THEN "UNAVAILABLE"
  ELSE "INTERNAL_ERROR"

shape(r) ==
  /\ r.commit # "NOT_COMMITTED" => r.stage = "SERVICE"
  /\ r.command = "RESUME" => r.commit = "NOT_COMMITTED" /\ (r.valid <=> r.rc = "OK")
  /\ r.command # "RESUME" /\ r.commit # "COMMITTED" => r.rc # "OK"

project(r) == [command |-> r.command, commit |-> r.commit, status |-> status(r), valid |-> r.valid, rc |-> r.rc]

(* The completion's payload, and what the reactor makes of it: the version *)
(* tells the two shapes apart, the outcome of the transaction is a code.   *)
Session(command) == command \in {"RESUME", "LOGOUT"}
Codes == <<"NOT_COMMITTED", "COMMITTED", "UNKNOWN">>

encode(o) ==
  [version |-> IF Session(o.command) THEN 2 ELSE 1, command |-> o.command, validated |-> IF o.valid THEN 1 ELSE 0,
   code |-> CHOOSE i \in 1..3 : Codes[i] = o.commit, status |-> o.status, rc |-> o.rc]

decode(bytes) ==
  LET o == [command |-> bytes.command, commit |-> Codes[bytes.code], status |-> bytes.status,
            valid |-> bytes.validated = 1, rc |-> bytes.rc, stage |-> "SERVICE"]
  IN  IF /\ (bytes.version = 2) = Session(bytes.command)
         /\ bytes.validated <= bytes.version - 1
         /\ shape(o)
      THEN o ELSE [commit |-> "MALFORMED", status |-> "NONE"]

offer(x) ==
  IF w[x].executed /\ shape(w[x]) /\ w[x].commit = "NOT_COMMITTED" /\ status(w[x]) # "OK"
  THEN {<<x, status(w[x])>>} ELSE {}

(* cleanup: close what is open, release the lease, then the repository,    *)
(* then the MySQL guard; each only when the one before it succeeded.       *)
cleanup(x, o) ==
  /\ conn' = [conn EXCEPT ![x] = IF o = "ok" THEN "none" ELSE @]
  /\ txn' = IF o = "ok" /\ conn[x] = "stuck" THEN ended(x) ELSE txn

kept(x, o) == w[x].repository /\ conn[x] = "stuck" /\ o # "ok"

publish(x) ==
  IF w[x].validated /\ shape(w[x]) THEN [answers EXCEPT ![x] = encode(project(w[x]))] ELSE answers

complete(x) ==
  /\ w[x].pc = "completed"
  /\ events' = events \cup offer(x)
  /\ \E o \in {"ok", "unclosed"} :
       /\ Call(o, IF conn[x] = "stuck" THEN {"unclosed"} ELSE {})
       /\ cleanup(x, o)
       /\ Set(x, [pc |-> "ran", repository |-> kept(x, o), guard |-> w[x].guard /\ kept(x, o)])
  /\ answers' = publish(x)
  /\ UNCHANGED <<users, gate, live, history, changes>>

(* Destroying the worker cleans up again and frees it when nothing is left.*)
destroy(x) ==
  /\ w[x].pc = "ran"
  /\ \E o \in {"ok", "unclosed"} :
       /\ Call(o, IF conn[x] = "stuck" THEN {"unclosed"} ELSE {})
       /\ cleanup(x, o)
       /\ Set(x, [pc |-> IF kept(x, o) THEN "ran" ELSE "gone",
                  repository |-> kept(x, o), guard |-> w[x].guard /\ kept(x, o)])
  /\ UNCHANGED <<users, gate, live, answers, events, history, changes>>

-----------------------------------------------------------------------------
Next ==
  \/ \E n \in Names, to \in Passwords \cup {"another", "DISABLED"} : AccountChanges(n, to)
  \/ \E x \in Workers, committed \in BOOLEAN : ServerEnds(x, committed)
  \/ \E x \in Workers, command \in {"REGISTER", "LOGIN"}, n \in Names \cup {BadName}, p \in Passwords :
        run(x, command, n, p)
  \/ \E x \in Workers, command \in {"RESUME", "LOGOUT", "OTHER"} : run(x, command, "", "")
  \/ \E x \in Workers, happens \in BOOLEAN : exchange(x, happens)
  \/ \E x \in Workers :
        \/ reserve(x) \/ hash(x) \/ token(x)
        \/ find_credentials(x) \/ begin(x) \/ first(x) \/ insert(x) \/ commit(x) \/ rollback(x)
        \/ session_call(x) \/ complete(x) \/ destroy(x)
  \/ gate_close
  \/ gate_destroy

Spec == Init /\ [][Next]_vars

-----------------------------------------------------------------------------
(* A login takes effect only while the account is active and its hash is   *)
(* the one the supplied password was verified against; no change between   *)
(* the lookup and the transaction goes unnoticed (auth_service.c:160).     *)
LoginStep ==
  \A x \in applied' \ applied :
    w[x].command = "LOGIN" =>
      /\ users[w[x].name].status = "ACTIVE"
      /\ users[w[x].name].hash[1] = w[x].password
      /\ users[w[x].name].hash = w[x].hash

(* What is published is true, whatever failed on the way and whatever is   *)
(* still to happen on the server: committed means it took effect, not      *)
(* committed that it never will, so that neither a failure event nor a     *)
(* retry contradicts it; an authentication failure is answered only when   *)
(* the password did not match or the account changed meanwhile; and a      *)
(* registered account has its root and its audit row.                      *)
AnswerTrue ==
  /\ \A x \in {y \in Workers : answers[y] # NoAnswer} :
       LET o == decode(answers[x])
       IN  /\ o.commit # "MALFORMED"
           /\ o.commit = "COMMITTED" => x \in applied
           /\ o.commit = "NOT_COMMITTED" => x \notin applied /\ txn[x].state # "limbo"
           /\ o.status = "OK" => x \in applied \/ o.valid
           /\ o.status = "USER_EXISTS" => users[w[x].name].state = "present"
           /\ (o.status = "AUTHENTICATION_FAILED" /\ o.command = "LOGIN" /\ x \in steady)
                => users[w[x].name].hash[1] # w[x].password
  /\ \A x \in applied : w[x].pc \in {"ran", "gone"} => answers[x] # NoAnswer
  /\ \A e \in events : e[1] \notin applied /\ txn[e[1]].state # "limbo"
  /\ \A n \in Names : users[n].state = "present" => users[n].rows = {"user", "root", "audit"}

(* The hash computations never exceed the parallelism or the memory the    *)
(* gate was created with, the word counts exactly those that run, and the  *)
(* gate is not freed under one (auth_password.c:160).                      *)
GateBounded ==
  LET hashing == {x \in Workers : w[x].pc = "hash"}
  IN  /\ Cardinality(hashing) <= MaxParallel
      /\ count(gate) = Cardinality(hashing)
      /\ \A x, y \in hashing : x # y => memory(x) + memory(y) <= Budget
      /\ ~live => hashing = {}

=============================================================================
