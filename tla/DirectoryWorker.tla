-------------------------- MODULE DirectoryWorker --------------------------
(***************************************************************************)
(* One directory request at a time from the bytes of the client to the     *)
(* answer the reactor decodes: the task is made on the reactor thread, a   *)
(* worker runs it and publishes a completion, the reactor decodes it       *)
(* (service/directory_*_task.c, directory_*_worker.c,                      *)
(* directory_*_completion.c).  A client may come back with a page token it *)
(* was given, or with one it made up.                                      *)
(*                                                                         *)
(* In the worker the service turns the report of the repository into an    *)
(* outcome, the completion projects the outcome on a protocol status, and  *)
(* the reactor decodes the completion again (service/directory_*.c).  Each *)
(* of the six operations has its own copy of these functions; a definition *)
(* here carries the operation's name where the copies differ.  A report is *)
(* what a repository call leaves behind: its result, its issue, whether a  *)
(* write was committed, and how the cleanup went.                          *)
(*                                                                         *)
(* A run of a worker is one action: the only state other threads change    *)
(* meanwhile is the cancel flag and the clock, and each is read once.      *)
(***************************************************************************)
EXTENDS Integers, Sequences, FiniteSets, TLC

CONSTANTS MaxUtc,       \* the largest millisecond value a uint64_t holds
          Ttl,          \* VIREO_PAGE_TOKEN_TTL_MS
          Children,     \* the directory that is listed has nodes 1..Children
          PageSize,     \* page_size of a LIST request
          MaxClock,     \* bound on the monotonic clock
          MaxRequests   \* bound on the requests of a behaviour

VARIABLES clock,        \* CLOCK_MONOTONIC
          requests,     \* requests made so far
          task,         \* the task of the request, or NoTask
          cancelled,    \* the cancel flag the task shares
          worker,       \* directory_*_worker_t, or NoWorker
          result,       \* directory_*_task_result_t of the run
          completion,   \* the completion the reactor will take, or NoCompletion
          answer,       \* the decoded outcome of the last request
          pocket        \* tokens the client holds, with the history of their chain

vars == <<clock, requests, task, cancelled, worker, result, completion, answer, pocket>>

Operations == {"stat", "root", "list", "mkdir", "move", "remove"}
Writes == {"mkdir", "move", "remove"}

NoReport == [rc |-> "OK", issue |-> "NONE", commit |-> "NOT_COMMITTED", effect |-> "NONE",
             node |-> 0, audit |-> 0, keyed |-> FALSE, found |-> FALSE, rollback |-> FALSE,
             pending |-> FALSE, cleanup |-> "OK", stage |-> "NONE"]
NoService == [outcome |-> "NONE", name_issue |-> "NONE", node |-> 0, keyed |-> FALSE,
              called |-> FALSE, report |-> NoReport, page |-> <<>>, token |-> <<>>,
              operation |-> "NONE", checked |-> FALSE, verified |-> "OK", at |-> "NONE"]
NoResult == [stage |-> "CONTEXT", result |-> "OK", request_id |-> FALSE, request_issue |-> "NONE",
             service |-> NoService]

-----------------------------------------------------------------------------
(* The reports a repository call can end with. *)

Failures == {"BUSY", "TIMEOUT", "NO_MEMORY", "DATABASE", "IO"}
Results == Failures \cup {"OK", "INVALID_ARGUMENT", "RANGE", "OVERFLOW", "NOT_FOUND", "PROTOCOL",
                         "CANCELLED", "INTERNAL"}

mkdir_rejections == [r \in {<<"NOT_FOUND", "AUTH_REJECTED">>, <<"NOT_FOUND", "NOT_FOUND">>,
                            <<"DATABASE", "NAME_CONFLICT">>, <<"DATABASE", "IDEMPOTENCY_CONFLICT">>}
                     |-> CASE r[2] = "AUTH_REJECTED" -> "UNAUTHORIZED"
                           [] r[2] = "NOT_FOUND" -> "PARENT_NOT_FOUND"
                           [] OTHER -> r[2]]
move_rejections == [r \in {<<"NOT_FOUND", "AUTH_REJECTED">>, <<"NOT_FOUND", "NOT_FOUND">>,
                           <<"DATABASE", "ROOT_IMMOVABLE">>, <<"DATABASE", "NAME_CONFLICT">>,
                           <<"DATABASE", "MOVE_CYCLE">>, <<"DATABASE", "IDEMPOTENCY_CONFLICT">>,
                           <<"RANGE", "ANCESTRY_LIMIT">>}
                    |-> IF r[2] = "AUTH_REJECTED" THEN "UNAUTHORIZED" ELSE r[2]]
remove_rejections == [r \in {<<"NOT_FOUND", "AUTH_REJECTED">>, <<"NOT_FOUND", "NOT_FOUND">>,
                             <<"RANGE", "ANCESTRY_LIMIT">>, <<"DATABASE", "ROOT_UNDELETABLE">>,
                             <<"DATABASE", "DIRECTORY_NOT_EMPTY">>,
                             <<"DATABASE", "OBJECT_REFERENCE_INVALID">>,
                             <<"DATABASE", "IDEMPOTENCY_CONFLICT">>, <<"DATABASE", "RECEIPT_INVALID">>}
                      |-> IF r[2] = "AUTH_REJECTED" THEN "UNAUTHORIZED" ELSE r[2]]
Rejections(d) == CASE d = "mkdir" -> mkdir_rejections [] d = "move" -> move_rejections
                   [] d = "remove" -> remove_rejections
Rejection(d, p) == IF <<p.rc, p.issue>> \in DOMAIN Rejections(d)
                   THEN Rejections(d)[<<p.rc, p.issue>>] ELSE "NONE"
Applied(d) == IF d = "mkdir" THEN "CREATED" ELSE "APPLIED"
(* The issues a failed statement of a write may carry. *)
FailureIssues(d) == IF d = "remove" THEN {"NONE", "UNEXPECTED_RESULT"}
                    ELSE {"NONE", "UNEXPECTED_RESULT", "RECEIPT_INVALID"}

(* What a statement in an open transaction fails with: the server's or the *)
(* result's fault, no memory for it, a row wider than its limits, or a     *)
(* connection that an earlier failure made unusable.                       *)
StatementFailures(issues) ==
    {<<"DATABASE", i>> : i \in issues} \cup {<<f, "NONE">> : f \in {"NO_MEMORY", "RANGE", "CANCELLED"}}

(* The end of the statements, before the cleanup.  open says that a       *)
(* transaction was begun, lease that a connection is held, and stuck that *)
(* the failed statement could not be closed either.                       *)
WriteEnds(d, node) ==
    LET P(changes) == changes @@ NoReport
        done == [node |-> node, audit |-> 7, keyed |-> d # "remove"]
    IN      {[p |-> P([rc |-> f]), open |-> FALSE, lease |-> l] : f \in Failures, l \in BOOLEAN}
       \cup {[p |-> P([rc |-> f[1], issue |-> f[2], cleanup |-> c,
                       stage |-> IF c = "OK" THEN "NONE" ELSE "STATEMENT_CLOSE"]),
              open |-> TRUE, lease |-> TRUE]
               : f \in StatementFailures(FailureIssues(d)), c \in {"OK", "IO"}}
       \cup {[p |-> P([rc |-> r[1], issue |-> r[2]]), open |-> TRUE, lease |-> TRUE]
               : r \in DOMAIN Rejections(d)}
       \cup {[p |-> P(done @@ [effect |-> "RECOVERED"]), open |-> TRUE, lease |-> TRUE]}
       \cup {[p |-> P(done @@ [commit |-> "COMMITTED", effect |-> Applied(d), rc |-> c, cleanup |-> c,
                               stage |-> IF c = "OK" THEN "NONE" ELSE "STATEMENT_CLOSE"]),
              open |-> FALSE, lease |-> TRUE] : c \in {"OK", "IO"}}
       \cup {[p |-> P([rc |-> f, commit |-> "UNKNOWN"]), open |-> FALSE, lease |-> TRUE]
               : f \in {"DATABASE", "IO", "TIMEOUT"}}

ReadEnds ==
    LET P(changes) == changes @@ NoReport
    IN      {[p |-> P([rc |-> f]), open |-> FALSE, lease |-> l] : f \in Failures, l \in BOOLEAN}
       \cup {[p |-> P([rc |-> f[1], issue |-> f[2], cleanup |-> c,
                       stage |-> IF c = "OK" THEN "NONE" ELSE "STATEMENT_CLOSE"]),
              open |-> TRUE, lease |-> TRUE]
               : f \in StatementFailures({"NONE", "UNEXPECTED_RESULT"}), c \in {"OK", "IO"}}
       \cup {[p |-> P([rc |-> "NOT_FOUND", issue |-> i]), open |-> TRUE, lease |-> TRUE]
               : i \in {"AUTH_REJECTED", "NOT_FOUND"}}
       \cup {[p |-> P([rc |-> "OK"]), open |-> TRUE, lease |-> TRUE]}

(* A cleanup step that fails: the first failure is the one recorded, and   *)
(* the call fails with it unless it has failed before.                     *)
Fail(p, c, stage) == [p EXCEPT !.cleanup = IF @ = "OK" THEN c ELSE @,
                               !.stage = IF p.cleanup = "OK" THEN stage ELSE @,
                               !.rc = IF @ = "OK" THEN c ELSE @]

(* ROLLBACK of what is open, then the lease.  A statement that cannot be   *)
(* closed keeps the lease.                                                 *)
RollbackSteps(e) == IF ~e.open THEN {e.p}
                    ELSE {[e.p EXCEPT !.rollback = TRUE],
                          Fail([e.p EXCEPT !.rollback = TRUE], "IO", "STATEMENT_CLOSE"),
                          [Fail([e.p EXCEPT !.rollback = TRUE], "IO", "STATEMENT_CLOSE")
                             EXCEPT !.pending = TRUE]}
                         \cup {Fail(e.p, c, "ROLLBACK") : c \in {"DATABASE", "IO"}}
                         \cup {[Fail(e.p, "IO", "ROLLBACK") EXCEPT !.pending = TRUE]}
ReleaseSteps(e, p) == IF ~e.lease \/ p.pending THEN {p}
                      ELSE {p, Fail(p, "BUSY", "RELEASE"),
                            [Fail(p, "BUSY", "RELEASE") EXCEPT !.pending = TRUE]}
Cleanup(e) == UNION {ReleaseSteps(e, p) : p \in RollbackSteps(e)}

(* A read has found something only when the cleanup went well too. *)
Reports(d, node) ==
    IF d \in Writes THEN UNION {Cleanup(e) : e \in WriteEnds(d, node)}
    ELSE {[p EXCEPT !.found = p.rc = "OK", !.node = IF p.rc = "OK" THEN node ELSE 0]
            : p \in UNION {Cleanup(e) : e \in {x \in ReadEnds : d # "root" \/ x.p.issue # "NOT_FOUND"}}}

-----------------------------------------------------------------------------
(* The services. *)

Service(p, changes) == changes @@ [NoService EXCEPT !.called = TRUE, !.report = p]
Ends(rc, s) == [rc |-> rc, s |-> s]

CleanupResult(p) == IF p.cleanup = "NOT_FOUND" THEN "INTERNAL" ELSE p.cleanup

directory_service_stat(node, p) ==
    CASE p.cleanup # "OK" -> Ends(CleanupResult(p), Service(p, <<>>))
      [] p.cleanup = "OK" /\ p.pending ->
           Ends(IF p.rc \in {"OK", "NOT_FOUND"} THEN "INTERNAL" ELSE p.rc, Service(p, <<>>))
      [] p.cleanup = "OK" /\ ~p.pending /\ p.rc = "OK" ->
           IF p.found /\ p.issue = "NONE" /\ p.rollback /\ p.node = node
           THEN Ends("OK", Service(p, [outcome |-> "FOUND", node |-> p.node]))
           ELSE Ends("INTERNAL", Service(p, <<>>))
      [] p.cleanup = "OK" /\ ~p.pending /\ p.rc = "NOT_FOUND" ->
           IF ~p.found /\ p.rollback /\ p.issue \in {"AUTH_REJECTED", "NOT_FOUND"}
           THEN Ends("NOT_FOUND", Service(p, [outcome |-> IF p.issue = "AUTH_REJECTED"
                                                         THEN "UNAUTHORIZED" ELSE "NOT_FOUND"]))
           ELSE Ends("INTERNAL", Service(p, <<>>))
      [] OTHER -> Ends(p.rc, Service(p, <<>>))

directory_service_root(p) ==
    CASE p.cleanup # "OK" -> Ends(CleanupResult(p), Service(p, <<>>))
      [] p.cleanup = "OK" /\ p.pending ->
           Ends(IF p.rc \in {"OK", "NOT_FOUND"} THEN "INTERNAL" ELSE p.rc, Service(p, <<>>))
      [] p.cleanup = "OK" /\ ~p.pending /\ p.rc = "OK" ->
           IF p.found /\ p.issue = "NONE" /\ p.rollback /\ p.node # 0
           THEN Ends("OK", Service(p, [outcome |-> "FOUND", node |-> p.node]))
           ELSE Ends("INTERNAL", Service(p, <<>>))
      [] p.cleanup = "OK" /\ ~p.pending /\ p.rc = "NOT_FOUND" ->
           IF ~p.found /\ p.rollback /\ p.issue = "AUTH_REJECTED"
           THEN Ends("NOT_FOUND", Service(p, [outcome |-> "UNAUTHORIZED"]))
           ELSE Ends("INTERNAL", Service(p, <<>>))
      [] OTHER -> Ends(p.rc, Service(p, <<>>))

(* directory_name_validate on a name the request decoder let pass: it is   *)
(* not in normal form, or the normaliser runs out of memory.               *)
directory_name_validate(name) ==
    CASE name = "not_nfc" -> [rc |-> "PROTOCOL", issue |-> "NOT_NFC"]
      [] name \in {"NO_MEMORY", "OVERFLOW"} -> [rc |-> name, issue |-> "NONE"]
      [] OTHER -> [rc |-> "OK", issue |-> "NONE"]

(* The outcome of a write.  blurred: the results a left over cleanup hides. *)
WriteOutcome(d, p, blurred) ==
    LET rejected == Rejection(d, p)
        named == p.issue = "NONE" /\ p.audit # 0 /\ p.node # 0
        untouched == /\ p.commit = "NOT_COMMITTED" /\ p.effect = "NONE" /\ p.node = 0
                     /\ p.audit = 0 /\ ~p.keyed /\ p.rollback
        Claim(outcome) == Ends("OK", Service(p, [outcome |-> outcome, node |-> p.node,
                                                 keyed |-> TRUE]))
        Internal == Ends("INTERNAL", Service(p, <<>>))
    IN CASE p.cleanup # "OK" -> Ends(CleanupResult(p), Service(p, <<>>))
         [] p.cleanup = "OK" /\ p.pending ->
              IF p.rc \in blurred \/ rejected # "NONE" THEN Internal ELSE Ends(p.rc, Service(p, <<>>))
         [] p.cleanup = "OK" /\ ~p.pending /\ p.rc = "OK" ->
              CASE named /\ p.commit = "COMMITTED" /\ p.effect = Applied(d) /\ ~p.rollback
                     -> Claim(Applied(d))
                [] named /\ p.commit = "NOT_COMMITTED" /\ p.effect = "RECOVERED" /\ p.rollback
                     -> Claim("RECOVERED")
                [] OTHER -> Internal
         [] p.cleanup = "OK" /\ ~p.pending /\ p.rc # "OK" ->
              CASE rejected # "NONE" /\ untouched -> Ends(p.rc, Service(p, [outcome |-> rejected]))
                [] rejected # "NONE" /\ ~untouched -> Internal
                [] rejected = "NONE" /\ p.rc \in (blurred \cup {"PROTOCOL"}) -> Internal
                [] OTHER -> Ends(p.rc, Service(p, <<>>))

NameRefused(n) == Ends(n.rc, [NoService EXCEPT !.outcome = IF n.issue = "NONE" THEN "NONE" ELSE "INVALID_NAME",
                                              !.name_issue = n.issue])

directory_service_mkdir(name, p) ==
    LET n == directory_name_validate(name)
    IN IF n.rc # "OK" THEN NameRefused(n)
       ELSE WriteOutcome("mkdir", p, {"OK", "NOT_FOUND"})
directory_service_move(name, p) ==
    LET n == directory_name_validate(name)
    IN IF n.rc # "OK" THEN NameRefused(n)
       ELSE WriteOutcome("move", p, {"OK", "NOT_FOUND"})
directory_service_remove(p) == WriteOutcome("remove", p, {"OK"})

-----------------------------------------------------------------------------
(* Page tokens.  The MAC is either that of this server's key or not.       *)

Utc == 0..MaxUtc
NoTime == -1            \* the clock could not be read
NoToken == [mac |-> FALSE, after |-> 0, issued |-> 0, expires |-> 0, context |-> <<>>]
Context(user) == <<user, PageSize>>
window(claims, now) == claims.issued <= now /\ now < claims.expires

page_token_sign(claims, now) ==
    CASE claims.after = 0 -> "INVALID_ARGUMENT"
      [] claims.after # 0 /\ claims.issued > MaxUtc - Ttl -> "OVERFLOW"
      [] claims.after # 0 /\ claims.issued <= MaxUtc - Ttl /\ claims.expires # claims.issued + Ttl
           -> "INVALID_ARGUMENT"
      [] OTHER -> IF window(claims, now) THEN "OK" ELSE "PROTOCOL"

page_token_verify(context, token, now) ==
    IF /\ token.mac /\ token.context = context /\ token.after # 0
       /\ token.issued <= MaxUtc - Ttl /\ token.expires = token.issued + Ttl
       /\ window(token, now)
    THEN "OK" ELSE "PROTOCOL"

(* The page the repository reads after a node id. *)
PageAfter(after, size) ==
    LET ids == SelectSeq([i \in 1..Children |-> i], LAMBDA n : n > after)
        shown == SubSeq(ids, 1, IF Len(ids) < size THEN Len(ids) ELSE size)
        more == Len(ids) > size
    IN [ids |-> shown, more |-> more, next |-> IF more THEN shown[size] ELSE 0]
EmptyPage == [ids |-> <<>>, more |-> FALSE, next |-> 0]

valid_page(page, after, size) ==
    /\ Len(page.ids) <= size
    /\ IF page.more THEN Len(page.ids) = size /\ page.next = page.ids[Len(page.ids)] ELSE page.next = 0
    /\ \A i \in 1..Len(page.ids) : page.ids[i] > (IF i = 1 THEN after ELSE page.ids[i - 1])

(* The life time of the next token: that of the chain it continues. *)
claims_of_page(q, old, now) == IF q.has_token THEN [issued |-> old.issued, expires |-> old.expires]
                               ELSE [issued |-> now, expires |-> now + Ttl]

(* The wall clock is read up to three times; a reading is a time or NoTime. *)
list_sign(q, s, page, readings) ==
    LET old == IF q.has_token THEN q.token ELSE NoToken
        now == readings[2]
        claims == [mac |-> TRUE, after |-> page.next, context |-> Context(q.user)]
                    @@ claims_of_page(q, old, now)
        signed == page_token_sign(claims, now)
        BadToken == Ends("PROTOCOL", [s EXCEPT !.outcome = "BAD_TOKEN", !.at = "TOKEN_REVALIDATE"])
    IN CASE now = NoTime -> Ends("IO", s)
         [] now # NoTime /\ ~q.has_token /\ now > MaxUtc - Ttl -> Ends("OVERFLOW", s)
         [] now # NoTime /\ q.has_token /\ ~window(old, now) -> BadToken
         [] OTHER ->
              CASE signed # "OK" -> Ends(signed, s)
                [] signed = "OK" /\ readings[3] = NoTime -> Ends("IO", s)
                [] signed = "OK" /\ readings[3] # NoTime /\ ~window(claims, readings[3]) ->
                     IF q.has_token THEN BadToken ELSE Ends("TIMEOUT", s)
                [] OTHER -> Ends("OK", [s EXCEPT !.outcome = "PAGE", !.page = page, !.token = claims])

(* After the call of the repository; q.token decides what was asked.       *)
list_answer(q, bad, s, readings) ==
    LET p == s.report
        after == IF bad THEN Children ELSE IF q.has_token THEN q.token.after ELSE 0
        size == IF bad THEN 1 ELSE PageSize
        page == IF p.found THEN PageAfter(after, size) ELSE EmptyPage
        Internal == Ends("INTERNAL", s)
        Outcome(rc, o) == Ends(rc, [s EXCEPT !.outcome = o])
    IN CASE p.cleanup # "OK" -> Ends(CleanupResult(p), s)
         [] p.cleanup = "OK" /\ p.pending ->
              IF p.rc \in {"OK", "NOT_FOUND"} THEN Internal ELSE Ends(p.rc, s)
         [] p.cleanup = "OK" /\ ~p.pending /\ p.rc = "NOT_FOUND" ->
              CASE p.found \/ ~p.rollback \/ p.issue \notin {"AUTH_REJECTED", "NOT_FOUND"} -> Internal
                [] ~p.found /\ p.rollback /\ p.issue = "AUTH_REJECTED" -> Outcome("NOT_FOUND", "UNAUTHORIZED")
                [] OTHER -> IF bad THEN Outcome("PROTOCOL", "BAD_TOKEN") ELSE Outcome("NOT_FOUND", "NOT_FOUND")
         [] p.cleanup = "OK" /\ ~p.pending /\ p.rc \notin {"OK", "NOT_FOUND"} ->
              IF p.found THEN Internal ELSE Ends(p.rc, s)
         [] OTHER ->
              CASE ~p.found \/ p.issue # "NONE" \/ ~p.rollback \/ ~valid_page(page, after, size) -> Internal
                [] p.found /\ valid_page(page, after, size) /\ bad ->
                     IF page # EmptyPage THEN Internal ELSE Outcome("PROTOCOL", "BAD_TOKEN")
                [] p.found /\ valid_page(page, after, size) /\ ~bad /\ page.more ->
                     list_sign(q, s, page, readings)
                [] OTHER -> Ends("OK", [s EXCEPT !.outcome = "PAGE", !.page = page])

directory_service_list(q, p, readings) ==
    LET verified == IF q.has_token /\ readings[1] # NoTime
                    THEN page_token_verify(Context(q.user), q.token, readings[1]) ELSE "OK"
        s == [Service(p, <<>>) EXCEPT !.checked = q.has_token, !.verified = verified,
                !.operation = IF verified = "OK" THEN "CHILDREN" ELSE "AUTH_PROBE"]
    IN IF q.has_token /\ readings[1] = NoTime THEN Ends("IO", NoService)
       ELSE list_answer(q, verified # "OK", s, readings)

-----------------------------------------------------------------------------
(* Projection on a protocol status; "refused" where project returns false. *)

technical(rc) == CASE rc = "NO_MEMORY" -> "OVERLOADED" [] rc = "BUSY" -> "BUSY"
                   [] rc = "TIMEOUT" -> "TIMEOUT" [] rc = "CANCELLED" -> "UNAVAILABLE"
                   [] rc = "DATABASE" -> "DB_ERROR" [] OTHER -> "INTERNAL_ERROR"
list_base_status(rc) == IF rc = "DATABASE" THEN "INTERNAL_ERROR" ELSE technical(rc)
stat_technical(rc) == IF rc \in {"BUSY", "TIMEOUT", "CANCELLED"} THEN technical(rc) ELSE "INTERNAL_ERROR"
root_technical(rc) == IF rc = "NO_MEMORY" THEN "OVERLOADED" ELSE stat_technical(rc)

Unclean(s) == s.report.cleanup # "OK" \/ s.report.pending

(* raw_valid of the three writes: a report no repository call returns. *)
mkdir_raw_valid(p) ==
    IF p.effect = "NONE"
    THEN p.commit # "COMMITTED" /\ p.node = 0 /\ p.audit = 0 /\ ~p.keyed /\ (p.commit = "UNKNOWN" => ~p.rollback)
    ELSE /\ p.node # 0 /\ p.audit # 0 /\ p.issue = "NONE" /\ p.keyed
         /\ IF p.effect = "CREATED" THEN p.commit = "COMMITTED" /\ ~p.rollback
            ELSE p.commit = "NOT_COMMITTED" /\ (p.rollback \/ p.cleanup # "OK")
move_raw_valid(p, node) ==
    IF p.effect = "NONE"
    THEN p.commit # "COMMITTED" /\ p.node = 0 /\ p.audit = 0 /\ ~p.keyed /\ (p.commit = "UNKNOWN" => ~p.rollback)
    ELSE /\ p.node = node /\ p.audit # 0 /\ p.issue = "NONE" /\ p.keyed
         /\ IF p.effect = "APPLIED" THEN p.commit = "COMMITTED" /\ ~p.rollback
            ELSE p.commit = "NOT_COMMITTED" /\ (p.rollback \/ (p.cleanup # "OK" /\ p.stage = "ROLLBACK"))
remove_raw_valid(p, node) ==
    IF p.effect = "NONE"
    THEN p.commit # "COMMITTED" /\ p.node = 0 /\ p.audit = 0 /\ (p.commit = "UNKNOWN" => ~p.rollback)
    ELSE /\ p.node = node /\ p.audit # 0 /\ p.issue = "NONE"
         /\ IF p.effect = "APPLIED" THEN p.commit = "COMMITTED" /\ ~p.rollback
            ELSE p.commit = "NOT_COMMITTED" /\ (p.rollback \/ (p.cleanup # "OK" /\ p.stage = "ROLLBACK"))

(* A result whose service was never reached. *)
EarlyStatus(d, r) ==
    IF /\ r.result # "OK" /\ r.service = NoService
       /\ CASE r.stage = "CONTEXT" -> d \in {"mkdir", "move"} => ~r.request_id
            [] r.stage = "RANDOM" -> d \in Writes /\ r.result = "IO"
            [] r.stage = "CANCEL" -> r.result = "CANCELLED" /\ (d \in {"mkdir", "move"} => r.request_id)
            [] r.stage = "DEADLINE" -> r.result = "TIMEOUT" /\ (d \in {"mkdir", "move"} => r.request_id)
            [] OTHER -> FALSE
    THEN technical(r.result) ELSE "refused"

(* A write that reached its service.  status: of a rejection.  silent: the *)
(* results allowed when the repository was not called.                     *)
WriteStatus(d, r, valid, status, silent) ==
    LET s == r.service
        p == s.report
        rejected == Rejection(d, p)
        clean == ~Unclean(s)
        expected == CASE p.cleanup # "OK" -> CleanupResult(p)
                      [] p.cleanup = "OK" /\ p.pending ->
                           IF p.rc \in {"OK", "NOT_FOUND"} \/ rejected # "NONE" THEN "INTERNAL" ELSE p.rc
                      [] OTHER -> IF p.rc \in {"OK", "NOT_FOUND", "PROTOCOL"} \/ rejected # "NONE"
                                  THEN "INTERNAL" ELSE p.rc
    IN CASE ~valid \/ (~s.called /\ p # NoReport) -> "refused"
         [] valid /\ s.outcome \in {Applied(d), "RECOVERED"} ->
              IF /\ r.result = "OK" /\ p.rc = "OK" /\ s.called /\ clean /\ s.name_issue = "NONE"
                 /\ s.node = p.node /\ s.keyed /\ p.effect = s.outcome
                 /\ (s.outcome = "RECOVERED" => p.rollback)
              THEN "OK" ELSE "refused"
         [] valid /\ s.outcome = "INVALID_NAME" ->
              IF ~s.called /\ clean /\ r.result = "PROTOCOL" /\ s.name_issue = "NOT_NFC"
              THEN "INVALID_PATH" ELSE "refused"
         [] valid /\ s.outcome \notin {"NONE", Applied(d), "RECOVERED", "INVALID_NAME"} ->
              IF /\ s.called /\ clean /\ p.commit = "NOT_COMMITTED" /\ p.effect = "NONE" /\ p.rollback
                 /\ r.result = p.rc /\ s.outcome = rejected
              THEN status[rejected] ELSE "refused"
         [] OTHER ->
              IF \/ r.result = "OK" \/ s.name_issue # "NONE" \/ s.node # 0 \/ s.keyed
                 \/ ~s.called /\ r.result \notin silent
                 \/ s.called /\ r.result # expected
                 \/ clean /\ (p.effect # "NONE" \/ r.result \in {"NOT_FOUND", "PROTOCOL"})
              THEN "refused"
              ELSE IF clean THEN technical(r.result) ELSE "INTERNAL_ERROR"

Conflicts == [o \in {"NAME_CONFLICT", "IDEMPOTENCY_CONFLICT", "MOVE_CYCLE", "ANCESTRY_LIMIT"} |-> "CONFLICT"]
(* Mutant: a failed cleanup leaves the status of its result. *)
mkdir_projectLoud(r) == IF r.stage = "SERVICE" /\ Unclean(r.service) THEN technical(r.result)
    ELSE IF r.stage # "SERVICE" THEN EarlyStatus("mkdir", r)
    ELSE WriteStatus("mkdir", r, r.request_id /\ mkdir_raw_valid(r.service.report),
                     [UNAUTHORIZED |-> "UNAUTHORIZED", PARENT_NOT_FOUND |-> "NOT_FOUND"] @@ Conflicts,
                     Results)

mkdir_project(r) == IF r.stage # "SERVICE" THEN EarlyStatus("mkdir", r)
    ELSE WriteStatus("mkdir", r, r.request_id /\ mkdir_raw_valid(r.service.report),
                     [UNAUTHORIZED |-> "UNAUTHORIZED", PARENT_NOT_FOUND |-> "NOT_FOUND"] @@ Conflicts,
                     Results)
move_project(r, node) == IF r.stage # "SERVICE" THEN EarlyStatus("move", r)
    ELSE WriteStatus("move", r, r.request_id /\ move_raw_valid(r.service.report, node),
                     [UNAUTHORIZED |-> "UNAUTHORIZED", NOT_FOUND |-> "NOT_FOUND",
                      ROOT_IMMOVABLE |-> "FORBIDDEN"] @@ Conflicts,
                     {"NO_MEMORY", "OVERFLOW", "INTERNAL"})
remove_project(r, node) == IF r.stage # "SERVICE" THEN EarlyStatus("remove", r)
    ELSE WriteStatus("remove", r, remove_raw_valid(r.service.report, node),
                     [UNAUTHORIZED |-> "UNAUTHORIZED", NOT_FOUND |-> "NOT_FOUND",
                      ROOT_UNDELETABLE |-> "FORBIDDEN", DIRECTORY_NOT_EMPTY |-> "DIRECTORY_NOT_EMPTY",
                      OBJECT_REFERENCE_INVALID |-> "DB_ERROR", RECEIPT_INVALID |-> "DB_ERROR",
                      IDEMPOTENCY_CONFLICT |-> "CONFLICT", ANCESTRY_LIMIT |-> "INTERNAL_ERROR"],
                     {"NO_MEMORY", "OVERFLOW", "INTERNAL"})

stat_project(r, node) ==
    LET s == r.service
        p == s.report
    IN CASE r.stage # "SERVICE" ->
              IF r.result \in {"OK", "NOT_FOUND"} \/ s # NoService THEN "refused" ELSE stat_technical(r.result)
         [] r.stage = "SERVICE" /\ ~s.called /\ p # NoReport -> "refused"
         [] r.stage = "SERVICE" /\ r.result \in {"OK", "NOT_FOUND"} ->
              CASE ~s.called \/ Unclean(s) \/ ~p.rollback \/ p.rc # r.result -> "refused"
                [] r.result = "OK" /\ s.outcome = "FOUND" /\ p.found /\ p.issue = "NONE" /\ s.node = node
                     -> IF s.called /\ ~Unclean(s) /\ p.rollback /\ p.rc = "OK" THEN "OK" ELSE "refused"
                [] r.result = "NOT_FOUND" /\ ~p.found /\ s.node = 0 /\ s.outcome = "UNAUTHORIZED"
                     /\ p.issue = "AUTH_REJECTED" -> "UNAUTHORIZED"
                [] r.result = "NOT_FOUND" /\ ~p.found /\ s.node = 0 /\ s.outcome = "NOT_FOUND"
                     /\ p.issue = "NOT_FOUND" -> "NOT_FOUND"
                [] OTHER -> "refused"
         [] OTHER -> IF s.outcome # "NONE" \/ s.node # 0 THEN "refused"
                     ELSE IF Unclean(s) THEN "INTERNAL_ERROR" ELSE stat_technical(r.result)

root_project(r) ==
    LET s == r.service
        p == s.report
    IN CASE \/ r.stage = "CANCEL" /\ r.result # "CANCELLED"
            \/ r.stage = "DEADLINE" /\ r.result # "TIMEOUT"
            \/ r.stage \notin {"CONTEXT", "CANCEL", "DEADLINE", "SERVICE"} -> "refused"
         [] <<r.stage, r.result>> \in ({"CONTEXT"} \X Results) \cup {<<"CANCEL", "CANCELLED">>, <<"DEADLINE", "TIMEOUT">>} ->
              IF r.result \in {"OK", "NOT_FOUND"} \/ s # NoService THEN "refused" ELSE root_technical(r.result)
         [] r.stage = "SERVICE" /\ ~s.called /\ p # NoReport -> "refused"
         [] r.stage = "SERVICE" /\ (s.called \/ p = NoReport) /\ r.result \in {"OK", "NOT_FOUND"} ->
              IF ~s.called \/ Unclean(s) \/ ~p.rollback \/ p.rc # r.result THEN "refused"
              ELSE IF r.result = "OK"
              THEN IF s.outcome = "FOUND" /\ s.node # 0 /\ p.found /\ p.issue = "NONE" THEN "OK" ELSE "refused"
              ELSE IF s.node = 0 /\ ~p.found /\ s.outcome = "UNAUTHORIZED" /\ p.issue = "AUTH_REJECTED"
                   THEN "UNAUTHORIZED" ELSE "refused"
         [] OTHER -> IF s.outcome # "NONE" \/ s.node # 0 THEN "refused"
                     ELSE IF Unclean(s) THEN "INTERNAL_ERROR" ELSE root_technical(r.result)

(* Which repository call goes with which token. *)
list_call_matches(s, has_token) ==
    CASE ~has_token -> ~s.checked /\ s.verified = "OK" /\ s.operation # "AUTH_PROBE"
      [] has_token /\ ~s.checked -> s.verified = "OK" /\ s.operation = "NONE"
      [] has_token /\ s.checked /\ s.verified = "PROTOCOL" -> s.operation = "AUTH_PROBE"
      [] has_token /\ s.checked /\ s.verified = "OK" -> s.operation = "CHILDREN"
      [] OTHER -> s.operation = "NONE" /\ s.outcome = "NONE"

list_project_status(r, has_token) ==
    LET s == r.service
        p == s.report
        expected == IF p.cleanup # "OK" THEN CleanupResult(p)
                    ELSE IF p.rc \in {"OK", "NOT_FOUND"} THEN "INTERNAL" ELSE p.rc
        asked == s.operation # "NONE"
        read_ok == asked /\ p.rc = "OK" /\ p.found /\ p.issue = "NONE" /\ p.rollback
        missed == asked /\ p.rc = "NOT_FOUND" /\ ~p.found /\ p.rollback
        When(c, status) == IF c THEN status ELSE "refused"
    IN CASE s.outcome # "PAGE" /\ (s.page # <<>> \/ s.token # <<>>) -> "refused"
         [] r.stage # "SERVICE" ->
              When(/\ r.result # "OK" /\ s = NoService
                   /\ \/ r.stage = "CONTEXT"
                      \/ r.stage = "CANCEL" /\ r.result = "CANCELLED"
                      \/ r.stage = "DEADLINE" /\ r.result = "TIMEOUT", list_base_status(r.result))
         [] r.stage = "SERVICE" /\ (~list_call_matches(s, has_token) \/ (~asked /\ p # NoReport)) -> "refused"
         [] r.stage = "SERVICE" /\ list_call_matches(s, has_token) /\ Unclean(s) ->
              When(s.outcome = "NONE" /\ asked /\ r.result = expected, "INTERNAL_ERROR")
         [] OTHER ->
              CASE s.outcome = "PAGE" ->
                     When(r.result = "OK" /\ read_ok /\ s.operation = "CHILDREN" /\ s.at = "NONE", "OK")
                [] s.outcome = "UNAUTHORIZED" ->
                     When(r.result = "NOT_FOUND" /\ missed /\ p.issue = "AUTH_REJECTED", "UNAUTHORIZED")
                [] s.outcome = "NOT_FOUND" ->
                     When(/\ r.result = "NOT_FOUND" /\ missed /\ s.operation = "CHILDREN"
                          /\ p.issue = "NOT_FOUND", "NOT_FOUND")
                [] s.outcome = "BAD_TOKEN" ->
                     When(/\ r.result = "PROTOCOL" /\ has_token /\ s.checked
                          /\ IF s.verified = "PROTOCOL" THEN read_ok \/ (missed /\ p.issue = "NOT_FOUND")
                             ELSE read_ok /\ s.at = "TOKEN_REVALIDATE", "BAD_REQUEST")
                [] OTHER -> When(r.result # "OK", list_base_status(r.result))

list_project_page(s) ==
    LET page == s.page
    IN /\ Len(page.ids) <= PageSize
       /\ IF page.more THEN Len(page.ids) = PageSize /\ page.next = page.ids[Len(page.ids)] ELSE s.token = <<>>

-----------------------------------------------------------------------------
(* Which status a result may come with. *)

Base(rc) == {"INTERNAL_ERROR", technical(rc)}

mkdir_pair(rc) == CASE rc = "OK" -> {"OK"}
                    [] rc = "NOT_FOUND" -> {"UNAUTHORIZED", "NOT_FOUND", "INTERNAL_ERROR"}
                    [] rc = "PROTOCOL" -> {"INVALID_PATH", "INTERNAL_ERROR"}
                    [] rc = "DATABASE" -> {"CONFLICT"} \cup Base(rc)
                    [] OTHER -> Base(rc)
move_pair(rc) == CASE rc = "DATABASE" -> {"FORBIDDEN", "CONFLICT"} \cup Base(rc)
                   [] rc = "RANGE" -> {"CONFLICT", "INTERNAL_ERROR"}
                   [] OTHER -> mkdir_pair(rc)
remove_pair(rc) == CASE rc = "PROTOCOL" -> {"INTERNAL_ERROR"}
                     [] rc = "DATABASE" -> {"FORBIDDEN", "CONFLICT", "DIRECTORY_NOT_EMPTY"} \cup Base(rc)
                     [] rc = "RANGE" -> {"RANGE_INVALID", "INTERNAL_ERROR"}
                     [] OTHER -> mkdir_pair(rc)
stat_pair(rc) == CASE rc = "OK" -> {"OK"}
                   [] rc = "NOT_FOUND" -> {"UNAUTHORIZED", "NOT_FOUND"}
                   [] OTHER -> {"INTERNAL_ERROR", stat_technical(rc)}
root_pair(rc) == CASE rc = "OK" -> {"OK"}
                   [] rc = "NOT_FOUND" -> {"UNAUTHORIZED"}
                   [] OTHER -> {"INTERNAL_ERROR", root_technical(rc)}
list_status_pair(rc, token) ==
    CASE rc = "OK" -> {"OK"}
      [] rc = "NOT_FOUND" -> {"NOT_FOUND", "UNAUTHORIZED", "INTERNAL_ERROR"}
      [] rc = "PROTOCOL" -> {"INTERNAL_ERROR"} \cup (IF token THEN {"BAD_REQUEST"} ELSE {})
      [] OTHER -> {"INTERNAL_ERROR", list_base_status(rc)}

-----------------------------------------------------------------------------
(* The request, its task and its worker. *)

Users == {1}
Node == 5               \* the node id a request names
Key == 9                \* its idempotency key
Route == 3              \* route.request_sequence of the request

NoTask == [domain |-> "none"]
NoWorker == [domain |-> "none", attempted |-> FALSE, guard |-> FALSE, repository |-> FALSE,
             remaining |-> FALSE, published |-> "no"]
NoCompletion == [domain |-> "none"]
NoAnswer == [status |-> "none"]

-----------------------------------------------------------------------------
(* Tasks.  m: the metadata made for the request; q: its decoded bytes.     *)

RequestsOf(d) == [handle : {0, 8}, sequence : {Route, Route + 1},
                name : IF d \in {"mkdir", "move"} THEN {"name", "not_nfc", "NO_MEMORY"} ELSE {"name"},
                has_token : {FALSE}, token : {NoToken}, user : Users]
Forged == [NoToken EXCEPT !.after = 1, !.expires = Ttl, !.context = Context(1)]
ListRequests == [handle : {0, 8}, sequence : {Route}, name : {"name"}, has_token : {FALSE},
                 token : {NoToken}, user : Users]
    \cup {[handle |-> 8, sequence |-> Route, name |-> "name", has_token |-> TRUE, token |-> k, user |-> u]
            : k \in {e.token : e \in pocket} \cup {Forged}, u \in Users}

TaskCreate(d, q, deadline) ==
    CASE q.handle = 0 -> [rc |-> "INVALID_ARGUMENT", task |-> NoTask]
      [] q.handle # 0 /\ q.sequence # Route -> [rc |-> "PROTOCOL", task |-> NoTask]
      [] OTHER -> [rc |-> "OK", task |-> [domain |-> d, q |-> q, deadline |-> deadline]]

TaskRead(d, t) == IF t.domain = d /\ t.q.handle # 0 /\ t.q.sequence = Route THEN "OK" ELSE "PROTOCOL"

(* The result of the stages up to the service, with what it was read from. *)
At(t, stage, rc) == [[NoResult EXCEPT !.stage = stage, !.result = rc,
                                      !.request_id = t.domain \in Writes /\ stage \in {"CANCEL", "DEADLINE"}]
                       EXCEPT !.request_issue = "NONE"]
(* The cancel flag first, then the deadline, then the service. *)
TaskExecute(t, now, cancel, served) ==
    CASE cancel -> {At(t, "CANCEL", "CANCELLED")}
      [] ~cancel /\ now >= t.deadline -> {At(t, "DEADLINE", "TIMEOUT")}
      [] OTHER -> {[NoResult EXCEPT !.stage = "SERVICE", !.result = x.rc, !.service = x.s,
                                    !.request_id = t.domain \in Writes] : x \in served}

stat_task_create(q, deadline) == TaskCreate("stat", q, deadline)
root_task_create(q, deadline) == TaskCreate("root", q, deadline)
list_task_create(q, deadline) == TaskCreate("list", q, deadline)
mkdir_task_create(q, deadline) == TaskCreate("mkdir", q, deadline)
move_task_create(q, deadline) == TaskCreate("move", q, deadline)
remove_task_create(q, deadline) == TaskCreate("remove", q, deadline)
task_create(d, q, deadline) ==
    CASE d = "stat" -> stat_task_create(q, deadline)   [] d = "root" -> root_task_create(q, deadline)
      [] d = "list" -> list_task_create(q, deadline)   [] d = "mkdir" -> mkdir_task_create(q, deadline)
      [] d = "move" -> move_task_create(q, deadline)   [] d = "remove" -> remove_task_create(q, deadline)

stat_task_read(t) == TaskRead("stat", t)
root_task_read(t) == TaskRead("root", t)
list_task_read(t) == TaskRead("list", t)
mkdir_task_read(t) == TaskRead("mkdir", t)
move_task_read(t) == TaskRead("move", t)
remove_task_read(t) == TaskRead("remove", t)
task_read(d, t) ==
    CASE d = "stat" -> stat_task_read(t) [] d = "root" -> root_task_read(t) [] d = "list" -> list_task_read(t)
      [] d = "mkdir" -> mkdir_task_read(t) [] d = "move" -> move_task_read(t) [] d = "remove" -> remove_task_read(t)

stat_task_execute(t, now, cancel) ==
    TaskExecute(t, now, cancel, {directory_service_stat(Node, p) : p \in Reports("stat", Node)})
root_task_execute(t, now, cancel) ==
    TaskExecute(t, now, cancel, {directory_service_root(p) : p \in Reports("root", Node)})
mkdir_task_execute(t, now, cancel) ==
    TaskExecute(t, now, cancel, {directory_service_mkdir(t.q.name, p) : p \in Reports("mkdir", Node)})
move_task_execute(t, now, cancel) ==
    TaskExecute(t, now, cancel, {directory_service_move(t.q.name, p) : p \in Reports("move", Node)})
remove_task_execute(t, now, cancel) ==
    TaskExecute(t, now, cancel, {directory_service_remove(p) : p \in Reports("remove", Node)})
(* The wall clock of a LIST is read afresh every time, and may jump. *)
list_task_execute(t, now, cancel) ==
    TaskExecute(t, now, cancel, {directory_service_list(t.q, p, c) : p \in Reports("list", Node),
                                                                    c \in [1..3 -> Utc \cup {NoTime}]})

-----------------------------------------------------------------------------
(* Workers. *)

WorkerCreate(d) == [NoWorker EXCEPT !.domain = d]
stat_worker_create == WorkerCreate("stat")
root_worker_create == WorkerCreate("root")
list_worker_create == WorkerCreate("list")
mkdir_worker_create == WorkerCreate("mkdir")
move_worker_create == WorkerCreate("move")
remove_worker_create == WorkerCreate("remove")
worker_create(d) ==
    CASE d = "stat" -> stat_worker_create [] d = "root" -> root_worker_create [] d = "list" -> list_worker_create
      [] d = "mkdir" -> mkdir_worker_create [] d = "move" -> move_worker_create [] d = "remove" -> remove_worker_create

(* What a run reaches before its cleanup: the result, and what it holds.   *)
(* steps: the failures between the guard and the call of the service.      *)
WorkerWork(d, t, steps, executed) ==
    LET Holds(g, r, res) == [guard |-> g, repository |-> r, result |-> res]
    IN      {Holds(FALSE, FALSE, At(t, "CONTEXT", f)) : f \in {"NO_MEMORY", "DATABASE"}}   \* attach
       \cup {Holds(TRUE, FALSE, At(t, "CONTEXT", f)) : f \in {"NO_MEMORY", "BUSY"}}        \* repository_create
       \cup {Holds(TRUE, TRUE, At(t, s[1], s[2])) : s \in steps}
       \cup {Holds(TRUE, TRUE, x) : x \in executed}

ReadSteps == {<<"CONTEXT", "IO">>}                     \* the clock
WriteSteps == ReadSteps \cup {<<"RANDOM", "IO">>}      \* RAND_priv_bytes, then the clock
stat_worker_run(t, now, cancel) == WorkerWork("stat", t, ReadSteps, stat_task_execute(t, now, cancel))
root_worker_run(t, now, cancel) == WorkerWork("root", t, ReadSteps, root_task_execute(t, now, cancel))
list_worker_run(t, now, cancel) == WorkerWork("list", t, ReadSteps, list_task_execute(t, now, cancel))
mkdir_worker_run(t, now, cancel) == WorkerWork("mkdir", t, WriteSteps, mkdir_task_execute(t, now, cancel))
move_worker_run(t, now, cancel) == WorkerWork("move", t, WriteSteps, move_task_execute(t, now, cancel))
remove_worker_run(t, now, cancel) == WorkerWork("remove", t, WriteSteps, remove_task_execute(t, now, cancel))
worker_run(d, t, now, cancel) ==
    CASE d = "stat" -> stat_worker_run(t, now, cancel)   [] d = "root" -> root_worker_run(t, now, cancel)
      [] d = "list" -> list_worker_run(t, now, cancel)   [] d = "mkdir" -> mkdir_worker_run(t, now, cancel)
      [] d = "move" -> move_worker_run(t, now, cancel)   [] d = "remove" -> remove_worker_run(t, now, cancel)

(* The repository, then the guard it needs, then the completion; destroyed *)
(* is what the calls manage to take away.                                  *)
WorkerCleanup(w, destroyed, completions) ==
    LET repository == w.repository /\ "repository" \notin destroyed
        guard == w.guard /\ (repository \/ "guard" \notin destroyed)
        remaining == w.remaining /\ ~(completions /\ "completion" \in destroyed)
    IN [w EXCEPT !.repository = repository, !.guard = guard, !.remaining = remaining]
Empty(w) == ~w.repository /\ ~w.guard /\ ~w.remaining

stat_cleanup(w, destroyed) == WorkerCleanup(w, destroyed, TRUE)
root_cleanup(w, destroyed) == WorkerCleanup(w, destroyed, TRUE)
list_cleanup(w, destroyed, completions) == WorkerCleanup(w, destroyed, completions)
mkdir_cleanup(w, destroyed) == WorkerCleanup(w, destroyed, TRUE)
move_cleanup(w, destroyed) == WorkerCleanup(w, destroyed, TRUE)
remove_cleanup(w, destroyed) == WorkerCleanup(w, destroyed, TRUE)
cleanup(w, destroyed, last) ==
    CASE w.domain = "stat" -> stat_cleanup(w, destroyed)   [] w.domain = "root" -> root_cleanup(w, destroyed)
      [] w.domain = "list" -> list_cleanup(w, destroyed, last) [] w.domain = "mkdir" -> mkdir_cleanup(w, destroyed)
      [] w.domain = "move" -> move_cleanup(w, destroyed)   [] w.domain = "remove" -> remove_cleanup(w, destroyed)
Parts == {"repository", "guard", "completion"}

-----------------------------------------------------------------------------
(* Completions.  Only an OK response carries more than its status.         *)

Response(t, status, s) ==
    [status |-> status, sequence |-> t.q.sequence]
      @@ IF status = "OK" THEN [handle |-> t.q.handle, node |-> s.node, keyed |-> s.keyed] ELSE <<>>
Publish(t, r, status, extra) ==
    [domain |-> t.domain, result |-> r.result, suggested |-> status, request |-> t.q, extra |-> extra,
     response |-> Response(t, status, r.service)]

stat_publish(t, r) == Publish(t, r, stat_project(r, Node), <<>>)
root_publish(t, r) == Publish(t, r, root_project(r), <<>>)
mkdir_publish(t, r) == Publish(t, r, mkdir_project(r), Key)
move_publish(t, r) == Publish(t, r, move_project(r, Node), Key)
remove_publish(t, r) == Publish(t, r, remove_project(r, Node), Key)
list_publish(t, r) ==
    LET status == list_project_status(r, t.q.has_token)
    IN Publish(t, r, IF status = "OK" /\ ~list_project_page(r.service) THEN "refused" ELSE status,
               [page_size |-> PageSize, page |-> r.service.page, token |-> r.service.token])
completion_publish(d, t, r) ==
    CASE d = "stat" -> stat_publish(t, r)   [] d = "root" -> root_publish(t, r)
      [] d = "list" -> list_publish(t, r)   [] d = "mkdir" -> mkdir_publish(t, r)
      [] d = "move" -> move_publish(t, r)   [] d = "remove" -> remove_publish(t, r)

(* Decoding refuses a completion whose parts do not agree. *)
Decode(d, c, pairs, agrees) ==
    IF /\ c.domain = d /\ c.request.handle # 0
       /\ c.response.sequence = Route /\ c.response.status = c.suggested
       /\ c.response.status \in pairs
       /\ c.response.status = "OK" => c.response.handle = c.request.handle /\ agrees
    THEN "OK" ELSE "PROTOCOL"

stat_decode(c) == Decode("stat", c, stat_pair(c.result),
                         c.response.status = "OK" => c.response.node = Node)
root_decode(c) == Decode("root", c, root_pair(c.result),
                         c.response.status = "OK" => c.response.node # 0)
mkdir_decode(c) == Decode("mkdir", c, mkdir_pair(c.result),
                          c.response.status = "OK" => c.response.node # 0 /\ c.response.keyed)
move_decode(c) == Decode("move", c, move_pair(c.result),
                         c.response.status = "OK" => c.response.node = Node /\ c.response.keyed)
remove_decode(c) == Decode("remove", c, remove_pair(c.result),
                           c.response.status = "OK" => c.response.node = Node /\ c.response.keyed)
list_decode(c) == Decode("list", c, list_status_pair(c.result, c.request.has_token),
                         c.extra.page_size = PageSize)
completion_decode(c) ==
    CASE c.domain = "stat" -> stat_decode(c)   [] c.domain = "root" -> root_decode(c)
      [] c.domain = "list" -> list_decode(c)   [] c.domain = "mkdir" -> mkdir_decode(c)
      [] c.domain = "move" -> move_decode(c)   [] c.domain = "remove" -> remove_decode(c)

-----------------------------------------------------------------------------
(* The request. *)

Idle == task = NoTask /\ worker = NoWorker /\ completion = NoCompletion

Submit(d) ==
    /\ Idle /\ requests < MaxRequests
    /\ \E q \in IF d = "list" THEN ListRequests ELSE RequestsOf(d), deadline \in {clock, clock + 1} :
          /\ task' = task_create(d, q, deadline).task
          /\ answer' = IF task' = NoTask THEN [status |-> "not_submitted"] ELSE NoAnswer
    /\ requests' = requests + 1 /\ cancelled' = FALSE /\ result' = NoResult
    /\ UNCHANGED <<clock, worker, completion, pocket>>

Cancel == /\ task # NoTask /\ ~cancelled /\ cancelled' = TRUE
          /\ UNCHANGED <<clock, requests, task, worker, result, completion, answer, pocket>>
Tick == /\ clock < MaxClock /\ clock' = clock + 1
        /\ UNCHANGED <<requests, task, cancelled, worker, result, completion, answer, pocket>>

(* directory_*_worker_create and _run on the worker thread.  Nothing is    *)
(* published for a task that is not its own, or over a failed cleanup.     *)
Run(d) ==
    /\ task.domain = d /\ worker = NoWorker /\ completion = NoCompletion /\ answer = NoAnswer
    /\ task_read(d, task) = "OK"
    /\ \E work \in worker_run(d, task, clock, cancelled), destroyed \in SUBSET (Parts \ {"completion"}),
          queued \in BOOLEAN :
          LET held == cleanup([worker_create(d) EXCEPT !.attempted = TRUE, !.guard = work.guard,
                                                       !.repository = work.repository], destroyed, FALSE)
              built == completion_publish(d, task, work.result)
              refused == built.suggested = "refused"
          IN /\ result' = work.result
             /\ IF Empty(held)
                THEN /\ worker' = [held EXCEPT !.remaining = ~refused /\ ~queued,
                                               !.published = IF refused THEN "refused" ELSE "yes"]
                     /\ completion' = IF refused \/ ~queued THEN NoCompletion ELSE built
                ELSE worker' = held /\ completion' = NoCompletion
    /\ UNCHANGED <<clock, requests, task, cancelled, answer, pocket>>

(* directory_*_worker_destroy, again and again until nothing is held. *)
Destroy ==
    /\ worker # NoWorker
    /\ \E destroyed \in SUBSET Parts :
          LET w == cleanup(worker, destroyed, TRUE)
          IN /\ worker' = IF Empty(w) THEN NoWorker ELSE w
             /\ answer' = IF Empty(w) /\ completion = NoCompletion /\ answer = NoAnswer
                          THEN [status |-> "lost"] ELSE answer
             /\ task' = IF Empty(w) /\ answer' # NoAnswer THEN NoTask ELSE task
    /\ UNCHANGED <<clock, requests, cancelled, result, completion, pocket>>

(* What the client may come back with: the token of the page it was shown. *)
Chain(c) == IF c.request.has_token
            THEN {e \in pocket : e.token = c.request.token}
            ELSE {[token |-> NoToken, born |-> 0, seen |-> <<>>]}
Pocketed(c) ==
    IF c.response.status = "OK" /\ c.domain = "list" /\ c.extra.page.more
    THEN pocket \cup {[token |-> c.extra.token,
                       born |-> IF c.request.has_token THEN e.born ELSE c.extra.token.issued,
                       seen |-> e.seen \o c.extra.page.ids] : e \in Chain(c)}
    ELSE pocket

(* directory_*_completion_decode on the reactor thread. *)
Decoded ==
    /\ completion # NoCompletion
    /\ LET ok == completion_decode(completion) = "OK"
       IN /\ answer' = [status |-> IF ok THEN completion.response.status ELSE "undecodable"]
          /\ pocket' = IF ok THEN Pocketed(completion) ELSE pocket
    /\ completion' = NoCompletion
    /\ task' = IF worker = NoWorker THEN NoTask ELSE task
    /\ UNCHANGED <<clock, requests, cancelled, worker, result>>

Init ==
    /\ clock = 0 /\ requests = 0 /\ task = NoTask /\ cancelled = FALSE /\ worker = NoWorker
    /\ result = NoResult /\ completion = NoCompletion /\ answer = NoAnswer /\ pocket = {}

Next == \/ \E d \in Operations : Submit(d) \/ Run(d)
        \/ Cancel \/ Tick \/ Destroy \/ Decoded

Spec == Init /\ [][Next]_vars

-----------------------------------------------------------------------------
(* Properties. *)

(* Whatever the repository reports, the project function of the domain     *)
(* accepts the result its own service built, and the decode function of    *)
(* the reactor accepts every completion that was published: no request is  *)
(* left without an answer because two of the three tables disagree.        *)
AnswerSurvives == worker.published # "refused" /\ answer.status # "undecodable"

Definite == {"UNAUTHORIZED", "NOT_FOUND", "INVALID_PATH", "BAD_REQUEST", "FORBIDDEN", "CONFLICT",
             "DIRECTORY_NOT_EMPTY", "RANGE_INVALID", "UNAVAILABLE", "BUSY", "OVERLOADED"}
(* A client may believe its answer: OK means that the write is in the      *)
(* database under its key, or that the node was read; a definite refusal   *)
(* means that this request has committed nothing; and a session that was   *)
(* rejected is told so before anything else about its request.             *)
AnswerTruthful ==
    LET p == result.service.report
    IN /\ answer.status = "OK" => IF result.service.keyed THEN p.effect # "NONE" ELSE p.found
       /\ answer.status \in Definite => p.commit = "NOT_COMMITTED"
       /\ p.issue = "AUTH_REJECTED" =>
            answer.status \in {"none", "UNAUTHORIZED", "INTERNAL_ERROR", "lost"}
       /\ answer.status = "BAD_REQUEST" => p.rollback

(* The pages of a chain of tokens show every node once and in order, and   *)
(* no token of the chain is good for longer than the first one was.        *)
ChainSound == \A e \in pocket : /\ e.token.expires <= e.born + Ttl
                                /\ e.seen = [i \in 1..e.token.after |-> i]
=============================================================================
