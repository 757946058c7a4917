--------------------------- MODULE NodeRepository ---------------------------
(***************************************************************************)
(* The directory transactions of persistence/mysql_node_repository.c on    *)
(* the rows of one user.  Every worker thread owns one repository object   *)
(* and runs one call at a time; a call is a fixed sequence of SQL          *)
(* statements on one leased connection, and any statement may fail.        *)
(*                                                                         *)
(* The database is external: rows become visible when a transaction        *)
(* commits, row locks are shared or exclusive and are held until the       *)
(* transaction ends on the server.  When the reply of a COMMIT is lost, or *)
(* a connection is discarded without a confirmed ROLLBACK, the transaction *)
(* lives on at the server, with its locks, until the server resolves it.   *)
(***************************************************************************)
EXTENDS Integers, Sequences, FiniteSets

CONSTANTS Workers,           \* worker threads, each with its repository
          Inputs,            \* the requests the workers may be given
          Tree,              \* the rows of file_nodes at the start
          AncestorCapacity,  \* VIREO_MYSQL_NODE_MOVE_ANCESTOR_CAPACITY
          PageSize,          \* the page_size of a LIST query
          MaxCalls,          \* bound: calls in a behaviour
          MaxFaults          \* bound: failing statements in a behaviour

VARIABLES nodes,      \* file_nodes: id -> row
          refs,       \* objects.ref_count of the one object
          receipts,   \* directory_write_receipts and node_remove_receipts
          audits,     \* operation_audits
          session,    \* the acting session: active, revoked, or its user disabled
          expired,    \* the clock has passed expires_at_ms
          locks,      \* row locks the server has granted
          orphans,    \* transactions the server must still resolve
          repo,       \* one repository object per worker, with its call
          calls, nextId, faults,
          history     \* committed writes, and the answers that claimed one

vars == <<nodes, refs, receipts, audits, session, expired, locks, orphans,
          repo, calls, nextId, faults, history>>

NoReceipt == [command |-> "none"]
NoWrite == [node |-> 0, row |-> <<>>, unref |-> FALSE, audit |-> 0, action |-> "none",
            target |-> 0, receipt |-> NoReceipt]

(* struct vireo_mysql_node_repository, with the locals of the running call *)
Fresh == [pc |-> "idle", in |-> [op |-> "none", key |-> "none"], tx |-> 0,
          lease |-> FALSE, connection |-> FALSE, statement |-> FALSE, began |-> FALSE,
          rc |-> "OK", issue |-> "NONE", domain |-> "NONE", changed |-> FALSE,
          node |-> 0, page |-> <<>>, write |-> NoWrite, commit |-> "NOT_COMMITTED",
          effect |-> "NONE", rollback |-> FALSE, released |-> "none"]

pending(w) == repo[w].statement \/ repo[w].lease

Init == /\ nodes = Tree
        /\ refs = Cardinality({n \in DOMAIN Tree : Tree[n].kind = "file" /\ Tree[n].state = 2})
        /\ receipts = {} /\ audits = {}
        /\ session = "active" /\ expired = FALSE
        /\ locks = {} /\ orphans = {}
        /\ repo = [w \in Workers |-> Fresh]
        /\ calls = 0 /\ nextId = Cardinality(DOMAIN Tree) + 1 /\ faults = 0
        /\ history = {}

-----------------------------------------------------------------------------
(* The statements of each operation, in the order the code issues them. *)

ReadStages == <<"acquire", "begin", "user_shared", "session", "node", "utc">>
ListStages == <<"acquire", "begin", "user_shared", "session", "node", "children", "utc">>
MkdirStages == <<"acquire", "begin", "user_shared", "session", "parent", "name",
                 "utc", "insert", "audit", "recheck", "commit">>
MkdirOnceStages == <<"acquire", "begin", "user", "session", "mkdir_receipt", "parent", "name",
                     "utc", "insert", "audit", "receipt_insert", "recheck", "commit">>
MoveStages == <<"acquire", "begin", "user", "session", "source", "target", "chains", "move_name",
                "utc", "update", "audit", "recheck", "commit">>
MoveOnceStages == <<"acquire", "begin", "user", "session", "move_receipt", "source", "target",
                    "chains", "move_name", "utc", "update", "audit", "receipt_insert",
                    "recheck", "commit">>
SoftDeleteStages == <<"acquire", "begin", "user", "session", "delete_source", "delete_chain",
                      "contents", "utc", "soft_delete", "object_update", "audit",
                      "recheck", "commit">>
SoftDeleteOnceStages == <<"acquire", "begin", "user", "session", "remove_receipt",
                          "delete_source", "delete_chain", "contents", "utc", "soft_delete",
                          "object_update", "audit", "receipt_insert", "recheck", "commit">>

Stages == [get_root |-> ReadStages, stat |-> ReadStages, list |-> ListStages,
           mkdir |-> MkdirStages, mkdir_once |-> MkdirOnceStages,
           move |-> MoveStages, move_once |-> MoveOnceStages,
           remove |-> SoftDeleteStages, remove_once |-> SoftDeleteOnceStages]

(* Only the _once calls carry an idempotency key. *)
OnceOps == {"mkdir_once", "move_once", "remove_once"}
ASSUME InputsAssumption == \A in \in Inputs :
    in.op \in DOMAIN Stages /\ (in.key # "none" => in.op \in OnceOps)

Op(w) == repo[w].in.op
Index(s, e) == CHOOSE i \in DOMAIN s : s[i] = e
AfterStage(w) == LET s == Stages[Op(w)]
                     i == Index(s, repo[w].pc)
                 IN IF i = Len(s) THEN "cleanup" ELSE s[i + 1]

(* What a stage changes in its call; anything it does not name stays. *)
With(call, changes) ==
    [f \in DOMAIN call |-> IF f \in DOMAIN changes THEN changes[f] ELSE call[f]]
Set(w, changes) == repo' = [repo EXCEPT ![w] = With(@, changes)]
Advance(w, changes) ==
    repo' = [repo EXCEPT ![w] = With(With(@, [pc |-> AfterStage(w)]), changes)]
Finish(w, rc, issue) == Set(w, [pc |-> "cleanup", rc |-> rc, issue |-> issue])

Database == <<nodes, refs, receipts, audits>>
Others == <<session, expired, calls>>

-----------------------------------------------------------------------------
(* Locks on rows that are there.  A locking read that finds no row grants  *)
(* none here: the gap locks the server then takes exclude no other reader, *)
(* they only delay INSERTs, and when two transactions wait for each other  *)
(* the server fails a statement of one of them, as StatementFails lets it  *)
(* at any time.  Waiting is not modelled further, nor claimed to end.      *)
Grantable(w, wanted) == \A x \in wanted, l \in locks :
    l.on = x.on /\ l.tx # repo[w].tx => x.mode = "S" /\ l.mode = "S"
Hold(w, wanted) == locks' = locks \cup
    {[tx |-> repo[w].tx, on |-> x.on, mode |-> x.mode] : x \in wanted}
Want(on, mode) == [on |-> on, mode |-> mode]
Rows(ids, mode) == {Want(<<"node", n>>, mode) : n \in ids \cap DOMAIN nodes}
LocksOf(t) == {l \in locks : l.tx = t}

(* A row that the query's "state=2" finds. *)
Live(n) == n \in DOMAIN nodes /\ nodes[n].state = 2
Directories(rows) == {n \in DOMAIN rows : rows[n].kind = "directory" /\ rows[n].state = 2}
Directory(n) == n \in Directories(nodes)
Root == CHOOSE n \in DOMAIN nodes : nodes[n].parent = 0
(* live_name is NULL on a soft-deleted row, so its name is free again. *)
Occupant(p, name) == {n \in DOMAIN nodes : nodes[n].parent = p /\ nodes[n].name = name
                                             /\ nodes[n].state \in {1, 2}}

-----------------------------------------------------------------------------
(* One action per statement. *)

At(w, stage) == repo[w].pc = stage

(* Arguments the calls refuse before they touch the pool. *)
Refusal(in) == CASE in.op = "get_root" -> "OK"
                 [] in.node = 0 -> "INVALID_ARGUMENT"
                 [] in.op \in {"stat", "list", "remove", "remove_once"} -> "OK"
                 [] in.parent = 0 -> "INVALID_ARGUMENT"
                 [] in.name = "" -> "RANGE"
                 [] in.name = "." -> "PROTOCOL"
                 [] OTHER -> "OK"

Call(w, in) ==
    /\ At(w, "idle") /\ ~pending(w) /\ calls < MaxCalls
    /\ calls' = calls + 1
    /\ repo' = [repo EXCEPT ![w] =
         IF Refusal(in) # "OK" THEN [Fresh EXCEPT !.rc = Refusal(in)]
         ELSE [Fresh EXCEPT !.pc = "acquire", !.in = in, !.tx = calls + 1]]
    /\ UNCHANGED <<Database, session, expired, locks, orphans, nextId, faults, history>>

CallBusy(w) ==
    /\ At(w, "idle") /\ pending(w) /\ repo[w].rc # "BUSY"
    /\ Set(w, [rc |-> "BUSY"])
    /\ UNCHANGED <<Database, Others, locks, orphans, nextId, faults, history>>

Acquire(w) ==
    /\ At(w, "acquire")
    /\ Advance(w, [lease |-> TRUE, connection |-> TRUE])
    /\ UNCHANGED <<Database, Others, locks, orphans, nextId, faults, history>>

AcquireFails(w) ==
    /\ At(w, "acquire") /\ faults < MaxFaults
    /\ faults' = faults + 1
    /\ \E lease \in BOOLEAN :      \* the acquisition, or the borrow after it
          Set(w, [pc |-> "cleanup", lease |-> lease, rc |-> "BUSY"])
    /\ UNCHANGED <<Database, Others, locks, orphans, nextId, history>>

Begin(w) ==
    /\ At(w, "begin")
    /\ Advance(w, [began |-> TRUE])
    /\ UNCHANGED <<Database, Others, locks, orphans, nextId, faults, history>>

(* lock_user and lock_move_user: the user row first, shared or exclusive. *)
LockUser(w) ==
    /\ At(w, "user_shared")
    /\ Grantable(w, {Want(<<"user">>, "S")}) /\ Hold(w, {Want(<<"user">>, "S")})
    /\ IF session # "disabled" THEN Advance(w, <<>>)
       ELSE Finish(w, "NOT_FOUND", "AUTH_REJECTED")
    /\ UNCHANGED <<Database, Others, orphans, nextId, faults, history>>

LockMoveUser(w) ==
    /\ At(w, "user")
    /\ Grantable(w, {Want(<<"user">>, "X")}) /\ Hold(w, {Want(<<"user">>, "X")})
    /\ IF session # "disabled" THEN Advance(w, <<>>)
       ELSE Finish(w, "NOT_FOUND", "AUTH_REJECTED")
    /\ UNCHANGED <<Database, Others, orphans, nextId, faults, history>>

LockSession(w) ==
    /\ At(w, "session")
    /\ Grantable(w, {Want(<<"session">>, "S")}) /\ Hold(w, {Want(<<"session">>, "S")})
    /\ IF session = "active" THEN Advance(w, <<>>)
       ELSE Finish(w, "NOT_FOUND", "AUTH_REJECTED")
    /\ UNCHANGED <<Database, Others, orphans, nextId, faults, history>>

LockNode(w) ==
    /\ At(w, "node")
    /\ LET n == IF Op(w) = "get_root" THEN Root ELSE repo[w].in.node
           missing == IF ~Live(n) THEN {"NOT_FOUND"}
                      ELSE IF Op(w) = "list" /\ nodes[n].kind # "directory"
                      THEN {"NOT_FOUND"} ELSE {}
       IN /\ Grantable(w, Rows({n}, "S")) /\ Hold(w, Rows({n}, "S"))
          /\ Advance(w, [node |-> n, domain |-> IF missing = {} THEN "NONE" ELSE "NOT_FOUND"])
    /\ UNCHANGED <<Database, Others, orphans, nextId, faults, history>>

(* LIMIT page_size+1: the extra row only says that there is more. *)
LockChildren(w) ==
    /\ At(w, "children")
    /\ LET children == {n \in DOMAIN nodes : Live(n) /\ nodes[n].parent = repo[w].node}
           first == {n \in children : Cardinality({k \in children : k < n}) < PageSize}
           wanted == Rows({n \in children : Cardinality({k \in children : k < n}) <= PageSize}, "S")
       IN IF repo[w].domain # "NONE" THEN Advance(w, <<>>) /\ UNCHANGED locks
          ELSE /\ Grantable(w, wanted) /\ Hold(w, wanted)
               /\ Advance(w, [page |-> <<first, Cardinality(children) > PageSize>>])
    /\ UNCHANGED <<Database, Others, orphans, nextId, faults, history>>

LockMkdirParent(w) ==
    /\ At(w, "parent")
    /\ LET p == repo[w].in.parent
       IN /\ Grantable(w, Rows({p}, "X")) /\ Hold(w, Rows({p}, "X"))
          /\ Advance(w, [domain |-> IF Directory(p) THEN "NONE" ELSE "NOT_FOUND"])
    /\ UNCHANGED <<Database, Others, orphans, nextId, faults, history>>

LockMkdirName(w) ==
    /\ At(w, "name")
    /\ LET p == repo[w].in.parent
           name == repo[w].in.name
           wanted == Rows(Occupant(p, name), "X")
       IN IF repo[w].domain # "NONE" THEN Advance(w, <<>>) /\ UNCHANGED locks
          ELSE /\ Grantable(w, wanted) /\ Hold(w, wanted)
               /\ Advance(w, [domain |-> IF Occupant(p, name) = {} THEN "NONE"
                                         ELSE "NAME_CONFLICT"])
    /\ UNCHANGED <<Database, Others, orphans, nextId, faults, history>>

-----------------------------------------------------------------------------
(* The receipts of the *_once operations. *)

Receipt(command, key) == {r \in receipts : r.command = command /\ r.key = key}

(* Read the receipt; the three callers differ in what they compare. *)
LockReceipt(w, compared) ==
    LET in == repo[w].in
        found == Receipt(in.op, in.key)
        wanted == {Want(<<"receipt", r.command, r.key>>, "X") : r \in found}
    IN /\ Grantable(w, wanted) /\ Hold(w, wanted)
       /\ IF found = {} THEN Advance(w, <<>>)
          ELSE \E r \in found :
                 CASE expired -> Finish(w, "NOT_FOUND", "AUTH_REJECTED")
                   [] ~expired /\ (\E f \in compared : r[f] # in[f]) -> Finish(w, "DATABASE", "IDEMPOTENCY_CONFLICT")
                   [] OTHER -> Set(w, [pc |-> "cleanup", effect |-> "RECOVERED", node |-> r.result,
                                       write |-> [NoWrite EXCEPT !.audit = r.audit]])
       /\ UNCHANGED <<Database, Others, orphans, nextId, faults, history>>

LockMkdirReceipt(w) ==
    /\ At(w, "mkdir_receipt")
    /\ LockReceipt(w, {"parent", "name"})

LockMoveReceipt(w) ==
    /\ At(w, "move_receipt")
    /\ LockReceipt(w, {"node", "parent", "name"})

LockNodeRemoveReceipt(w) ==
    /\ At(w, "remove_receipt")
    /\ LockReceipt(w, {"node"})

-----------------------------------------------------------------------------
(* MOVE. *)

LockMoveSource(w) ==
    /\ At(w, "source")
    /\ LET n == repo[w].in.node
       IN /\ Grantable(w, Rows({n}, "X")) /\ Hold(w, Rows({n}, "X"))
          /\ Advance(w, [node |-> n, domain |-> IF Live(n) THEN "NONE" ELSE "NOT_FOUND"])
    /\ UNCHANGED <<Database, Others, orphans, nextId, faults, history>>

LockMoveTarget(w) ==
    /\ At(w, "target")
    /\ LET p == repo[w].in.parent
       IN IF repo[w].domain # "NONE" THEN Advance(w, <<>>) /\ UNCHANGED locks
          ELSE /\ Grantable(w, Rows({p}, "X")) /\ Hold(w, Rows({p}, "X"))
               /\ Advance(w, [domain |->
                    IF ~Directory(p) THEN "NOT_FOUND"
                    ELSE IF nodes[repo[w].node].parent = 0 THEN "ROOT_IMMOVABLE" ELSE "NONE"])
    /\ UNCHANGED <<Database, Others, orphans, nextId, faults, history>>

(* The walk to the root: from a live directory that is not the forbidden   *)
(* one it goes on to the parent.  Walked are the ids it comes to, what     *)
(* every set has that holds the start and, with such a directory, its      *)
(* parent.                                                                 *)
GoesOn(n, forbidden) == Directory(n) /\ n # forbidden /\ nodes[n].parent # 0
Closed(ids, forbidden) == \A n \in ids : GoesOn(n, forbidden) => nodes[n].parent \in ids
Walked(start, forbidden) ==
    LET known == Directories(nodes)
        ids == known \cup {start} \cup {nodes[n].parent : n \in known}
    IN {n \in ids : \A s \in SUBSET ids : start \in s /\ Closed(s, forbidden) => n \in s}

(* It ends at the forbidden id, at a row that is no live directory, at the *)
(* root, at an id it has met before, or when the capacity is used up.      *)
MoveChain(start, forbidden) ==
    LET rows == Walked(start, forbidden)
        ends == {n \in rows : ~GoesOn(n, forbidden)}
    IN IF Cardinality(rows) + (IF ends = {} THEN 1 ELSE 0) > AncestorCapacity THEN "ANCESTRY_LIMIT"
       ELSE IF forbidden \in rows THEN "MOVE_CYCLE"
       ELSE IF ends = {} \/ (\E n \in ends : ~Directory(n)) THEN "TREE_INVALID"
       ELSE "NONE"

(* The rows it locks: those within the capacity, a row's place being the   *)
(* number of rows from which the walk comes to it, and not the forbidden.  *)
Ancestors(start, forbidden) ==
    LET rows == Walked(start, forbidden)
    IN {n \in rows \ {forbidden} :
          Cardinality({m \in rows : n \in Walked(m, forbidden)}) <= AncestorCapacity}

(* The two walks of a MOVE; the second only when the first found the root. *)
Forbidden(source) == IF nodes[source].kind = "directory" THEN source ELSE 0
MoveChains(source, p) ==
    LET own == MoveChain(nodes[source].parent, 0)
    IN IF own # "NONE" THEN own ELSE MoveChain(p, Forbidden(source))
MoveRows(source, p) ==
    Ancestors(nodes[source].parent, 0)
      \cup (IF MoveChain(nodes[source].parent, 0) = "NONE" THEN Ancestors(p, Forbidden(source)) ELSE {})

WalkMoveChains(w) ==
    /\ At(w, "chains")
    /\ LET p == repo[w].in.parent
           wanted == Rows(MoveRows(repo[w].node, p), "S")
       IN IF repo[w].domain # "NONE" THEN Advance(w, <<>>) /\ UNCHANGED locks
          ELSE /\ Grantable(w, wanted) /\ Hold(w, wanted)
               /\ Advance(w, [domain |-> MoveChains(repo[w].node, p)])
    /\ UNCHANGED <<Database, Others, orphans, nextId, faults, history>>

LockMoveName(w) ==
    /\ At(w, "move_name")
    /\ LET in == repo[w].in
           s == repo[w].node
           occupied == Occupant(in.parent, in.name)
           wanted == Rows(occupied, "X")
           changed == nodes[s].parent # in.parent \/ nodes[s].name # in.name
       IN IF repo[w].domain # "NONE" THEN Advance(w, <<>>) /\ UNCHANGED locks
          ELSE /\ Grantable(w, wanted) /\ Hold(w, wanted)
               /\ IF occupied \ {s} # {} THEN Advance(w, [domain |-> "NAME_CONFLICT"])
                  ELSE IF changed = (s \in occupied)     \* the index contradicts the row
                  THEN Finish(w, "DATABASE", "UNEXPECTED_RESULT")
                  ELSE Advance(w, [changed |-> changed])
    /\ UNCHANGED <<Database, Others, orphans, nextId, faults, history>>

UpdateMove(w) ==
    /\ At(w, "update")
    /\ LET in == repo[w].in
           row == [nodes[in.node] EXCEPT !.parent = in.parent, !.name = in.name]
           write == IF repo[w].changed THEN [NoWrite EXCEPT !.node = in.node, !.row = row]
                    ELSE NoWrite
       IN IF repo[w].changed /\ ~Live(in.node)
          THEN Finish(w, "DATABASE", "UNEXPECTED_RESULT")
          ELSE Advance(w, [write |-> write])
    /\ UNCHANGED <<Database, Others, locks, orphans, nextId, faults, history>>

-----------------------------------------------------------------------------
(* SOFT DELETE. *)

LockDeleteSource(w) ==
    /\ At(w, "delete_source")
    /\ LET n == repo[w].in.node
       IN /\ Grantable(w, Rows({n}, "X")) /\ Hold(w, Rows({n}, "X"))
          /\ Advance(w, [node |-> n, domain |->
               IF ~Live(n) THEN "NOT_FOUND"
               ELSE IF nodes[n].parent = 0 THEN "ROOT_UNDELETABLE" ELSE "NONE"])
    /\ UNCHANGED <<Database, Others, orphans, nextId, faults, history>>

DeleteChain(start) == MoveChain(start, 0)

WalkDeleteChain(w) ==
    /\ At(w, "delete_chain")
    /\ LET p == nodes[repo[w].node].parent
           wanted == Rows(Ancestors(p, 0), "S")
       IN IF repo[w].domain # "NONE" THEN Advance(w, <<>>) /\ UNCHANGED locks
          ELSE /\ Grantable(w, wanted) /\ Hold(w, wanted)
               /\ Advance(w, [domain |-> DeleteChain(p)])
    /\ UNCHANGED <<Database, Others, orphans, nextId, faults, history>>

(* Mutant: only finished children keep the directory. *)
LockDeleteChildrenReady(w) ==
    /\ At(w, "contents") /\ repo[w].domain = "NONE" /\ nodes[repo[w].node].kind = "directory"
    /\ LET children == {n \in DOMAIN nodes : nodes[n].parent = repo[w].node /\ Live(n)}
       IN Advance(w, [domain |-> IF children = {} THEN "NONE" ELSE "DIRECTORY_NOT_EMPTY"])
    /\ UNCHANGED <<Database, Others, locks, orphans, nextId, faults, history>>

(* Any child that still occupies its name keeps the directory: uploads in  *)
(* progress (state 1) too.  ORDER BY id LIMIT 1 returns the first of them. *)
LockDeleteChildren(w) ==
    /\ At(w, "contents") /\ repo[w].domain = "NONE" /\ nodes[repo[w].node].kind = "directory"
    /\ LET children == {n \in DOMAIN nodes : nodes[n].parent = repo[w].node /\ nodes[n].state \in {1, 2}}
           wanted == Rows({n \in children : \A k \in children : n <= k}, "X")
       IN /\ Grantable(w, wanted) /\ Hold(w, wanted)
          /\ Advance(w, [domain |-> IF children = {} THEN "NONE" ELSE "DIRECTORY_NOT_EMPTY"])
    /\ UNCHANGED <<Database, Others, orphans, nextId, faults, history>>

(* The object's row may also be missing, have another size or be DELETING; *)
(* its other columns are not kept here.                                    *)
LockDeleteObject(w) ==
    /\ At(w, "contents") /\ repo[w].domain = "NONE" /\ nodes[repo[w].node].kind = "file"
    /\ Grantable(w, {Want(<<"object">>, "X")}) /\ Hold(w, {Want(<<"object">>, "X")})
    /\ \E usable \in BOOLEAN :
         Advance(w, [domain |-> IF usable /\ refs # 0 THEN "NONE" ELSE "OBJECT_REFERENCE_INVALID"])
    /\ UNCHANGED <<Database, Others, orphans, nextId, faults, history>>

DeleteNothing(w) ==
    /\ At(w, "contents") /\ repo[w].domain # "NONE"
    /\ Advance(w, <<>>)
    /\ UNCHANGED <<Database, Others, locks, orphans, nextId, faults, history>>

DeleteUpdate(w) ==
    /\ At(w, "soft_delete")
    /\ LET n == repo[w].node
       IN IF ~Live(n) THEN Finish(w, "DATABASE", "UNEXPECTED_RESULT")
          ELSE Advance(w, [write |-> [NoWrite EXCEPT !.node = n,
                                        !.row = [nodes[n] EXCEPT !.state = 3]]])
    /\ UNCHANGED <<Database, Others, locks, orphans, nextId, faults, history>>

ObjectUpdate(w) ==
    /\ At(w, "object_update")
    /\ Advance(w, [write |-> [repo[w].write EXCEPT !.unref = (nodes[repo[w].node].kind = "file")]])
    /\ UNCHANGED <<Database, Others, locks, orphans, nextId, faults, history>>

-----------------------------------------------------------------------------
(* What the writes share. *)

(* The session's expiry is judged before any domain answer is given. *)
CaptureUtc(w) ==
    /\ At(w, "utc")
    /\ CASE expired -> Finish(w, "NOT_FOUND", "AUTH_REJECTED")
         [] ~expired /\ repo[w].domain = "NOT_FOUND" ->
              IF Op(w) = "get_root" THEN Finish(w, "DATABASE", "ROOT_INVARIANT")
              ELSE Finish(w, "NOT_FOUND", "NOT_FOUND")
         [] ~expired /\ repo[w].domain = "ANCESTRY_LIMIT" -> Finish(w, "RANGE", "ANCESTRY_LIMIT")
         [] ~expired /\ repo[w].domain \notin {"NONE", "NOT_FOUND", "ANCESTRY_LIMIT"} ->
              Finish(w, "DATABASE", repo[w].domain)
         [] OTHER -> Advance(w, <<>>)
    /\ UNCHANGED <<Database, Others, locks, orphans, nextId, faults, history>>

InsertNode(w) ==
    /\ At(w, "insert")
    /\ LET in == repo[w].in
           row == [parent |-> in.parent, name |-> in.name, kind |-> "directory", state |-> 2]
       IN IF Occupant(in.parent, in.name) # {}             \* the unique key on live_name
          THEN Finish(w, "DATABASE", "NONE") /\ UNCHANGED nextId
          ELSE /\ Advance(w, [node |-> nextId, write |-> [NoWrite EXCEPT !.node = nextId, !.row = row]])
               /\ nextId' = nextId + 1
    /\ UNCHANGED <<Database, Others, locks, orphans, faults, history>>

InsertAudit(w) ==
    /\ At(w, "audit")
    /\ Advance(w, [write |-> [repo[w].write EXCEPT !.audit = repo[w].tx, !.action = Op(w),
                                                   !.target = repo[w].node]])
    /\ UNCHANGED <<Database, Others, locks, orphans, nextId, faults, history>>

(* Mutant: the receipt is never written. *)
InsertReceiptNever(w) ==
    /\ At(w, "receipt_insert")
    /\ Advance(w, <<>>)
    /\ UNCHANGED <<Database, Others, locks, orphans, nextId, faults, history>>

(* One receipt per (user, command, key): the primary key refuses another. *)
InsertReceipt(w) ==
    /\ At(w, "receipt_insert")
    /\ LET in == repo[w].in
           row == [command |-> in.op, key |-> in.key, parent |-> in.parent, node |-> in.node,
                   name |-> in.name, result |-> repo[w].node, audit |-> repo[w].write.audit]
       IN IF Receipt(in.op, in.key) # {} THEN Finish(w, "DATABASE", "NONE")
          ELSE Advance(w, [write |-> [repo[w].write EXCEPT !.receipt = row]])
    /\ UNCHANGED <<Database, Others, locks, orphans, nextId, faults, history>>

Recheck(w) ==
    /\ At(w, "recheck")
    /\ IF expired THEN Finish(w, "NOT_FOUND", "AUTH_REJECTED") ELSE Advance(w, <<>>)
    /\ UNCHANGED <<Database, Others, locks, orphans, nextId, faults, history>>

(* What a commit makes visible: all of the transaction's rows. *)
Apply(t, in, write) ==
    /\ nodes' = IF write.node = 0 THEN nodes
                ELSE [n \in DOMAIN nodes \cup {write.node} |->
                        IF n = write.node THEN write.row ELSE nodes[n]]
    /\ refs' = IF write.unref THEN refs - 1 ELSE refs
    /\ audits' = audits \cup {[id |-> write.audit, action |-> write.action, target |-> write.target]}
    /\ receipts' = IF write.receipt = NoReceipt THEN receipts ELSE receipts \cup {write.receipt}
    /\ locks' = locks \ LocksOf(t)

Committed(t, in, write) == [is |-> "commit", tx |-> t, op |-> in.op, key |-> in.key,
                            node |-> write.target, audit |-> write.audit]
EffectOf(op) == IF op = "mkdir_once" THEN "CREATED"
                ELSE IF op \in {"move_once", "remove_once"} THEN "APPLIED" ELSE "NONE"

Commit(w) ==
    /\ At(w, "commit")
    /\ Apply(repo[w].tx, repo[w].in, repo[w].write)
    /\ history' = history \cup {Committed(repo[w].tx, repo[w].in, repo[w].write)}
    /\ Advance(w, [commit |-> "COMMITTED", effect |-> EffectOf(Op(w))])
    /\ UNCHANGED <<session, expired, calls, orphans, nextId, faults>>

(* The COMMIT was sent and no reply came: the code cannot know. *)
CommitUnknown(w) ==
    /\ At(w, "commit") /\ faults < MaxFaults
    /\ faults' = faults + 1
    /\ orphans' = orphans \cup {[tx |-> repo[w].tx, in |-> repo[w].in, write |-> repo[w].write,
                                 sent |-> TRUE]}
    /\ Set(w, [pc |-> "cleanup", commit |-> "UNKNOWN", rc |-> "IO"])
    /\ UNCHANGED <<Database, Others, locks, nextId, history>>

(* Any statement before the reply of COMMIT may fail, a malformed row      *)
(* included; the server may have rolled the transaction back by then (a    *)
(* deadlock victim).  A BEGIN that fails may have reached the server.      *)
FailureIssues(pc) == IF pc \in {"mkdir_receipt", "move_receipt", "remove_receipt"}
                     THEN {"NONE", "RECEIPT_INVALID"} ELSE {"NONE"}
StatementFails(w) ==
    /\ repo[w].pc \notin {"idle", "acquire", "cleanup"} /\ faults < MaxFaults
    /\ faults' = faults + 1
    /\ \E issue \in FailureIssues(repo[w].pc), began \in BOOLEAN :
         /\ began \/ At(w, "begin")
         /\ Set(w, [pc |-> "cleanup", rc |-> "DATABASE", issue |-> issue, began |-> began])
    /\ \/ UNCHANGED locks
       \/ locks' = locks \ LocksOf(repo[w].tx) /\ LocksOf(repo[w].tx) # {}
    /\ UNCHANGED <<Database, Others, orphans, nextId, history>>

-----------------------------------------------------------------------------
(* Cleanup: close the statement, roll back what was not committed, give    *)
(* the connection back.  The operations differ in the domain answers after *)
(* which a connection may be reused.                                       *)

CleanupMkdirKeeps == {"NAME_CONFLICT"}
CleanupMkdirOnceKeeps == {"NAME_CONFLICT", "IDEMPOTENCY_CONFLICT"}
CleanupMoveKeeps == {"NAME_CONFLICT", "ROOT_IMMOVABLE", "MOVE_CYCLE", "TREE_INVALID",
                     "ANCESTRY_LIMIT"}
CleanupMoveOnceKeeps == {"NAME_CONFLICT", "ROOT_IMMOVABLE", "MOVE_CYCLE", "TREE_INVALID",
                         "ANCESTRY_LIMIT", "IDEMPOTENCY_CONFLICT"}
CleanupDeleteKeeps == {"ROOT_UNDELETABLE", "DIRECTORY_NOT_EMPTY", "TREE_INVALID",
                       "ANCESTRY_LIMIT", "OBJECT_REFERENCE_INVALID"}
CleanupNodeRemoveOnceKeeps == {"ROOT_UNDELETABLE", "DIRECTORY_NOT_EMPTY", "TREE_INVALID",
                               "ANCESTRY_LIMIT", "OBJECT_REFERENCE_INVALID",
                               "IDEMPOTENCY_CONFLICT"}

Keeps(op) == CASE op = "mkdir" -> CleanupMkdirKeeps
               [] op = "mkdir_once" -> CleanupMkdirOnceKeeps
               [] op = "move" -> CleanupMoveKeeps
               [] op = "move_once" -> CleanupMoveOnceKeeps
               [] op = "remove" -> CleanupDeleteKeeps
               [] op = "remove_once" -> CleanupNodeRemoveOnceKeeps
               [] OTHER -> {}

(* A read transaction is always rolled back, a write one unless COMMIT was *)
(* sent.                                                                   *)
RollsBack(w) == repo[w].began /\ repo[w].connection /\ repo[w].commit = "NOT_COMMITTED"

(* Reused after an ended transaction, a clean cleanup and an expected answer. *)
Healthy(w, rolled, clean) ==
    /\ repo[w].commit = "COMMITTED" \/ rolled
    /\ clean
    /\ repo[w].rc \in {"OK", "NOT_FOUND"} \/ repo[w].issue \in Keeps(Op(w))
(* How the lease goes back to the pool. *)
Release(w, rolled, clean) == IF ~repo[w].lease THEN "none"
                             ELSE IF Healthy(w, rolled, clean) THEN "recycle" ELSE "discard"

(* What a finished call leaves in the repository object. *)
Answer(w, changes) ==
    LET closed == [pc |-> "idle", connection |-> FALSE, lease |-> FALSE, statement |-> FALSE,
                   began |-> FALSE]
    IN repo' = [repo EXCEPT ![w] = With(With(@, closed), changes)]
(* The answers that claim an effect or deny one. *)
Claims(w) == {[is |-> "answer", tx |-> repo[w].tx, op |-> Op(w), key |-> repo[w].in.key,
               commit |-> repo[w].commit, effect |-> repo[w].effect,
               node |-> repo[w].node, audit |-> repo[w].write.audit]}
(* A connection closed while its transaction is open. *)
Abandoned(w) == IF LocksOf(repo[w].tx) = {} \/ repo[w].commit # "NOT_COMMITTED" THEN {}
                ELSE {[tx |-> repo[w].tx, in |-> repo[w].in, write |-> NoWrite, sent |-> FALSE]}

CleanupCall(w) ==
    /\ At(w, "cleanup")
    /\ LET rolled == RollsBack(w)
       IN /\ locks' = IF rolled THEN locks \ LocksOf(repo[w].tx) ELSE locks
          /\ Answer(w, [rollback |-> rolled, released |-> Release(w, rolled, TRUE)])
    /\ history' = history \cup Claims(w)
    /\ UNCHANGED <<Database, Others, orphans, nextId, faults>>

(* ROLLBACK fails: the answer is an error and the connection is discarded. *)
RollbackFails(w) ==
    /\ At(w, "cleanup") /\ RollsBack(w) /\ faults < MaxFaults
    /\ faults' = faults + 1
    /\ orphans' = orphans \cup Abandoned(w)
    /\ Answer(w, [rc |-> IF repo[w].rc = "OK" THEN "DATABASE" ELSE repo[w].rc,
                  released |-> Release(w, FALSE, FALSE)])
    /\ history' = history \cup Claims(w)
    /\ UNCHANGED <<Database, Others, locks, nextId>>

(* The statement cannot be closed, or the lease cannot be released: the    *)
(* repository keeps both and refuses further calls.                        *)
CleanupStuck(w) ==
    /\ At(w, "cleanup") /\ repo[w].lease /\ faults < MaxFaults
    /\ faults' = faults + 1
    /\ \/ /\ Set(w, [pc |-> "idle", statement |-> TRUE, rc |-> "DATABASE"])
          /\ UNCHANGED locks
       \/ /\ Set(w, [pc |-> "idle", rollback |-> RollsBack(w), rc |-> "DATABASE"])
          /\ locks' = IF RollsBack(w) THEN locks \ LocksOf(repo[w].tx) ELSE locks
    /\ history' = history \cup Claims(w)
    /\ UNCHANGED <<Database, Others, orphans, nextId>>

(* destroy retries the cleanup with nothing confirmed: always a discard. *)
Destroy(w) ==
    /\ At(w, "idle") /\ pending(w)
    /\ orphans' = orphans \cup Abandoned(w)
    /\ repo' = [repo EXCEPT ![w] = Fresh]
    /\ UNCHANGED <<Database, Others, locks, nextId, faults, history>>

-----------------------------------------------------------------------------
(* The server, the clock and the session's owner. *)

OrphanCommits == \E o \in orphans :
    /\ o.sent
    /\ Apply(o.tx, o.in, o.write)
    /\ history' = history \cup {Committed(o.tx, o.in, o.write)}
    /\ orphans' = orphans \ {o}
    /\ UNCHANGED <<Others, repo, nextId, faults>>

OrphanRollsBack == \E o \in orphans :
    /\ locks' = locks \ LocksOf(o.tx)
    /\ orphans' = orphans \ {o}
    /\ UNCHANGED <<Database, Others, repo, nextId, faults, history>>

(* Mutant: logout does not wait for the transactions that use the session. *)
RevokeSessionAtOnce ==
    /\ session = "active" /\ session' = "revoked"
    /\ UNCHANGED <<Database, expired, calls, locks, orphans, repo, nextId, faults, history>>

(* Logout: the user row, then the session row, both exclusively. *)
RevokeSession ==
    /\ session = "active" /\ {l \in locks : l.on \in {<<"user">>, <<"session">>}} = {}
    /\ session' = "revoked"
    /\ UNCHANGED <<Database, expired, calls, locks, orphans, repo, nextId, faults, history>>

(* An administrator disables the user: its row, exclusively. *)
DisableUser ==
    /\ session # "disabled" /\ {l \in locks : l.on = <<"user">>} = {}
    /\ session' = "disabled"
    /\ UNCHANGED <<Database, expired, calls, locks, orphans, repo, nextId, faults, history>>

Expire ==
    /\ ~expired /\ expired' = TRUE
    /\ UNCHANGED <<Database, session, calls, locks, orphans, repo, nextId, faults, history>>

Next == \/ \E w \in Workers :
             \/ \E in \in Inputs : Call(w, in)
             \/ CallBusy(w) \/ Acquire(w) \/ AcquireFails(w) \/ Begin(w)
             \/ LockUser(w) \/ LockMoveUser(w) \/ LockSession(w)
             \/ LockNode(w) \/ LockChildren(w) \/ LockMkdirParent(w) \/ LockMkdirName(w)
             \/ LockMkdirReceipt(w) \/ LockMoveReceipt(w) \/ LockNodeRemoveReceipt(w)
             \/ LockMoveSource(w) \/ LockMoveTarget(w) \/ WalkMoveChains(w) \/ LockMoveName(w)
             \/ UpdateMove(w) \/ LockDeleteSource(w) \/ WalkDeleteChain(w)
             \/ LockDeleteChildren(w) \/ LockDeleteObject(w) \/ DeleteNothing(w)
             \/ DeleteUpdate(w) \/ ObjectUpdate(w) \/ CaptureUtc(w) \/ InsertNode(w)
             \/ InsertAudit(w) \/ InsertReceipt(w) \/ Recheck(w) \/ Commit(w)
             \/ CommitUnknown(w) \/ StatementFails(w) \/ CleanupCall(w) \/ RollbackFails(w)
             \/ CleanupStuck(w) \/ Destroy(w)
        \/ OrphanCommits \/ OrphanRollsBack \/ RevokeSession \/ DisableUser \/ Expire

Spec == Init /\ [][Next]_vars

-----------------------------------------------------------------------------
(* Properties. *)

TypeOK == /\ \A n \in DOMAIN nodes : nodes[n].state \in {1, 2, 3} /\ nodes[n].kind \in {"directory", "file"}
          /\ refs \in Nat /\ session \in {"active", "revoked", "disabled"} /\ expired \in BOOLEAN
          /\ \A l \in locks : l.mode \in {"S", "X"} /\ l.tx \in 1..MaxCalls
          /\ \A w \in Workers : repo[w].commit \in {"NOT_COMMITTED", "COMMITTED", "UNKNOWN"}

(* The rows are a tree: one root, every node that is not deleted in a live *)
(* directory, no directories that lie below each other in a circle, and no *)
(* name used twice in a directory.  SoundRows says so of any rows.         *)
SoundRows(rows) ==
    /\ \E root \in Directories(rows) : \A n \in DOMAIN rows : rows[n].parent = 0 <=> n = root
    /\ \A n \in DOMAIN rows : rows[n].state # 3 => rows[n].parent \in Directories(rows) \cup {0}
    /\ \A s \in SUBSET Directories(rows) : s # {} => \E n \in s : rows[n].parent \notin s
    /\ \A m, n \in {k \in DOMAIN rows : rows[k].state # 3} :
         rows[m].parent = rows[n].parent /\ rows[m].name = rows[n].name => m = n

ASSUME TreeAssumption ==
    /\ IsFiniteSet(DOMAIN Tree) /\ DOMAIN Tree = 1..Cardinality(DOMAIN Tree)
    /\ \A n \in DOMAIN Tree : /\ DOMAIN Tree[n] = {"parent", "name", "kind", "state"}
                             /\ Tree[n].kind \in {"directory", "file"} /\ Tree[n].state \in {1, 2, 3}
    /\ SoundRows(Tree)

(* The committed rows stay a tree whatever calls interleave: every node    *)
(* that is not deleted hangs below the root through live directories.      *)
TreeSound == SoundRows(nodes)

(* An idempotency key has at most one effect however often it is retried,  *)
(* also when the reply of a COMMIT was lost and the retry runs while the   *)
(* server still holds the first attempt; and every answer that claims an   *)
(* effect, new or recovered, names the node and the audit row of it.       *)
OnceEffect ==
    /\ \A g, h \in {e \in history : e.is = "commit" /\ e.key # "none"} :
         g.op = h.op /\ g.key = h.key => g = h
    /\ \A a \in {e \in history : e.is = "answer" /\ e.effect # "NONE"} :
         \E h \in history : /\ h.is = "commit" /\ h.op = a.op /\ h.key = a.key
                            /\ h.node = a.node /\ h.audit = a.audit

(* The commit word of a report is true: COMMITTED only for a transaction   *)
(* the server committed, and NOT_COMMITTED only for one it never will.     *)
CommitReportTrue ==
    \A a \in {e \in history : e.is = "answer"} :
       LET done == \E h \in history : h.is = "commit" /\ h.tx = a.tx
           may == \E o \in orphans : o.tx = a.tx /\ o.sent
       IN /\ a.commit = "COMMITTED" => done
          /\ a.commit = "NOT_COMMITTED" => ~done /\ ~may

(* The object's reference count is the number of live files that use it.   *)
ReferencesExact == refs = Cardinality({n \in DOMAIN nodes : nodes[n].kind = "file" /\ Live(n)})

(* A connection goes back to the pool for reuse only when the server holds *)
(* neither a lock nor an unresolved transaction of the call that used it.  *)
RecycledClean == \A w \in Workers :
    repo[w].released = "recycle" /\ At(w, "idle") /\ ~pending(w) =>
       LocksOf(repo[w].tx) = {} /\ \A o \in orphans : o.tx # repo[w].tx

(* The _once calls and their report: one idempotency key has one effect     *)
(* however COMMIT replies are lost and retried, the commit word of a report *)
(* is true, and a connection returns to the pool without locks or an open   *)
(* transaction.                                                             *)
RetriedOnce == OnceEffect /\ CommitReportTrue /\ RecycledClean

(* However directory transactions interleave, fail and are lost: the       *)
(* committed rows stay a tree and the reference count of the object stays  *)
(* the number of live files.                                               *)
TreeStaysSound == TreeSound /\ ReferencesExact

(* Once a session is revoked or its user disabled no write of it becomes   *)
(* durable: a commit that takes effect had both active under its locks     *)
(* until that moment.                                                      *)
RevokedWritesNothing == [][audits' # audits => session = "active"]_vars
=============================================================================
