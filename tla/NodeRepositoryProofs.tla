------------------------ MODULE NodeRepositoryProofs ------------------------
(***************************************************************************)
(* Proofs about the directory transactions, for every set of workers and   *)
(* inputs and every number of calls and faults: RetriedOnce (an idempotency *)
(* key has one effect and every answer that claims an effect names it, the *)
(* reported commit word is true, a reused connection has nothing open),    *)
(* RevokedWritesNothing (nothing of a revoked session becomes durable) and, *)
(* for every tree to start from, TreeStaysSound (the rows stay a tree, the *)
(* reference count exact).                                                 *)
(*                                                                         *)
(* None is inductive.  That a key takes effect once says nothing about two *)
(* calls that both found no receipt; no row lock excludes them, for the    *)
(* row is missing: they exclude each other by the user row, which every    *)
(* keyed call locks exclusively (UserHeld) until its transaction has ended *)
(* at the server, which may be after the call has answered UNKNOWN and its *)
(* worker has gone on.  So the invariant follows transactions, not calls:  *)
(* numbers identify them (Numbered), a transaction that may still commit   *)
(* is a running call's or an orphan's, never both (Abandonment), and       *)
(* either way it still holds what it judged (UserHeld, SessionHeld,        *)
(* KeyHeld) and the rows it will write agree with each other (WritesAgree).*)
(* The rest ties the locks and the commit word of a call to what the       *)
(* server did (WordTrue, Recycled) and receipts to commits (Receipted).    *)
(*                                                                         *)
(* There are five kinds of step, each with its lemma: a statement of a     *)
(* running call (StatementKeeps), the end of a call (EndsKeeps), its       *)
(* beginning (StartsKeeps), a transaction that takes effect (LandsFacts),  *)
(* and a transaction that passes to the server (CommitUnknownKeeps).  Each *)
(* action is shown to be of one kind.                                      *)
(*                                                                         *)
(* The second half adds TreeInv: what a transaction has found out about    *)
(* the rows is still so when it commits (PendingFit, Stage), though others *)
(* commit in between: beside a transaction that may commit only calls that *)
(* share the user row are under way (WhoElse), and two MKDIRs in one       *)
(* directory exclude each other by its row (ParentLock).  Each commit then *)
(* takes a tree to a tree (MkdirLands, MoveLands, RemoveLands).  The kinds *)
(* of step are the same, with TreeStep for a statement, LandsKeeps for a   *)
(* commit and RowsStill for the others.                                    *)
(***************************************************************************)
EXTENDS NodeRepository, FiniteSetTheorems, TLAPS

-----------------------------------------------------------------------------
(* The inductive invariant. *)

(* Where a call stands. *)
Early == {"acquire", "begin", "user", "user_shared"}
Opening == {"acquire", "begin", "user", "user_shared", "session"}
ReceiptStages == {"mkdir_receipt", "move_receipt", "remove_receipt"}
Running(w) == repo[w].pc \notin {"idle", "cleanup"}
Judged(w) == Running(w) /\ repo[w].pc \notin Opening
Keyed(w) == Op(w) \in OnceOps /\ Judged(w) /\ repo[w].pc \notin ReceiptStages

SessionLock(t) == [tx |-> t, on |-> <<"session">>, mode |-> "S"]
SharedOps == {"get_root", "stat", "list", "mkdir"}
UserLock(t, op) == [tx |-> t, on |-> <<"user">>, mode |-> IF op \in SharedOps THEN "S" ELSE "X"]

(* A repository object has its fields, and so has the write of a call. *)
Shape ==
    /\ calls \in Nat
    /\ repo = [w \in Workers |-> repo[w]]
    /\ \A w \in Workers : /\ DOMAIN repo[w] = DOMAIN Fresh
                          /\ DOMAIN repo[w].write = DOMAIN NoWrite

(* A transaction is numbered by its call and belongs to one worker. *)
Numbered ==
    /\ \A w \in Workers : /\ repo[w].tx \in 0..calls
                          /\ repo[w].pc # "idle" => repo[w].tx # 0
    /\ \A v, w \in Workers : repo[v].tx = repo[w].tx /\ repo[w].tx # 0 => v = w
    /\ \A l \in locks : l.tx \in 1..calls
    /\ \A o \in orphans : o.tx \in 1..calls
    /\ \A e \in history : e.tx \in 1..calls

(* The server grants no two transactions conflicting locks. *)
Compatible == \A l, m \in locks : l.on = m.on /\ l.tx # m.tx => l.mode = "S" /\ m.mode = "S"

(* A running call is at a statement of its operation and has ended nothing. *)
InOrder == \A w \in Workers :
    /\ repo[w].in.key # "none" => Op(w) \in OnceOps
    /\ Running(w) => /\ Op(w) \in DOMAIN Stages
                     /\ \E i \in DOMAIN Stages[Op(w)] : Stages[Op(w)][i] = repo[w].pc
                     /\ repo[w].commit = "NOT_COMMITTED"
                     /\ repo[w].effect = "NONE"
                     /\ repo[w].released = "none"
    /\ repo[w].released # "none" => repo[w].pc = "idle" /\ ~pending(w)

(* The user row is locked first, shared by the operations that only read   *)
(* or only add, and until the transaction has ended at the server.         *)
UserHeld ==
    /\ \A w \in Workers : Running(w) /\ repo[w].pc \notin Early =>
         UserLock(repo[w].tx, Op(w)) \in locks
    /\ \A o \in orphans : o.sent => UserLock(o.tx, o.in.op) \in locks

(* The session row is locked, and the session active, from the statement   *)
(* that judges it until the transaction has ended at the server.           *)
SessionHeld ==
    /\ \A w \in Workers : Judged(w) => session = "active" /\ SessionLock(repo[w].tx) \in locks
    /\ \A o \in orphans : o.sent => session = "active" /\ SessionLock(o.tx) \in locks

(* The receipt of an idempotency key that was missing is missing until then. *)
KeyHeld ==
    /\ \A w \in Workers : Keyed(w) => Receipt(Op(w), repo[w].in.key) = {}
    /\ \A o \in orphans : o.sent /\ o.in.op \in OnceOps => Receipt(o.in.op, o.in.key) = {}

(* The rows a transaction is about to commit agree with each other. *)
Describes(in, write) ==
    IF in.op \in OnceOps
    THEN /\ write.receipt # NoReceipt
         /\ write.receipt.command = in.op /\ write.receipt.key = in.key
         /\ write.receipt.result = write.target /\ write.receipt.audit = write.audit
    ELSE write.receipt = NoReceipt
WriteAgrees(w) ==
    /\ Running(w) /\ repo[w].pc \notin {"recheck", "commit"} => repo[w].write.receipt = NoReceipt
    /\ repo[w].pc \in {"receipt_insert", "recheck", "commit"} =>
         repo[w].write.target = repo[w].node
    /\ repo[w].pc \in {"recheck", "commit"} => Describes(repo[w].in, repo[w].write)
WritesAgree ==
    /\ \A w \in Workers : WriteAgrees(w)
    /\ \A o \in orphans : /\ o.sent => Describes(o.in, o.write)
                          /\ o.in.key # "none" => o.in.op \in OnceOps

(* The server is left with a transaction once, and only with one whose     *)
(* call has lost sight of it.                                              *)
Abandonment ==
    /\ \A o \in orphans, w \in Workers : repo[w].tx = o.tx =>
         \/ repo[w].commit = "UNKNOWN"
         \/ /\ repo[w].commit = "NOT_COMMITTED" /\ ~o.sent
            /\ repo[w].pc = "idle" /\ ~pending(w)
            /\ repo[w].released # "recycle"
    /\ \A o, p \in orphans : o.tx = p.tx => o = p

Done(t) == \E h \in history : h.is = "commit" /\ h.tx = t

(* The commit word of a call is true before it is reported. *)
WordTrue ==
    /\ \A w \in Workers :
         /\ repo[w].commit = "COMMITTED" => Done(repo[w].tx) /\ LocksOf(repo[w].tx) = {}
         /\ repo[w].commit = "NOT_COMMITTED" => ~Done(repo[w].tx)
         /\ repo[w].commit \in {"COMMITTED", "NOT_COMMITTED", "UNKNOWN"}
    /\ \A a \in history : a.is = "answer" /\ a.commit = "NOT_COMMITTED" =>
         \A w \in Workers : repo[w].tx = a.tx => repo[w].pc = "idle"

Recycled == \A w \in Workers : repo[w].released = "recycle" =>
    LocksOf(repo[w].tx) = {} /\ \A o \in orphans : o.tx # repo[w].tx

(* Receipts and keyed commits correspond, and an effect is a commit's. *)
CommitOf(op, key, node, audit) == \E h \in history :
    h.is = "commit" /\ h.op = op /\ h.key = key /\ h.node = node /\ h.audit = audit
Receipted ==
    /\ \A r \in receipts : CommitOf(r.command, r.key, r.result, r.audit)
    /\ \A h \in history : h.is = "commit" /\ h.key # "none" => Receipt(h.op, h.key) # {}
    /\ \A w \in Workers : repo[w].effect # "NONE" =>
         CommitOf(Op(w), repo[w].in.key, repo[w].node, repo[w].write.audit)

Inv ==
    /\ Shape /\ Numbered /\ Compatible /\ InOrder /\ UserHeld /\ SessionHeld /\ KeyHeld
    /\ WritesAgree /\ Abandonment /\ WordTrue /\ Recycled /\ Receipted
    /\ OnceEffect /\ CommitReportTrue
-----------------------------------------------------------------------------
(* The order of the statements. *)

(* What comes after a statement, for all operations. *)
After(s, e) == LET i == Index(s, e) IN IF i = Len(s) THEN "cleanup" ELSE s[i + 1]
Follows(once, e, n) ==
    /\ n # "idle"
    /\ e \in Opening \ {"session"} => n \in Opening
    /\ e \notin Opening => n \notin Opening
    /\ once /\ e = "session" => n \in ReceiptStages
    /\ e # "session" => n \notin ReceiptStages
    /\ n = "receipt_insert" => e = "audit"
    /\ n = "recheck" => e = (IF once THEN "receipt_insert" ELSE "audit")
    /\ n = "commit" => e = "recheck"
    /\ e = "commit" => n = "cleanup"
    /\ e = "receipt_insert" => once /\ n = "recheck"
    /\ e = "recheck" => n = "commit"
(* The statements of MKDIR come in an order that Follows allows. *)
LEMMA MkdirOrder ==
    ASSUME NEW i \in DOMAIN MkdirStages
    PROVE  Follows(FALSE, MkdirStages[i], After(MkdirStages, MkdirStages[i]))
BY DEF MkdirStages, After, Index, Follows, Opening, ReceiptStages
(* So do those of an idempotent MKDIR. *)
LEMMA MkdirOnceOrder ==
    ASSUME NEW i \in DOMAIN MkdirOnceStages
    PROVE  Follows(TRUE, MkdirOnceStages[i], After(MkdirOnceStages, MkdirOnceStages[i]))
BY DEF MkdirOnceStages, After, Index, Follows, Opening, ReceiptStages
(* So do those of MOVE. *)
LEMMA MoveOrder ==
    ASSUME NEW i \in DOMAIN MoveStages
    PROVE  Follows(FALSE, MoveStages[i], After(MoveStages, MoveStages[i]))
BY DEF MoveStages, After, Index, Follows, Opening, ReceiptStages
(* So do those of an idempotent MOVE. *)
LEMMA MoveOnceOrder ==
    ASSUME NEW i \in DOMAIN MoveOnceStages
    PROVE  Follows(TRUE, MoveOnceStages[i], After(MoveOnceStages, MoveOnceStages[i]))
BY DEF MoveOnceStages, After, Index, Follows, Opening, ReceiptStages
(* So do those of REMOVE. *)
LEMMA SoftDeleteOrder ==
    ASSUME NEW i \in DOMAIN SoftDeleteStages
    PROVE  Follows(FALSE, SoftDeleteStages[i], After(SoftDeleteStages, SoftDeleteStages[i]))
BY DEF SoftDeleteStages, After, Index, Follows, Opening, ReceiptStages
(* So do those of an idempotent REMOVE. *)
LEMMA SoftDeleteOnceOrder ==
    ASSUME NEW i \in DOMAIN SoftDeleteOnceStages
    PROVE  Follows(TRUE, SoftDeleteOnceStages[i],
                   After(SoftDeleteOnceStages, SoftDeleteOnceStages[i]))
BY DEF SoftDeleteOnceStages, After, Index, Follows, Opening, ReceiptStages
(* So do those of LIST. *)
LEMMA ListOrder ==
    ASSUME NEW i \in DOMAIN ListStages
    PROVE  Follows(FALSE, ListStages[i], After(ListStages, ListStages[i]))
BY DEF ListStages, After, Index, Follows, Opening, ReceiptStages
(* So do those of GET_ROOT and STAT. *)
LEMMA ReadOrder ==
    ASSUME NEW i \in DOMAIN ReadStages
    PROVE  Follows(FALSE, ReadStages[i], After(ReadStages, ReadStages[i]))
BY DEF ReadStages, After, Index, Follows, Opening, ReceiptStages
(* Hence, for the operation of a call: what comes next is allowed, and is  *)
(* the cleanup or another of its statements.                               *)
LEMMA StageOrder ==
    ASSUME NEW w, Op(w) \in DOMAIN Stages,
           NEW i \in DOMAIN Stages[Op(w)], Stages[Op(w)][i] = repo[w].pc
    PROVE  /\ Follows(Op(w) \in OnceOps, repo[w].pc, AfterStage(w))
           /\ \/ AfterStage(w) = "cleanup"
              \/ \E j \in DOMAIN Stages[Op(w)] : Stages[Op(w)][j] = AfterStage(w)
<1> DEFINE s == Stages[Op(w)]
<1>1. i \in DOMAIN s /\ s[i] = repo[w].pc
  OBVIOUS
<1>2. Index(s, repo[w].pc) \in DOMAIN s
  <2> HIDE DEF s
  <2> QED BY <1>1 DEF Index
<1>3. AfterStage(w) = After(s, repo[w].pc)
  BY DEF AfterStage, After
<1>4. Op(w) \in {"get_root", "stat", "list", "mkdir", "mkdir_once", "move", "move_once",
                 "remove", "remove_once"}
  BY DEF Stages
<1>5. /\ Follows(Op(w) \in OnceOps, repo[w].pc, AfterStage(w))
      /\ Len(s) \in Nat /\ DOMAIN s = 1..Len(s)
  <2>1. CASE Op(w) = "mkdir"
    <3>1. s = MkdirStages /\ (Op(w) \in OnceOps) = FALSE
      BY <2>1 DEF Stages, OnceOps
    <3>2. Len(MkdirStages) \in Nat /\ DOMAIN MkdirStages = 1..Len(MkdirStages)
      BY DEF MkdirStages
    <3> QED BY <1>3, <3>1, <3>2, MkdirOrder
  <2>2. CASE Op(w) = "mkdir_once"
    <3>1. s = MkdirOnceStages /\ (Op(w) \in OnceOps) = TRUE
      BY <2>2 DEF Stages, OnceOps
    <3>2. Len(MkdirOnceStages) \in Nat /\ DOMAIN MkdirOnceStages = 1..Len(MkdirOnceStages)
      BY DEF MkdirOnceStages
    <3> QED BY <1>3, <3>1, <3>2, MkdirOnceOrder
  <2>3. CASE Op(w) = "move"
    <3>1. s = MoveStages /\ (Op(w) \in OnceOps) = FALSE
      BY <2>3 DEF Stages, OnceOps
    <3>2. Len(MoveStages) \in Nat /\ DOMAIN MoveStages = 1..Len(MoveStages)
      BY DEF MoveStages
    <3> QED BY <1>3, <3>1, <3>2, MoveOrder
  <2>4. CASE Op(w) = "move_once"
    <3>1. s = MoveOnceStages /\ (Op(w) \in OnceOps) = TRUE
      BY <2>4 DEF Stages, OnceOps
    <3>2. Len(MoveOnceStages) \in Nat /\ DOMAIN MoveOnceStages = 1..Len(MoveOnceStages)
      BY DEF MoveOnceStages
    <3> QED BY <1>3, <3>1, <3>2, MoveOnceOrder
  <2>5. CASE Op(w) = "remove"
    <3>1. s = SoftDeleteStages /\ (Op(w) \in OnceOps) = FALSE
      BY <2>5 DEF Stages, OnceOps
    <3>2. Len(SoftDeleteStages) \in Nat /\ DOMAIN SoftDeleteStages = 1..Len(SoftDeleteStages)
      BY DEF SoftDeleteStages
    <3> QED BY <1>3, <3>1, <3>2, SoftDeleteOrder
  <2>6. CASE Op(w) = "remove_once"
    <3>1. s = SoftDeleteOnceStages /\ (Op(w) \in OnceOps) = TRUE
      BY <2>6 DEF Stages, OnceOps
    <3>2. /\ Len(SoftDeleteOnceStages) \in Nat
          /\ DOMAIN SoftDeleteOnceStages = 1..Len(SoftDeleteOnceStages)
      BY DEF SoftDeleteOnceStages
    <3> QED BY <1>3, <3>1, <3>2, SoftDeleteOnceOrder
  <2>7. CASE Op(w) = "list"
    <3>1. s = ListStages /\ (Op(w) \in OnceOps) = FALSE
      BY <2>7 DEF Stages, OnceOps
    <3>2. Len(ListStages) \in Nat /\ DOMAIN ListStages = 1..Len(ListStages)
      BY DEF ListStages
    <3> QED BY <1>3, <3>1, <3>2, ListOrder
  <2>8. CASE Op(w) \in {"get_root", "stat"}
    <3>1. s = ReadStages /\ (Op(w) \in OnceOps) = FALSE
      BY <2>8 DEF Stages, OnceOps
    <3>2. Len(ReadStages) \in Nat /\ DOMAIN ReadStages = 1..Len(ReadStages)
      BY DEF ReadStages
    <3> QED BY <1>3, <3>1, <3>2, ReadOrder
  <2> QED BY <1>4, <2>1, <2>2, <2>3, <2>4, <2>5, <2>6, <2>7, <2>8
<1>6. AfterStage(w) = "cleanup" \/ \E j \in DOMAIN s : s[j] = AfterStage(w)
  <2> HIDE DEF s
  <2> QED BY <1>2, <1>3, <1>5 DEF After
<1> QED BY <1>5, <1>6

-----------------------------------------------------------------------------
(* The order of the statements of each operation. *)
Mkdirs == {"mkdir", "mkdir_once"}
Moves == {"move", "move_once"}
Removes == {"remove", "remove_once"}
Writing == {"audit", "receipt_insert", "recheck", "commit"}
Settled == {"utc", "insert", "audit", "recheck", "commit"}

(* Whose statement it is. *)
Of(op, e) ==
    /\ e = "user_shared" => op \in SharedOps
    /\ e = "user" => op \notin SharedOps
    /\ e \in ReceiptStages => op \notin SharedOps
    /\ e \in {"node", "children"} => op \in SharedOps \ Mkdirs
    /\ e \in {"parent", "name", "insert"} => op \in Mkdirs
    /\ e \in {"source", "target", "chains", "move_name", "update"} => op \in Moves
    /\ e \in {"delete_source", "delete_chain", "contents", "soft_delete", "object_update"} =>
         op \in Removes
    /\ e \in Writing => op \in Mkdirs \cup Moves \cup Removes
    /\ op \in SharedOps => e \in Early \cup {"session", "node", "children", "parent", "name"}
                                   \cup Settled
(* What comes after it. *)
Leads(op, e, n) ==
    /\ n # "acquire"
    /\ n = "begin" <=> e = "acquire"
    /\ n \in {"user", "user_shared"} <=> e = "begin"
    /\ n = "session" <=> e \in {"user", "user_shared"}
    /\ n \in {"parent", "source", "delete_source"} => e \in {"session"} \cup ReceiptStages
    /\ n = "node" => e = "session"
    /\ n = "children" => e = "node"
    /\ n = "name" <=> e = "parent"
    /\ n = "target" => e = "source"
    /\ n = "chains" => e = "target"
    /\ n = "move_name" => e = "chains"
    /\ n = "delete_chain" => e = "delete_source"
    /\ n = "contents" => e = "delete_chain"
    /\ n = "utc" => e = (IF op \in Mkdirs THEN "name" ELSE IF op \in Moves THEN "move_name"
                         ELSE IF op \in Removes THEN "contents"
                         ELSE IF op = "list" THEN "children" ELSE "node")
    /\ n \in {"insert", "update", "soft_delete"} => e = "utc"
    /\ n = "object_update" => e = "soft_delete"
    /\ n = "audit" => e = (IF op \in Mkdirs THEN "insert" ELSE IF op \in Moves THEN "update"
                           ELSE "object_update")
    /\ n \in Writing \ {"audit"} => e \in Writing
    /\ e = "name" => n = "utc"
    /\ op \in SharedOps /\ e \in Settled => n \in Settled \cup {"cleanup"}

Fine(op, s) == \A i \in DOMAIN s : Of(op, s[i]) /\ Leads(op, s[i], After(s, s[i]))
(* The statements of the reads are so ordered. *)
LEMMA ReadFine ==
    ASSUME NEW op \in {"get_root", "stat"} PROVE Fine(op, ReadStages)
BY DEF Fine, ReadStages, After, Index, Of, Leads, ReceiptStages, Settled, Writing, Early,
       SharedOps, Mkdirs, Moves, Removes
(* So are those of LIST. *)
LEMMA ListFine == Fine("list", ListStages)
BY DEF Fine, ListStages, After, Index, Of, Leads, ReceiptStages, Settled, Writing, Early,
       SharedOps, Mkdirs, Moves, Removes
(* So are those of MKDIR. *)
LEMMA MkdirFine == Fine("mkdir", MkdirStages)
BY DEF Fine, MkdirStages, After, Index, Of, Leads, ReceiptStages, Settled, Writing, Early,
       SharedOps, Mkdirs, Moves, Removes
(* So are those of an idempotent MKDIR. *)
LEMMA MkdirOnceFine == Fine("mkdir_once", MkdirOnceStages)
BY DEF Fine, MkdirOnceStages, After, Index, Of, Leads, ReceiptStages, Settled, Writing, Early,
       SharedOps, Mkdirs, Moves, Removes
(* So are those of MOVE. *)
LEMMA MoveFine == Fine("move", MoveStages)
BY DEF Fine, MoveStages, After, Index, Of, Leads, ReceiptStages, Settled, Writing, Early,
       SharedOps, Mkdirs, Moves, Removes
(* So are those of an idempotent MOVE. *)
LEMMA MoveOnceFine == Fine("move_once", MoveOnceStages)
BY DEF Fine, MoveOnceStages, After, Index, Of, Leads, ReceiptStages, Settled, Writing, Early,
       SharedOps, Mkdirs, Moves, Removes
(* So are those of REMOVE. *)
LEMMA SoftDeleteFine == Fine("remove", SoftDeleteStages)
BY DEF Fine, SoftDeleteStages, After, Index, Of, Leads, ReceiptStages, Settled, Writing, Early,
       SharedOps, Mkdirs, Moves, Removes
(* So are those of an idempotent REMOVE. *)
LEMMA SoftDeleteOnceFine == Fine("remove_once", SoftDeleteOnceStages)
BY DEF Fine, SoftDeleteOnceStages, After, Index, Of, Leads, ReceiptStages, Settled, Writing,
       Early, SharedOps, Mkdirs, Moves, Removes
(* Hence for every running call. *)
LEMMA StageFine ==
    ASSUME Inv, NEW w \in Workers, Running(w)
    PROVE  /\ Op(w) \in DOMAIN Stages
           /\ Of(Op(w), repo[w].pc) /\ Leads(Op(w), repo[w].pc, AfterStage(w))
           /\ AfterStage(w) # "idle"
<1> DEFINE s == Stages[Op(w)]
<1>1. PICK i \in DOMAIN s : Op(w) \in DOMAIN Stages /\ s[i] = repo[w].pc
  BY DEF Inv, InOrder
<1>2. Op(w) \in {"get_root", "stat", "list", "mkdir", "mkdir_once", "move", "move_once",
                 "remove", "remove_once"}
  BY <1>1 DEF Stages
<1>3. Fine(Op(w), s)
  <2>1. CASE Op(w) = "list"
    BY <2>1, ListFine DEF Stages
  <2>2. CASE Op(w) = "mkdir"
    BY <2>2, MkdirFine DEF Stages
  <2>3. CASE Op(w) = "mkdir_once"
    BY <2>3, MkdirOnceFine DEF Stages
  <2>4. CASE Op(w) = "move"
    BY <2>4, MoveFine DEF Stages
  <2>5. CASE Op(w) = "move_once"
    BY <2>5, MoveOnceFine DEF Stages
  <2>6. CASE Op(w) = "remove"
    BY <2>6, SoftDeleteFine DEF Stages
  <2>7. CASE Op(w) = "remove_once"
    BY <2>7, SoftDeleteOnceFine DEF Stages
  <2>8. CASE Op(w) \in {"get_root", "stat"}
    BY <2>8, ReadFine DEF Stages
  <2> QED BY <1>2, <2>1, <2>2, <2>3, <2>4, <2>5, <2>6, <2>7, <2>8
<1>4. AfterStage(w) = After(s, repo[w].pc)
  BY DEF AfterStage, After
<1>5. AfterStage(w) # "idle"
  BY <1>1, StageOrder DEF Follows
<1> HIDE DEF s
<1> QED BY <1>1, <1>3, <1>4, <1>5 DEF Fine

-----------------------------------------------------------------------------
(* What a change of one call leaves alone. *)

Touches(w) ==
    /\ repo' = [v \in Workers |-> repo'[v]]
    /\ DOMAIN repo'[w] = DOMAIN Fresh
    /\ \A v \in Workers \ {w} : repo'[v] = repo[v]
(* A field that is changed has its new value, another one its old value. *)
LEMMA WithFields ==
    ASSUME NEW call, NEW c, NEW f \in DOMAIN call
    PROVE  With(call, c)[f] = IF f \in DOMAIN c THEN c[f] ELSE call[f]
BY DEF With
(* Set changes the named fields of one call. *)
LEMMA SetFields ==
    ASSUME Shape, NEW w \in Workers, NEW c, Set(w, c)
    PROVE  /\ Touches(w)
           /\ \A f \in DOMAIN Fresh :
                repo'[w][f] = IF f \in DOMAIN c THEN c[f] ELSE repo[w][f]
<1>1. repo' = [repo EXCEPT ![w] = With(repo[w], c)]
  BY DEF Set
<1>2. repo'[w] = With(repo[w], c) /\ DOMAIN repo[w] = DOMAIN Fresh
  BY <1>1 DEF Shape
<1>3. DOMAIN repo'[w] = DOMAIN Fresh
  BY <1>2 DEF With
<1> QED BY <1>1, <1>2, <1>3, WithFields DEF Touches, Shape
(* Advance changes the named fields and goes to the next statement. *)
LEMMA AdvanceFields ==
    ASSUME Shape, NEW w \in Workers, NEW c, Advance(w, c)
    PROVE  /\ Touches(w)
           /\ \A f \in DOMAIN Fresh :
                repo'[w][f] = IF f \in DOMAIN c THEN c[f]
                              ELSE IF f = "pc" THEN AfterStage(w) ELSE repo[w][f]
<1> DEFINE p == [pc |-> AfterStage(w)]
           next == With(repo[w], p)
<1>1. repo' = [repo EXCEPT ![w] = With(next, c)]
  BY DEF Advance
<1>2. repo'[w] = With(next, c) /\ DOMAIN repo[w] = DOMAIN Fresh
  BY <1>1 DEF Shape
<1>3. DOMAIN next = DOMAIN Fresh
  BY <1>2 DEF With
<1>4. DOMAIN repo'[w] = DOMAIN Fresh
  BY <1>2, <1>3 DEF With
<1>5. DOMAIN p = {"pc"} /\ p["pc"] = AfterStage(w)
  OBVIOUS
<1>6. \A f \in DOMAIN Fresh : next[f] = IF f = "pc" THEN AfterStage(w) ELSE repo[w][f]
  <2> HIDE DEF p
  <2> QED BY <1>2, <1>5, WithFields
<1> HIDE DEF next
<1> QED BY <1>1, <1>2, <1>3, <1>4, <1>6, WithFields DEF Touches, Shape

(* Going to the next statement keeps what identifies the call and what it  *)
(* has done.                                                               *)
Carries(w) ==
    /\ repo'[w].in = repo[w].in /\ repo'[w].tx = repo[w].tx
    /\ repo'[w].commit = repo[w].commit /\ repo'[w].effect = repo[w].effect
    /\ repo'[w].released = repo[w].released
(* A statement that names none of these fields leaves them as they are. *)
LEMMA AdvanceCarries ==
    ASSUME Shape, NEW w \in Workers, NEW c, Advance(w, c),
           DOMAIN c \cap {"pc", "in", "tx", "commit", "effect", "released"} = {}
    PROVE  /\ Touches(w) /\ Carries(w) /\ repo'[w].pc = AfterStage(w)
           /\ repo'[w].write = IF "write" \in DOMAIN c THEN c["write"] ELSE repo[w].write
           /\ repo'[w].node = IF "node" \in DOMAIN c THEN c["node"] ELSE repo[w].node
BY AdvanceFields DEF Carries, Fresh

-----------------------------------------------------------------------------
(* Most actions are a statement of a running transaction: the call goes to *)
(* its next statement or to the cleanup, and only the transaction's own    *)
(* locks change.                                                           *)

OwnLocks(w) ==
    /\ \A l \in locks : l.tx # repo[w].tx => l \in locks'
    /\ \A l \in locks' : l \in locks \/ l.tx = repo[w].tx
    /\ Compatible'

Statement(w) ==
    /\ Running(w) /\ Touches(w) /\ OwnLocks(w)
    /\ \/ repo'[w].pc = "cleanup"
       \/ repo'[w].pc = AfterStage(w) /\ locks \subseteq locks'
    /\ repo'[w].in = repo[w].in /\ repo'[w].tx = repo[w].tx
    /\ repo'[w].commit = repo[w].commit /\ repo'[w].released = repo[w].released
    /\ UNCHANGED <<receipts, session, calls, orphans, history>>
    /\ repo[w].pc \in {"user", "user_shared"} /\ repo'[w].pc # "cleanup" =>
         UserLock(repo[w].tx, Op(w)) \in locks'
    /\ repo[w].pc = "session" /\ repo'[w].pc # "cleanup" =>
         session = "active" /\ SessionLock(repo[w].tx) \in locks'
    /\ repo[w].pc \in ReceiptStages /\ repo'[w].pc # "cleanup" =>
         Receipt(Op(w), repo[w].in.key) = {}
    /\ repo'[w].effect # "NONE" =>
         /\ repo'[w].pc = "cleanup"
         /\ CommitOf(Op(w), repo[w].in.key, repo'[w].node, repo'[w].write.audit)
    /\ DOMAIN repo'[w].write = DOMAIN NoWrite
    /\ WriteAgrees(w)'
(* A statement keeps the invariant: locks that grow lose nothing, and a    *)
(* call that is at its cleanup claims no lock any more.                    *)
LEMMA StatementKeeps ==
    ASSUME Inv, NEW w \in Workers, Statement(w)
    PROVE  Inv'
<1>1. Follows(Op(w) \in OnceOps, repo[w].pc, AfterStage(w))
      /\ (AfterStage(w) = "cleanup"
          \/ \E j \in DOMAIN Stages[Op(w)] : Stages[Op(w)][j] = AfterStage(w))
  BY StageOrder DEF Inv, InOrder, Statement
<1>2. Shape'
  BY DEF Inv, Shape, Statement, Touches
<1>3. Numbered'
  BY DEF Inv, Numbered, Statement, Touches, OwnLocks, Running
<1>4. Compatible'
  BY DEF Statement, OwnLocks
<1>5. InOrder'
  BY <1>1 DEF Inv, InOrder, Statement, Touches, Running, Op, pending, Follows
<1>6. SessionHeld'
  BY <1>1 DEF Inv, SessionHeld, Statement, Touches, OwnLocks, Running, Judged, Follows, Numbered,
         SessionLock, Abandonment, InOrder, Opening
<1>7. KeyHeld'
  <2>1. \A v \in Workers \ {w} : Keyed(v)' => (Receipt(Op(v), repo[v].in.key) = {})'
    BY DEF Inv, KeyHeld, Statement, Touches, Running, Judged, Keyed, Receipt, Op
  <2>2. Keyed(w)' => (Receipt(Op(w), repo[w].in.key) = {})'
    <3>1. ASSUME Keyed(w)'
          PROVE  /\ Op(w) \in OnceOps /\ repo'[w].pc = AfterStage(w)
                 /\ Keyed(w) \/ repo[w].pc \in ReceiptStages
      BY <1>1, <3>1 DEF Statement, Running, Judged, Keyed, Follows, Op, Opening
    <3> QED BY <3>1 DEF Inv, KeyHeld, Statement, Receipt, Op, Keyed, Judged, Running
  <2>3. \A o \in orphans' : o.sent /\ o.in.op \in OnceOps => Receipt(o.in.op, o.in.key)' = {}
    BY DEF Inv, KeyHeld, Statement, Receipt
  <2> QED BY <2>1, <2>2, <2>3 DEF KeyHeld
<1>8. WritesAgree'
  BY DEF Inv, WritesAgree, WriteAgrees, Statement, Touches, Running
<1>9. Abandonment'
  BY DEF Inv, Abandonment, Statement, Touches, Running, InOrder, pending
<1>10. WordTrue'
  BY DEF Inv, WordTrue, Statement, Touches, Running, InOrder, Done, LocksOf, OwnLocks, Numbered
<1>11. Recycled'
  BY DEF Inv, Recycled, Statement, Touches, Running, InOrder, LocksOf, OwnLocks, Numbered
<1>12. Receipted'
  BY DEF Inv, Receipted, Statement, Touches, CommitOf, Receipt, Op
<1>13. OnceEffect' /\ CommitReportTrue'
  BY DEF Inv, OnceEffect, CommitReportTrue, Statement
<1>14. UserHeld'
  <2>1. ASSUME NEW v \in Workers, Running(v)', repo'[v].pc \notin Early
        PROVE  UserLock(repo'[v].tx, Op(v)') \in locks'
    <3>1. CASE v # w
      BY <2>1, <3>1 DEF Inv, UserHeld, Statement, Touches, OwnLocks, Numbered, Running, Op, UserLock
    <3>2. CASE v = w
      <4>1. repo'[w].pc = AfterStage(w) /\ locks \subseteq locks' /\ repo'[w].pc # "cleanup"
        BY <2>1, <3>2 DEF Statement, Running
      <4>2. repo[w].pc \in {"user", "user_shared"} \/ repo[w].pc \notin Early
        BY <2>1, <3>2, <4>1, StageFine DEF Statement, Leads, Early
      <4> QED BY <3>2, <4>1, <4>2 DEF Inv, UserHeld, Statement, Op
    <3> QED BY <3>1, <3>2
  <2>2. ASSUME NEW o \in orphans', o.sent
        PROVE  UserLock(o.tx, o.in.op) \in locks'
    BY <2>2 DEF Inv, UserHeld, Statement, OwnLocks, Abandonment, InOrder, Running, UserLock
  <2> QED BY <2>1, <2>2 DEF UserHeld
<1> QED BY <1>2, <1>3, <1>4, <1>5, <1>6, <1>7, <1>8, <1>9, <1>10, <1>11, <1>12, <1>13, <1>14
        DEF Inv

-----------------------------------------------------------------------------
(* Each statement's action is such a step. *)

Quiet == UNCHANGED <<receipts, session, calls, orphans, history>>
(* Locks that can be granted conflict with no lock of another transaction. *)
LEMMA HoldOwn ==
    ASSUME Compatible, NEW w, NEW wanted, Grantable(w, wanted), Hold(w, wanted)
    PROVE  /\ OwnLocks(w) /\ locks \subseteq locks'
           /\ \A x \in wanted : [tx |-> repo[w].tx, on |-> x.on, mode |-> x.mode] \in locks'
<1>1. locks' = locks \cup {[tx |-> repo[w].tx, on |-> x.on, mode |-> x.mode] : x \in wanted}
  BY DEF Hold
<1>2. \A l \in locks' : \/ l \in locks
                        \/ /\ l.tx = repo[w].tx
                           /\ \E x \in wanted : l.on = x.on /\ l.mode = x.mode
  BY <1>1
<1>3. Compatible'
  BY <1>2 DEF Compatible, Grantable
<1> QED BY <1>1, <1>2, <1>3 DEF OwnLocks
(* A statement without locks. *)
LEMMA SameOwn ==
    ASSUME Compatible, NEW w, locks' = locks
    PROVE  OwnLocks(w) /\ locks \subseteq locks'
BY DEF OwnLocks, Compatible

(* A statement that only looks, before the transaction's rows are written. *)
LEMMA PlainAdvance ==
    ASSUME Inv, NEW w \in Workers, Running(w),
           repo[w].pc \notin {"user", "user_shared", "session", "audit", "receipt_insert",
                              "recheck", "commit"},
           repo[w].pc \notin ReceiptStages,
           NEW c, Advance(w, c),
           DOMAIN c \subseteq {"domain", "page", "changed", "node", "lease", "connection",
                                "began"},
           OwnLocks(w), locks \subseteq locks', Quiet
    PROVE  Inv'
<1>1. /\ Touches(w) /\ Carries(w) /\ repo'[w].pc = AfterStage(w)
      /\ repo'[w].write = repo[w].write
  BY AdvanceCarries DEF Inv
<1>2. repo'[w].pc \notin {"receipt_insert", "recheck", "commit"}
  BY <1>1, StageOrder DEF Inv, InOrder, Follows
<1>3. WriteAgrees(w)'
  BY <1>1, <1>2 DEF WriteAgrees, Running, Inv, WritesAgree
<1>4. Statement(w)
  BY <1>1, <1>3 DEF Statement, Carries, Quiet, Inv, InOrder, Shape
<1> QED BY <1>4, StatementKeeps

(* A statement after which the call gives up, or has its answer. *)
LEMMA GivesUp ==
    ASSUME Inv, NEW w \in Workers, Running(w), NEW c, Set(w, c), OwnLocks(w), Quiet,
           "pc" \in DOMAIN c, c["pc"] = "cleanup",
           DOMAIN c \subseteq {"pc", "rc", "issue", "lease", "began"}
    PROVE  Inv'
<1>1. /\ Touches(w)
      /\ \A f \in DOMAIN Fresh : repo'[w][f] = IF f \in DOMAIN c THEN c[f] ELSE repo[w][f]
  BY SetFields DEF Inv
<1>2. /\ repo'[w].pc = "cleanup"
      /\ repo'[w].in = repo[w].in /\ repo'[w].tx = repo[w].tx
      /\ repo'[w].commit = repo[w].commit /\ repo'[w].released = repo[w].released
      /\ repo'[w].effect = repo[w].effect /\ repo'[w].write = repo[w].write
  BY <1>1 DEF Fresh
<1>3. WriteAgrees(w)'
  BY <1>2 DEF WriteAgrees, Running
<1>4. Statement(w)
  BY <1>1, <1>2, <1>3 DEF Statement, Quiet, Inv, InOrder, Shape
<1> QED BY <1>4, StatementKeeps
(* Finish is such a statement. *)
LEMMA FinishGivesUp ==
    ASSUME Inv, NEW w \in Workers, Running(w), NEW rc, NEW issue, Finish(w, rc, issue),
           OwnLocks(w), Quiet
    PROVE  Inv'
<1> DEFINE c == [pc |-> "cleanup", rc |-> rc, issue |-> issue]
<1>1. Set(w, c)
  BY DEF Finish
<1>2. DOMAIN c = {"pc", "rc", "issue"} /\ c["pc"] = "cleanup"
  OBVIOUS
<1> HIDE DEF c
<1> QED BY <1>1, <1>2, GivesUp
(* The statements that look.  First the connection and BEGIN. *)
LEMMA AcquireKeeps ==
    ASSUME Inv, NEW w \in Workers, Acquire(w)
    PROVE  Inv'
BY PlainAdvance, SameOwn DEF Acquire, At, Running, ReceiptStages, Quiet, Database, Others, Inv
(* BEGIN holds no lock yet. *)
LEMMA BeginKeeps ==
    ASSUME Inv, NEW w \in Workers, Begin(w)
    PROVE  Inv'
BY PlainAdvance, SameOwn DEF Begin, At, Running, ReceiptStages, Quiet, Database, Others, Inv
(* A removal whose checks have failed touches nothing. *)
LEMMA DeleteNothingKeeps ==
    ASSUME Inv, NEW w \in Workers, DeleteNothing(w)
    PROVE  Inv'
BY PlainAdvance, SameOwn
   DEF DeleteNothing, At, Running, ReceiptStages, Quiet, Database, Others, Inv
(* The row of STAT and GET_ROOT. *)
LEMMA LockNodeKeeps ==
    ASSUME Inv, NEW w \in Workers, LockNode(w)
    PROVE  Inv'
BY PlainAdvance, HoldOwn DEF LockNode, At, Running, ReceiptStages, Quiet, Database, Others, Inv
(* The parent of a new directory. *)
LEMMA LockMkdirParentKeeps ==
    ASSUME Inv, NEW w \in Workers, LockMkdirParent(w)
    PROVE  Inv'
BY PlainAdvance, HoldOwn
   DEF LockMkdirParent, At, Running, ReceiptStages, Quiet, Database, Others, Inv
(* The node that is moved. *)
LEMMA LockMoveSourceKeeps ==
    ASSUME Inv, NEW w \in Workers, LockMoveSource(w)
    PROVE  Inv'
BY PlainAdvance, HoldOwn
   DEF LockMoveSource, At, Running, ReceiptStages, Quiet, Database, Others, Inv
(* The node that is removed. *)
LEMMA LockDeleteSourceKeeps ==
    ASSUME Inv, NEW w \in Workers, LockDeleteSource(w)
    PROVE  Inv'
BY PlainAdvance, HoldOwn
   DEF LockDeleteSource, At, Running, ReceiptStages, Quiet, Database, Others, Inv
(* The children that a removed directory must not have. *)
LEMMA LockDeleteChildrenKeeps ==
    ASSUME Inv, NEW w \in Workers, LockDeleteChildren(w)
    PROVE  Inv'
BY PlainAdvance, HoldOwn
   DEF LockDeleteChildren, At, Running, ReceiptStages, Quiet, Database, Others, Inv
(* The object of a removed file. *)
LEMMA LockDeleteObjectKeeps ==
    ASSUME Inv, NEW w \in Workers, LockDeleteObject(w)
    PROVE  Inv'
BY PlainAdvance, HoldOwn
   DEF LockDeleteObject, At, Running, ReceiptStages, Quiet, Database, Others, Inv
(* The children of a listed directory. *)
LEMMA LockChildrenKeeps ==
    ASSUME Inv, NEW w \in Workers, LockChildren(w)
    PROVE  Inv'
BY PlainAdvance, HoldOwn, SameOwn
   DEF LockChildren, At, Running, ReceiptStages, Quiet, Database, Others, Inv
(* The name under the parent of a new directory. *)
LEMMA LockMkdirNameKeeps ==
    ASSUME Inv, NEW w \in Workers, LockMkdirName(w)
    PROVE  Inv'
BY PlainAdvance, HoldOwn, SameOwn
   DEF LockMkdirName, At, Running, ReceiptStages, Quiet, Database, Others, Inv
(* The directory a node is moved to. *)
LEMMA LockMoveTargetKeeps ==
    ASSUME Inv, NEW w \in Workers, LockMoveTarget(w)
    PROVE  Inv'
BY PlainAdvance, HoldOwn, SameOwn
   DEF LockMoveTarget, At, Running, ReceiptStages, Quiet, Database, Others, Inv
(* The ancestors of the source and of the target of a MOVE. *)
LEMMA WalkMoveChainsKeeps ==
    ASSUME Inv, NEW w \in Workers, WalkMoveChains(w)
    PROVE  Inv'
BY PlainAdvance, HoldOwn, SameOwn
   DEF WalkMoveChains, At, Running, ReceiptStages, Quiet, Database, Others, Inv
(* The ancestors of a removed node. *)
LEMMA WalkDeleteChainKeeps ==
    ASSUME Inv, NEW w \in Workers, WalkDeleteChain(w)
    PROVE  Inv'
BY PlainAdvance, HoldOwn, SameOwn
   DEF WalkDeleteChain, At, Running, ReceiptStages, Quiet, Database, Others, Inv
(* The name under the target of a MOVE; an index that denies it ends it. *)
LEMMA LockMoveNameKeeps ==
    ASSUME Inv, NEW w \in Workers, LockMoveName(w)
    PROVE  Inv'
BY PlainAdvance, FinishGivesUp, HoldOwn, SameOwn
   DEF LockMoveName, At, Running, ReceiptStages, Quiet, Database, Others, Inv
(* The clock is read, and a check that failed is answered. *)
LEMMA CaptureUtcKeeps ==
    ASSUME Inv, NEW w \in Workers, CaptureUtc(w)
    PROVE  Inv'
BY PlainAdvance, FinishGivesUp, SameOwn
   DEF CaptureUtc, At, Running, ReceiptStages, Quiet, Database, Others, Inv
(* No connection: the call has nothing to give back. *)
LEMMA AcquireFailsKeeps ==
    ASSUME Inv, NEW w \in Workers, AcquireFails(w)
    PROVE  Inv'
BY GivesUp, SameOwn DEF AcquireFails, At, Running, ReceiptStages, Quiet, Database, Others, Inv
(* The user row, shared or exclusive as the operation asks for it: a call  *)
(* that goes on holds it.                                                  *)
LEMMA UserKeeps ==
    ASSUME Inv, NEW w \in Workers, LockUser(w) \/ LockMoveUser(w)
    PROVE  Inv'
<1>1. /\ repo[w].pc \in {"user", "user_shared"} /\ Running(w) /\ Quiet /\ Compatible
      /\ Advance(w, <<>>) \/ Finish(w, "NOT_FOUND", "AUTH_REJECTED")
  BY DEF LockUser, LockMoveUser, At, Running, Quiet, Database, Others, Inv
<1>2. OwnLocks(w) /\ locks \subseteq locks' /\ UserLock(repo[w].tx, Op(w)) \in locks'
  <2> DEFINE x == Want(<<"user">>, IF Op(w) \in SharedOps THEN "S" ELSE "X")
             wanted == {x}
  <2>1. Grantable(w, wanted) /\ Hold(w, wanted)
    BY <1>1, StageFine DEF LockUser, LockMoveUser, At, Of
  <2>2. /\ x \in wanted
        /\ [tx |-> repo[w].tx, on |-> x.on, mode |-> x.mode] = UserLock(repo[w].tx, Op(w))
    BY DEF Want, UserLock
  <2> HIDE DEF x, wanted
  <2> QED BY <1>1, <2>1, <2>2, HoldOwn
<1>3. CASE Advance(w, <<>>)
  <2>1. /\ Touches(w) /\ Carries(w) /\ repo'[w].pc = AfterStage(w)
        /\ repo'[w].write = repo[w].write
    BY <1>3, AdvanceCarries DEF Inv
  <2>2. repo'[w].pc \notin {"receipt_insert", "recheck", "commit"}
    BY <1>1, <2>1, StageOrder DEF Inv, InOrder, Follows
  <2>3. WriteAgrees(w)'
    BY <1>1, <2>1, <2>2 DEF WriteAgrees, Running, Inv, WritesAgree
  <2>4. Statement(w)
    BY <1>1, <1>2, <2>1, <2>3 DEF Statement, Carries, Quiet, Inv, InOrder, Shape, ReceiptStages
  <2> QED BY <2>4, StatementKeeps
<1> QED BY <1>1, <1>2, <1>3, FinishGivesUp
(* The session is judged under its lock: a call that goes on holds the     *)
(* lock and has seen the session active.                                   *)
LEMMA LockSessionKeeps ==
    ASSUME Inv, NEW w \in Workers, LockSession(w)
    PROVE  Inv'
<1>1. /\ OwnLocks(w) /\ locks \subseteq locks' /\ SessionLock(repo[w].tx) \in locks'
      /\ Quiet /\ Running(w)
  <2> DEFINE wanted == {Want(<<"session">>, "S")}
  <2>1. /\ Grantable(w, wanted) /\ Hold(w, wanted) /\ Quiet
        /\ Want(<<"session">>, "S") \in wanted /\ Compatible /\ Running(w)
    BY DEF LockSession, Quiet, Database, Others, Inv, At, Running
  <2> HIDE DEF wanted
  <2> QED BY <2>1, HoldOwn DEF Want, SessionLock
<1>2. CASE session = "active" /\ Advance(w, <<>>)
  <2>1. /\ Touches(w) /\ Carries(w) /\ repo'[w].pc = AfterStage(w)
        /\ repo'[w].write = repo[w].write
    BY <1>2, AdvanceCarries DEF Inv
  <2>2. repo'[w].pc \notin {"receipt_insert", "recheck", "commit"}
    BY <1>1, <2>1, StageOrder DEF Inv, InOrder, Follows, LockSession, At
  <2>3. WriteAgrees(w)'
    BY <1>1, <2>1, <2>2 DEF WriteAgrees, Running, Inv, WritesAgree, LockSession, At
  <2>4. Statement(w)
    BY <1>1, <1>2, <2>1, <2>3
       DEF Statement, Carries, Quiet, Inv, InOrder, Shape, LockSession, At, ReceiptStages
  <2> QED BY <2>4, StatementKeeps
<1>3. CASE Finish(w, "NOT_FOUND", "AUTH_REJECTED")
  BY <1>1, <1>3, FinishGivesUp
<1> QED BY <1>2, <1>3 DEF LockSession

(* The receipt is looked for; one that is found is the answer. *)
LEMMA LockReceiptKeeps ==
    ASSUME Inv, NEW w \in Workers, NEW compared, LockReceipt(w, compared),
           repo[w].pc \in ReceiptStages
    PROVE  Inv'
<1> DEFINE in == repo[w].in
           found == Receipt(in.op, in.key)
<1>1. OwnLocks(w) /\ locks \subseteq locks' /\ Quiet /\ Running(w)
  <2>1. \E wanted : Grantable(w, wanted) /\ Hold(w, wanted)
    BY Zenon DEF LockReceipt
  <2>2. UNCHANGED <<Database, Others, orphans, nextId, faults, history>>
    BY Zenon DEF LockReceipt
  <2>3. Quiet
    BY <2>2, Zenon DEF Quiet, Database, Others
  <2>4. Compatible /\ Running(w)
    BY DEF Inv, Running, ReceiptStages
  <2> QED BY <2>1, <2>3, <2>4, HoldOwn
<1>2. CASE found = {} /\ Advance(w, <<>>)
  <2>1. /\ Touches(w) /\ Carries(w) /\ repo'[w].pc = AfterStage(w)
        /\ repo'[w].write = repo[w].write
    BY <1>2, AdvanceCarries DEF Inv
  <2>2. repo'[w].pc \notin {"receipt_insert", "recheck", "commit"}
    BY <1>1, <2>1, StageOrder DEF Inv, InOrder, Follows, ReceiptStages
  <2>3. WriteAgrees(w)'
    BY <1>1, <2>1, <2>2 DEF WriteAgrees, Running, Inv, WritesAgree, ReceiptStages
  <2>4. Statement(w)
    BY <1>1, <1>2, <2>1, <2>3
       DEF Statement, Carries, Quiet, Inv, InOrder, Shape, ReceiptStages, Op
  <2> QED BY <2>4, StatementKeeps
<1>3. CASE \E rc, issue : Finish(w, rc, issue)
  BY <1>1, <1>3, FinishGivesUp
<1>4. ASSUME NEW r \in found,
             Set(w, [pc |-> "cleanup", effect |-> "RECOVERED", node |-> r.result,
                     write |-> [NoWrite EXCEPT !.audit = r.audit]])
      PROVE  Inv'
  <2> DEFINE c == [pc |-> "cleanup", effect |-> "RECOVERED", node |-> r.result,
                   write |-> [NoWrite EXCEPT !.audit = r.audit]]
  <2>1. /\ DOMAIN c = {"pc", "effect", "node", "write"}
        /\ c["pc"] = "cleanup" /\ c["node"] = r.result /\ c["write"].audit = r.audit
        /\ DOMAIN c["write"] = DOMAIN NoWrite
    BY DEF NoWrite
  <2>2. /\ Touches(w)
        /\ \A f \in DOMAIN Fresh : repo'[w][f] = IF f \in DOMAIN c THEN c[f] ELSE repo[w][f]
    BY <1>4, SetFields DEF Inv
  <2> HIDE DEF c
  <2>3. /\ repo'[w].pc = "cleanup" /\ repo'[w].node = r.result
        /\ repo'[w].write.audit = r.audit /\ DOMAIN repo'[w].write = DOMAIN NoWrite
        /\ repo'[w].in = repo[w].in /\ repo'[w].tx = repo[w].tx
        /\ repo'[w].commit = repo[w].commit /\ repo'[w].released = repo[w].released
    BY <2>1, <2>2 DEF Fresh
  <2>4. CommitOf(Op(w), in.key, repo'[w].node, repo'[w].write.audit)
    BY <2>3 DEF Inv, Receipted, Receipt, Op
  <2>5. WriteAgrees(w)'
    BY <2>3 DEF WriteAgrees, Running
  <2>6. Statement(w)
    BY <1>1, <2>2, <2>3, <2>4, <2>5 DEF Statement, Quiet
  <2> QED BY <2>6, StatementKeeps
<1>5. \/ found = {} /\ Advance(w, <<>>)
      \/ \E rc, issue : Finish(w, rc, issue)
      \/ \E r \in found : Set(w, [pc |-> "cleanup", effect |-> "RECOVERED", node |-> r.result,
                                  write |-> [NoWrite EXCEPT !.audit = r.audit]])
  BY Zenon DEF LockReceipt
<1> QED BY <1>2, <1>3, <1>4, <1>5
(* The three operations look for their receipts alike. *)
LEMMA ReceiptsKeep ==
    ASSUME Inv, NEW w \in Workers,
           LockMkdirReceipt(w) \/ LockMoveReceipt(w) \/ LockNodeRemoveReceipt(w)
    PROVE  Inv'
BY LockReceiptKeeps
   DEF LockMkdirReceipt, LockMoveReceipt, LockNodeRemoveReceipt, At, ReceiptStages

(* The statements that write: what is written is kept in the call until    *)
(* the COMMIT.                                                             *)
LEMMA RowAdvance ==
    ASSUME Inv, NEW w \in Workers, Running(w),
           repo[w].pc \in {"insert", "update", "soft_delete", "object_update"},
           NEW c, Advance(w, c), DOMAIN c \subseteq {"node", "write"}, "write" \in DOMAIN c,
           c["write"].receipt = NoReceipt, DOMAIN c["write"] = DOMAIN NoWrite,
           locks' = locks, Quiet
    PROVE  Inv'
<1>1. /\ Touches(w) /\ Carries(w) /\ repo'[w].pc = AfterStage(w)
      /\ repo'[w].write = c["write"]
  BY AdvanceCarries DEF Inv
<1>2. repo'[w].pc \notin {"receipt_insert", "recheck", "commit"}
  BY <1>1, StageOrder DEF Inv, InOrder, Follows
<1>3. WriteAgrees(w)'
  BY <1>1, <1>2 DEF WriteAgrees, Running
<1>4. OwnLocks(w)
  BY SameOwn DEF Inv
<1>5. Statement(w)
  BY <1>1, <1>3, <1>4 DEF Statement, Carries, Quiet, Inv, InOrder, ReceiptStages
<1> QED BY <1>5, StatementKeeps
(* The row of a new directory. *)
LEMMA InsertNodeKeeps ==
    ASSUME Inv, NEW w \in Workers, InsertNode(w)
    PROVE  Inv'
<1>1. Running(w) /\ OwnLocks(w) /\ Quiet /\ locks' = locks /\ repo[w].pc = "insert"
  BY SameOwn DEF InsertNode, At, Running, Quiet, Database, Others, Inv
<1>2. ASSUME NEW row,
             Advance(w, [node |-> nextId,
                         write |-> [NoWrite EXCEPT !.node = nextId, !.row = row]])
      PROVE  Inv'
  <2> DEFINE c == [node |-> nextId, write |-> [NoWrite EXCEPT !.node = nextId, !.row = row]]
  <2>1. /\ DOMAIN c = {"node", "write"} /\ c["write"].receipt = NoReceipt
        /\ DOMAIN c["write"] = DOMAIN NoWrite
    BY DEF NoWrite
  <2> HIDE DEF c
  <2> QED BY <1>1, <1>2, <2>1, RowAdvance DEF c
<1>3. CASE Finish(w, "DATABASE", "NONE")
  BY <1>1, <1>3, FinishGivesUp
<1> QED BY <1>2, <1>3 DEF InsertNode
(* The new place of a moved node. *)
LEMMA UpdateMoveKeeps ==
    ASSUME Inv, NEW w \in Workers, UpdateMove(w)
    PROVE  Inv'
<1>1. Running(w) /\ OwnLocks(w) /\ Quiet /\ locks' = locks /\ repo[w].pc = "update"
  BY SameOwn DEF UpdateMove, At, Running, Quiet, Database, Others, Inv
<1>2. ASSUME NEW write, write.receipt = NoReceipt, DOMAIN write = DOMAIN NoWrite,
             Advance(w, [write |-> write])
      PROVE  Inv'
  <2> DEFINE c == [write |-> write]
  <2>1. DOMAIN c = {"write"} /\ c["write"] = write
    OBVIOUS
  <2> HIDE DEF c
  <2> QED BY <1>1, <1>2, <2>1, RowAdvance DEF c
<1>3. CASE Finish(w, "DATABASE", "UNEXPECTED_RESULT")
  BY <1>1, <1>3, FinishGivesUp
<1>4. ASSUME NEW n, NEW row
      PROVE  LET write == [NoWrite EXCEPT !.node = n, !.row = row]
             IN  write.receipt = NoReceipt /\ DOMAIN write = DOMAIN NoWrite
  BY DEF NoWrite
<1>5. NoWrite.receipt = NoReceipt
  BY DEF NoWrite
<1> QED BY <1>2, <1>3, <1>4, <1>5, Zenon DEF UpdateMove
(* The row of a removed node. *)
LEMMA DeleteUpdateKeeps ==
    ASSUME Inv, NEW w \in Workers, DeleteUpdate(w)
    PROVE  Inv'
<1>1. Running(w) /\ OwnLocks(w) /\ Quiet /\ locks' = locks /\ repo[w].pc = "soft_delete"
  BY SameOwn DEF DeleteUpdate, At, Running, Quiet, Database, Others, Inv
<1>2. ASSUME NEW n, NEW row,
             Advance(w, [write |-> [NoWrite EXCEPT !.node = n, !.row = row]])
      PROVE  Inv'
  <2> DEFINE c == [write |-> [NoWrite EXCEPT !.node = n, !.row = row]]
  <2>1. /\ DOMAIN c = {"write"} /\ c["write"].receipt = NoReceipt
        /\ DOMAIN c["write"] = DOMAIN NoWrite
    BY DEF NoWrite
  <2> HIDE DEF c
  <2> QED BY <1>1, <1>2, <2>1, RowAdvance DEF c
<1>3. CASE Finish(w, "DATABASE", "UNEXPECTED_RESULT")
  BY <1>1, <1>3, FinishGivesUp
<1> QED BY <1>2, <1>3, Zenon DEF DeleteUpdate
(* The reference a removed file gives up. *)
LEMMA ObjectUpdateKeeps ==
    ASSUME Inv, NEW w \in Workers, ObjectUpdate(w)
    PROVE  Inv'
<1>1. Running(w) /\ OwnLocks(w) /\ Quiet /\ locks' = locks /\ repo[w].pc = "object_update"
  BY SameOwn DEF ObjectUpdate, At, Running, Quiet, Database, Others, Inv
<1>2. DOMAIN repo[w].write = DOMAIN NoWrite /\ repo[w].write.receipt = NoReceipt
  BY <1>1 DEF Inv, Shape, WritesAgree, WriteAgrees, Running
<1>3. ASSUME NEW unref, Advance(w, [write |-> [repo[w].write EXCEPT !.unref = unref]])
      PROVE  Inv'
  <2> DEFINE write == [repo[w].write EXCEPT !.unref = unref]
             c == [write |-> write]
  <2>1. write.receipt = NoReceipt /\ DOMAIN write = DOMAIN NoWrite
    BY <1>2 DEF NoWrite
  <2>2. DOMAIN c = {"write"} /\ c["write"] = write
    OBVIOUS
  <2>3. Advance(w, c)
    BY <1>3
  <2> HIDE DEF write, c
  <2> QED BY <1>1, <2>1, <2>2, <2>3, RowAdvance
<1> QED BY <1>3, Zenon DEF ObjectUpdate

(* The audit row names the node of the call. *)
LEMMA InsertAuditKeeps ==
    ASSUME Inv, NEW w \in Workers, InsertAudit(w)
    PROVE  Inv'
<1> DEFINE write == [repo[w].write EXCEPT !.audit = repo[w].tx, !.action = Op(w),
                                          !.target = repo[w].node]
           c == [write |-> write]
<1>1. Running(w) /\ OwnLocks(w) /\ Quiet /\ locks' = locks /\ repo[w].pc = "audit"
  BY SameOwn DEF InsertAudit, At, Running, Quiet, Database, Others, Inv
<1>2. DOMAIN repo[w].write = DOMAIN NoWrite /\ repo[w].write.receipt = NoReceipt
  BY <1>1 DEF Inv, Shape, WritesAgree, WriteAgrees, Running
<1>3. /\ DOMAIN write = DOMAIN NoWrite
      /\ write.receipt = NoReceipt /\ write.target = repo[w].node
  BY <1>2 DEF NoWrite
<1>4. DOMAIN c = {"write"} /\ c["write"] = write
  OBVIOUS
<1>5. Advance(w, c)
  BY Zenon DEF InsertAudit
<1> HIDE DEF write, c
<1>6. /\ Touches(w) /\ Carries(w) /\ repo'[w].pc = AfterStage(w)
      /\ repo'[w].write = write /\ repo'[w].node = repo[w].node
  BY <1>4, <1>5, AdvanceCarries DEF Inv
<1>7. /\ repo'[w].pc # "commit"
      /\ repo'[w].pc = "recheck" => Op(w) \notin OnceOps
  BY <1>1, <1>6, StageOrder DEF Inv, InOrder, Follows
<1>8. WriteAgrees(w)'
  BY <1>3, <1>6, <1>7 DEF WriteAgrees, Carries, Running, Describes, Op
<1>9. Statement(w)
  BY <1>1, <1>3, <1>6, <1>8 DEF Statement, Carries, Quiet, Inv, InOrder, ReceiptStages
<1> QED BY <1>9, StatementKeeps

(* The receipt names the same node and audit row. *)
LEMMA InsertReceiptKeeps ==
    ASSUME Inv, NEW w \in Workers, InsertReceipt(w)
    PROVE  Inv'
<1> DEFINE in == repo[w].in
           row == [command |-> in.op, key |-> in.key, parent |-> in.parent, node |-> in.node,
                   name |-> in.name, result |-> repo[w].node, audit |-> repo[w].write.audit]
           write == [repo[w].write EXCEPT !.receipt = row]
           c == [write |-> write]
<1>1. Running(w) /\ OwnLocks(w) /\ Quiet /\ locks' = locks /\ repo[w].pc = "receipt_insert"
  BY SameOwn DEF InsertReceipt, At, Running, Quiet, Database, Others, Inv
<1>2. DOMAIN repo[w].write = DOMAIN NoWrite /\ repo[w].write.target = repo[w].node
  BY <1>1 DEF Inv, Shape, WritesAgree, WriteAgrees
<1>3. CASE Finish(w, "DATABASE", "NONE")
  BY <1>1, <1>3, FinishGivesUp
<1>4. CASE Advance(w, c)
  <2>1. /\ row.command = in.op /\ row.key = in.key
        /\ row.result = repo[w].node /\ row.audit = repo[w].write.audit
    OBVIOUS
  <2>2. row # NoReceipt
    BY DEF NoReceipt
  <2> HIDE DEF row
  <2>3. /\ DOMAIN write = DOMAIN NoWrite
        /\ write.receipt = row /\ write.target = repo[w].node
        /\ write.audit = repo[w].write.audit
    BY <1>2 DEF NoWrite
  <2>4. DOMAIN c = {"write"} /\ c["write"] = write
    OBVIOUS
  <2> HIDE DEF write, c
  <2>5. /\ Touches(w) /\ Carries(w) /\ repo'[w].pc = AfterStage(w)
        /\ repo'[w].write = write /\ repo'[w].node = repo[w].node
    BY <1>4, <2>4, AdvanceCarries DEF Inv
  <2>6. Op(w) \in OnceOps /\ repo'[w].pc = "recheck"
    BY <1>1, <2>5, StageOrder DEF Inv, InOrder, Follows
  <2>7. WriteAgrees(w)'
    BY <2>1, <2>2, <2>3, <2>5, <2>6 DEF WriteAgrees, Carries, Describes, Op
  <2>8. Statement(w)
    BY <1>1, <2>3, <2>5, <2>7 DEF Statement, Carries, Quiet, Inv, InOrder, ReceiptStages
  <2> QED BY <2>8, StatementKeeps
<1> QED BY <1>3, <1>4, Zenon DEF InsertReceipt
(* The last look at user and session, under locks held since their first. *)
LEMMA RecheckKeeps ==
    ASSUME Inv, NEW w \in Workers, Recheck(w)
    PROVE  Inv'
<1>1. Running(w) /\ OwnLocks(w) /\ Quiet /\ locks' = locks /\ repo[w].pc = "recheck"
  BY SameOwn DEF Recheck, At, Running, Quiet, Database, Others, Inv
<1>2. CASE Finish(w, "NOT_FOUND", "AUTH_REJECTED")
  BY <1>1, <1>2, FinishGivesUp
<1>3. CASE Advance(w, <<>>)
  <2>1. /\ Touches(w) /\ Carries(w) /\ repo'[w].pc = AfterStage(w)
        /\ repo'[w].write = repo[w].write /\ repo'[w].node = repo[w].node
    BY <1>3, AdvanceCarries DEF Inv
  <2>2. repo'[w].pc = "commit"
    BY <1>1, <2>1, StageOrder DEF Inv, InOrder, Follows
  <2>3. WriteAgrees(w)'
    BY <1>1, <2>1, <2>2 DEF WriteAgrees, Carries, Describes, Inv, WritesAgree
  <2>4. Statement(w)
    BY <1>1, <2>1, <2>3 DEF Statement, Carries, Quiet, Inv, InOrder, Shape, ReceiptStages
  <2> QED BY <2>4, StatementKeeps
<1> QED BY <1>2, <1>3 DEF Recheck

(* A failing statement may have ended the transaction at the server. *)
LEMMA StatementFailsKeeps ==
    ASSUME Inv, NEW w \in Workers, StatementFails(w)
    PROVE  Inv'
<1>1. Running(w) /\ Quiet /\ OwnLocks(w)
  BY DEF StatementFails, Running, Quiet, Database, Others, OwnLocks, LocksOf, Inv, Compatible
<1>2. PICK issue, began : Set(w, [pc |-> "cleanup", rc |-> "DATABASE", issue |-> issue,
                                  began |-> began])
  BY DEF StatementFails
<1> DEFINE c == [pc |-> "cleanup", rc |-> "DATABASE", issue |-> issue, began |-> began]
<1>3. Set(w, c) /\ DOMAIN c = {"pc", "rc", "issue", "began"} /\ c["pc"] = "cleanup"
  BY <1>2
<1> HIDE DEF c
<1> QED BY <1>1, <1>3, GivesUp

-----------------------------------------------------------------------------
(* The end of a call. *)

Ends(w) ==
    /\ At(w, "cleanup") /\ Touches(w) /\ repo'[w].pc = "idle"
    /\ repo'[w].in = repo[w].in /\ repo'[w].tx = repo[w].tx /\ repo'[w].node = repo[w].node
    /\ repo'[w].commit = repo[w].commit /\ repo'[w].effect = repo[w].effect
    /\ repo'[w].write = repo[w].write
    /\ \/ locks' = locks
       \/ locks' = locks \ LocksOf(repo[w].tx) /\ repo[w].commit = "NOT_COMMITTED"
    /\ \/ orphans' = orphans
       \/ /\ \E o : /\ orphans' = orphans \cup {o}
                   /\ o.tx = repo[w].tx /\ o.in = repo[w].in /\ o.sent = FALSE
          /\ repo[w].commit = "NOT_COMMITTED" /\ ~pending(w)'
          /\ repo'[w].released # "recycle" /\ locks' = locks
    /\ repo'[w].released # "none" => ~pending(w)'
    /\ repo'[w].released = "recycle" =>
         \/ repo[w].commit = "COMMITTED"
         \/ repo[w].commit = "NOT_COMMITTED" /\ locks' = locks \ LocksOf(repo[w].tx)
    /\ history' = history \cup Claims(w)
    /\ UNCHANGED <<receipts, session, calls>>
(* The end of a call keeps the invariant: what it answers is what WordTrue *)
(* and Receipted say of it.                                                *)
LEMMA EndsKeeps ==
    ASSUME Inv, NEW w \in Workers, Ends(w)
    PROVE  Inv'
<1>1. Shape'
  BY DEF Inv, Shape, Ends, Touches
<1>2. Numbered'
  <2>1. \A e \in history' : e.tx \in 1..calls
    BY DEF Ends, Claims, Inv, Numbered, At
  <2> QED BY <2>1 DEF Inv, Numbered, Ends, Touches, At
<1>3. Compatible'
  BY DEF Inv, Compatible, Ends
<1>4. InOrder'
  BY DEF Inv, InOrder, Ends, Touches, Running, Op, pending
<1>5. SessionHeld'
  BY DEF Inv, SessionHeld, Ends, Touches, Running, Judged, Numbered, SessionLock, Abandonment,
         LocksOf, At
<1>6. UserHeld' /\ KeyHeld'
  <2>1. \A v \in Workers : Running(v)' => v # w
    BY DEF Ends, Running
  <2>2. UserHeld'
    BY <2>1 DEF Inv, UserHeld, Ends, Touches, Running, Numbered, UserLock, Abandonment, LocksOf,
           At, Op
  <2>3. KeyHeld'
    BY <2>1 DEF Inv, KeyHeld, Ends, Touches, Running, Judged, Keyed, Receipt, Op
  <2> QED BY <2>2, <2>3
<1>7. WritesAgree'
  BY DEF Inv, WritesAgree, WriteAgrees, Ends, Touches, Running, InOrder, Op
<1>8. Abandonment'
  BY DEF Inv, Abandonment, Ends, Touches, At, pending, Numbered, WordTrue, Recycled
<1>9. WordTrue'
  <2>1. \A t : Done(t)' <=> Done(t)
    BY DEF Done, Ends, Claims
  <2>2. \A a \in history' : a.is = "answer" /\ a.commit = "NOT_COMMITTED" =>
          \A v \in Workers : repo'[v].tx = a.tx => repo'[v].pc = "idle"
    BY DEF Inv, WordTrue, Ends, Touches, Claims, Numbered, At
  <2> QED BY <2>1, <2>2 DEF Inv, WordTrue, Ends, Touches, LocksOf, Numbered
<1>10. Recycled'
  BY DEF Inv, Recycled, Ends, Touches, LocksOf, Abandonment, WordTrue, Numbered, At
<1>11. Receipted'
  <2>1. \A h : h.is = "commit" => (h \in history' <=> h \in history)
    BY DEF Ends, Claims
  <2> QED BY <2>1 DEF Inv, Receipted, Ends, Touches, CommitOf, Receipt, Op
<1>12. OnceEffect'
  <2>1. \A h : h.is = "commit" => (h \in history' <=> h \in history)
    BY DEF Ends, Claims
  <2>2. \A a \in history' : a \in history
          \/ /\ a.op = Op(w) /\ a.key = repo[w].in.key /\ a.effect = repo[w].effect
             /\ a.node = repo[w].node /\ a.audit = repo[w].write.audit
    BY DEF Ends, Claims
  <2> QED BY <2>1, <2>2 DEF Inv, OnceEffect, Receipted, CommitOf
<1>13. CommitReportTrue'
  <2>1. \A t : Done(t)' <=> Done(t)
    BY DEF Done, Ends, Claims
  <2>2. \A a \in history' : a \in history \/ (a.tx = repo[w].tx /\ a.commit = repo[w].commit)
    BY DEF Ends, Claims
  <2>3. \A o \in orphans' : o.sent => o \in orphans
    BY DEF Ends
  <2>4. repo[w].commit = "COMMITTED" => Done(repo[w].tx)
    BY DEF Inv, WordTrue
  <2>5. repo[w].commit = "NOT_COMMITTED" =>
          ~Done(repo[w].tx) /\ \A o \in orphans : ~(o.tx = repo[w].tx /\ o.sent)
    BY DEF Inv, WordTrue, Abandonment
  <2> QED BY <2>1, <2>2, <2>3, <2>4, <2>5 DEF Inv, CommitReportTrue, Done
<1> QED BY <1>1, <1>2, <1>3, <1>4, <1>5, <1>6, <1>7, <1>8, <1>9, <1>10, <1>11, <1>12, <1>13
        DEF Inv
(* Answer closes the call and changes nothing that identifies it. *)
LEMMA AnswerFields ==
    ASSUME Shape, NEW w \in Workers, NEW c, Answer(w, c),
           DOMAIN c \subseteq {"rollback", "released", "rc"}
    PROVE  /\ Touches(w)
           /\ repo'[w].pc = "idle" /\ repo'[w].lease = FALSE /\ repo'[w].statement = FALSE
           /\ repo'[w].in = repo[w].in /\ repo'[w].tx = repo[w].tx /\ repo'[w].node = repo[w].node
           /\ repo'[w].commit = repo[w].commit /\ repo'[w].effect = repo[w].effect
           /\ repo'[w].write = repo[w].write
           /\ "released" \in DOMAIN c => repo'[w].released = c["released"]
<1> DEFINE closed == [pc |-> "idle", connection |-> FALSE, lease |-> FALSE, statement |-> FALSE,
                      began |-> FALSE]
           next == With(repo[w], closed)
<1>1. repo' = [repo EXCEPT ![w] = With(next, c)]
  BY DEF Answer
<1>2. repo'[w] = With(next, c) /\ DOMAIN repo[w] = DOMAIN Fresh
  BY <1>1 DEF Shape
<1>3. DOMAIN next = DOMAIN Fresh
  BY <1>2 DEF With
<1>4. DOMAIN repo'[w] = DOMAIN Fresh
  BY <1>2, <1>3 DEF With
<1>5. /\ DOMAIN closed = {"pc", "connection", "lease", "statement", "began"}
      /\ closed["pc"] = "idle" /\ closed["lease"] = FALSE /\ closed["statement"] = FALSE
  OBVIOUS
<1>6. \A f \in DOMAIN Fresh : next[f] = IF f \in DOMAIN closed THEN closed[f] ELSE repo[w][f]
  <2> HIDE DEF closed
  <2> QED BY <1>2, WithFields
<1> HIDE DEF closed, next
<1>7. \A f \in DOMAIN Fresh : repo'[w][f] = IF f \in DOMAIN c THEN c[f] ELSE next[f]
  BY <1>2, <1>3, WithFields
<1>8. Touches(w)
  BY <1>1, <1>4 DEF Touches, Shape
<1> QED BY <1>5, <1>6, <1>7, <1>8 DEF Fresh
(* A cleanup that works: rolled back or committed, else not recycled. *)
LEMMA CleanupCallEnds ==
    ASSUME Inv, NEW w \in Workers, CleanupCall(w)
    PROVE  Ends(w)
<1> DEFINE rolled == RollsBack(w)
           c == [rollback |-> rolled, released |-> Release(w, rolled, TRUE)]
<1>1. /\ At(w, "cleanup") /\ Answer(w, c) /\ history' = history \cup Claims(w)
      /\ locks' = (IF rolled THEN locks \ LocksOf(repo[w].tx) ELSE locks)
      /\ orphans' = orphans /\ UNCHANGED <<receipts, session, calls>>
  BY DEF CleanupCall, Database, Others
<1>2. DOMAIN c = {"rollback", "released"} /\ c["released"] = Release(w, rolled, TRUE)
  OBVIOUS
<1>3. rolled => repo[w].commit = "NOT_COMMITTED"
  BY DEF RollsBack
<1>4. Release(w, rolled, TRUE) = "recycle" => repo[w].commit = "COMMITTED" \/ rolled
  BY DEF Release, Healthy
<1> HIDE DEF rolled, c
<1> QED BY <1>1, <1>2, <1>3, <1>4, AnswerFields DEF Inv, Ends, pending
(* A call that has not committed leaves at most one transaction behind. *)
LEMMA AbandonedOne ==
    ASSUME NEW w
    PROVE  \/ Abandoned(w) = {}
           \/ \E o : /\ Abandoned(w) = {o} /\ o.tx = repo[w].tx /\ o.in = repo[w].in
                    /\ o.sent = FALSE
                    /\ repo[w].commit = "NOT_COMMITTED" /\ LocksOf(repo[w].tx) # {}
<1> DEFINE o == [tx |-> repo[w].tx, in |-> repo[w].in, write |-> NoWrite, sent |-> FALSE]
<1>1. o.tx = repo[w].tx /\ o.in = repo[w].in /\ o.sent = FALSE
  OBVIOUS
<1>2. \/ Abandoned(w) = {}
      \/ /\ Abandoned(w) = {o}
         /\ repo[w].commit = "NOT_COMMITTED" /\ LocksOf(repo[w].tx) # {}
  BY DEF Abandoned
<1> HIDE DEF o
<1> QED BY <1>1, <1>2
(* A failed ROLLBACK leaves the transaction, unsent, to the server. *)
LEMMA RollbackFailsEnds ==
    ASSUME Inv, NEW w \in Workers, RollbackFails(w)
    PROVE  Ends(w)
<1> DEFINE c == [rc |-> IF repo[w].rc = "OK" THEN "DATABASE" ELSE repo[w].rc,
                 released |-> Release(w, FALSE, FALSE)]
<1>1. /\ At(w, "cleanup") /\ Answer(w, c) /\ history' = history \cup Claims(w)
      /\ repo[w].commit = "NOT_COMMITTED" /\ orphans' = orphans \cup Abandoned(w)
      /\ locks' = locks /\ UNCHANGED <<receipts, session, calls>>
  BY DEF RollbackFails, RollsBack, Database, Others
<1>2. DOMAIN c = {"rc", "released"} /\ c["released"] = Release(w, FALSE, FALSE)
  OBVIOUS
<1>3. Release(w, FALSE, FALSE) # "recycle"
  BY DEF Release, Healthy
<1>4. \/ Abandoned(w) = {}
      \/ \E o : Abandoned(w) = {o} /\ o.tx = repo[w].tx /\ o.in = repo[w].in /\ o.sent = FALSE
  BY AbandonedOne
<1> HIDE DEF c
<1> QED BY <1>1, <1>2, <1>3, <1>4, AnswerFields DEF Inv, Ends, pending
(* A cleanup that cannot give its statement or lease back keeps them. *)
LEMMA CleanupStuckEnds ==
    ASSUME Inv, NEW w \in Workers, CleanupStuck(w)
    PROVE  Ends(w)
<1>1. /\ At(w, "cleanup") /\ history' = history \cup Claims(w)
      /\ orphans' = orphans /\ UNCHANGED <<receipts, session, calls>>
  BY DEF CleanupStuck, Database, Others
<1>2. /\ locks' = locks \/ locks' = locks \ LocksOf(repo[w].tx)
      /\ locks' # locks => repo[w].commit = "NOT_COMMITTED"
  BY DEF CleanupStuck, RollsBack
<1>3. \E c : /\ Set(w, c) /\ "pc" \in DOMAIN c /\ c["pc"] = "idle"
             /\ DOMAIN c \subseteq {"pc", "statement", "rc", "rollback"}
  <2>1. CASE Set(w, [pc |-> "idle", statement |-> TRUE, rc |-> "DATABASE"])
    BY <2>1
  <2>2. CASE Set(w, [pc |-> "idle", rollback |-> RollsBack(w), rc |-> "DATABASE"])
    BY <2>2
  <2> QED BY <2>1, <2>2 DEF CleanupStuck
<1>4. PICK c : /\ Set(w, c) /\ "pc" \in DOMAIN c /\ c["pc"] = "idle"
               /\ DOMAIN c \subseteq {"pc", "statement", "rc", "rollback"}
  BY <1>3
<1>5. /\ Touches(w)
      /\ \A f \in DOMAIN Fresh : repo'[w][f] = IF f \in DOMAIN c THEN c[f] ELSE repo[w][f]
  BY <1>4, SetFields DEF Inv
<1>6. /\ repo'[w].pc = "idle" /\ repo'[w].released = repo[w].released
      /\ repo'[w].in = repo[w].in /\ repo'[w].tx = repo[w].tx /\ repo'[w].node = repo[w].node
      /\ repo'[w].commit = repo[w].commit /\ repo'[w].effect = repo[w].effect
      /\ repo'[w].write = repo[w].write
  BY <1>4, <1>5 DEF Fresh
<1>7. repo[w].released = "none"
  BY <1>1 DEF Inv, InOrder, At
<1> QED BY <1>1, <1>2, <1>5, <1>6, <1>7 DEF Ends

-----------------------------------------------------------------------------
(* The beginning of a call. *)
(* Every operation begins with its connection. *)
LEMMA FirstStage ==
    \A op \in DOMAIN Stages : \E i \in DOMAIN Stages[op] : Stages[op][i] = "acquire"
<1> SUFFICES ASSUME NEW op \in DOMAIN Stages
             PROVE  1 \in DOMAIN Stages[op] /\ Stages[op][1] = "acquire"
  OBVIOUS
<1> QED BY DEF Stages, ReadStages, ListStages, MkdirStages, MkdirOnceStages, MoveStages,
               MoveOnceStages, SoftDeleteStages, SoftDeleteOnceStages

(* A worker that is idle, or about to begin, with a number nobody has. *)
Starts(w) ==
    /\ repo[w].pc = "idle" /\ Touches(w)
    /\ repo'[w].pc \in {"idle", "acquire"}
    /\ repo'[w].pc = "idle" => repo'[w].tx = 0
    /\ repo'[w].pc = "acquire" => repo'[w].tx = calls' /\ calls' = calls + 1
    /\ repo'[w].pc = "acquire" => repo'[w].in.op \in DOMAIN Stages
    /\ repo'[w].in.key # "none" => repo'[w].in.op \in OnceOps
    /\ repo'[w].commit = "NOT_COMMITTED" /\ repo'[w].effect = "NONE"
    /\ repo'[w].released = "none" /\ repo'[w].write = NoWrite
    /\ calls' \in {calls, calls + 1}
    /\ \/ orphans' = orphans
       \/ \E o : /\ orphans' = orphans \cup {o} /\ o.tx = repo[w].tx /\ o.in = repo[w].in
                /\ o.sent = FALSE /\ repo[w].tx # 0
                /\ repo[w].commit = "NOT_COMMITTED" /\ pending(w)
    /\ UNCHANGED <<receipts, session, locks, history>>
(* A new transaction has a number that no lock, orphan or event carries. *)
LEMMA StartsKeeps ==
    ASSUME Inv, NEW w \in Workers, Starts(w)
    PROVE  Inv'
<1>1. Shape'
  BY DEF Inv, Shape, Starts, Touches
<1>2. Numbered'
  BY DEF Inv, Numbered, Starts, Touches, Shape
<1>3. Compatible' /\ Receipted' /\ OnceEffect'
  BY DEF Inv, Compatible, Receipted, CommitOf, OnceEffect, Receipt, Op, Starts, Touches
<1>4. InOrder'
  BY FirstStage DEF Inv, InOrder, Starts, Touches, Running, Op, pending
<1>5. SessionHeld'
  BY DEF Inv, SessionHeld, Starts, Touches, Running, Judged, Opening
<1>6. UserHeld' /\ KeyHeld'
  BY DEF Inv, UserHeld, KeyHeld, Starts, Touches, Running, Judged, Keyed, Opening, Early, Receipt,
         Op
<1>7. WritesAgree'
  BY DEF Inv, WritesAgree, WriteAgrees, Starts, Touches, Running, InOrder, Op, NoWrite
<1>8. Abandonment'
  <2>1. \A o \in orphans', v \in Workers \ {w} : repo'[v].tx = o.tx =>
          \/ repo'[v].commit = "UNKNOWN"
          \/ /\ repo'[v].commit = "NOT_COMMITTED" /\ ~o.sent
             /\ repo'[v].pc = "idle" /\ ~pending(v)'
             /\ repo'[v].released # "recycle"
    BY DEF Inv, Abandonment, Starts, Touches, pending, Numbered
  <2>2. \A o \in orphans' : repo'[w].tx # o.tx
    BY DEF Inv, Numbered, Starts, Shape
  <2>3. \A o, q \in orphans' : o.tx = q.tx => o = q
    BY DEF Inv, Abandonment, Starts
  <2> QED BY <2>1, <2>2, <2>3 DEF Abandonment
<1>9. WordTrue'
  <2>1. ~Done(repo[w].tx)'
    BY DEF Inv, Numbered, Starts, Shape, Done
  <2>2. \A a \in history' : repo'[w].tx # a.tx
    BY DEF Inv, Numbered, Starts, Shape
  <2> QED BY <2>1, <2>2 DEF Inv, WordTrue, Starts, Touches, LocksOf, Done
<1>10. Recycled'
  BY DEF Inv, Recycled, Starts, Touches, LocksOf, Numbered
<1>11. CommitReportTrue'
  <2>1. \A o \in orphans' : o.sent => o \in orphans
    BY DEF Starts
  <2> QED BY <2>1 DEF Inv, CommitReportTrue, Starts
<1> QED BY <1>1, <1>2, <1>3, <1>4, <1>5, <1>6, <1>7, <1>8, <1>9, <1>10, <1>11 DEF Inv
(* A call that is accepted or refused. *)
LEMMA CallStarts ==
    ASSUME Inv, NEW w \in Workers, NEW in \in Inputs, Call(w, in)
    PROVE  Starts(w)
<1> DEFINE refused == [Fresh EXCEPT !.rc = Refusal(in)]
           begun == [Fresh EXCEPT !.pc = "acquire", !.in = in, !.tx = calls + 1]
<1>1. /\ DOMAIN refused = DOMAIN Fresh /\ refused.pc = "idle" /\ refused.tx = 0
      /\ refused.in.key = "none" /\ refused.commit = "NOT_COMMITTED" /\ refused.effect = "NONE"
      /\ refused.released = "none" /\ refused.write = NoWrite
  BY DEF Fresh
<1>2. /\ DOMAIN begun = DOMAIN Fresh /\ begun.pc = "acquire" /\ begun.tx = calls + 1
      /\ begun.in = in /\ begun.commit = "NOT_COMMITTED" /\ begun.effect = "NONE"
      /\ begun.released = "none" /\ begun.write = NoWrite
  BY DEF Fresh
<1>3. /\ repo[w].pc = "idle" /\ calls' = calls + 1 /\ orphans' = orphans
      /\ repo' = [repo EXCEPT ![w] = IF Refusal(in) # "OK" THEN refused ELSE begun]
      /\ UNCHANGED <<receipts, session, locks, history>>
  BY Zenon DEF Call, At, Database
<1> HIDE DEF refused, begun
<1>4. Touches(w) /\ repo'[w] \in {refused, begun}
  BY <1>1, <1>2, <1>3 DEF Inv, Shape, Touches
<1> QED BY <1>1, <1>2, <1>3, <1>4, InputsAssumption DEF Starts
(* Destroying a repository that still has a lease abandons its transaction. *)
LEMMA DestroyStarts ==
    ASSUME Inv, NEW w \in Workers, Destroy(w)
    PROVE  Starts(w)
<1>1. /\ repo[w].pc = "idle" /\ pending(w) /\ orphans' = orphans \cup Abandoned(w)
      /\ repo' = [repo EXCEPT ![w] = Fresh]
      /\ UNCHANGED <<receipts, session, locks, history, calls>>
  BY DEF Destroy, At, Database, Others
<1>2. Touches(w) /\ repo'[w] = Fresh
  BY <1>1 DEF Inv, Shape, Touches
<1>3. /\ Fresh.pc = "idle" /\ Fresh.tx = 0 /\ Fresh.in.key = "none"
      /\ Fresh.commit = "NOT_COMMITTED" /\ Fresh.effect = "NONE"
      /\ Fresh.released = "none" /\ Fresh.write = NoWrite
  BY DEF Fresh
<1>4. LocksOf(repo[w].tx) # {} => repo[w].tx # 0
  BY DEF LocksOf, Inv, Numbered
<1> QED BY <1>1, <1>2, <1>3, <1>4, AbandonedOne DEF Starts

(* A repository that keeps a lease answers BUSY and changes nothing else. *)
LEMMA CallBusyKeeps ==
    ASSUME Inv, NEW w \in Workers, CallBusy(w)
    PROVE  Inv'
<1>1. Touches(w) /\ repo[w].pc = "idle" /\ DOMAIN repo'[w].write = DOMAIN NoWrite
  BY SetFields DEF CallBusy, At, Inv, Shape, Fresh
<1>2. /\ repo'[w].pc = repo[w].pc /\ repo'[w].tx = repo[w].tx /\ repo'[w].in = repo[w].in
      /\ repo'[w].commit = repo[w].commit /\ repo'[w].effect = repo[w].effect
      /\ repo'[w].released = repo[w].released /\ repo'[w].write = repo[w].write
      /\ repo'[w].node = repo[w].node
      /\ repo'[w].statement = repo[w].statement /\ repo'[w].lease = repo[w].lease
  BY SetFields DEF CallBusy, Inv, Fresh
<1>3. UNCHANGED <<receipts, session, locks, orphans, history, calls>>
  BY DEF CallBusy, Database, Others
<1>4. Shape' /\ Numbered'
  BY <1>1, <1>2, <1>3 DEF Inv, Shape, Numbered, Touches
<1>5. Compatible' /\ Receipted' /\ OnceEffect' /\ CommitReportTrue'
  BY <1>1, <1>2, <1>3
     DEF Inv, Compatible, Receipted, CommitOf, OnceEffect, CommitReportTrue, Receipt, Op, Touches
<1>6. InOrder' /\ Abandonment'
  BY <1>1, <1>2, <1>3 DEF Inv, InOrder, Abandonment, Touches, Running, Op, pending
<1>7. UserHeld' /\ SessionHeld' /\ KeyHeld'
  BY <1>1, <1>2, <1>3
     DEF Inv, UserHeld, SessionHeld, KeyHeld, Touches, Running, Judged, Keyed, Receipt, Op
<1>8. WritesAgree'
  BY <1>1, <1>2, <1>3 DEF Inv, WritesAgree, WriteAgrees, Touches, Running
<1>9. WordTrue' /\ Recycled'
  BY <1>1, <1>2, <1>3 DEF Inv, WordTrue, Recycled, Touches, LocksOf, Done
<1> QED BY <1>4, <1>5, <1>6, <1>7, <1>8, <1>9 DEF Inv

-----------------------------------------------------------------------------
(* A transaction takes effect, by the call's COMMIT or at the server. *)

Lands(t, in, write) ==
    /\ receipts' = IF write.receipt = NoReceipt THEN receipts ELSE receipts \cup {write.receipt}
    /\ locks' = locks \ LocksOf(t)
    /\ history' = history \cup {Committed(t, in, write)}
    /\ UNCHANGED <<session, calls>>

(* What that leaves of the keys, the locks and the history. *)
Landed(t, in, write) ==
    /\ \A u, op : u # t /\ UserLock(u, op) \in locks => UserLock(u, op) \in locks'
    /\ \A u, op, key : u # t /\ UserLock(u, op) \in locks /\ op \in OnceOps
                       /\ Receipt(op, key) = {} => Receipt(op, key)' = {}
    /\ \A u : u # t /\ SessionLock(u) \in locks => SessionLock(u) \in locks'
    /\ \A op, key, node, audit :
         CommitOf(op, key, node, audit) => CommitOf(op, key, node, audit)'
    /\ CommitOf(in.op, in.key, write.target, write.audit)'
    /\ \A r \in receipts' : CommitOf(r.command, r.key, r.result, r.audit)'
    /\ \A h \in history' : h.is = "commit" /\ h.key # "none" => Receipt(h.op, h.key)' # {}
    /\ OnceEffect'
    /\ \A u : Done(u)' <=> Done(u) \/ u = t
    /\ \A u : LocksOf(u) = {} => LocksOf(u)' = {}
    /\ LocksOf(t)' = {}
    /\ \A a : a.is = "answer" => (a \in history' <=> a \in history)
    /\ Compatible'
    /\ \A l \in locks' : l \in locks
    /\ \A h \in history' : h \in history \/ h.tx = t
(* The missing receipt makes the new commit the first of its key; no other *)
(* transaction that found its receipt missing is under way beside it, for  *)
(* both would hold the user row exclusively.                               *)
LEMMA LandsFacts ==
    ASSUME Inv, NEW t \in 1..calls, NEW in, NEW write, Lands(t, in, write), Describes(in, write),
           in.key # "none" => in.op \in OnceOps,
           UserLock(t, in.op) \in locks, in.op \in OnceOps => Receipt(in.op, in.key) = {}
    PROVE  Landed(t, in, write)
<1> DEFINE new == Committed(t, in, write)
<1>1. /\ new.is = "commit" /\ new.tx = t /\ new.op = in.op /\ new.key = in.key
      /\ new.node = write.target /\ new.audit = write.audit
  BY DEF Committed
<1>2. history' = history \cup {new} /\ locks' = locks \ LocksOf(t)
  BY DEF Lands
<1>3. \A r \in receipts' : r \in receipts
          \/ /\ r.command = in.op /\ r.key = in.key /\ in.op \in OnceOps
             /\ r.result = write.target /\ r.audit = write.audit
  BY DEF Lands, Describes
<1>4. receipts \subseteq receipts'
  BY DEF Lands
<1>5. in.op \in OnceOps => \E r \in receipts' : r.command = in.op /\ r.key = in.key
  BY DEF Lands, Describes
<1> HIDE DEF new
<1>6. ASSUME NEW u, NEW op, NEW key, u # t, UserLock(u, op) \in locks, op \in OnceOps,
             Receipt(op, key) = {}
      PROVE  Receipt(op, key)' = {}
  <2>1. in.op \notin OnceOps
    BY <1>6 DEF Inv, Compatible, UserLock, SharedOps, OnceOps
  <2>2. receipts' = receipts
    BY <2>1 DEF Lands, Describes
  <2> QED BY <1>6, <2>2 DEF Receipt
<1>7. /\ \A u : u # t /\ SessionLock(u) \in locks => SessionLock(u) \in locks'
      /\ \A u, op : u # t /\ UserLock(u, op) \in locks => UserLock(u, op) \in locks'
  BY <1>2 DEF SessionLock, UserLock, LocksOf
<1>8. \A op, key, node, audit : CommitOf(op, key, node, audit) => CommitOf(op, key, node, audit)'
  BY <1>2 DEF CommitOf
<1>9. CommitOf(in.op, in.key, write.target, write.audit)'
  BY <1>1, <1>2 DEF CommitOf
<1>10. \A r \in receipts' : CommitOf(r.command, r.key, r.result, r.audit)'
  BY <1>3, <1>8, <1>9 DEF Inv, Receipted
<1>11. \A h \in history' : h.is = "commit" /\ h.key # "none" => Receipt(h.op, h.key)' # {}
  <2>1. in.key # "none" => Receipt(in.op, in.key)' # {}
    BY <1>5 DEF Receipt
  <2>2. \A op, key : Receipt(op, key) # {} => Receipt(op, key)' # {}
    BY <1>4 DEF Receipt
  <2> QED BY <1>1, <1>2, <2>1, <2>2 DEF Inv, Receipted
<1>12. OnceEffect'
  <2>1. \A h \in history : h.is = "commit" /\ h.key # "none" => ~(h.op = in.op /\ h.key = in.key)
    BY DEF Inv, Receipted
  <2>2. \A g, h \in {x \in history' : x.is = "commit" /\ x.key # "none"} :
          g.op = h.op /\ g.key = h.key => g = h
    BY <1>1, <1>2, <2>1 DEF Inv, OnceEffect
  <2>3. \A a \in {x \in history' : x.is = "answer" /\ x.effect # "NONE"} :
          \E h \in history' : /\ h.is = "commit" /\ h.op = a.op /\ h.key = a.key
                              /\ h.node = a.node /\ h.audit = a.audit
    BY <1>1, <1>2 DEF Inv, OnceEffect
  <2> QED BY <2>2, <2>3 DEF OnceEffect
<1>13. \A u : Done(u)' <=> Done(u) \/ u = t
  BY <1>1, <1>2 DEF Done
<1>14. (\A u : LocksOf(u) = {} => LocksOf(u)' = {}) /\ LocksOf(t)' = {}
  BY <1>2 DEF LocksOf
<1>15. \A a : a.is = "answer" => (a \in history' <=> a \in history)
  BY <1>1, <1>2
<1>16. Compatible' /\ \A l \in locks' : l \in locks
  BY <1>2 DEF Inv, Compatible
<1>17. \A h \in history' : h \in history \/ h.tx = t
  BY <1>1, <1>2
<1> QED BY <1>6, <1>7, <1>8, <1>9, <1>10, <1>11, <1>12, <1>13, <1>14, <1>15, <1>16, <1>17
        DEF Landed
(* A COMMIT with its reply. *)
LEMMA CommitKeeps ==
    ASSUME Inv, NEW w \in Workers, Commit(w)
    PROVE  Inv'
<1> DEFINE t == repo[w].tx
           in == repo[w].in
           write == repo[w].write
           c == [commit |-> "COMMITTED", effect |-> EffectOf(Op(w))]
<1>1. /\ repo[w].pc = "commit" /\ Running(w) /\ (in.op \in OnceOps => Keyed(w))
      /\ t \in 1..calls /\ repo[w].commit = "NOT_COMMITTED" /\ repo[w].released = "none"
      /\ write.target = repo[w].node
  BY DEF Commit, At, Inv, Numbered, Running, Keyed, Judged, Opening, ReceiptStages, Op, InOrder,
         WritesAgree, WriteAgrees
<1>2. Lands(t, in, write) /\ Advance(w, c) /\ orphans' = orphans
  BY DEF Commit, Apply, Lands
<1>3. Describes(in, write) /\ (in.key # "none" => in.op \in OnceOps)
  BY <1>1 DEF Inv, WritesAgree, WriteAgrees, InOrder, Op
<1>4. UserLock(t, in.op) \in locks /\ (in.op \in OnceOps => Receipt(in.op, in.key) = {})
  BY <1>1 DEF Inv, UserHeld, KeyHeld, Op, Early
<1>5. AfterStage(w) = "cleanup"
  BY <1>1, StageOrder DEF Inv, InOrder, Follows
<1>6. DOMAIN c = {"commit", "effect"} /\ c["commit"] = "COMMITTED"
  OBVIOUS
<1>7. /\ Touches(w)
      /\ \A f \in DOMAIN Fresh : repo'[w][f] = IF f \in DOMAIN c THEN c[f]
                                               ELSE IF f = "pc" THEN AfterStage(w) ELSE repo[w][f]
  BY <1>2, AdvanceFields DEF Inv
<1> HIDE DEF c
<1>8. /\ repo'[w].pc = "cleanup" /\ repo'[w].commit = "COMMITTED"
      /\ repo'[w].in = in /\ repo'[w].tx = t /\ repo'[w].node = repo[w].node
      /\ repo'[w].write = write /\ repo'[w].released = "none"
  BY <1>1, <1>5, <1>6, <1>7 DEF Fresh
<1>9. \A v \in Workers \ {w} : repo'[v] = repo[v] /\ repo[v].tx # t
  BY <1>1, <1>7 DEF Inv, Numbered, Touches
<1>10. \A o \in orphans : o.tx # t
  BY <1>1 DEF Inv, Abandonment
<1> HIDE DEF t, in, write
<1>11. Landed(t, in, write)
  BY <1>1, <1>2, <1>3, <1>4, LandsFacts
<1>12. Shape'
  BY <1>2, <1>7, <1>8, <1>9 DEF Inv, Shape, Touches, Lands, write
<1>13. Numbered'
  BY <1>1, <1>2, <1>8, <1>9, <1>11 DEF Inv, Numbered, Lands, Landed, t
<1>14. InOrder'
  BY <1>1, <1>8, <1>9 DEF Inv, InOrder, Running, Op, pending, in
<1>15. SessionHeld'
  BY <1>2, <1>8, <1>9, <1>10, <1>11 DEF Inv, SessionHeld, Running, Judged, Lands, Landed
<1>16. UserHeld' /\ KeyHeld'
  <2>1. UserHeld'
    BY <1>2, <1>8, <1>9, <1>10, <1>11 DEF Inv, UserHeld, Running, Op, Landed
  <2>2. KeyHeld'
    BY <1>2, <1>8, <1>9, <1>10, <1>11
       DEF Inv, UserHeld, KeyHeld, Running, Judged, Keyed, Op, Landed, Opening, Early
  <2> QED BY <2>1, <2>2
<1>17. WritesAgree'
  BY <1>2, <1>8, <1>9 DEF Inv, WritesAgree, WriteAgrees, Running
<1>18. Abandonment'
  BY <1>2, <1>8, <1>9, <1>10 DEF Inv, Abandonment, pending
<1>19. WordTrue'
  BY <1>1, <1>8, <1>9, <1>11 DEF Inv, WordTrue, Landed, t
<1>20. Recycled'
  BY <1>2, <1>8, <1>9, <1>11 DEF Inv, Recycled, Landed
<1>21. Receipted'
  BY <1>1, <1>8, <1>9, <1>11 DEF Inv, Receipted, Op, Landed, in, write
<1>22. CommitReportTrue'
  <2>1. \A a \in history : a.is = "answer" /\ a.commit = "NOT_COMMITTED" => a.tx # t
    BY <1>1 DEF Inv, WordTrue, t
  <2> QED BY <1>2, <1>11, <2>1 DEF Inv, CommitReportTrue, Done, Landed
<1> QED BY <1>11, <1>12, <1>13, <1>14, <1>15, <1>16, <1>17, <1>18, <1>19, <1>20, <1>21, <1>22
        DEF Inv, Landed

(* The server may still commit: everything the call held passes to it. *)
LEMMA CommitUnknownKeeps ==
    ASSUME Inv, NEW w \in Workers, CommitUnknown(w)
    PROVE  Inv'
<1> DEFINE new == [tx |-> repo[w].tx, in |-> repo[w].in, write |-> repo[w].write, sent |-> TRUE]
           c == [pc |-> "cleanup", commit |-> "UNKNOWN", rc |-> "IO"]
<1>1. /\ repo[w].pc = "commit" /\ Running(w) /\ Judged(w) /\ (Op(w) \in OnceOps => Keyed(w))
      /\ repo[w].tx \in 1..calls /\ repo[w].commit = "NOT_COMMITTED"
      /\ repo[w].released = "none" /\ repo[w].effect = "NONE"
  BY DEF CommitUnknown, At, Inv, Numbered, Running, Keyed, Judged, Opening, ReceiptStages, InOrder
<1>2. /\ orphans' = orphans \cup {new} /\ Set(w, c)
      /\ UNCHANGED <<receipts, session, locks, history, calls>>
  BY DEF CommitUnknown, Database, Others
<1>3. DOMAIN c = {"pc", "commit", "rc"} /\ c["pc"] = "cleanup" /\ c["commit"] = "UNKNOWN"
  OBVIOUS
<1>4. /\ new.tx = repo[w].tx /\ new.in = repo[w].in /\ new.write = repo[w].write
      /\ new.sent = TRUE
  OBVIOUS
<1> HIDE DEF c, new
<1>5. /\ Touches(w)
      /\ \A f \in DOMAIN Fresh : repo'[w][f] = IF f \in DOMAIN c THEN c[f] ELSE repo[w][f]
  BY <1>2, SetFields DEF Inv
<1>6. /\ repo'[w].pc = "cleanup" /\ repo'[w].commit = "UNKNOWN"
      /\ repo'[w].in = repo[w].in /\ repo'[w].tx = repo[w].tx /\ repo'[w].node = repo[w].node
      /\ repo'[w].write = repo[w].write /\ repo'[w].released = "none"
      /\ repo'[w].effect = "NONE"
  BY <1>1, <1>3, <1>5 DEF Fresh
<1>7. \A v \in Workers \ {w} : repo'[v] = repo[v] /\ repo[v].tx # repo[w].tx
  BY <1>1, <1>5 DEF Inv, Numbered, Touches
<1>8. \A o \in orphans : o.tx # repo[w].tx
  BY <1>1 DEF Inv, Abandonment
<1>9. Shape' /\ Numbered'
  BY <1>1, <1>2, <1>4, <1>5, <1>6, <1>7 DEF Inv, Shape, Numbered, Touches
<1>10. Compatible' /\ OnceEffect'
  BY <1>2 DEF Inv, Compatible, OnceEffect
<1>11. InOrder'
  BY <1>6, <1>7 DEF Inv, InOrder, Running, Op, pending
<1>12. SessionHeld'
  BY <1>1, <1>2, <1>4, <1>6, <1>7 DEF Inv, SessionHeld, Running, Judged
<1>13. UserHeld' /\ KeyHeld'
  BY <1>1, <1>2, <1>4, <1>6, <1>7
     DEF Inv, UserHeld, KeyHeld, Running, Judged, Keyed, Op, Receipt, Early
<1>14. WritesAgree'
  BY <1>1, <1>2, <1>4, <1>6, <1>7 DEF Inv, WritesAgree, WriteAgrees, Running, InOrder, Op
<1>15. Abandonment'
  BY <1>2, <1>4, <1>6, <1>7, <1>8 DEF Inv, Abandonment, pending
<1>16. WordTrue'
  BY <1>1, <1>2, <1>6, <1>7 DEF Inv, WordTrue, Done, LocksOf
<1>17. Recycled'
  BY <1>2, <1>4, <1>6, <1>7 DEF Inv, Recycled, LocksOf
<1>18. Receipted'
  BY <1>2, <1>6, <1>7 DEF Inv, Receipted, CommitOf, Receipt, Op
<1>19. CommitReportTrue'
  <2>1. \A a \in history : a.is = "answer" /\ a.commit = "NOT_COMMITTED" => a.tx # repo[w].tx
    BY <1>1 DEF Inv, WordTrue
  <2> QED BY <1>2, <1>4, <2>1 DEF Inv, CommitReportTrue
<1> QED BY <1>9, <1>10, <1>11, <1>12, <1>13, <1>14, <1>15, <1>16, <1>17, <1>18, <1>19 DEF Inv
(* The server carries out a COMMIT whose reply was lost. *)
LEMMA OrphanCommitsKeeps ==
    ASSUME Inv, OrphanCommits
    PROVE  Inv'
<1>1. PICK o \in orphans : /\ o.sent /\ Lands(o.tx, o.in, o.write) /\ orphans' = orphans \ {o}
                           /\ repo' = repo
  BY DEF OrphanCommits, Apply, Lands, Others
<1>2. Landed(o.tx, o.in, o.write)
  <2>1. o.tx \in 1..calls /\ Describes(o.in, o.write)
        /\ (o.in.key # "none" => o.in.op \in OnceOps)
    BY <1>1 DEF Inv, Numbered, WritesAgree
  <2>2. UserLock(o.tx, o.in.op) \in locks
        /\ (o.in.op \in OnceOps => Receipt(o.in.op, o.in.key) = {})
    BY <1>1 DEF Inv, UserHeld, KeyHeld
  <2> QED BY <1>1, <2>1, <2>2, LandsFacts
<1>3. \A q \in orphans' : q \in orphans /\ q.tx # o.tx
  BY <1>1 DEF Inv, Abandonment
<1>4. \A w \in Workers : repo[w].tx = o.tx => repo[w].commit = "UNKNOWN"
  BY <1>1 DEF Inv, Abandonment
<1>5. \A w \in Workers : Running(w) => repo[w].tx # o.tx
  BY <1>4 DEF Inv, InOrder
<1>6. Shape'
  BY <1>1 DEF Inv, Shape, Lands
<1>7. Numbered'
  BY <1>1, <1>2 DEF Inv, Numbered, Lands, Landed
<1>8. InOrder'
  BY <1>1 DEF Inv, InOrder, Running, Op, pending
<1>9. SessionHeld'
  BY <1>1, <1>2, <1>3, <1>5 DEF Inv, SessionHeld, Running, Judged, Lands, Landed
<1>10. UserHeld' /\ KeyHeld'
  <2>1. UserHeld'
    BY <1>1, <1>2, <1>3, <1>5 DEF Inv, UserHeld, Running, Op, Landed
  <2>2. KeyHeld'
    BY <1>1, <1>2, <1>3, <1>5
       DEF Inv, UserHeld, KeyHeld, Running, Judged, Keyed, Op, Landed, Opening, Early
  <2> QED BY <2>1, <2>2
<1>11. WritesAgree'
  BY <1>1 DEF Inv, WritesAgree, WriteAgrees, Running
<1>12. Abandonment'
  BY <1>1 DEF Inv, Abandonment, pending
<1>13. WordTrue'
  BY <1>1, <1>2, <1>4 DEF Inv, WordTrue, Landed
<1>14. Recycled'
  BY <1>1, <1>2 DEF Inv, Recycled, Landed
<1>15. Receipted'
  BY <1>1, <1>2 DEF Inv, Receipted, Op, Landed
<1>16. CommitReportTrue'
  <2>1. \A a \in history : a.is = "answer" /\ a.commit = "NOT_COMMITTED" => a.tx # o.tx
    BY <1>1 DEF Inv, CommitReportTrue
  <2> QED BY <1>2, <1>3, <2>1 DEF Inv, CommitReportTrue, Done, Landed
<1> QED BY <1>2, <1>6, <1>7, <1>8, <1>9, <1>10, <1>11, <1>12, <1>13, <1>14, <1>15, <1>16
        DEF Inv, Landed
(* The server gives a transaction up. *)
LEMMA OrphanRollsBackKeeps ==
    ASSUME Inv, OrphanRollsBack
    PROVE  Inv'
<1>1. PICK o \in orphans : /\ locks' = locks \ LocksOf(o.tx) /\ orphans' = orphans \ {o}
                           /\ repo' = repo
                           /\ UNCHANGED <<receipts, session, calls, history>>
  BY DEF OrphanRollsBack, Database, Others
<1>2. \A q \in orphans' : q \in orphans /\ q.tx # o.tx
  BY <1>1 DEF Inv, Abandonment
<1>3. \A w \in Workers : Running(w) => repo[w].tx # o.tx
  BY <1>1 DEF Inv, Abandonment, InOrder, Running
<1>4. Shape' /\ Numbered' /\ Compatible' /\ InOrder'
  BY <1>1 DEF Inv, Shape, Numbered, Compatible, InOrder, Running, Op, pending
<1>5. SessionHeld'
  BY <1>1, <1>2, <1>3 DEF Inv, SessionHeld, Judged, Running, SessionLock, LocksOf
<1>6. UserHeld' /\ KeyHeld'
  BY <1>1, <1>2, <1>3
     DEF Inv, UserHeld, KeyHeld, Keyed, Judged, Running, UserLock, LocksOf, Receipt, Op
<1>7. WritesAgree' /\ Abandonment'
  BY <1>1 DEF Inv, WritesAgree, WriteAgrees, Running, Abandonment, pending
<1>8. WordTrue' /\ Recycled' /\ Receipted'
  BY <1>1 DEF Inv, WordTrue, Recycled, Receipted, Done, LocksOf, CommitOf, Receipt, Op
<1>9. OnceEffect' /\ CommitReportTrue'
  BY <1>1 DEF Inv, OnceEffect, CommitReportTrue
<1> QED BY <1>4, <1>5, <1>6, <1>7, <1>8, <1>9 DEF Inv

(* Logout waits for the user and the session row, so no transaction that   *)
(* was judged is open when it takes effect.                                *)
LEMMA RevokeSessionKeeps ==
    ASSUME Inv, RevokeSession
    PROVE  Inv'
<1>1. UNCHANGED <<receipts, locks, orphans, repo, calls, history>>
  BY DEF RevokeSession, Database
<1>2. \A t : SessionLock(t) \notin locks
  BY DEF RevokeSession, SessionLock
<1>3. SessionHeld'
  BY <1>1, <1>2 DEF Inv, SessionHeld, Judged, Running
<1> QED BY <1>1, <1>3 DEF Inv, Shape, Numbered, Compatible, InOrder, UserHeld, KeyHeld, WritesAgree,
        WriteAgrees, Abandonment, WordTrue, Recycled, Receipted, OnceEffect, CommitReportTrue,
        Running, Judged, Keyed, Op, pending, Receipt, Done, LocksOf, CommitOf
(* Disabling the user waits for its row, which every judged transaction    *)
(* holds.                                                                  *)
LEMMA DisableUserKeeps ==
    ASSUME Inv, DisableUser
    PROVE  Inv'
<1>1. UNCHANGED <<receipts, locks, orphans, repo, calls, history>>
  BY DEF DisableUser, Database
<1>2. \A t, op : UserLock(t, op) \notin locks
  BY DEF DisableUser, UserLock
<1>3. SessionHeld'
  BY <1>1, <1>2 DEF Inv, UserHeld, SessionHeld, Judged, Running, Opening, Early
<1> QED BY <1>1, <1>3 DEF Inv, Shape, Numbered, Compatible, InOrder, UserHeld, KeyHeld, WritesAgree,
        WriteAgrees, Abandonment, WordTrue, Recycled, Receipted, OnceEffect, CommitReportTrue,
        Running, Judged, Keyed, Op, pending, Receipt, Done, LocksOf, CommitOf
(* Time, names and faults do not matter to the invariant. *)
LEMMA StutterKeeps ==
    ASSUME Inv, UNCHANGED <<receipts, session, locks, orphans, repo, calls, history>>
    PROVE  Inv'
BY DEF Inv, Shape, Numbered, Compatible, InOrder, UserHeld, SessionHeld, KeyHeld, WritesAgree,
       WriteAgrees, Abandonment, WordTrue, Recycled, Receipted, OnceEffect, CommitReportTrue,
       Running, Judged, Keyed, Op, pending, Receipt, Done, LocksOf, CommitOf

-----------------------------------------------------------------------------
(* The invariant and what follows from it. *)
(* Every step keeps the invariant. *)
LEMMA NextKeeps ==
    ASSUME Inv, [Next]_vars
    PROVE  Inv'
<1>1. CASE UNCHANGED vars
  BY <1>1, StutterKeeps DEF vars
<1>2. CASE Expire
  BY <1>2, StutterKeeps DEF Expire, Database
<1>3. CASE OrphanCommits \/ OrphanRollsBack \/ RevokeSession \/ DisableUser
  BY <1>3, OrphanCommitsKeeps, OrphanRollsBackKeeps, RevokeSessionKeeps, DisableUserKeeps
<1>4. ASSUME NEW w \in Workers, NEW in \in Inputs, Call(w, in)
      PROVE  Inv'
  BY <1>4, CallStarts, StartsKeeps
<1>5. ASSUME NEW w \in Workers,
             LockMkdirReceipt(w) \/ LockMoveReceipt(w) \/ LockNodeRemoveReceipt(w)
      PROVE  Inv'
  BY <1>5, ReceiptsKeep
<1>6. ASSUME NEW w \in Workers, CleanupCall(w) \/ RollbackFails(w) \/ CleanupStuck(w)
      PROVE  Inv'
  BY <1>6, CleanupCallEnds, RollbackFailsEnds, CleanupStuckEnds, EndsKeeps
<1>7. ASSUME NEW w \in Workers, Destroy(w)
      PROVE  Inv'
  BY <1>7, DestroyStarts, StartsKeeps
<1> QED
  BY <1>1, <1>2, <1>3, <1>4, <1>5, <1>6, <1>7,
     CallBusyKeeps, AcquireKeeps, AcquireFailsKeeps, BeginKeeps, UserKeeps, LockSessionKeeps,
     LockNodeKeeps, LockChildrenKeeps,
     LockMkdirParentKeeps, LockMkdirNameKeeps, LockMoveSourceKeeps, LockMoveTargetKeeps,
     WalkMoveChainsKeeps, LockMoveNameKeeps, UpdateMoveKeeps, LockDeleteSourceKeeps,
     WalkDeleteChainKeeps, LockDeleteChildrenKeeps, LockDeleteObjectKeeps, DeleteNothingKeeps,
     DeleteUpdateKeeps, ObjectUpdateKeeps, CaptureUtcKeeps, InsertNodeKeeps, InsertAuditKeeps,
     InsertReceiptKeeps, RecheckKeeps, CommitKeeps, CommitUnknownKeeps, StatementFailsKeeps
     DEF Next

(* The inductive invariant of the directory transactions holds. *)
THEOREM Invariance == Spec => []Inv
<1>1. Init => Inv
  <2> SUFFICES ASSUME Init
               PROVE  Inv
    OBVIOUS
  <2>1. /\ receipts = {} /\ locks = {} /\ orphans = {} /\ history = {} /\ calls = 0
        /\ repo = [w \in Workers |-> Fresh]
    BY DEF Init
  <2>2. /\ Fresh.pc = "idle" /\ Fresh.tx = 0 /\ Fresh.in.key = "none"
        /\ Fresh.commit = "NOT_COMMITTED" /\ Fresh.effect = "NONE"
        /\ Fresh.released = "none" /\ Fresh.write = NoWrite
    BY DEF Fresh
  <2>3. Shape /\ Numbered /\ Compatible /\ InOrder
    BY <2>1, <2>2 DEF Shape, Numbered, Compatible, InOrder, Running
  <2>4. UserHeld /\ SessionHeld /\ KeyHeld /\ WritesAgree
    BY <2>1, <2>2 DEF UserHeld, SessionHeld, KeyHeld, WritesAgree, WriteAgrees, Running, Judged, Keyed
  <2>5. Abandonment /\ WordTrue /\ Recycled /\ Receipted
    BY <2>1, <2>2 DEF Abandonment, WordTrue, Recycled, Receipted, Done
  <2>6. OnceEffect /\ CommitReportTrue
    BY <2>1 DEF OnceEffect, CommitReportTrue
  <2> QED BY <2>3, <2>4, <2>5, <2>6 DEF Inv
<1>2. Inv /\ [Next]_vars => Inv'
  BY NextKeeps
<1> QED BY <1>1, <1>2, PTL DEF Spec

(* Whatever calls, lost replies and retries interleave: an idempotency key *)
(* has one effect, every answer that claims an effect names it, the commit *)
(* word of a report is true, and a connection is reused only after its     *)
(* transaction has ended at the server.                                    *)
THEOREM RetriedOnceCorrect == Spec => []RetriedOnce
<1>1. Inv => RetriedOnce
  BY DEF Inv, RetriedOnce, Recycled, RecycledClean
<1> QED BY <1>1, Invariance, PTL
(* Audit rows become durable by a COMMIT and by nothing else. *)
LEMMA OnlyCommitsWrite ==
    ASSUME Next, audits' # audits
    PROVE  OrphanCommits \/ \E w \in Workers : Commit(w)
<1>1. ASSUME NEW w \in Workers,
             \/ CallBusy(w)
             \/ Acquire(w)
             \/ AcquireFails(w)
             \/ Begin(w)
             \/ LockUser(w)
             \/ LockMoveUser(w)
      PROVE  audits' = audits
  BY <1>1, Zenon DEF Database, CallBusy, Acquire, AcquireFails, Begin, LockUser, LockMoveUser
<1>2. ASSUME NEW w \in Workers,
             \/ LockSession(w)
             \/ LockNode(w)
             \/ LockChildren(w)
             \/ LockMkdirParent(w)
             \/ LockMkdirName(w)
             \/ LockMoveSource(w)
      PROVE  audits' = audits
  BY <1>2, Zenon
     DEF Database, LockSession, LockNode, LockChildren, LockMkdirParent, LockMkdirName,
         LockMoveSource
<1>3. ASSUME NEW w \in Workers,
             \/ LockMoveTarget(w)
             \/ WalkMoveChains(w)
             \/ LockMoveName(w)
             \/ UpdateMove(w)
             \/ LockDeleteSource(w)
             \/ WalkDeleteChain(w)
      PROVE  audits' = audits
  BY <1>3, Zenon
     DEF Database, LockMoveTarget, WalkMoveChains, LockMoveName, UpdateMove, LockDeleteSource,
         WalkDeleteChain
<1>4. ASSUME NEW w \in Workers,
             \/ LockDeleteChildren(w)
             \/ LockDeleteObject(w)
             \/ DeleteNothing(w)
             \/ DeleteUpdate(w)
             \/ ObjectUpdate(w)
             \/ CaptureUtc(w)
      PROVE  audits' = audits
  BY <1>4, Zenon
     DEF Database, LockDeleteChildren, LockDeleteObject, DeleteNothing, DeleteUpdate,
         ObjectUpdate, CaptureUtc
<1>5. ASSUME NEW w \in Workers,
             \/ InsertNode(w)
             \/ InsertAudit(w)
             \/ InsertReceipt(w)
             \/ Recheck(w)
             \/ CommitUnknown(w)
             \/ StatementFails(w)
      PROVE  audits' = audits
  BY <1>5, Zenon
     DEF Database, InsertNode, InsertAudit, InsertReceipt, Recheck, CommitUnknown, StatementFails
<1>6. ASSUME NEW w \in Workers,
             \/ CleanupCall(w)
             \/ RollbackFails(w)
             \/ CleanupStuck(w)
             \/ Destroy(w)
      PROVE  audits' = audits
  BY <1>6, Zenon DEF Database, CleanupCall, RollbackFails, CleanupStuck, Destroy
<1>7. ASSUME NEW w \in Workers, NEW in \in Inputs, Call(w, in)
      PROVE  audits' = audits
  BY <1>7, Zenon DEF Database, Call
<1>8. ASSUME NEW w \in Workers,
             LockMkdirReceipt(w) \/ LockMoveReceipt(w) \/ LockNodeRemoveReceipt(w)
      PROVE  audits' = audits
  BY <1>8, Zenon
     DEF Database, LockMkdirReceipt, LockMoveReceipt, LockNodeRemoveReceipt, LockReceipt
<1>9. ASSUME OrphanRollsBack \/ RevokeSession \/ DisableUser \/ Expire
      PROVE  audits' = audits
  BY <1>9, Zenon DEF Database, OrphanRollsBack, RevokeSession, DisableUser, Expire
<1> QED BY <1>1, <1>2, <1>3, <1>4, <1>5, <1>6, <1>7, <1>8, <1>9 DEF Next

(* No write of a revoked session or a disabled user becomes durable, also  *)
(* not by a COMMIT whose reply was lost and which the server carries out   *)
(* later.                                                                  *)
THEOREM RevokedWritesNothingCorrect == Spec => RevokedWritesNothing
<1>1. ASSUME Inv, [Next]_vars
      PROVE  [audits' # audits => session = "active"]_vars
  <2>1. ASSUME NEW w \in Workers, Commit(w)
        PROVE  session = "active"
    BY <1>1, <2>1 DEF Commit, At, Inv, SessionHeld, Judged, Running, Opening
  <2>2. ASSUME OrphanCommits
        PROVE  session = "active"
    BY <1>1, <2>2 DEF OrphanCommits, Inv, SessionHeld
  <2> QED BY <1>1, <2>1, <2>2, OnlyCommitsWrite
<1> QED BY <1>1, Invariance, PTL DEF Spec, RevokedWritesNothing
-----------------------------------------------------------------------------
(* The rows. *)

RowFields == {"parent", "name", "kind", "state"}
RowsTyped ==
    /\ nextId \in Nat \ {0} /\ IsFiniteSet(DOMAIN nodes) /\ DOMAIN nodes \subseteq 1..(nextId - 1)
    /\ \A n \in DOMAIN nodes : /\ DOMAIN nodes[n] = RowFields
                               /\ nodes[n].kind \in {"directory", "file"}
                               /\ nodes[n].state \in {1, 2, 3}

(* The way up from p does not lead through n. *)
Clear(n, p) == \E above \in SUBSET Directories(nodes) :
    /\ p \in above /\ n \notin above
    /\ \A a \in above : nodes[a].parent \in above \cup {0}
Childless(n) == \A m \in DOMAIN nodes : nodes[m].parent = n => nodes[m].state = 3

(* What a transaction that may commit has found out, and still is so. *)
MovedRow(row, in) == [row EXCEPT !.parent = in.parent, !.name = in.name]
RemovedRow(row) == [row EXCEPT !.state = 3]
NewRow(in) == [parent |-> in.parent, name |-> in.name, kind |-> "directory", state |-> 2]
FitsMkdir(in, write) ==
    /\ write.node \in 1..(nextId - 1) /\ write.node \notin DOMAIN nodes
    /\ write.row = NewRow(in) /\ write.unref = FALSE
    /\ Directory(in.parent) /\ Occupant(in.parent, in.name) = {}
FitsMove(in, write) ==
    /\ write.unref = FALSE
    /\ write.node # 0 =>
         /\ write.node = in.node /\ Live(in.node) /\ nodes[in.node].parent # 0
         /\ write.row = MovedRow(nodes[in.node], in)
         /\ Directory(in.parent) /\ Clear(in.node, in.parent)
         /\ Occupant(in.parent, in.name) = {}
FitsRemove(in, write, unref) ==
    /\ write.node = in.node /\ Live(in.node) /\ nodes[in.node].parent # 0 /\ Childless(in.node)
    /\ write.row = RemovedRow(nodes[in.node])
    /\ write.unref = (unref /\ nodes[in.node].kind = "file")
Fits(in, write) ==
    /\ in.op \in Mkdirs \cup Moves \cup Removes
    /\ in.op \in Mkdirs => FitsMkdir(in, write)
    /\ in.op \in Moves => FitsMove(in, write)
    /\ in.op \in Removes => FitsRemove(in, write, TRUE)

(* The transactions that may still commit. *)
ParentLock(t, in) == [tx |-> t, on |-> <<"node", in.parent>>, mode |-> "X"]
Transaction(t, in, write) == [tx |-> t, in |-> in, write |-> write]
Pending ==
    {Transaction(repo[w].tx, repo[w].in, repo[w].write) :
       w \in {v \in Workers : repo[v].pc \in Writing}}
      \cup {Transaction(o.tx, o.in, o.write) : o \in {q \in orphans : q.sent}}
PendingFit ==
    /\ \A x \in Pending : /\ Fits(x.in, x.write)
                          /\ x.in.op \in Mkdirs => ParentLock(x.tx, x.in) \in locks
    /\ \A x, y \in Pending : x.tx # y.tx /\ x.in.op \in Mkdirs /\ y.in.op \in Mkdirs =>
         x.write.node # y.write.node

(* What a call has found out before it writes. *)
GoesAhead(w, stages) == repo[w].pc \in stages /\ repo[w].domain = "NONE"
MkdirStage(w) ==
    LET in == repo[w].in
    IN /\ GoesAhead(w, {"name", "utc", "insert"}) =>
            Directory(in.parent) /\ ParentLock(repo[w].tx, in) \in locks
       /\ repo[w].pc = "insert" => repo[w].domain = "NONE"
MoveStage(w) ==
    LET in == repo[w].in
    IN /\ GoesAhead(w, {"target", "chains", "move_name", "utc", "update"}) =>
            repo[w].node = in.node /\ Live(in.node)
       /\ GoesAhead(w, {"chains", "move_name", "utc", "update"}) =>
            Directory(in.parent) /\ nodes[in.node].parent # 0
       /\ GoesAhead(w, {"move_name", "utc", "update"}) => Clear(in.node, in.parent)
       /\ GoesAhead(w, {"utc", "update"}) /\ repo[w].changed => Occupant(in.parent, in.name) = {}
       /\ repo[w].pc = "update" => repo[w].domain = "NONE"
RemoveStage(w) ==
    LET in == repo[w].in
    IN /\ GoesAhead(w, {"delete_chain", "contents", "utc", "soft_delete"}) =>
            repo[w].node = in.node /\ Live(in.node) /\ nodes[in.node].parent # 0
       /\ GoesAhead(w, {"utc", "soft_delete"}) => Childless(in.node)
       /\ repo[w].pc = "soft_delete" => repo[w].domain = "NONE"
       /\ repo[w].pc = "object_update" =>
            repo[w].node = in.node /\ FitsRemove(in, repo[w].write, FALSE)
Stage(w) == /\ Op(w) \in Mkdirs => MkdirStage(w)
            /\ Op(w) \in Moves => MoveStage(w)
            /\ Op(w) \in Removes => RemoveStage(w)

TreeInv == /\ RowsTyped /\ TreeSound /\ ReferencesExact /\ PendingFit
           /\ \A w \in Workers : Stage(w)

-----------------------------------------------------------------------------
(* A statement leaves the rows alone; it has to keep what its own call has  *)
(* found out.                                                              *)
Own(w) == Transaction(repo[w].tx, repo[w].in, repo[w].write)
Step(w) ==
    /\ Running(w) /\ Touches(w) /\ OwnLocks(w) /\ orphans' = orphans
    /\ repo'[w].in = repo[w].in /\ repo'[w].tx = repo[w].tx
    /\ repo'[w].pc \in {AfterStage(w), "cleanup"}
TreeStep(w) ==
    /\ Step(w)
    /\ UNCHANGED <<nodes, refs>> /\ nextId' \in {nextId, nextId + 1}
    /\ Stage(w)'
    /\ repo'[w].pc \in Writing =>
         /\ Fits(repo[w].in, repo[w].write)'
         /\ Op(w) \in Mkdirs =>
              /\ ParentLock(repo[w].tx, repo[w].in) \in locks'
              /\ \A y \in Pending : y.tx # repo[w].tx /\ y.in.op \in Mkdirs =>
                   y.write.node # repo'[w].write.node
(* The transactions that may commit are those of before, but the call's. *)
LEMMA PendingAfterStep ==
    ASSUME Inv, NEW w \in Workers, Step(w)
    PROVE  \A x \in Pending' : \/ x \in Pending /\ x.tx # repo[w].tx
                               \/ x = Own(w)' /\ repo'[w].pc \in Writing
<1>1. \A v \in Workers \ {w} : repo'[v] = repo[v] /\ repo[v].tx # repo[w].tx
  BY DEF Step, Touches, Inv, Numbered, Running
<1>2. orphans' = orphans /\ \A o \in orphans : o.tx # repo[w].tx
  BY DEF Step, Inv, InOrder, Abandonment, Running
<1> SUFFICES ASSUME NEW x \in Pending'
             PROVE  \/ x \in Pending /\ x.tx # repo[w].tx
                    \/ x = Own(w)' /\ repo'[w].pc \in Writing
  OBVIOUS
<1>3. CASE \E v \in Workers : /\ repo'[v].pc \in Writing
                              /\ x = Transaction(repo'[v].tx, repo'[v].in, repo'[v].write)
  <2>1. PICK v \in Workers : /\ repo'[v].pc \in Writing
                             /\ x = Transaction(repo'[v].tx, repo'[v].in, repo'[v].write)
    BY <1>3
  <2>2. CASE v = w
    BY <2>1, <2>2 DEF Own
  <2>3. CASE v # w
    BY <1>1, <2>1, <2>3 DEF Pending, Transaction
  <2> QED BY <2>2, <2>3
<1>4. CASE \E o \in orphans : o.sent /\ x = Transaction(o.tx, o.in, o.write)
  BY <1>2, <1>4 DEF Pending, Transaction
<1> QED BY <1>2, <1>3, <1>4 DEF Pending
(* Such a step keeps the invariant of the rows. *)
LEMMA TreeStepKeeps ==
    ASSUME Inv, TreeInv, NEW w \in Workers, TreeStep(w)
    PROVE  TreeInv'
<1>1. /\ nodes' = nodes /\ refs' = refs /\ nextId' \in {nextId, nextId + 1} /\ Step(w)
      /\ repo'[w].in = repo[w].in /\ repo'[w].tx = repo[w].tx
  BY DEF TreeStep, Step
<1>2. /\ \A v \in Workers \ {w} : repo'[v] = repo[v] /\ repo[v].tx # repo[w].tx
      /\ \A l \in locks : l.tx # repo[w].tx => l \in locks'
  BY <1>1 DEF Step, Touches, Inv, Numbered, Running, OwnLocks
<1>3. RowsTyped' /\ TreeSound' /\ ReferencesExact'
  BY <1>1 DEF TreeInv, RowsTyped, TreeSound, SoundRows, Directories, ReferencesExact, Live
<1>4. ASSUME NEW in, NEW write, Fits(in, write)
      PROVE  Fits(in, write)'
  <2>1. FitsMkdir(in, write) => FitsMkdir(in, write)'
    BY <1>1 DEF TreeInv, RowsTyped, FitsMkdir, Directory, Directories, Occupant
  <2>2. FitsMove(in, write) => FitsMove(in, write)'
    BY <1>1 DEF FitsMove, Directory, Directories, Occupant, Live, Clear
  <2>3. FitsRemove(in, write, TRUE) => FitsRemove(in, write, TRUE)'
    BY <1>1 DEF FitsRemove, Live, Childless
  <2> QED BY <1>4, <2>1, <2>2, <2>3 DEF Fits
<1>5. PendingFit'
  <2>1. \A x \in Pending' : \/ x \in Pending /\ x.tx # repo[w].tx
                            \/ x = Own(w)' /\ repo'[w].pc \in Writing
    BY <1>1, PendingAfterStep
  <2>2. Own(w)'.tx = repo[w].tx /\ Own(w)'.in = repo[w].in /\ Own(w)'.write = repo'[w].write
    BY <1>1 DEF Own, Transaction
  <2>3. ASSUME NEW x \in Pending'
        PROVE  Fits(x.in, x.write)' /\ (x.in.op \in Mkdirs => ParentLock(x.tx, x.in) \in locks')
    <3>1. CASE x \in Pending /\ x.tx # repo[w].tx
      BY <1>2, <1>4, <3>1 DEF TreeInv, PendingFit, ParentLock
    <3>2. CASE x = Own(w)' /\ repo'[w].pc \in Writing
      BY <1>1, <2>2, <3>2 DEF TreeStep, Op
    <3> QED BY <2>1, <3>1, <3>2
  <2>4. ASSUME NEW x \in Pending', NEW y \in Pending', x.tx # y.tx,
               x.in.op \in Mkdirs, y.in.op \in Mkdirs
        PROVE  x.write.node # y.write.node
    BY <2>1, <2>2, <2>4 DEF TreeInv, PendingFit, TreeStep, Op
  <2> QED BY <2>3, <2>4 DEF PendingFit
<1>6. ASSUME NEW v \in Workers
      PROVE  Stage(v)'
  <2>1. CASE v = w
    BY <2>1 DEF TreeStep
  <2>2. CASE v # w
    <3>1. Stage(v) /\ repo'[v] = repo[v] /\ Op(v)' = Op(v)
      BY <1>2, <2>2 DEF TreeInv, Op
    <3>2. ParentLock(repo[v].tx, repo[v].in) \in locks => ParentLock(repo[v].tx, repo[v].in) \in locks'
      BY <1>2, <2>2 DEF ParentLock
    <3>3. Op(v) \in Mkdirs => MkdirStage(v)'
      BY <1>1, <3>1, <3>2 DEF Stage, MkdirStage, GoesAhead, Directory, Directories
    <3>4. Op(v) \in Moves => MoveStage(v)'
      BY <1>1, <3>1 DEF Stage, MoveStage, GoesAhead, Directory, Directories, Live, Clear, Occupant
    <3>5. Op(v) \in Removes => RemoveStage(v)'
      BY <1>1, <3>1 DEF Stage, RemoveStage, GoesAhead, Directory, Directories, Live, Childless,
                        FitsRemove
    <3> QED BY <3>1, <3>3, <3>4, <3>5 DEF Stage
  <2> QED BY <2>1, <2>2
<1> QED BY <1>3, <1>5, <1>6 DEF TreeInv

-----------------------------------------------------------------------------
(* The actions of a running call are such steps. *)

Still == UNCHANGED <<nodes, refs, nextId, orphans>>
(* A statement takes locks and gives none back. *)
Takes(w) == OwnLocks(w) /\ locks \subseteq locks'
LockOf(w, x) == [tx |-> repo[w].tx, on |-> x.on, mode |-> x.mode]
(* Locks that the server grants. *)
LEMMA HoldTakes ==
    ASSUME Inv, NEW w, NEW wanted, Grantable(w, wanted), Hold(w, wanted)
    PROVE  Takes(w) /\ \A x \in wanted : LockOf(w, x) \in locks'
<1>1. locks' = locks \cup {LockOf(w, x) : x \in wanted}
  BY DEF Hold, LockOf
<1>2. OwnLocks(w)
  BY HoldOwn DEF Inv
<1> QED BY <1>1, <1>2 DEF Takes
(* A statement without locks. *)
LEMMA SameTakes ==
    ASSUME Inv, NEW w, locks' = locks
    PROVE  Takes(w)
BY SameOwn DEF Takes, Inv
(* A statement after which the call goes on. *)
LEMMA AdvanceStep ==
    ASSUME Inv, NEW w \in Workers, Running(w), Takes(w), orphans' = orphans,
           NEW c, Advance(w, c),
           DOMAIN c \subseteq {"domain", "page", "changed", "node", "lease", "connection", "began",
                                "write"}
    PROVE  /\ Step(w) /\ repo'[w].pc = AfterStage(w)
           /\ repo'[w].in = repo[w].in /\ repo'[w].tx = repo[w].tx /\ Op(w)' = Op(w)
           /\ repo'[w].domain = IF "domain" \in DOMAIN c THEN c["domain"] ELSE repo[w].domain
           /\ repo'[w].changed = IF "changed" \in DOMAIN c THEN c["changed"] ELSE repo[w].changed
           /\ repo'[w].node = IF "node" \in DOMAIN c THEN c["node"] ELSE repo[w].node
           /\ repo'[w].write = IF "write" \in DOMAIN c THEN c["write"] ELSE repo[w].write
<1>1. /\ Touches(w)
      /\ \A f \in DOMAIN Fresh :
           repo'[w][f] = IF f \in DOMAIN c THEN c[f]
                         ELSE IF f = "pc" THEN AfterStage(w) ELSE repo[w][f]
  BY AdvanceFields DEF Inv
<1>2. /\ repo'[w].pc = AfterStage(w)
      /\ repo'[w].in = repo[w].in /\ repo'[w].tx = repo[w].tx
      /\ repo'[w].domain = IF "domain" \in DOMAIN c THEN c["domain"] ELSE repo[w].domain
      /\ repo'[w].changed = IF "changed" \in DOMAIN c THEN c["changed"] ELSE repo[w].changed
      /\ repo'[w].node = IF "node" \in DOMAIN c THEN c["node"] ELSE repo[w].node
      /\ repo'[w].write = IF "write" \in DOMAIN c THEN c["write"] ELSE repo[w].write
  BY <1>1 DEF Fresh
<1>3. Step(w)
  BY <1>1, <1>2 DEF Step, Takes
<1> QED BY <1>2, <1>3 DEF Op
(* One that only goes on. *)
LEMMA GoOnStep ==
    ASSUME Inv, NEW w \in Workers, Running(w), Takes(w), orphans' = orphans, Advance(w, <<>>)
    PROVE  /\ Step(w) /\ repo'[w].pc = AfterStage(w)
           /\ repo'[w].in = repo[w].in /\ repo'[w].tx = repo[w].tx /\ Op(w)' = Op(w)
           /\ repo'[w].domain = repo[w].domain /\ repo'[w].changed = repo[w].changed
           /\ repo'[w].node = repo[w].node /\ repo'[w].write = repo[w].write
<1> DEFINE c == <<>>
<1>1. DOMAIN c = {} /\ Advance(w, c)
  OBVIOUS
<1> HIDE DEF c
<1> QED BY <1>1, AdvanceStep
(* A statement after which the call gives up or has its answer. *)
LEMMA GiveUpStep ==
    ASSUME Inv, TreeInv, NEW w \in Workers, Running(w), Still,
           NEW c, Set(w, c), "pc" \in DOMAIN c, c["pc"] = "cleanup",
           DOMAIN c \subseteq {"pc", "rc", "issue", "lease", "began", "effect", "node", "write"},
           OwnLocks(w)
    PROVE  TreeStep(w)
<1>1. /\ Touches(w)
      /\ \A f \in DOMAIN Fresh : repo'[w][f] = IF f \in DOMAIN c THEN c[f] ELSE repo[w][f]
  BY SetFields DEF Inv
<1>2. /\ repo'[w].pc = "cleanup"
      /\ repo'[w].in = repo[w].in /\ repo'[w].tx = repo[w].tx
  BY <1>1 DEF Fresh
<1>3. Step(w)
  BY <1>1, <1>2 DEF Step, Takes, Still
<1>4. Stage(w)'
  BY <1>2 DEF Stage, MkdirStage, MoveStage, RemoveStage, GoesAhead
<1> QED BY <1>2, <1>3, <1>4 DEF TreeStep, Still, Writing, TreeInv, RowsTyped
(* Finish is such a statement. *)
LEMMA FinishStep ==
    ASSUME Inv, TreeInv, NEW w \in Workers, Running(w), Takes(w), Still, NEW rc, NEW issue,
           Finish(w, rc, issue)
    PROVE  TreeStep(w)
<1> DEFINE c == [pc |-> "cleanup", rc |-> rc, issue |-> issue]
<1>1. Set(w, c)
  BY DEF Finish
<1>2. DOMAIN c = {"pc", "rc", "issue"} /\ c["pc"] = "cleanup"
  OBVIOUS
<1> HIDE DEF c
<1> QED BY <1>1, <1>2, GiveUpStep DEF Takes

(* Until the session and the receipt are judged nothing is known of rows,  *)
(* and a read never asks.                                                  *)
LEMMA PlainStep ==
    ASSUME Inv, TreeInv, NEW w \in Workers, Step(w), repo'[w].pc = AfterStage(w), Still,
           \/ repo[w].pc \in Early \cup ReceiptStages \cup {"session"}
           \/ Op(w) \notin Mkdirs \cup Moves \cup Removes
    PROVE  TreeStep(w)
<1>1. /\ Of(Op(w), repo[w].pc) /\ Leads(Op(w), repo[w].pc, AfterStage(w))
      /\ Op(w)' = Op(w)
  BY StageFine DEF Step, Op
<1>2. ASSUME Op(w) \in Mkdirs \cup Moves \cup Removes
      PROVE  repo'[w].pc \notin {"name", "utc", "insert", "target", "chains", "move_name", "update",
                                 "delete_chain", "contents", "soft_delete", "object_update"}
                               \cup Writing
  BY <1>1, <1>2 DEF Leads, Early, ReceiptStages, Writing, Mkdirs, Moves, Removes
<1>3. Stage(w)'
  BY <1>1, <1>2 DEF Stage, MkdirStage, MoveStage, RemoveStage, GoesAhead
<1>4. repo'[w].pc \notin Writing
  <2>1. CASE Op(w) \in Mkdirs \cup Moves \cup Removes
    BY <1>2, <2>1
  <2>2. CASE Op(w) \notin Mkdirs \cup Moves \cup Removes
    BY <1>1, <2>2 DEF Of, Leads, Writing
  <2> QED BY <2>1, <2>2
<1> QED BY <1>3, <1>4 DEF TreeStep, Still
(* The connection. *)
LEMMA AcquireSteps ==
    ASSUME Inv, TreeInv, NEW w \in Workers, Acquire(w)
    PROVE  TreeStep(w)
<1> DEFINE c == [lease |-> TRUE, connection |-> TRUE]
<1>1. /\ repo[w].pc = "acquire" /\ Running(w) /\ Still /\ Takes(w) /\ Advance(w, c)
  BY SameTakes DEF Acquire, At, Running, Still, Database
<1>2. DOMAIN c = {"lease", "connection"}
  OBVIOUS
<1> HIDE DEF c
<1>3. Step(w) /\ repo'[w].pc = AfterStage(w)
  BY <1>1, <1>2, AdvanceStep DEF Still
<1> QED BY <1>1, <1>3, PlainStep DEF Early
(* No connection. *)
LEMMA AcquireFailsSteps ==
    ASSUME Inv, TreeInv, NEW w \in Workers, AcquireFails(w)
    PROVE  TreeStep(w)
<1>1. PICK lease \in BOOLEAN : Set(w, [pc |-> "cleanup", lease |-> lease, rc |-> "BUSY"])
  BY DEF AcquireFails
<1> DEFINE c == [pc |-> "cleanup", lease |-> lease, rc |-> "BUSY"]
<1>2. Running(w) /\ Still /\ Takes(w) /\ Set(w, c)
  BY <1>1, SameTakes DEF AcquireFails, At, Running, Still, Database
<1>3. DOMAIN c = {"pc", "lease", "rc"} /\ c["pc"] = "cleanup"
  OBVIOUS
<1> HIDE DEF c
<1> QED BY <1>2, <1>3, GiveUpStep DEF Takes
(* BEGIN. *)
LEMMA BeginSteps ==
    ASSUME Inv, TreeInv, NEW w \in Workers, Begin(w)
    PROVE  TreeStep(w)
<1> DEFINE c == [began |-> TRUE]
<1>1. /\ repo[w].pc = "begin" /\ Running(w) /\ Still /\ Takes(w) /\ Advance(w, c)
  BY SameTakes DEF Begin, At, Running, Still, Database
<1>2. DOMAIN c = {"began"}
  OBVIOUS
<1> HIDE DEF c
<1>3. Step(w) /\ repo'[w].pc = AfterStage(w)
  BY <1>1, <1>2, AdvanceStep DEF Still
<1> QED BY <1>1, <1>3, PlainStep DEF Early
(* The user row, as the operation asks for it. *)
LEMMA UserSteps ==
    ASSUME Inv, TreeInv, NEW w \in Workers, LockUser(w) \/ LockMoveUser(w)
    PROVE  TreeStep(w)
<1>1. /\ repo[w].pc \in {"user", "user_shared"} /\ Running(w) /\ Still
      /\ Advance(w, <<>>) \/ Finish(w, "NOT_FOUND", "AUTH_REJECTED")
  BY DEF LockUser, LockMoveUser, At, Running, Still, Database
<1>2. Takes(w)
  BY HoldTakes DEF LockUser, LockMoveUser
<1>3. CASE Advance(w, <<>>)
  <2>1. Step(w) /\ repo'[w].pc = AfterStage(w)
    BY <1>1, <1>2, <1>3, GoOnStep DEF Still
  <2> QED BY <1>1, <2>1, PlainStep DEF Early
<1> QED BY <1>1, <1>2, <1>3, FinishStep
(* The session row. *)
LEMMA LockSessionSteps ==
    ASSUME Inv, TreeInv, NEW w \in Workers, LockSession(w)
    PROVE  TreeStep(w)
<1>1. /\ repo[w].pc = "session" /\ Running(w) /\ Still
      /\ Advance(w, <<>>) \/ Finish(w, "NOT_FOUND", "AUTH_REJECTED")
  BY DEF LockSession, At, Running, Still, Database
<1>2. Takes(w)
  BY HoldTakes DEF LockSession
<1>3. CASE Advance(w, <<>>)
  <2>1. Step(w) /\ repo'[w].pc = AfterStage(w)
    BY <1>1, <1>2, <1>3, GoOnStep DEF Still
  <2> QED BY <1>1, <2>1, PlainStep
<1> QED BY <1>1, <1>2, <1>3, FinishStep
(* The receipt of an idempotency key. *)
LEMMA LockReceiptSteps ==
    ASSUME Inv, TreeInv, NEW w \in Workers, NEW compared, LockReceipt(w, compared),
           repo[w].pc \in ReceiptStages
    PROVE  TreeStep(w)
<1> DEFINE found == Receipt(repo[w].in.op, repo[w].in.key)
           wanted == {Want(<<"receipt", r.command, r.key>>, "X") : r \in found}
<1>1. Running(w) /\ Op(w) \notin SharedOps
  <2>1. Running(w)
    BY DEF ReceiptStages, Running
  <2> QED BY <2>1, StageFine DEF Of
<1>2. Grantable(w, wanted) /\ Hold(w, wanted) /\ Still
  <2>1. UNCHANGED <<Database, Others, orphans, nextId, faults, history>>
    BY Zenon DEF LockReceipt
  <2> QED BY <2>1, Zenon DEF LockReceipt, Still, Database
<1>3. \/ Advance(w, <<>>)
      \/ \E rc, issue : Finish(w, rc, issue)
      \/ \E r \in found : Set(w, [pc |-> "cleanup", effect |-> "RECOVERED", node |-> r.result,
                                  write |-> [NoWrite EXCEPT !.audit = r.audit]])
  BY Zenon DEF LockReceipt
<1> HIDE DEF wanted, found
<1>4. Takes(w)
  BY <1>2, HoldTakes
<1>5. CASE Advance(w, <<>>)
  <2>1. Step(w) /\ repo'[w].pc = AfterStage(w)
    BY <1>1, <1>2, <1>4, <1>5, GoOnStep DEF Still
  <2> QED BY <1>2, <2>1, PlainStep
<1>6. ASSUME NEW r \in found, NEW write,
             Set(w, [pc |-> "cleanup", effect |-> "RECOVERED", node |-> r.result,
                     write |-> write])
      PROVE  TreeStep(w)
  <2> DEFINE c == [pc |-> "cleanup", effect |-> "RECOVERED", node |-> r.result, write |-> write]
  <2>1. DOMAIN c = {"pc", "effect", "node", "write"} /\ c["pc"] = "cleanup" /\ Set(w, c)
    BY <1>6
  <2> HIDE DEF c
  <2> QED BY <1>1, <1>2, <1>4, <2>1, GiveUpStep DEF Takes
<1> QED BY <1>1, <1>2, <1>3, <1>4, <1>5, <1>6, FinishStep
(* The row of a read. *)
LEMMA LockNodeSteps ==
    ASSUME Inv, TreeInv, NEW w \in Workers, LockNode(w)
    PROVE  TreeStep(w)
<1>1. PICK n, d : /\ Grantable(w, Rows({n}, "S")) /\ Hold(w, Rows({n}, "S"))
                  /\ Advance(w, [node |-> n, domain |-> d])
  BY Zenon DEF LockNode
<1>2. repo[w].pc = "node" /\ Running(w) /\ Still /\ Op(w) \notin Mkdirs \cup Moves \cup Removes
  <2>1. repo[w].pc = "node" /\ Running(w) /\ Still
    BY DEF LockNode, At, Running, Still, Database
  <2> QED BY <2>1, StageFine DEF Of, SharedOps, Mkdirs, Moves, Removes
<1>3. Takes(w)
  BY <1>1, HoldTakes
<1>4. Step(w) /\ repo'[w].pc = AfterStage(w)
  <2> DEFINE c == [node |-> n, domain |-> d]
  <2>1. DOMAIN c = {"node", "domain"} /\ Advance(w, c)
    BY <1>1
  <2> HIDE DEF c
  <2> QED BY <1>2, <1>3, <2>1, AdvanceStep DEF Still
<1> QED BY <1>2, <1>4, PlainStep
(* The children of a listed directory. *)
LEMMA LockChildrenSteps ==
    ASSUME Inv, TreeInv, NEW w \in Workers, LockChildren(w)
    PROVE  TreeStep(w)
<1>1. repo[w].pc = "children" /\ Running(w) /\ Still /\ Op(w) \notin Mkdirs \cup Moves \cup Removes
  <2>1. repo[w].pc = "children" /\ Running(w) /\ Still
    BY DEF LockChildren, At, Running, Still, Database
  <2> QED BY <2>1, StageFine DEF Of, SharedOps, Mkdirs, Moves, Removes
<1>2. Takes(w)
  <2>1. CASE locks' = locks
    BY <2>1, SameTakes
  <2>2. ASSUME NEW ids, Grantable(w, Rows(ids, "S")), Hold(w, Rows(ids, "S"))
        PROVE  Takes(w)
    BY <2>2, HoldTakes
  <2> QED BY <2>1, <2>2 DEF LockChildren
<1>3. \E c : Advance(w, c) /\ DOMAIN c \subseteq {"page"}
  BY DEF LockChildren
<1>4. Step(w) /\ repo'[w].pc = AfterStage(w)
  BY <1>1, <1>2, <1>3, AdvanceStep DEF Still
<1> QED BY <1>1, <1>4, PlainStep
(* Any statement may fail. *)
LEMMA StatementFailsSteps ==
    ASSUME Inv, TreeInv, NEW w \in Workers, StatementFails(w)
    PROVE  TreeStep(w)
<1>1. PICK issue, began : Set(w, [pc |-> "cleanup", rc |-> "DATABASE", issue |-> issue,
                                  began |-> began])
  BY DEF StatementFails
<1> DEFINE c == [pc |-> "cleanup", rc |-> "DATABASE", issue |-> issue, began |-> began]
<1>2. Running(w) /\ Still
  BY DEF StatementFails, Running, Still, Database
<1>3. OwnLocks(w)
  BY DEF StatementFails, OwnLocks, LocksOf, Inv, Compatible
<1>4. DOMAIN c = {"pc", "rc", "issue", "began"} /\ c["pc"] = "cleanup" /\ Set(w, c)
  BY <1>1
<1> HIDE DEF c
<1> QED BY <1>2, <1>3, <1>4, GiveUpStep

-----------------------------------------------------------------------------
(* The statements of MKDIR. *)

(* What is left to show of a statement that is followed by no write. *)
LEMMA MkdirStep ==
    ASSUME Inv, TreeInv, NEW w \in Workers, Step(w), Still, Op(w) \in Mkdirs, MkdirStage(w)',
           repo'[w].pc \notin Writing
    PROVE  TreeStep(w)
<1>1. Op(w)' = Op(w)
  BY DEF Step, Op
<1> QED BY <1>1 DEF TreeStep, Still, Stage, Mkdirs, Moves, Removes
(* The same for MOVE. *)
LEMMA MoveStep ==
    ASSUME Inv, TreeInv, NEW w \in Workers, Step(w), Still, Op(w) \in Moves, MoveStage(w)',
           repo'[w].pc \notin Writing
    PROVE  TreeStep(w)
<1>1. Op(w)' = Op(w)
  BY DEF Step, Op
<1> QED BY <1>1 DEF TreeStep, Still, Stage, Mkdirs, Moves, Removes
(* The same for REMOVE. *)
LEMMA RemoveStep ==
    ASSUME Inv, TreeInv, NEW w \in Workers, Step(w), Still, Op(w) \in Removes, RemoveStage(w)',
           repo'[w].pc \notin Writing
    PROVE  TreeStep(w)
<1>1. Op(w)' = Op(w)
  BY DEF Step, Op
<1> QED BY <1>1 DEF TreeStep, Still, Stage, Mkdirs, Moves, Removes
(* A statement that sets the domain answer. *)
LEMMA DomainStep ==
    ASSUME Inv, NEW w \in Workers, Running(w), Takes(w), orphans' = orphans, NEW d,
           Advance(w, [domain |-> d])
    PROVE  /\ Step(w) /\ repo'[w].pc = AfterStage(w)
           /\ repo'[w].in = repo[w].in /\ repo'[w].tx = repo[w].tx
           /\ repo'[w].domain = d /\ repo'[w].changed = repo[w].changed
           /\ repo'[w].node = repo[w].node /\ repo'[w].write = repo[w].write
<1> DEFINE c == [domain |-> d]
<1>1. DOMAIN c = {"domain"} /\ c["domain"] = d /\ Advance(w, c)
  OBVIOUS
<1> HIDE DEF c
<1> QED BY <1>1, AdvanceStep
(* One that also sets the node. *)
LEMMA NodeStep ==
    ASSUME Inv, NEW w \in Workers, Running(w), Takes(w), orphans' = orphans, NEW n, NEW d,
           Advance(w, [node |-> n, domain |-> d])
    PROVE  /\ Step(w) /\ repo'[w].pc = AfterStage(w)
           /\ repo'[w].in = repo[w].in /\ repo'[w].tx = repo[w].tx
           /\ repo'[w].domain = d /\ repo'[w].node = n
<1> DEFINE c == [node |-> n, domain |-> d]
<1>1. DOMAIN c = {"node", "domain"} /\ c["node"] = n /\ c["domain"] = d /\ Advance(w, c)
  OBVIOUS
<1> HIDE DEF c
<1> QED BY <1>1, AdvanceStep
(* One that sets what will be written. *)
LEMMA WriteStep ==
    ASSUME Inv, NEW w \in Workers, Running(w), Takes(w), orphans' = orphans, NEW write,
           Advance(w, [write |-> write])
    PROVE  /\ Step(w) /\ repo'[w].pc = AfterStage(w)
           /\ repo'[w].in = repo[w].in /\ repo'[w].tx = repo[w].tx
           /\ repo'[w].node = repo[w].node /\ repo'[w].write = write
<1> DEFINE c == [write |-> write]
<1>1. DOMAIN c = {"write"} /\ c["write"] = write /\ Advance(w, c)
  OBVIOUS
<1> HIDE DEF c
<1> QED BY <1>1, AdvanceStep

(* The parent of a new directory. *)
LEMMA LockMkdirParentSteps ==
    ASSUME Inv, TreeInv, NEW w \in Workers, LockMkdirParent(w)
    PROVE  TreeStep(w)
<1> DEFINE p == repo[w].in.parent
           d == IF Directory(p) THEN "NONE" ELSE "NOT_FOUND"
           wanted == Rows({p}, "X")
<1>1. /\ repo[w].pc = "parent" /\ Running(w) /\ Still /\ Advance(w, [domain |-> d])
      /\ Grantable(w, wanted) /\ Hold(w, wanted)
  BY DEF LockMkdirParent, At, Running, Still, Database
<1>2. Op(w) \in Mkdirs /\ AfterStage(w) = "name"
  BY <1>1, StageFine DEF Of, Leads
<1>3. Directory(p) => Want(<<"node", p>>, "X") \in wanted
  BY DEF Rows, Directory, Directories
<1> HIDE DEF d, wanted
<1>4. Takes(w) /\ (Directory(p) => ParentLock(repo[w].tx, repo[w].in) \in locks')
  BY <1>1, <1>3, HoldTakes DEF LockOf, Want, ParentLock
<1>5. /\ Step(w) /\ repo'[w].pc = "name" /\ repo'[w].in = repo[w].in /\ repo'[w].domain = d
      /\ repo'[w].tx = repo[w].tx
  BY <1>1, <1>2, <1>4, DomainStep DEF Still
<1>6. MkdirStage(w)'
  BY <1>1, <1>4, <1>5 DEF MkdirStage, GoesAhead, d, Directory, Directories, Still
<1> QED BY <1>1, <1>2, <1>5, <1>6, MkdirStep DEF Writing
(* The name of a new directory. *)
LEMMA LockMkdirNameSteps ==
    ASSUME Inv, TreeInv, NEW w \in Workers, LockMkdirName(w)
    PROVE  TreeStep(w)
<1> DEFINE in == repo[w].in
           d == IF Occupant(in.parent, in.name) = {} THEN "NONE" ELSE "NAME_CONFLICT"
           wanted == Rows(Occupant(in.parent, in.name), "X")
<1>1. repo[w].pc = "name" /\ Running(w) /\ Still
  BY DEF LockMkdirName, At, Running, Still, Database
<1>2. Op(w) \in Mkdirs /\ AfterStage(w) = "utc"
  BY <1>1, StageFine DEF Of, Leads
<1>3. \/ repo[w].domain # "NONE" /\ Advance(w, <<>>) /\ locks' = locks
      \/ /\ repo[w].domain = "NONE" /\ Grantable(w, wanted) /\ Hold(w, wanted)
         /\ Advance(w, [domain |-> d])
  BY DEF LockMkdirName
<1>4. CASE repo[w].domain # "NONE" /\ Advance(w, <<>>) /\ locks' = locks
  <2>1. /\ Step(w) /\ repo'[w].pc = "utc" /\ repo'[w].domain # "NONE"
    BY <1>1, <1>2, <1>4, SameTakes, GoOnStep DEF Still
  <2>2. MkdirStage(w)'
    BY <2>1 DEF MkdirStage, GoesAhead
  <2> QED BY <1>1, <1>2, <2>1, <2>2, MkdirStep DEF Writing
<1>5. CASE /\ repo[w].domain = "NONE" /\ Grantable(w, wanted) /\ Hold(w, wanted)
           /\ Advance(w, [domain |-> d])
  <2> HIDE DEF d, wanted
  <2>1. Takes(w)
    BY <1>5, HoldTakes
  <2>2. /\ Step(w) /\ repo'[w].pc = "utc" /\ repo'[w].in = in /\ repo'[w].tx = repo[w].tx
    BY <1>1, <1>2, <1>5, <2>1, DomainStep DEF Still
  <2>3. Directory(in.parent) /\ ParentLock(repo[w].tx, in) \in locks'
    BY <1>1, <1>2, <1>5, <2>1 DEF TreeInv, Stage, MkdirStage, GoesAhead, Takes
  <2>4. MkdirStage(w)'
    BY <1>1, <2>2, <2>3 DEF MkdirStage, GoesAhead, Directory, Directories, Still
  <2> QED BY <1>1, <1>2, <2>2, <2>4, MkdirStep DEF Writing
<1> QED BY <1>3, <1>4, <1>5
(* The row of a new directory: its number is new. *)
LEMMA InsertNodeSteps ==
    ASSUME Inv, TreeInv, NEW w \in Workers, InsertNode(w)
    PROVE  TreeStep(w)
<1> DEFINE in == repo[w].in
           write == [NoWrite EXCEPT !.node = nextId, !.row = NewRow(in)]
           c == [node |-> nextId, write |-> write]
<1>1. repo[w].pc = "insert" /\ Running(w) /\ Takes(w) /\ UNCHANGED <<nodes, refs, orphans, locks>>
  BY SameTakes DEF InsertNode, At, Running, Database
<1>2. \/ Finish(w, "DATABASE", "NONE") /\ nextId' = nextId
      \/ Occupant(in.parent, in.name) = {} /\ Advance(w, c) /\ nextId' = nextId + 1
  BY DEF InsertNode, NewRow
<1>3. CASE Finish(w, "DATABASE", "NONE") /\ nextId' = nextId
  BY <1>1, <1>3, FinishStep DEF Still
<1>4. CASE Occupant(in.parent, in.name) = {} /\ Advance(w, c) /\ nextId' = nextId + 1
  <2>1. /\ DOMAIN c = {"node", "write"} /\ c["write"] = write
        /\ write.node = nextId /\ write.row = NewRow(in) /\ write.unref = FALSE
    BY DEF NoWrite
  <2> HIDE DEF c, write
  <2>2. /\ Step(w) /\ repo'[w].pc = AfterStage(w) /\ repo'[w].in = in /\ repo'[w].write = write
        /\ Op(w)' = Op(w)
    BY <1>1, <1>4, <2>1, AdvanceStep
  <2>3. /\ Op(w) \in Mkdirs
        /\ AfterStage(w) \notin {"name", "utc", "insert"}
    BY <1>1, StageFine DEF Of, Leads, Mkdirs
  <2>4. Directory(in.parent) /\ ParentLock(repo[w].tx, in) \in locks
    BY <1>1, <2>3 DEF TreeInv, Stage, MkdirStage, GoesAhead
  <2>5. nextId \in Nat \ {0} /\ nextId \notin DOMAIN nodes
    BY DEF TreeInv, RowsTyped
  <2>6. FitsMkdir(repo[w].in, repo[w].write)'
    <3>1. nextId \in 1..(nextId' - 1) /\ nextId \notin DOMAIN nodes'
      BY <1>1, <1>4, <2>5
    <3>2. Directory(in.parent)' /\ Occupant(in.parent, in.name)' = {}
      BY <1>1, <1>4, <2>2, <2>4 DEF Directory, Directories, Occupant
    <3> QED BY <2>1, <2>2, <3>1, <3>2 DEF FitsMkdir, NewRow
  <2>7. Fits(repo[w].in, repo[w].write)'
    BY <2>2, <2>3, <2>6 DEF Fits, Op, Mkdirs, Moves, Removes
  <2>8. \A y \in Pending : y.in.op \in Mkdirs => y.write.node # nextId
    <3>1. \A y \in Pending : y.in.op \in Mkdirs => FitsMkdir(y.in, y.write)
      BY DEF TreeInv, PendingFit, Fits
    <3>2. \A k \in 1..(nextId - 1) : k # nextId
      BY <2>5
    <3> QED BY <3>1, <3>2 DEF FitsMkdir
  <2>9. Stage(w)'
    BY <2>2, <2>3 DEF Stage, MkdirStage, GoesAhead, Mkdirs, Moves, Removes
  <2> QED BY <1>1, <1>4, <2>1, <2>2, <2>4, <2>7, <2>8, <2>9 DEF TreeStep
<1> QED BY <1>2, <1>3, <1>4

-----------------------------------------------------------------------------
(* The statements that all writes share. *)

(* The clock, and the answer to a check that failed. *)
LEMMA CaptureUtcSteps ==
    ASSUME Inv, TreeInv, NEW w \in Workers, CaptureUtc(w)
    PROVE  TreeStep(w)
<1>1. repo[w].pc = "utc" /\ Running(w) /\ Takes(w) /\ Still /\ nodes' = nodes /\ locks' = locks
  BY SameTakes DEF CaptureUtc, At, Running, Database, Still
<1>2. \/ \E rc, issue : Finish(w, rc, issue)
      \/ repo[w].domain = "NONE" /\ Advance(w, <<>>)
  BY DEF CaptureUtc
<1>3. CASE repo[w].domain = "NONE" /\ Advance(w, <<>>)
  <2>1. /\ Step(w) /\ repo'[w].pc = AfterStage(w) /\ repo'[w].in = repo[w].in
        /\ repo'[w].tx = repo[w].tx /\ Op(w)' = Op(w)
        /\ repo'[w].domain = repo[w].domain /\ repo'[w].changed = repo[w].changed
        /\ repo'[w].node = repo[w].node
    BY <1>1, <1>3, GoOnStep DEF Still
  <2>2. /\ Stage(w) /\ Of(Op(w), "utc") /\ Leads(Op(w), "utc", AfterStage(w))
    BY <1>1, StageFine DEF TreeInv
  <2>3. /\ AfterStage(w) \notin {"name", "utc", "target", "chains", "move_name", "delete_chain",
                                "contents", "object_update"} \cup Writing
    BY <2>2 DEF Leads, Writing, Mkdirs, Moves, Removes
  <2>4. CASE Op(w) \in Mkdirs
    <3>1. MkdirStage(w)'
      BY <1>1, <1>3, <2>1, <2>2, <2>3, <2>4
         DEF Stage, MkdirStage, GoesAhead, Directory, Directories
    <3> QED BY <1>1, <2>1, <2>3, <2>4, <3>1, MkdirStep
  <2>5. CASE Op(w) \in Moves
    <3>1. MoveStage(w)'
      BY <1>1, <1>3, <2>1, <2>2, <2>3, <2>5
         DEF Stage, MoveStage, GoesAhead, Directory, Directories, Live, Clear, Occupant
    <3> QED BY <1>1, <2>1, <2>3, <2>5, <3>1, MoveStep
  <2>6. CASE Op(w) \in Removes
    <3>1. RemoveStage(w)'
      BY <1>1, <1>3, <2>1, <2>2, <2>3, <2>6
         DEF Stage, RemoveStage, GoesAhead, Live, Childless
    <3> QED BY <1>1, <2>1, <2>3, <2>6, <3>1, RemoveStep
  <2>7. CASE Op(w) \notin Mkdirs \cup Moves \cup Removes
    BY <1>1, <2>1, <2>7, PlainStep
  <2> QED BY <2>4, <2>5, <2>6, <2>7
<1> QED BY <1>1, <1>2, <1>3, FinishStep

(* A transaction that has its rows and still writes about them. *)
LEMMA WritingStep ==
    ASSUME Inv, TreeInv, NEW w \in Workers, Step(w), Still, repo[w].pc \in Writing,
           locks' = locks, repo'[w].pc = AfterStage(w),
           repo'[w].write.node = repo[w].write.node, repo'[w].write.row = repo[w].write.row,
           repo'[w].write.unref = repo[w].write.unref
    PROVE  TreeStep(w)
<1>1. /\ Own(w) \in Pending /\ Own(w).tx = repo[w].tx /\ Own(w).in = repo[w].in
      /\ Own(w).write = repo[w].write
  BY DEF Own, Pending, Transaction
<1>2. /\ Fits(repo[w].in, repo[w].write) /\ Op(w)' = Op(w) /\ repo'[w].in = repo[w].in
      /\ Op(w) \in Mkdirs => ParentLock(repo[w].tx, repo[w].in) \in locks
      /\ \A y \in Pending : y.tx # repo[w].tx /\ y.in.op \in Mkdirs /\ Op(w) \in Mkdirs =>
           y.write.node # repo[w].write.node
  BY <1>1 DEF TreeInv, PendingFit, Op, Step
<1>3. /\ nodes' = nodes /\ nextId' = nextId
  BY DEF Still
<1>4. FitsMkdir(repo[w].in, repo[w].write) => FitsMkdir(repo[w].in, repo[w].write)'
  BY <1>2, <1>3 DEF FitsMkdir, Directory, Directories, Occupant
<1>5. FitsMove(repo[w].in, repo[w].write) => FitsMove(repo[w].in, repo[w].write)'
  BY <1>2, <1>3 DEF FitsMove, Directory, Directories, Occupant, Live, Clear
<1>6. FitsRemove(repo[w].in, repo[w].write, TRUE) => FitsRemove(repo[w].in, repo[w].write, TRUE)'
  BY <1>2, <1>3 DEF FitsRemove, Live, Childless
<1>7. Fits(repo[w].in, repo[w].write)'
  BY <1>2, <1>4, <1>5, <1>6 DEF Fits
<1>8. repo'[w].pc \notin {"name", "utc", "insert", "target", "chains", "move_name", "update",
                          "delete_chain", "contents", "soft_delete", "object_update"}
  BY StageFine DEF Leads, Writing, Step, Mkdirs, Moves, Removes
<1>9. Stage(w)'
  BY <1>8 DEF Stage, MkdirStage, MoveStage, RemoveStage, GoesAhead
<1> QED BY <1>2, <1>7, <1>9 DEF TreeStep, Still
(* The audit row. *)
LEMMA InsertAuditSteps ==
    ASSUME Inv, TreeInv, NEW w \in Workers, InsertAudit(w)
    PROVE  TreeStep(w)
<1> DEFINE write == [repo[w].write EXCEPT !.audit = repo[w].tx, !.action = Op(w),
                                          !.target = repo[w].node]
<1>1. repo[w].pc = "audit" /\ Running(w) /\ Takes(w) /\ Still /\ locks' = locks
  BY SameTakes DEF InsertAudit, At, Running, Database, Still
<1>2. Advance(w, [write |-> write])
  BY Zenon DEF InsertAudit
<1>3. /\ write.node = repo[w].write.node /\ write.row = repo[w].write.row
      /\ write.unref = repo[w].write.unref
  BY DEF Inv, Shape, NoWrite
<1> HIDE DEF write
<1>4. Step(w) /\ repo'[w].pc = AfterStage(w) /\ repo'[w].write = write
  BY <1>1, <1>2, WriteStep DEF Still, Early
<1> QED BY <1>1, <1>3, <1>4, WritingStep DEF Writing
(* The receipt. *)
LEMMA InsertReceiptSteps ==
    ASSUME Inv, TreeInv, NEW w \in Workers, InsertReceipt(w)
    PROVE  TreeStep(w)
<1> DEFINE in == repo[w].in
           row == [command |-> in.op, key |-> in.key, parent |-> in.parent, node |-> in.node,
                   name |-> in.name, result |-> repo[w].node, audit |-> repo[w].write.audit]
           write == [repo[w].write EXCEPT !.receipt = row]
<1>1. repo[w].pc = "receipt_insert" /\ Running(w) /\ Takes(w) /\ Still /\ locks' = locks
  BY SameTakes DEF InsertReceipt, At, Running, Database, Still
<1>2. Finish(w, "DATABASE", "NONE") \/ Advance(w, [write |-> write])
  BY Zenon DEF InsertReceipt
<1>3. /\ write.node = repo[w].write.node /\ write.row = repo[w].write.row
      /\ write.unref = repo[w].write.unref
  <2> HIDE DEF row
  <2> QED BY DEF Inv, Shape, NoWrite
<1> HIDE DEF write
<1>4. CASE Advance(w, [write |-> write])
  <2>1. Step(w) /\ repo'[w].pc = AfterStage(w) /\ repo'[w].write = write
    BY <1>1, <1>4, WriteStep DEF Still, Early
  <2> QED BY <1>1, <1>3, <2>1, WritingStep DEF Writing
<1> QED BY <1>1, <1>2, <1>4, FinishStep
(* The last look at the session. *)
LEMMA RecheckSteps ==
    ASSUME Inv, TreeInv, NEW w \in Workers, Recheck(w)
    PROVE  TreeStep(w)
<1>1. repo[w].pc = "recheck" /\ Running(w) /\ Takes(w) /\ Still /\ locks' = locks
  BY SameTakes DEF Recheck, At, Running, Database, Still
<1>2. Finish(w, "NOT_FOUND", "AUTH_REJECTED") \/ Advance(w, <<>>)
  BY DEF Recheck
<1>3. CASE Advance(w, <<>>)
  <2>1. Step(w) /\ repo'[w].pc = AfterStage(w) /\ repo'[w].write = repo[w].write
    BY <1>1, <1>3, GoOnStep DEF Still
  <2> QED BY <1>1, <2>1, WritingStep DEF Writing
<1> QED BY <1>1, <1>2, <1>3, FinishStep

-----------------------------------------------------------------------------
(* The walks to the root. *)

(* The start is walked, and with a row from which the walk goes on its     *)
(* parent.                                                                 *)
LEMMA WalkedClosed ==
    ASSUME NEW start, NEW forbidden
    PROVE  start \in Walked(start, forbidden) /\ Closed(Walked(start, forbidden), forbidden)
<1> DEFINE known == Directories(nodes)
           ids == known \cup {start} \cup {nodes[n].parent : n \in known}
           rows == Walked(start, forbidden)
<1>1. rows = {n \in ids : \A s \in SUBSET ids : start \in s /\ Closed(s, forbidden) => n \in s}
  BY DEF Walked
<1>2. ASSUME NEW n \in rows, GoesOn(n, forbidden)
      PROVE  nodes[n].parent \in rows
  <2>1. nodes[n].parent \in ids
    BY <1>2 DEF GoesOn, Directory
  <2>2. ASSUME NEW s \in SUBSET ids, start \in s, Closed(s, forbidden)
        PROVE  nodes[n].parent \in s
    <3>1. n \in s
      BY <1>1, <1>2, <2>2
    <3> QED BY <1>2, <2>2, <3>1 DEF Closed
  <2> QED BY <1>1, <2>1, <2>2
<1> QED BY <1>1, <1>2 DEF Closed
(* A walk that finds the root passes only live directories, and not the    *)
(* forbidden one.                                                          *)
LEMMA ChainClear ==
    ASSUME NEW start, NEW forbidden, NEW n, MoveChain(start, forbidden) = "NONE",
           n = forbidden \/ ~Directory(n)
    PROVE  Clear(n, start)
<1> DEFINE rows == Walked(start, forbidden)
           ends == {m \in rows : ~GoesOn(m, forbidden)}
<1>1. forbidden \notin rows /\ \A m \in ends : Directory(m)
  BY DEF MoveChain
<1>2. start \in rows /\ Closed(rows, forbidden)
  BY WalkedClosed
<1>3. \A m \in rows : Directory(m)
  BY <1>1 DEF GoesOn
<1>4. \A m \in rows : nodes[m].parent \in rows \cup {0}
  BY <1>1, <1>2, <1>3 DEF Closed, GoesOn
<1>5. rows \in SUBSET Directories(nodes) /\ n \notin rows
  BY <1>1, <1>3 DEF Directory
<1> HIDE DEF rows
<1> QED BY <1>2, <1>4, <1>5 DEF Clear

-----------------------------------------------------------------------------
(* The statements of MOVE. *)

(* Who is where. *)
LEMMA MoveAt ==
    ASSUME Inv, TreeInv, NEW w \in Workers,
           repo[w].pc \in {"source", "target", "chains", "move_name", "update"}
    PROVE  /\ Running(w) /\ Op(w) \in Moves /\ Op(w) \notin SharedOps /\ MoveStage(w)
           /\ repo[w].pc \notin Early /\ Leads(Op(w), repo[w].pc, AfterStage(w))
           /\ AfterStage(w) \in Writing => repo[w].pc = "update"
<1>1. Running(w)
  BY DEF Running
<1>2. Of(Op(w), repo[w].pc) /\ Leads(Op(w), repo[w].pc, AfterStage(w)) /\ Stage(w)
  BY <1>1, StageFine DEF TreeInv
<1>3. Op(w) \in Moves
  BY <1>2 DEF Of
<1> QED BY <1>1, <1>2, <1>3 DEF Stage, Moves, Mkdirs, SharedOps, Early, Leads, Writing
(* The node that is moved. *)
LEMMA LockMoveSourceSteps ==
    ASSUME Inv, TreeInv, NEW w \in Workers, LockMoveSource(w)
    PROVE  TreeStep(w)
<1> DEFINE n == repo[w].in.node
           d == IF Live(n) THEN "NONE" ELSE "NOT_FOUND"
<1>1. /\ repo[w].pc = "source" /\ Still /\ Advance(w, [node |-> n, domain |-> d])
      /\ Grantable(w, Rows({n}, "X")) /\ Hold(w, Rows({n}, "X"))
  BY DEF LockMoveSource, At, Still, Database
<1>2. /\ Running(w) /\ Op(w) \in Moves /\ Op(w) \notin SharedOps /\ repo[w].pc \notin Early
      /\ Leads(Op(w), "source", AfterStage(w)) /\ AfterStage(w) \notin Writing
  BY <1>1, MoveAt
<1>3. Takes(w)
  BY <1>1, HoldTakes
<1> HIDE DEF d
<1>4. /\ Step(w) /\ repo'[w].pc = AfterStage(w) /\ repo'[w].in = repo[w].in
      /\ repo'[w].domain = d /\ repo'[w].node = n
  BY <1>1, <1>2, <1>3, NodeStep DEF Still
<1>5. repo'[w].pc \notin {"chains", "move_name", "utc", "update"}
  BY <1>2, <1>4 DEF Leads, Moves, Mkdirs
<1>6. MoveStage(w)'
  BY <1>1, <1>4, <1>5 DEF MoveStage, GoesAhead, d, Live, Still
<1> QED BY <1>1, <1>2, <1>4, <1>6, MoveStep
(* A statement of MOVE that has nothing to look for goes on as it was. *)
LEMMA MoveGoesOn ==
    ASSUME Inv, TreeInv, NEW w \in Workers, repo[w].pc \in {"target", "chains", "move_name"},
           repo[w].domain # "NONE", Advance(w, <<>>), locks' = locks, Still
    PROVE  TreeStep(w)
<1>1. /\ Running(w) /\ Op(w) \in Moves /\ repo[w].pc \notin Early
      /\ Leads(Op(w), repo[w].pc, AfterStage(w)) /\ AfterStage(w) \notin Writing
  BY MoveAt
<1>2. /\ Step(w) /\ repo'[w].pc = AfterStage(w) /\ repo'[w].domain # "NONE"
  BY <1>1, SameTakes, GoOnStep DEF Still, Early
<1>3. MoveStage(w)'
  BY <1>1, <1>2 DEF MoveStage, GoesAhead, Leads
<1> QED BY <1>1, <1>2, <1>3, MoveStep
(* The directory it is moved to. *)
LEMMA LockMoveTargetSteps ==
    ASSUME Inv, TreeInv, NEW w \in Workers, LockMoveTarget(w)
    PROVE  TreeStep(w)
<1> DEFINE p == repo[w].in.parent
           d == IF ~Directory(p) THEN "NOT_FOUND"
                ELSE IF nodes[repo[w].node].parent = 0 THEN "ROOT_IMMOVABLE" ELSE "NONE"
<1>1. /\ repo[w].pc = "target" /\ Still
      /\ \/ repo[w].domain # "NONE" /\ Advance(w, <<>>) /\ locks' = locks
         \/ /\ repo[w].domain = "NONE" /\ Advance(w, [domain |-> d])
            /\ Grantable(w, Rows({p}, "X")) /\ Hold(w, Rows({p}, "X"))
  BY DEF LockMoveTarget, At, Still, Database
<1>2. /\ Running(w) /\ Op(w) \in Moves /\ Op(w) \notin SharedOps /\ repo[w].pc \notin Early
      /\ Leads(Op(w), "target", AfterStage(w)) /\ AfterStage(w) \notin Writing /\ MoveStage(w)
  BY <1>1, MoveAt
<1>3. CASE /\ repo[w].domain = "NONE" /\ Advance(w, [domain |-> d])
           /\ Grantable(w, Rows({p}, "X")) /\ Hold(w, Rows({p}, "X"))
  <2>1. Takes(w)
    BY <1>3, HoldTakes
  <2> HIDE DEF d
  <2>2. /\ Step(w) /\ repo'[w].pc = AfterStage(w) /\ repo'[w].in = repo[w].in
        /\ repo'[w].domain = d /\ repo'[w].node = repo[w].node
    BY <1>1, <1>2, <1>3, <2>1, DomainStep DEF Still
  <2>3. repo'[w].pc \notin {"move_name", "utc", "update"}
    BY <1>2, <2>2 DEF Leads, Moves, Mkdirs
  <2>4. repo[w].node = repo[w].in.node /\ Live(repo[w].in.node)
    BY <1>1, <1>2, <1>3 DEF MoveStage, GoesAhead
  <2>5. MoveStage(w)'
    BY <1>1, <2>2, <2>3, <2>4 DEF MoveStage, GoesAhead, d, Live, Still, Directory, Directories
  <2> QED BY <1>1, <1>2, <2>2, <2>5, MoveStep
<1> QED BY <1>1, <1>3, MoveGoesOn
(* The rows above both: the walk from the target does not meet the node.   *)
LEMMA WalkMoveChainsSteps ==
    ASSUME Inv, TreeInv, NEW w \in Workers, WalkMoveChains(w)
    PROVE  TreeStep(w)
<1> DEFINE p == repo[w].in.parent
           n == repo[w].in.node
           d == MoveChains(repo[w].node, p)
           rows == MoveRows(repo[w].node, p)
<1>1. /\ repo[w].pc = "chains" /\ Still
      /\ \/ repo[w].domain # "NONE" /\ Advance(w, <<>>) /\ locks' = locks
         \/ /\ repo[w].domain = "NONE" /\ Advance(w, [domain |-> d])
            /\ Grantable(w, Rows(rows, "S")) /\ Hold(w, Rows(rows, "S"))
  BY DEF WalkMoveChains, At, Still, Database
<1>2. /\ Running(w) /\ Op(w) \in Moves /\ Op(w) \notin SharedOps /\ repo[w].pc \notin Early
      /\ Leads(Op(w), "chains", AfterStage(w)) /\ AfterStage(w) \notin Writing /\ MoveStage(w)
  BY <1>1, MoveAt
<1>3. CASE /\ repo[w].domain = "NONE" /\ Advance(w, [domain |-> d])
           /\ Grantable(w, Rows(rows, "S")) /\ Hold(w, Rows(rows, "S"))
  <2> HIDE DEF rows
  <2>1. Takes(w)
    BY <1>3, HoldTakes
  <2>2. repo[w].node = n /\ Live(n) /\ Directory(p) /\ nodes[n].parent # 0
    BY <1>1, <1>2, <1>3 DEF MoveStage, GoesAhead
  <2>3. d = "NONE" => Clear(n, p)
    <3>1. SUFFICES ASSUME d = "NONE"
                   PROVE  Clear(n, p)
      OBVIOUS
    <3>2. MoveChain(p, Forbidden(n)) = "NONE"
      BY <2>2, <3>1 DEF MoveChains
    <3>3. n = Forbidden(n) \/ ~Directory(n)
      BY DEF Forbidden, Directory, Directories
    <3> QED BY <3>2, <3>3, ChainClear
  <2> HIDE DEF d
  <2>4. /\ Step(w) /\ repo'[w].pc = AfterStage(w) /\ repo'[w].in = repo[w].in
        /\ repo'[w].domain = d /\ repo'[w].node = repo[w].node
    BY <1>1, <1>2, <1>3, <2>1, DomainStep DEF Still
  <2>5. repo'[w].pc \notin {"utc", "update"}
    BY <1>2, <2>4 DEF Leads, Moves, Mkdirs
  <2>6. MoveStage(w)'
    BY <1>1, <2>2, <2>3, <2>4, <2>5
       DEF MoveStage, GoesAhead, Live, Still, Directory, Directories, Clear
  <2> QED BY <1>1, <1>2, <2>4, <2>6, MoveStep
<1> QED BY <1>1, <1>3, MoveGoesOn
(* The name under the target. *)
LEMMA LockMoveNameSteps ==
    ASSUME Inv, TreeInv, NEW w \in Workers, LockMoveName(w)
    PROVE  TreeStep(w)
<1> DEFINE in == repo[w].in
           s == repo[w].node
           occupied == Occupant(in.parent, in.name)
           changed == nodes[s].parent # in.parent \/ nodes[s].name # in.name
<1>1. repo[w].pc = "move_name" /\ Still
  BY DEF LockMoveName, At, Still, Database
<1>2. /\ Running(w) /\ Op(w) \in Moves /\ Op(w) \notin SharedOps /\ repo[w].pc \notin Early
      /\ Leads(Op(w), "move_name", AfterStage(w)) /\ AfterStage(w) \notin Writing /\ MoveStage(w)
  BY <1>1, MoveAt
<1>3. CASE repo[w].domain # "NONE"
  BY <1>1, <1>3, MoveGoesOn DEF LockMoveName
<1>4. CASE repo[w].domain = "NONE"
  <2>1. /\ Grantable(w, Rows(occupied, "X")) /\ Hold(w, Rows(occupied, "X"))
        /\ \/ Advance(w, [domain |-> "NAME_CONFLICT"])
           \/ Finish(w, "DATABASE", "UNEXPECTED_RESULT")
           \/ (changed => occupied = {}) /\ Advance(w, [changed |-> changed])
    BY <1>4 DEF LockMoveName
  <2>2. Takes(w)
    BY <2>1, HoldTakes
  <2>3. CASE Advance(w, [domain |-> "NAME_CONFLICT"])
    <3>1. /\ Step(w) /\ repo'[w].pc = AfterStage(w) /\ repo'[w].domain = "NAME_CONFLICT"
      BY <1>1, <1>2, <2>2, <2>3, DomainStep DEF Still
    <3>2. MoveStage(w)'
      BY <1>2, <3>1 DEF MoveStage, GoesAhead, Leads
    <3> QED BY <1>1, <1>2, <3>1, <3>2, MoveStep
  <2>4. CASE (changed => occupied = {}) /\ Advance(w, [changed |-> changed])
    <3> DEFINE c == [changed |-> changed]
    <3>1. DOMAIN c = {"changed"} /\ c["changed"] = changed /\ Advance(w, c)
      BY <2>4
    <3> HIDE DEF c
    <3>2. /\ Step(w) /\ repo'[w].pc = AfterStage(w) /\ repo'[w].domain = repo[w].domain
          /\ repo'[w].in = in /\ repo'[w].node = s /\ repo'[w].changed = changed
      BY <1>1, <1>2, <2>2, <3>1, AdvanceStep DEF Still, Early
    <3>3. /\ s = in.node /\ Live(in.node) /\ Directory(in.parent) /\ nodes[in.node].parent # 0
          /\ Clear(in.node, in.parent)
      BY <1>1, <1>2, <1>4 DEF MoveStage, GoesAhead
    <3>4. repo'[w].pc # "update" /\ (repo'[w].changed => occupied = {})
      BY <1>2, <2>4, <3>2 DEF Leads
    <3>5. nodes' = nodes
      BY <1>1 DEF Still
    <3> HIDE DEF changed
    <3>6. MoveStage(w)'
      BY <3>2, <3>3, <3>4, <3>5
         DEF MoveStage, GoesAhead, Live, Directory, Directories, Clear, Occupant
    <3> QED BY <1>1, <1>2, <3>2, <3>6, MoveStep
  <2> QED BY <1>1, <1>2, <2>1, <2>2, <2>3, <2>4, FinishStep
<1> QED BY <1>3, <1>4
(* The new place of the node. *)
LEMMA UpdateMoveSteps ==
    ASSUME Inv, TreeInv, NEW w \in Workers, UpdateMove(w)
    PROVE  TreeStep(w)
<1> DEFINE in == repo[w].in
           row == MovedRow(nodes[in.node], in)
           write == IF repo[w].changed THEN [NoWrite EXCEPT !.node = in.node, !.row = row] ELSE NoWrite
<1>1. repo[w].pc = "update" /\ Still /\ Takes(w) /\ locks' = locks
  BY SameTakes DEF UpdateMove, At, Still, Database
<1>2. /\ Running(w) /\ Op(w) \in Moves /\ Op(w) \notin SharedOps /\ repo[w].pc \notin Early
      /\ Leads(Op(w), "update", AfterStage(w)) /\ MoveStage(w)
  BY <1>1, MoveAt
<1>3. Finish(w, "DATABASE", "UNEXPECTED_RESULT") \/ Advance(w, [write |-> write])
  BY Zenon DEF UpdateMove, MovedRow
<1>4. CASE Advance(w, [write |-> write])
  <2>1. /\ write.unref = FALSE
        /\ write.node # 0 => repo[w].changed /\ write.node = in.node /\ write.row = row
    <3> HIDE DEF row
    <3> QED BY DEF NoWrite
  <2> HIDE DEF write
  <2>2. /\ Step(w) /\ repo'[w].pc = AfterStage(w) /\ repo'[w].in = in /\ repo'[w].write = write
        /\ nodes' = nodes
    BY <1>1, <1>2, <1>4, WriteStep DEF Still
  <2>3. /\ Live(in.node) /\ Directory(in.parent) /\ nodes[in.node].parent # 0
        /\ Clear(in.node, in.parent)
        /\ repo[w].changed => Occupant(in.parent, in.name) = {}
    BY <1>1, <1>2 DEF MoveStage, GoesAhead
  <2>4. FitsMove(repo[w].in, repo[w].write)'
    BY <2>1, <2>2, <2>3 DEF FitsMove, Live, Directory, Directories, Clear, Occupant
  <2>5. Fits(repo[w].in, repo[w].write)' /\ Op(w)' = Op(w)
    BY <1>2, <2>2, <2>4 DEF Fits, Op, Mkdirs, Moves, Removes
  <2>6. repo'[w].pc \notin {"target", "chains", "move_name", "utc", "update"}
    BY <1>2, <2>2 DEF Leads, Moves, Mkdirs
  <2>7. Stage(w)'
    BY <1>2, <2>5, <2>6 DEF Stage, MoveStage, GoesAhead, Mkdirs, Moves, Removes
  <2> QED BY <1>1, <1>2, <2>2, <2>5, <2>7 DEF TreeStep, Still, Mkdirs, Moves
<1> QED BY <1>1, <1>2, <1>3, <1>4, FinishStep

-----------------------------------------------------------------------------
(* The statements of REMOVE. *)

(* Who is where. *)
LEMMA RemoveAt ==
    ASSUME Inv, TreeInv, NEW w \in Workers,
           repo[w].pc \in {"delete_source", "delete_chain", "contents", "soft_delete",
                           "object_update"}
    PROVE  /\ Running(w) /\ Op(w) \in Removes /\ Op(w) \notin SharedOps /\ RemoveStage(w)
           /\ repo[w].pc \notin Early /\ Leads(Op(w), repo[w].pc, AfterStage(w))
           /\ AfterStage(w) \in Writing => repo[w].pc = "object_update"
<1>1. Running(w)
  BY DEF Running
<1>2. Of(Op(w), repo[w].pc) /\ Leads(Op(w), repo[w].pc, AfterStage(w)) /\ Stage(w)
  BY <1>1, StageFine DEF TreeInv
<1>3. Op(w) \in Removes
  BY <1>2 DEF Of
<1> QED BY <1>1, <1>2, <1>3 DEF Stage, Moves, Mkdirs, Removes, SharedOps, Early, Leads, Writing
(* The node that is removed. *)
LEMMA LockDeleteSourceSteps ==
    ASSUME Inv, TreeInv, NEW w \in Workers, LockDeleteSource(w)
    PROVE  TreeStep(w)
<1> DEFINE n == repo[w].in.node
           d == IF ~Live(n) THEN "NOT_FOUND"
                ELSE IF nodes[n].parent = 0 THEN "ROOT_UNDELETABLE" ELSE "NONE"
<1>1. /\ repo[w].pc = "delete_source" /\ Still /\ Advance(w, [node |-> n, domain |-> d])
      /\ Grantable(w, Rows({n}, "X")) /\ Hold(w, Rows({n}, "X"))
  BY DEF LockDeleteSource, At, Still, Database
<1>2. /\ Running(w) /\ Op(w) \in Removes /\ Op(w) \notin SharedOps /\ repo[w].pc \notin Early
      /\ Leads(Op(w), "delete_source", AfterStage(w)) /\ AfterStage(w) \notin Writing
  BY <1>1, RemoveAt
<1>3. Takes(w)
  BY <1>1, HoldTakes
<1> HIDE DEF d
<1>4. /\ Step(w) /\ repo'[w].pc = AfterStage(w) /\ repo'[w].in = repo[w].in
      /\ repo'[w].domain = d /\ repo'[w].node = n
  BY <1>1, <1>2, <1>3, NodeStep DEF Still
<1>5. repo'[w].pc \notin {"contents", "utc", "soft_delete", "object_update"}
  BY <1>2, <1>4 DEF Leads, Moves, Mkdirs, Removes
<1>6. RemoveStage(w)'
  BY <1>1, <1>4, <1>5 DEF RemoveStage, GoesAhead, d, Live, Still
<1> QED BY <1>1, <1>2, <1>4, <1>6, RemoveStep
(* A statement of REMOVE that has nothing to look for goes on as it was. *)
LEMMA RemoveGoesOn ==
    ASSUME Inv, TreeInv, NEW w \in Workers, repo[w].pc \in {"delete_chain", "contents"},
           repo[w].domain # "NONE", Advance(w, <<>>), locks' = locks, Still
    PROVE  TreeStep(w)
<1>1. /\ Running(w) /\ Op(w) \in Removes /\ repo[w].pc \notin Early
      /\ Leads(Op(w), repo[w].pc, AfterStage(w)) /\ AfterStage(w) \notin Writing
  BY RemoveAt
<1>2. /\ Step(w) /\ repo'[w].pc = AfterStage(w) /\ repo'[w].domain # "NONE"
  BY <1>1, SameTakes, GoOnStep DEF Still, Early
<1>3. RemoveStage(w)'
  BY <1>1, <1>2 DEF RemoveStage, GoesAhead, Leads
<1> QED BY <1>1, <1>2, <1>3, RemoveStep
(* The rows above it. *)
LEMMA WalkDeleteChainSteps ==
    ASSUME Inv, TreeInv, NEW w \in Workers, WalkDeleteChain(w)
    PROVE  TreeStep(w)
<1> DEFINE n == repo[w].in.node
           d == DeleteChain(nodes[repo[w].node].parent)
           rows == Ancestors(nodes[repo[w].node].parent, 0)
<1>1. /\ repo[w].pc = "delete_chain" /\ Still
      /\ \/ repo[w].domain # "NONE" /\ Advance(w, <<>>) /\ locks' = locks
         \/ /\ repo[w].domain = "NONE" /\ Advance(w, [domain |-> d])
            /\ Grantable(w, Rows(rows, "S")) /\ Hold(w, Rows(rows, "S"))
  BY DEF WalkDeleteChain, At, Still, Database
<1>2. /\ Running(w) /\ Op(w) \in Removes /\ Op(w) \notin SharedOps /\ repo[w].pc \notin Early
      /\ Leads(Op(w), "delete_chain", AfterStage(w)) /\ AfterStage(w) \notin Writing
      /\ RemoveStage(w)
  BY <1>1, RemoveAt
<1>3. CASE /\ repo[w].domain = "NONE" /\ Advance(w, [domain |-> d])
           /\ Grantable(w, Rows(rows, "S")) /\ Hold(w, Rows(rows, "S"))
  <2> HIDE DEF rows, d
  <2>1. Takes(w)
    BY <1>3, HoldTakes
  <2>2. repo[w].node = n /\ Live(n) /\ nodes[n].parent # 0
    BY <1>1, <1>2, <1>3 DEF RemoveStage, GoesAhead
  <2>3. /\ Step(w) /\ repo'[w].pc = AfterStage(w) /\ repo'[w].in = repo[w].in
        /\ repo'[w].node = repo[w].node
    BY <1>1, <1>2, <1>3, <2>1, DomainStep DEF Still
  <2>4. repo'[w].pc \notin {"utc", "soft_delete", "object_update"}
    BY <1>2, <2>3 DEF Leads, Moves, Mkdirs, Removes
  <2>5. RemoveStage(w)'
    BY <1>1, <2>2, <2>3, <2>4 DEF RemoveStage, GoesAhead, Live, Still
  <2> QED BY <1>1, <1>2, <2>3, <2>5, RemoveStep
<1> QED BY <1>1, <1>3, RemoveGoesOn
(* What keeps a node from being removed: a directory's children. *)
LEMMA ContentsStep ==
    ASSUME Inv, TreeInv, NEW w \in Workers, repo[w].pc = "contents", repo[w].domain = "NONE",
           Takes(w), Still, NEW d, Advance(w, [domain |-> d]),
           d = "NONE" => Childless(repo[w].in.node)
    PROVE  TreeStep(w)
<1>1. /\ Running(w) /\ Op(w) \in Removes /\ repo[w].pc \notin Early
      /\ Leads(Op(w), "contents", AfterStage(w)) /\ AfterStage(w) \notin Writing
      /\ RemoveStage(w)
  BY RemoveAt
<1>2. repo[w].node = repo[w].in.node /\ Live(repo[w].in.node) /\ nodes[repo[w].in.node].parent # 0
  BY <1>1 DEF RemoveStage, GoesAhead
<1>3. /\ Step(w) /\ repo'[w].pc = AfterStage(w) /\ repo'[w].in = repo[w].in
      /\ repo'[w].node = repo[w].node /\ repo'[w].domain = d
  BY <1>1, DomainStep DEF Still
<1>4. repo'[w].pc \notin {"soft_delete", "object_update"}
  BY <1>1, <1>3 DEF Leads
<1>5. RemoveStage(w)'
  BY <1>2, <1>3, <1>4 DEF RemoveStage, GoesAhead, Live, Still, Childless
<1> QED BY <1>1, <1>3, <1>5, RemoveStep
(* The children that a removed directory must not have. *)
LEMMA LockDeleteChildrenSteps ==
    ASSUME Inv, TreeInv, NEW w \in Workers, LockDeleteChildren(w)
    PROVE  TreeStep(w)
<1> DEFINE n == repo[w].node
           children == {m \in DOMAIN nodes : nodes[m].parent = n /\ nodes[m].state \in {1, 2}}
           first == {m \in children : \A k \in children : m <= k}
           d == IF children = {} THEN "NONE" ELSE "DIRECTORY_NOT_EMPTY"
<1>1. /\ repo[w].pc = "contents" /\ repo[w].domain = "NONE" /\ Still
      /\ Advance(w, [domain |-> d])
      /\ Grantable(w, Rows(first, "X")) /\ Hold(w, Rows(first, "X"))
  BY DEF LockDeleteChildren, At, Still, Database
<1>2. /\ Running(w) /\ Op(w) \notin SharedOps /\ repo[w].pc \notin Early /\ RemoveStage(w)
  BY <1>1, RemoveAt
<1>3. n = repo[w].in.node
  BY <1>1, <1>2 DEF RemoveStage, GoesAhead
<1>4. d = "NONE" => Childless(n)
  BY DEF Childless, TreeInv, RowsTyped
<1> HIDE DEF d, children, first
<1>5. Takes(w)
  BY <1>1, HoldTakes
<1> QED BY <1>1, <1>3, <1>4, <1>5, ContentsStep
(* A file has no children: it is no directory. *)
LEMMA LockDeleteObjectSteps ==
    ASSUME Inv, TreeInv, NEW w \in Workers, LockDeleteObject(w)
    PROVE  TreeStep(w)
<1> DEFINE n == repo[w].node
<1>1. /\ repo[w].pc = "contents" /\ repo[w].domain = "NONE" /\ Still
      /\ nodes[n].kind = "file" /\ \E d : Advance(w, [domain |-> d])
      /\ Grantable(w, {Want(<<"object">>, "X")}) /\ Hold(w, {Want(<<"object">>, "X")})
  BY DEF LockDeleteObject, At, Still, Database
<1>2. /\ Running(w) /\ Op(w) \notin SharedOps /\ repo[w].pc \notin Early /\ RemoveStage(w)
  BY <1>1, RemoveAt
<1>3. n = repo[w].in.node /\ Live(n)
  BY <1>1, <1>2 DEF RemoveStage, GoesAhead
<1>4. Childless(n)
  <2>1. n \notin Directories(nodes) /\ n # 0
    BY <1>1, <1>3 DEF Directories, Live, TreeInv, RowsTyped
  <2> QED BY <2>1 DEF Childless, TreeInv, TreeSound, SoundRows
<1>5. Takes(w)
  BY <1>1, HoldTakes
<1> QED BY <1>1, <1>3, <1>4, <1>5, ContentsStep
(* A removal whose checks have failed. *)
LEMMA DeleteNothingSteps ==
    ASSUME Inv, TreeInv, NEW w \in Workers, DeleteNothing(w)
    PROVE  TreeStep(w)
BY RemoveGoesOn DEF DeleteNothing, At, Still, Database
(* The row of the removed node. *)
LEMMA DeleteUpdateSteps ==
    ASSUME Inv, TreeInv, NEW w \in Workers, DeleteUpdate(w)
    PROVE  TreeStep(w)
<1> DEFINE n == repo[w].node
           row == RemovedRow(nodes[n])
           write == [NoWrite EXCEPT !.node = n, !.row = row]
<1>1. repo[w].pc = "soft_delete" /\ Still /\ Takes(w) /\ locks' = locks
  BY SameTakes DEF DeleteUpdate, At, Still, Database
<1>2. /\ Running(w) /\ Op(w) \in Removes /\ Op(w) \notin SharedOps /\ repo[w].pc \notin Early
      /\ Leads(Op(w), "soft_delete", AfterStage(w)) /\ AfterStage(w) \notin Writing
      /\ RemoveStage(w)
  BY <1>1, RemoveAt
<1>3. Finish(w, "DATABASE", "UNEXPECTED_RESULT") \/ Advance(w, [write |-> write])
  BY Zenon DEF DeleteUpdate, RemovedRow
<1>4. CASE Advance(w, [write |-> write])
  <2>1. write.unref = FALSE /\ write.node = n /\ write.row = row
    <3> HIDE DEF row
    <3> QED BY DEF NoWrite
  <2> HIDE DEF write
  <2>2. /\ Step(w) /\ repo'[w].pc = AfterStage(w) /\ repo'[w].in = repo[w].in
        /\ repo'[w].node = n /\ repo'[w].write = write /\ nodes' = nodes
    BY <1>1, <1>2, <1>4, WriteStep DEF Still
  <2>3. n = repo[w].in.node /\ Live(n) /\ nodes[n].parent # 0 /\ Childless(n)
    BY <1>1, <1>2 DEF RemoveStage, GoesAhead
  <2>4. FitsRemove(repo[w].in, repo[w].write, FALSE)'
    BY <2>1, <2>2, <2>3 DEF FitsRemove, Live, Childless
  <2>5. repo'[w].pc \notin {"delete_chain", "contents", "utc", "soft_delete"}
    BY <1>2, <2>2 DEF Leads, Moves, Mkdirs, Removes
  <2>6. RemoveStage(w)'
    BY <2>2, <2>3, <2>4, <2>5 DEF RemoveStage, GoesAhead
  <2> QED BY <1>1, <1>2, <2>2, <2>6, RemoveStep
<1> QED BY <1>1, <1>2, <1>3, <1>4, FinishStep
(* The reference that a removed file gives up. *)
LEMMA ObjectUpdateSteps ==
    ASSUME Inv, TreeInv, NEW w \in Workers, ObjectUpdate(w)
    PROVE  TreeStep(w)
<1> DEFINE file == nodes[repo[w].node].kind = "file"
           write == [repo[w].write EXCEPT !.unref = file]
<1>1. repo[w].pc = "object_update" /\ Still /\ Takes(w) /\ locks' = locks
  BY SameTakes DEF ObjectUpdate, At, Still, Database
<1>2. /\ Running(w) /\ Op(w) \in Removes /\ Op(w) \notin SharedOps /\ repo[w].pc \notin Early
      /\ Leads(Op(w), "object_update", AfterStage(w)) /\ RemoveStage(w)
  BY <1>1, RemoveAt
<1>3. Advance(w, [write |-> write])
  BY Zenon DEF ObjectUpdate
<1>4. write.unref = file /\ write.node = repo[w].write.node /\ write.row = repo[w].write.row
  <2> HIDE DEF file
  <2> QED BY DEF Inv, Shape, NoWrite
<1> HIDE DEF write
<1>5. /\ Step(w) /\ repo'[w].pc = AfterStage(w) /\ repo'[w].in = repo[w].in
      /\ repo'[w].write = write /\ nodes' = nodes
  BY <1>1, <1>2, <1>3, WriteStep DEF Still
<1>6. repo[w].node = repo[w].in.node /\ FitsRemove(repo[w].in, repo[w].write, FALSE)
  BY <1>1, <1>2 DEF RemoveStage
<1>7. FitsRemove(repo[w].in, repo[w].write, TRUE)'
  BY <1>4, <1>5, <1>6 DEF FitsRemove, Live, Childless
<1>8. Fits(repo[w].in, repo[w].write)' /\ Op(w)' = Op(w)
  BY <1>2, <1>5, <1>7 DEF Fits, Op, Mkdirs, Moves, Removes
<1>9. repo'[w].pc \notin {"delete_chain", "contents", "utc", "soft_delete", "object_update"}
  BY <1>2, <1>5 DEF Leads, Moves, Mkdirs, Removes
<1>10. Stage(w)'
  BY <1>2, <1>8, <1>9 DEF Stage, RemoveStage, GoesAhead, Mkdirs, Moves, Removes
<1> QED BY <1>1, <1>2, <1>5, <1>8, <1>10 DEF TreeStep, Still, Mkdirs, Removes

-----------------------------------------------------------------------------
(* A transaction that takes effect: what becomes of the rows. *)

(* MKDIR adds a leaf below a live directory. *)
LEMMA MkdirLands ==
    ASSUME TreeInv, NEW t, NEW in, NEW write, FitsMkdir(in, write), Apply(t, in, write),
           nextId' = nextId
    PROVE  /\ RowsTyped' /\ TreeSound' /\ ReferencesExact'
           /\ DOMAIN nodes' = DOMAIN nodes \cup {write.node}
           /\ nodes'[write.node] = NewRow(in)
           /\ \A m \in DOMAIN nodes : nodes'[m] = nodes[m]
           /\ \A d : Directory(d) => Directory(d)'
<1> DEFINE n == write.node
<1>1. /\ n \in 1..(nextId - 1) /\ n \notin DOMAIN nodes /\ n # 0
      /\ in.parent \in Directories(nodes) /\ Occupant(in.parent, in.name) = {}
      /\ write.row = NewRow(in) /\ write.unref = FALSE
  BY DEF FitsMkdir, Directory, TreeInv, RowsTyped
<1>2. /\ RowsTyped /\ TreeSound /\ ReferencesExact
      /\ 0 \notin DOMAIN nodes /\ IsFiniteSet(DOMAIN nodes)
  BY DEF TreeInv, RowsTyped
<1>3. /\ nodes' = [m \in DOMAIN nodes \cup {n} |-> IF m = n THEN write.row ELSE nodes[m]]
      /\ refs' = refs
  BY <1>1 DEF Apply
<1> HIDE DEF n
<1>4. /\ DOMAIN nodes' = DOMAIN nodes \cup {n}
      /\ nodes'[n] = NewRow(in)
      /\ \A m \in DOMAIN nodes : nodes'[m] = nodes[m]
  BY <1>1, <1>3
<1>5. /\ DOMAIN NewRow(in) = RowFields /\ NewRow(in).parent = in.parent
      /\ NewRow(in).name = in.name /\ NewRow(in).kind = "directory" /\ NewRow(in).state = 2
  BY DEF NewRow, RowFields
<1>6. RowsTyped'
  <2>1. IsFiniteSet(DOMAIN nodes \cup {n})
    BY <1>2, FS_AddElement
  <2> QED BY <1>1, <1>2, <1>4, <1>5, <2>1 DEF RowsTyped
<1>7. Directories(nodes') = Directories(nodes) \cup {n}
  BY <1>1, <1>4, <1>5 DEF Directories
<1>8. Directories(nodes) \subseteq DOMAIN nodes
  BY DEF Directories
<1>9. TreeSound'
  <2>1. PICK root \in Directories(nodes) : \A m \in DOMAIN nodes : nodes[m].parent = 0 <=> m = root
    BY <1>2 DEF TreeSound, SoundRows
  <2>2. \A m \in DOMAIN nodes' : nodes'[m].parent = 0 <=> m = root
    BY <1>1, <1>2, <1>4, <1>5, <1>8, <2>1
  <2>3. \A m \in DOMAIN nodes' : nodes'[m].state # 3 =>
          nodes'[m].parent \in Directories(nodes') \cup {0}
    BY <1>1, <1>2, <1>4, <1>5, <1>7 DEF TreeSound, SoundRows
  <2>4. ASSUME NEW s \in SUBSET Directories(nodes'), s # {}
        PROVE  \E m \in s : nodes'[m].parent \notin s
    <3>1. CASE s = {n}
      BY <1>1, <1>4, <1>5, <1>8, <3>1
    <3>2. CASE s # {n}
      <4>1. s \ {n} # {} /\ s \ {n} \subseteq Directories(nodes)
        BY <1>7, <2>4, <3>2
      <4>2. PICK m \in s \ {n} : nodes[m].parent \notin s \ {n}
        BY <1>2, <4>1 DEF TreeSound, SoundRows
      <4>3. m \in DOMAIN nodes /\ nodes[m].state = 2
        BY <4>1, <4>2 DEF Directories
      <4>4. nodes[m].parent # n
        BY <1>1, <1>2, <1>8, <4>3 DEF TreeSound, SoundRows
      <4> QED BY <1>4, <4>2, <4>3, <4>4
    <3> QED BY <3>1, <3>2
  <2>5. \A m \in DOMAIN nodes : nodes[m].state # 3 =>
          ~(nodes[m].parent = in.parent /\ nodes[m].name = in.name)
    BY <1>1, <1>2 DEF RowsTyped, Occupant
  <2>6. \A k, m \in {j \in DOMAIN nodes' : nodes'[j].state # 3} :
          nodes'[k].parent = nodes'[m].parent /\ nodes'[k].name = nodes'[m].name => k = m
    BY <1>2, <1>4, <1>5, <2>5 DEF TreeSound, SoundRows
  <2> QED BY <1>7, <2>1, <2>2, <2>3, <2>4, <2>6 DEF TreeSound, SoundRows
<1>10. ReferencesExact'
  <2>1. {m \in DOMAIN nodes' : nodes'[m].kind = "file" /\ Live(m)'} =
          {m \in DOMAIN nodes : nodes[m].kind = "file" /\ Live(m)}
    BY <1>1, <1>4, <1>5 DEF Live
  <2> QED BY <1>2, <1>3, <2>1 DEF ReferencesExact
<1> QED BY <1>4, <1>6, <1>7, <1>9, <1>10 DEF Directory, n
(* MOVE hangs a node below a directory that does not lie below it. *)
LEMMA MoveLands ==
    ASSUME TreeInv, NEW t, NEW in, NEW write, FitsMove(in, write), Apply(t, in, write),
           nextId' = nextId
    PROVE  RowsTyped' /\ TreeSound' /\ ReferencesExact'
<1> DEFINE n == in.node
<1>1. RowsTyped /\ TreeSound /\ ReferencesExact /\ 0 \notin DOMAIN nodes
  BY DEF TreeInv, RowsTyped
<1>2. refs' = refs
  BY DEF FitsMove, Apply
<1>3. CASE write.node = 0
  <2>1. nodes' = nodes
    BY <1>3 DEF Apply
  <2> QED BY <1>1, <1>2, <2>1 DEF RowsTyped, TreeSound, ReferencesExact, Live
<1>4. CASE write.node # 0
  <2>1. /\ write.node = n /\ Live(n) /\ nodes[n].parent # 0 /\ write.row = MovedRow(nodes[n], in)
        /\ in.parent \in Directories(nodes) /\ Clear(n, in.parent)
        /\ Occupant(in.parent, in.name) = {}
    BY <1>4 DEF FitsMove, Directory
  <2>2. nodes' = [m \in DOMAIN nodes \cup {n} |-> IF m = n THEN write.row ELSE nodes[m]]
    BY <1>4, <2>1 DEF Apply
  <2> HIDE DEF n
  <2>3. /\ n \in DOMAIN nodes /\ DOMAIN nodes' = DOMAIN nodes
        /\ nodes'[n] = MovedRow(nodes[n], in)
        /\ \A m \in DOMAIN nodes \ {n} : nodes'[m] = nodes[m]
    BY <2>1, <2>2 DEF Live
  <2>4. /\ DOMAIN nodes'[n] = RowFields /\ nodes'[n].parent = in.parent
        /\ nodes'[n].name = in.name /\ nodes'[n].kind = nodes[n].kind
        /\ nodes'[n].state = nodes[n].state
    BY <1>1, <2>3 DEF MovedRow, RowsTyped, RowFields
  <2>5. RowsTyped'
    BY <1>1, <2>3, <2>4 DEF RowsTyped
  <2>6. Directories(nodes') = Directories(nodes) /\ Directories(nodes) \subseteq DOMAIN nodes
    BY <2>3, <2>4 DEF Directories
  <2>7. TreeSound'
    <3>1. PICK root \in Directories(nodes) :
            \A m \in DOMAIN nodes : nodes[m].parent = 0 <=> m = root
      BY <1>1 DEF TreeSound, SoundRows
    <3>2. \A m \in DOMAIN nodes' : nodes'[m].parent = 0 <=> m = root
      BY <1>1, <2>1, <2>3, <2>4, <2>6, <3>1
    <3>3. \A m \in DOMAIN nodes' : nodes'[m].state # 3 =>
            nodes'[m].parent \in Directories(nodes') \cup {0}
      BY <1>1, <2>1, <2>3, <2>4, <2>6 DEF TreeSound, SoundRows
    <3>4. ASSUME NEW s \in SUBSET Directories(nodes'), s # {}
          PROVE  \E m \in s : nodes'[m].parent \notin s
      <4>1. PICK above \in SUBSET Directories(nodes) :
              /\ in.parent \in above /\ n \notin above
              /\ \A a \in above : nodes[a].parent \in above \cup {0}
        BY <2>1 DEF Clear
      <4>2. s \in SUBSET Directories(nodes) /\ 0 \notin s
        BY <1>1, <2>6, <3>4
      <4>3. CASE s \cap above # {}
        <5>1. PICK m \in s \cap above : nodes[m].parent \notin s \cap above
          BY <1>1, <4>2, <4>3 DEF TreeSound, SoundRows
        <5>2. nodes[m].parent \notin s
          BY <4>1, <4>2, <5>1
        <5> QED BY <2>3, <2>6, <4>1, <4>2, <5>1, <5>2
      <4>4. CASE s \cap above = {}
        <5>1. PICK m \in s : nodes[m].parent \notin s
          BY <1>1, <3>4, <4>2 DEF TreeSound, SoundRows
        <5> QED BY <2>3, <2>4, <2>6, <4>1, <4>2, <4>4, <5>1
      <4> QED BY <4>3, <4>4
    <3>5. \A m \in DOMAIN nodes : nodes[m].state # 3 =>
            ~(nodes[m].parent = in.parent /\ nodes[m].name = in.name)
      BY <1>1, <2>1 DEF RowsTyped, Occupant
    <3>6. \A k, m \in {j \in DOMAIN nodes' : nodes'[j].state # 3} :
            nodes'[k].parent = nodes'[m].parent /\ nodes'[k].name = nodes'[m].name => k = m
      BY <1>1, <2>3, <2>4, <3>5 DEF TreeSound, SoundRows
    <3> QED BY <2>6, <3>1, <3>2, <3>3, <3>4, <3>6 DEF TreeSound, SoundRows
  <2>8. ReferencesExact'
    <3>1. {m \in DOMAIN nodes' : nodes'[m].kind = "file" /\ Live(m)'} =
            {m \in DOMAIN nodes : nodes[m].kind = "file" /\ Live(m)}
      BY <2>3, <2>4 DEF Live
    <3> QED BY <1>1, <1>2, <3>1 DEF ReferencesExact
  <2> QED BY <2>5, <2>7, <2>8
<1> QED BY <1>3, <1>4
(* REMOVE deletes a leaf, and a file's reference with it. *)
LEMMA RemoveLands ==
    ASSUME TreeInv, NEW t, NEW in, NEW write, FitsRemove(in, write, TRUE), Apply(t, in, write),
           nextId' = nextId
    PROVE  RowsTyped' /\ TreeSound' /\ ReferencesExact'
<1> DEFINE n == in.node
           files == {m \in DOMAIN nodes : nodes[m].kind = "file" /\ Live(m)}
<1>1. /\ RowsTyped /\ TreeSound /\ refs = Cardinality(files) /\ 0 \notin DOMAIN nodes
      /\ IsFiniteSet(DOMAIN nodes)
  BY DEF TreeInv, RowsTyped, ReferencesExact
<1>2. /\ write.node = n /\ Live(n) /\ nodes[n].parent # 0 /\ Childless(n)
      /\ write.row = RemovedRow(nodes[n]) /\ write.unref = (nodes[n].kind = "file")
  BY DEF FitsRemove
<1>3. /\ nodes' = [m \in DOMAIN nodes \cup {n} |-> IF m = n THEN write.row ELSE nodes[m]]
      /\ refs' = IF nodes[n].kind = "file" THEN refs - 1 ELSE refs
  BY <1>1, <1>2 DEF Apply, Live
<1>4. files \subseteq DOMAIN nodes
  OBVIOUS
<1>5. /\ n \in files <=> nodes[n].kind = "file"
      /\ n \in DOMAIN nodes /\ nodes[n].state = 2
  BY <1>2 DEF Live
<1> HIDE DEF n
<1>6. /\ DOMAIN nodes' = DOMAIN nodes
      /\ nodes'[n] = RemovedRow(nodes[n])
      /\ \A m \in DOMAIN nodes \ {n} : nodes'[m] = nodes[m]
  BY <1>2, <1>3, <1>5
<1>7. /\ DOMAIN nodes'[n] = RowFields /\ nodes'[n].parent = nodes[n].parent
      /\ nodes'[n].name = nodes[n].name /\ nodes'[n].kind = nodes[n].kind
      /\ nodes'[n].state = 3
  BY <1>1, <1>5, <1>6 DEF RemovedRow, RowsTyped, RowFields
<1>8. RowsTyped'
  BY <1>1, <1>6, <1>7 DEF RowsTyped
<1>9. Directories(nodes') = Directories(nodes) \ {n} /\ Directories(nodes) \subseteq DOMAIN nodes
  BY <1>6, <1>7 DEF Directories
<1>10. TreeSound'
  <2>1. PICK root \in Directories(nodes) : \A m \in DOMAIN nodes : nodes[m].parent = 0 <=> m = root
    BY <1>1 DEF TreeSound, SoundRows
  <2>2. root \in Directories(nodes') /\ \A m \in DOMAIN nodes' : nodes'[m].parent = 0 <=> m = root
    BY <1>2, <1>5, <1>6, <1>7, <1>9, <2>1
  <2>3. \A m \in DOMAIN nodes' : nodes'[m].state # 3 =>
          nodes'[m].parent \in Directories(nodes') \cup {0}
    BY <1>1, <1>2, <1>6, <1>7, <1>9 DEF TreeSound, SoundRows, Childless
  <2>4. \A s \in SUBSET Directories(nodes') : s # {} => \E m \in s : nodes'[m].parent \notin s
    <3>1. SUFFICES ASSUME NEW s \in SUBSET Directories(nodes'), s # {}
                   PROVE  \E m \in s : nodes'[m].parent \notin s
      OBVIOUS
    <3>2. s \in SUBSET Directories(nodes) /\ n \notin s
      BY <1>9, <3>1
    <3>3. PICK m \in s : nodes[m].parent \notin s
      BY <1>1, <3>1, <3>2 DEF TreeSound, SoundRows
    <3> QED BY <1>6, <1>9, <3>2, <3>3
  <2>5. \A k, m \in {j \in DOMAIN nodes' : nodes'[j].state # 3} :
          nodes'[k].parent = nodes'[m].parent /\ nodes'[k].name = nodes'[m].name => k = m
    BY <1>1, <1>6, <1>7 DEF TreeSound, SoundRows
  <2> QED BY <2>2, <2>3, <2>4, <2>5 DEF TreeSound, SoundRows
<1>11. ReferencesExact'
  <2>1. {m \in DOMAIN nodes' : nodes'[m].kind = "file" /\ Live(m)'} = files \ {n}
    BY <1>6, <1>7 DEF Live
  <2> HIDE DEF files
  <2>2. IsFiniteSet(files)
    BY <1>1, <1>4, FS_Subset
  <2>3. Cardinality(files \ {n}) = IF n \in files THEN Cardinality(files) - 1
                                   ELSE Cardinality(files)
    BY <2>2, FS_RemoveElement
  <2>4. refs' = Cardinality(files \ {n})
    BY <1>1, <1>3, <1>5, <2>3
  <2> QED BY <2>1, <2>4 DEF ReferencesExact
<1> QED BY <1>8, <1>10, <1>11

(* Every transaction that may commit holds the user row. *)
LEMMA PendingHolds ==
    ASSUME Inv
    PROVE  \A x \in Pending : UserLock(x.tx, x.in.op) \in locks
<1> SUFFICES ASSUME NEW x \in Pending
             PROVE  UserLock(x.tx, x.in.op) \in locks
  OBVIOUS
<1>1. CASE \E w \in Workers : /\ repo[w].pc \in Writing
                              /\ x = Transaction(repo[w].tx, repo[w].in, repo[w].write)
  <2>1. PICK w \in Workers : /\ repo[w].pc \in Writing
                             /\ x = Transaction(repo[w].tx, repo[w].in, repo[w].write)
    BY <1>1
  <2>2. Running(w) /\ repo[w].pc \notin Early
    BY <2>1 DEF Running, Early, Writing
  <2>3. UserLock(repo[w].tx, Op(w)) \in locks
    BY <2>2 DEF Inv, UserHeld
  <2>4. x.tx = repo[w].tx /\ x.in.op = Op(w)
    BY <2>1 DEF Transaction, Op
  <2> QED BY <2>3, <2>4
<1>2. CASE \E o \in orphans : o.sent /\ x = Transaction(o.tx, o.in, o.write)
  BY <1>2 DEF Transaction, Inv, UserHeld
<1> QED BY <1>1, <1>2 DEF Pending
(* Beside it there are calls that have not locked the user row, and, when  *)
(* it is a plain MKDIR, others that share it.                              *)
LEMMA WhoElse ==
    ASSUME Inv, TreeInv, NEW x \in Pending
    PROVE  /\ \A y \in Pending : y.tx # x.tx => x.in.op = "mkdir" /\ y.in.op = "mkdir"
           /\ \A v \in Workers : Running(v) /\ repo[v].pc \notin Early /\ repo[v].tx # x.tx =>
                x.in.op = "mkdir" /\ Op(v) \in SharedOps
<1>1. \A y \in Pending : y.in.op \in SharedOps => y.in.op = "mkdir"
  BY DEF TreeInv, PendingFit, Fits, Mkdirs, Moves, Removes, SharedOps
<1>2. ASSUME NEW t, NEW op, UserLock(t, op) \in locks, t # x.tx
      PROVE  op \in SharedOps /\ x.in.op \in SharedOps
  <2>1. UserLock(x.tx, x.in.op) \in locks
    BY PendingHolds
  <2> QED BY <1>2, <2>1 DEF Inv, Compatible, UserLock
<1> QED BY <1>1, <1>2, PendingHolds DEF Inv, UserHeld
(* What the step that commits x does to calls and transactions. *)
Leaves(x) ==
    /\ Apply(x.tx, x.in, x.write) /\ nextId' = nextId
    /\ \A y \in Pending' : y \in Pending /\ y.tx # x.tx
    /\ \A v \in Workers : Running(v)' => repo'[v] = repo[v] /\ repo[v].tx # x.tx
(* The rows stay a tree, and what others have found out stays so. *)
LEMMA LandsKeeps ==
    ASSUME Inv, TreeInv, NEW x \in Pending, Leaves(x)
    PROVE  TreeInv'
<1>1. /\ Apply(x.tx, x.in, x.write) /\ nextId' = nextId /\ locks' = locks \ LocksOf(x.tx)
      /\ Fits(x.in, x.write)
  BY DEF Leaves, Apply, TreeInv, PendingFit
<1>2. RowsTyped' /\ TreeSound' /\ ReferencesExact'
  BY <1>1, MkdirLands, MoveLands, RemoveLands DEF Fits
<1>3. \A l \in locks : l.tx # x.tx => l \in locks'
  BY <1>1 DEF LocksOf
<1>4. PendingFit'
  <2>1. ASSUME NEW y \in Pending'
        PROVE  Fits(y.in, y.write)' /\ ParentLock(y.tx, y.in) \in locks'
    <3>1. /\ y \in Pending /\ y.tx # x.tx /\ x.in.op = "mkdir" /\ y.in.op = "mkdir"
      BY <2>1, WhoElse DEF Leaves
    <3>2. /\ FitsMkdir(y.in, y.write) /\ FitsMkdir(x.in, x.write)
          /\ ParentLock(y.tx, y.in) \in locks /\ ParentLock(x.tx, x.in) \in locks
          /\ x.write.node # y.write.node
      BY <3>1 DEF TreeInv, PendingFit, Fits, Mkdirs
    <3>3. /\ DOMAIN nodes' = DOMAIN nodes \cup {x.write.node}
          /\ nodes'[x.write.node] = NewRow(x.in)
          /\ \A m \in DOMAIN nodes : nodes'[m] = nodes[m]
          /\ \A d : Directory(d) => Directory(d)'
      <4> DEFINE t == x.tx
                 in == x.in
                 write == x.write
      <4>1. TreeInv /\ FitsMkdir(in, write) /\ Apply(t, in, write) /\ nextId' = nextId
        BY <1>1, <3>2
      <4> HIDE DEF t, in, write
      <4>2. /\ DOMAIN nodes' = DOMAIN nodes \cup {write.node}
            /\ nodes'[write.node] = NewRow(in)
            /\ \A m \in DOMAIN nodes : nodes'[m] = nodes[m]
            /\ \A d : Directory(d) => Directory(d)'
        BY <4>1, MkdirLands
      <4> QED BY <4>2 DEF in, write
    <3>4. x.in.parent # y.in.parent
      BY <3>1, <3>2 DEF Inv, Compatible, ParentLock
    <3>5. NewRow(x.in).parent = x.in.parent
      BY DEF NewRow
    <3>6. Occupant(y.in.parent, y.in.name)' = {}
      BY <3>2, <3>3, <3>4, <3>5 DEF Occupant, FitsMkdir
    <3>7. FitsMkdir(y.in, y.write)'
      BY <1>1, <3>2, <3>3, <3>6 DEF FitsMkdir
    <3>8. ParentLock(y.tx, y.in) \in locks'
      BY <1>3, <3>1, <3>2 DEF ParentLock
    <3> QED BY <3>1, <3>7, <3>8 DEF Fits, Mkdirs, Moves, Removes
  <2>2. \A y, z \in Pending' : y.tx # z.tx /\ y.in.op \in Mkdirs /\ z.in.op \in Mkdirs =>
          y.write.node # z.write.node
    BY DEF Leaves, TreeInv, PendingFit
  <2> QED BY <2>1, <2>2 DEF PendingFit
<1>5. ASSUME NEW v \in Workers
      PROVE  Stage(v)'
  <2>1. CASE ~(Running(v)' /\ repo'[v].pc \notin Early)
    BY <2>1 DEF Stage, MkdirStage, MoveStage, RemoveStage, GoesAhead, Running, Early
  <2>2. CASE Running(v)' /\ repo'[v].pc \notin Early
    <3>1. repo'[v] = repo[v] /\ repo[v].tx # x.tx /\ Op(v)' = Op(v) /\ Stage(v)
      BY <2>2 DEF Leaves, Op, TreeInv
    <3>2. Running(v) /\ repo[v].pc \notin Early
      BY <2>2, <3>1 DEF Running
    <3>3. x.in.op = "mkdir" /\ Op(v) \in SharedOps
      BY <3>1, <3>2, WhoElse
    <3>4. \A d : Directory(d) => Directory(d)'
      BY <1>1, <3>3, MkdirLands DEF Fits, Mkdirs
    <3>5. ParentLock(repo[v].tx, repo[v].in) \in locks => ParentLock(repo[v].tx, repo[v].in) \in locks'
      BY <1>3, <3>1 DEF ParentLock
    <3>6. Op(v) \in Mkdirs => MkdirStage(v)'
      BY <3>1, <3>4, <3>5 DEF Stage, MkdirStage, GoesAhead
    <3> QED BY <3>1, <3>3, <3>6 DEF Stage, SharedOps, Moves, Removes
  <2> QED BY <2>1, <2>2
<1> QED BY <1>2, <1>4, <1>5 DEF TreeInv

-----------------------------------------------------------------------------
(* Steps that touch no row and find out nothing. *)

(* Who runs ran before and keeps its locks; nothing new may commit. *)
RowsStill ==
    /\ UNCHANGED <<nodes, refs, nextId>>
    /\ \A v \in Workers : Running(v)' /\ repo'[v].pc # "acquire" =>
         repo'[v] = repo[v] /\ LocksOf(repo[v].tx) \subseteq locks'
    /\ \A o \in orphans' : o.sent =>
         /\ LocksOf(o.tx) \subseteq locks'
         /\ \/ o \in orphans
            \/ \E v \in Workers : /\ repo[v].pc \in Writing /\ o.tx = repo[v].tx
                                  /\ o.in = repo[v].in /\ o.write = repo[v].write
(* Such a step keeps the invariant of the rows. *)
LEMMA RowsStillKeeps ==
    ASSUME TreeInv, RowsStill
    PROVE  TreeInv'
<1>1. /\ nodes' = nodes /\ refs' = refs /\ nextId' = nextId
  BY DEF RowsStill
<1>2. RowsTyped' /\ TreeSound' /\ ReferencesExact'
  BY <1>1 DEF TreeInv, RowsTyped, TreeSound, ReferencesExact, Live
<1>3. ASSUME NEW x \in Pending'
      PROVE  x \in Pending /\ LocksOf(x.tx) \subseteq locks'
  <2>1. CASE \E w \in Workers : /\ repo'[w].pc \in Writing
                                /\ x = Transaction(repo'[w].tx, repo'[w].in, repo'[w].write)
    <3>1. PICK w \in Workers : /\ repo'[w].pc \in Writing
                               /\ x = Transaction(repo'[w].tx, repo'[w].in, repo'[w].write)
      BY <2>1
    <3>2. repo'[w] = repo[w] /\ LocksOf(repo[w].tx) \subseteq locks'
      BY <3>1 DEF RowsStill, Running, Writing
    <3> QED BY <3>1, <3>2 DEF Pending, Transaction
  <2>2. CASE \E o \in orphans' : o.sent /\ x = Transaction(o.tx, o.in, o.write)
    <3>1. PICK o \in orphans' : o.sent /\ x = Transaction(o.tx, o.in, o.write)
      BY <2>2
    <3>2. x.tx = o.tx
      BY <3>1 DEF Transaction
    <3> QED BY <3>1, <3>2 DEF RowsStill, Pending
  <2> QED BY <2>1, <2>2 DEF Pending
<1>4. ASSUME NEW in, NEW write, Fits(in, write)
      PROVE  Fits(in, write)'
  BY <1>1, <1>4 DEF Fits, FitsMkdir, FitsMove, FitsRemove, Directory, Occupant, Live, Clear,
                    Childless
<1>5. \A t, in : ParentLock(t, in) \in locks /\ LocksOf(t) \subseteq locks' => ParentLock(t, in) \in locks'
  BY DEF ParentLock, LocksOf
<1>6. PendingFit'
  BY <1>3, <1>4, <1>5 DEF TreeInv, PendingFit
<1>7. ASSUME NEW v \in Workers
      PROVE  Stage(v)'
  <2>1. CASE ~(Running(v)' /\ repo'[v].pc # "acquire")
    BY <2>1 DEF Stage, MkdirStage, MoveStage, RemoveStage, GoesAhead, Running
  <2>2. CASE Running(v)' /\ repo'[v].pc # "acquire"
    <3>1. repo'[v] = repo[v] /\ Op(v)' = Op(v) /\ Stage(v) /\ LocksOf(repo[v].tx) \subseteq locks'
      BY <2>2 DEF RowsStill, Op, TreeInv
    <3>2. Op(v) \in Mkdirs => MkdirStage(v)'
      BY <1>1, <1>5, <3>1 DEF Stage, MkdirStage, GoesAhead, Directory
    <3>3. Op(v) \in Moves => MoveStage(v)'
      BY <1>1, <3>1 DEF Stage, MoveStage, GoesAhead, Directory, Live, Clear, Occupant
    <3>4. Op(v) \in Removes => RemoveStage(v)'
      BY <1>1, <3>1 DEF Stage, RemoveStage, GoesAhead, Live, Childless, FitsRemove
    <3> QED BY <3>1, <3>2, <3>3, <3>4 DEF Stage
  <2> QED BY <2>1, <2>2
<1> QED BY <1>2, <1>6, <1>7 DEF TreeInv

(* A call that has ended. *)
LEMMA EndsTree ==
    ASSUME Inv, TreeInv, NEW w \in Workers, Ends(w), UNCHANGED <<nodes, refs, nextId>>
    PROVE  TreeInv'
<1> DEFINE t == repo[w].tx
<1>1. /\ repo[w].pc = "cleanup" /\ t # 0 /\ repo'[w].pc = "idle"
  BY DEF Ends, At, Inv, Numbered
<1>2. \A v \in Workers \ {w} : repo'[v] = repo[v] /\ repo[v].tx # t
  BY <1>1 DEF Ends, Touches, Inv, Numbered
<1>3. /\ \A l \in locks : l.tx # t => l \in locks'
      /\ locks' = locks \/ repo[w].commit = "NOT_COMMITTED"
  BY DEF Ends, LocksOf
<1>4. \A o \in orphans' : o.sent => o \in orphans
  BY DEF Ends
<1>5. \A o \in orphans : o.sent /\ o.tx = t => locks' = locks
  BY <1>1, <1>3 DEF Inv, Abandonment
<1>6. \A v \in Workers : Running(v)' => v # w /\ LocksOf(repo[v].tx) \subseteq locks'
  BY <1>1, <1>2, <1>3 DEF Running, LocksOf
<1>7. \A o \in orphans' : o.sent => o \in orphans /\ LocksOf(o.tx) \subseteq locks'
  BY <1>3, <1>4, <1>5 DEF LocksOf
<1>8. RowsStill
  BY <1>2, <1>6, <1>7 DEF RowsStill
<1> QED BY <1>8, RowsStillKeeps
(* A worker that begins, or has given its repository up. *)
LEMMA StartsTree ==
    ASSUME Inv, TreeInv, NEW w \in Workers, Starts(w), UNCHANGED <<nodes, refs, nextId>>
    PROVE  TreeInv'
<1>1. /\ repo'[w].pc \in {"idle", "acquire"} /\ locks' = locks
      /\ \A v \in Workers \ {w} : repo'[v] = repo[v]
      /\ \A o \in orphans' : o.sent => o \in orphans
  BY DEF Starts, Touches
<1>2. RowsStill
  BY <1>1 DEF RowsStill, Running, LocksOf
<1> QED BY <1>2, RowsStillKeeps
(* The ends of a call, and its beginning. *)
LEMMA CallTree ==
    ASSUME Inv, TreeInv, NEW w \in Workers,
           \/ CleanupCall(w) \/ RollbackFails(w) \/ CleanupStuck(w) \/ Destroy(w)
           \/ \E in \in Inputs : Call(w, in)
    PROVE  TreeInv'
<1>1. CASE CleanupCall(w)
  BY <1>1, CleanupCallEnds, EndsTree DEF CleanupCall, Database
<1>2. CASE RollbackFails(w)
  BY <1>2, RollbackFailsEnds, EndsTree DEF RollbackFails, Database
<1>3. CASE CleanupStuck(w)
  BY <1>3, CleanupStuckEnds, EndsTree DEF CleanupStuck, Database
<1>4. CASE Destroy(w)
  BY <1>4, DestroyStarts, StartsTree DEF Destroy, Database
<1>5. CASE \E in \in Inputs : Call(w, in)
  BY <1>5, CallStarts, StartsTree DEF Call, Database
<1> QED BY <1>1, <1>2, <1>3, <1>4, <1>5
(* BUSY changes neither locks nor transactions. *)
LEMMA CallBusyTree ==
    ASSUME Inv, TreeInv, NEW w \in Workers, CallBusy(w)
    PROVE  TreeInv'
<1>1. /\ UNCHANGED <<nodes, refs, nextId, locks, orphans>> /\ repo[w].pc = "idle"
      /\ Set(w, [rc |-> "BUSY"])
  BY DEF CallBusy, Database, At
<1>2. (\A v \in Workers \ {w} : repo'[v] = repo[v]) /\ repo'[w].pc = "idle"
  <2> DEFINE c == [rc |-> "BUSY"]
  <2>1. DOMAIN c = {"rc"} /\ Set(w, c)
    BY <1>1
  <2> HIDE DEF c
  <2> QED BY <1>1, <2>1, SetFields DEF Inv, Fresh, Touches
<1>3. RowsStill
  BY <1>1, <1>2 DEF RowsStill, Running, LocksOf
<1> QED BY <1>3, RowsStillKeeps
(* A COMMIT without reply: the server has the transaction and its locks. *)
LEMMA CommitUnknownTree ==
    ASSUME Inv, TreeInv, NEW w \in Workers, CommitUnknown(w)
    PROVE  TreeInv'
<1> DEFINE new == [tx |-> repo[w].tx, in |-> repo[w].in, write |-> repo[w].write, sent |-> TRUE]
           c == [pc |-> "cleanup", commit |-> "UNKNOWN", rc |-> "IO"]
<1>1. /\ UNCHANGED <<nodes, refs, nextId, locks>> /\ repo[w].pc = "commit" /\ Running(w)
      /\ orphans' = orphans \cup {new} /\ Set(w, c)
  BY DEF CommitUnknown, Database, At, Running
<1>2. /\ DOMAIN c = {"pc", "commit", "rc"} /\ c["pc"] = "cleanup"
      /\ new.tx = repo[w].tx /\ new.in = repo[w].in /\ new.write = repo[w].write
  OBVIOUS
<1> HIDE DEF c, new
<1>3. (\A v \in Workers \ {w} : repo'[v] = repo[v]) /\ repo'[w].pc = "cleanup"
  BY <1>1, <1>2, SetFields DEF Inv, Fresh, Touches
<1>4. RowsStill
  BY <1>1, <1>2, <1>3 DEF RowsStill, Running, LocksOf, Writing
<1> QED BY <1>4, RowsStillKeeps
(* The server gives a transaction up. *)
LEMMA OrphanRollsBackTree ==
    ASSUME Inv, TreeInv, OrphanRollsBack
    PROVE  TreeInv'
<1>1. PICK o \in orphans : /\ locks' = locks \ LocksOf(o.tx) /\ orphans' = orphans \ {o}
                           /\ repo' = repo /\ UNCHANGED <<nodes, refs, nextId>>
  BY DEF OrphanRollsBack, Database
<1>2. \A q \in orphans' : q \in orphans /\ q.tx # o.tx
  BY <1>1 DEF Inv, Abandonment
<1>3. \A v \in Workers : Running(v) => repo[v].tx # o.tx
  BY <1>1 DEF Inv, Abandonment, InOrder, Running
<1>4. RowsStill
  BY <1>1, <1>2, <1>3 DEF RowsStill, Running, LocksOf
<1> QED BY <1>4, RowsStillKeeps
(* The server carries out a COMMIT whose reply was lost. *)
LEMMA OrphanCommitsTree ==
    ASSUME Inv, TreeInv, OrphanCommits
    PROVE  TreeInv'
<1>1. PICK o \in orphans : /\ o.sent /\ Apply(o.tx, o.in, o.write) /\ orphans' = orphans \ {o}
                           /\ repo' = repo /\ nextId' = nextId
  BY DEF OrphanCommits
<1> DEFINE x == Transaction(o.tx, o.in, o.write)
<1>2. x \in Pending /\ x.tx = o.tx /\ x.in = o.in /\ x.write = o.write
  BY <1>1 DEF Pending, Transaction
<1>3. \A q \in orphans' : q \in orphans /\ q.tx # o.tx
  BY <1>1 DEF Inv, Abandonment
<1>4. \A v \in Workers : Running(v) => repo[v].tx # o.tx
  BY <1>1 DEF Inv, Abandonment, InOrder, Running
<1>5. \A y \in Pending' : y \in Pending /\ y.tx # o.tx
  <2>1. \A v \in Workers : repo[v].pc \in Writing => Running(v)
    BY DEF Writing, Running
  <2> QED BY <1>1, <1>3, <1>4, <2>1 DEF Pending, Transaction
<1> HIDE DEF x
<1>6. Leaves(x)
  BY <1>1, <1>2, <1>4, <1>5 DEF Leaves, Running
<1> QED BY <1>2, <1>6, LandsKeeps
(* A COMMIT with its reply. *)
LEMMA CommitTree ==
    ASSUME Inv, TreeInv, NEW w \in Workers, Commit(w)
    PROVE  TreeInv'
<1> DEFINE x == Own(w)
           c == [commit |-> "COMMITTED", effect |-> EffectOf(Op(w))]
<1>1. /\ repo[w].pc = "commit" /\ Running(w) /\ Advance(w, c) /\ orphans' = orphans
      /\ Apply(repo[w].tx, repo[w].in, repo[w].write) /\ nextId' = nextId
  BY DEF Commit, At, Running
<1>2. x \in Pending /\ x.tx = repo[w].tx /\ x.in = repo[w].in /\ x.write = repo[w].write
  BY <1>1 DEF Pending, Own, Transaction, Writing
<1>3. AfterStage(w) = "cleanup"
  BY <1>1, StageOrder DEF Inv, InOrder, Follows
<1>4. DOMAIN c = {"commit", "effect"}
  OBVIOUS
<1> HIDE DEF c, x
<1>5. /\ \A v \in Workers \ {w} : repo'[v] = repo[v] /\ repo[v].tx # repo[w].tx
      /\ repo'[w].pc = "cleanup" /\ repo'[w].tx = repo[w].tx
  BY <1>1, <1>3, <1>4, AdvanceFields DEF Inv, Fresh, Touches, Numbered
<1>6. \A o \in orphans : o.tx # repo[w].tx
  BY <1>1 DEF Inv, Abandonment, InOrder, Running
<1>7. \A y \in Pending' : y \in Pending /\ y.tx # repo[w].tx
  BY <1>1, <1>5, <1>6 DEF Pending, Transaction, Writing
<1>8. Leaves(x)
  BY <1>1, <1>2, <1>5, <1>7 DEF Leaves, Running
<1> QED BY <1>2, <1>8, LandsKeeps
(* Time, logout and faults leave rows, locks and transactions alone. *)
LEMMA StutterTree ==
    ASSUME TreeInv, UNCHANGED <<nodes, refs, nextId, locks, orphans, repo>>
    PROVE  TreeInv'
<1>1. RowsStill
  BY DEF RowsStill, LocksOf
<1> QED BY <1>1, RowsStillKeeps

-----------------------------------------------------------------------------
(* The invariant of the rows, and what follows from it. *)
(* Every step keeps it. *)
LEMMA NextKeepsTree ==
    ASSUME Inv, TreeInv, [Next]_vars
    PROVE  TreeInv'
<1>1. CASE UNCHANGED vars
  BY <1>1, StutterTree DEF vars
<1>2. CASE Expire \/ RevokeSession \/ DisableUser
  BY <1>2, StutterTree DEF Expire, RevokeSession, DisableUser, Database
<1>3. CASE OrphanCommits \/ OrphanRollsBack
  BY <1>3, OrphanCommitsTree, OrphanRollsBackTree
<1>4. ASSUME NEW w \in Workers, NEW in \in Inputs, Call(w, in)
      PROVE  TreeInv'
  BY <1>4, CallTree
<1>5. ASSUME NEW w \in Workers, TreeStep(w)
      PROVE  TreeInv'
  BY <1>5, TreeStepKeeps
<1>6. ASSUME NEW w \in Workers,
             LockMkdirReceipt(w) \/ LockMoveReceipt(w) \/ LockNodeRemoveReceipt(w)
      PROVE  TreeStep(w)
  BY <1>6, LockReceiptSteps, Zenon
     DEF LockMkdirReceipt, LockMoveReceipt, LockNodeRemoveReceipt, At, ReceiptStages
<1>7. ASSUME NEW w \in Workers,
             \/ Acquire(w) \/ AcquireFails(w) \/ Begin(w) \/ LockUser(w) \/ LockMoveUser(w)
             \/ LockSession(w) \/ LockNode(w) \/ LockChildren(w) \/ LockMkdirParent(w)
             \/ LockMkdirName(w) \/ LockMoveSource(w) \/ LockMoveTarget(w) \/ WalkMoveChains(w)
             \/ LockMoveName(w) \/ UpdateMove(w)
      PROVE  TreeStep(w)
  BY <1>7, AcquireSteps, AcquireFailsSteps, BeginSteps, UserSteps, LockSessionSteps,
     LockNodeSteps, LockChildrenSteps, LockMkdirParentSteps, LockMkdirNameSteps,
     LockMoveSourceSteps, LockMoveTargetSteps, WalkMoveChainsSteps, LockMoveNameSteps,
     UpdateMoveSteps
<1>8. ASSUME NEW w \in Workers,
             \/ LockDeleteSource(w) \/ WalkDeleteChain(w) \/ LockDeleteChildren(w)
             \/ LockDeleteObject(w) \/ DeleteNothing(w) \/ DeleteUpdate(w) \/ ObjectUpdate(w)
             \/ CaptureUtc(w) \/ InsertNode(w) \/ InsertAudit(w) \/ InsertReceipt(w)
             \/ Recheck(w) \/ StatementFails(w)
      PROVE  TreeStep(w)
  BY <1>8, LockDeleteSourceSteps, WalkDeleteChainSteps, LockDeleteChildrenSteps,
     LockDeleteObjectSteps, DeleteNothingSteps, DeleteUpdateSteps, ObjectUpdateSteps,
     CaptureUtcSteps, InsertNodeSteps, InsertAuditSteps, InsertReceiptSteps, RecheckSteps,
     StatementFailsSteps
<1>9. ASSUME NEW w \in Workers,
             \/ CallBusy(w) \/ Commit(w) \/ CommitUnknown(w) \/ CleanupCall(w)
             \/ RollbackFails(w) \/ CleanupStuck(w) \/ Destroy(w)
      PROVE  TreeInv'
  BY <1>9, CallBusyTree, CommitTree, CommitUnknownTree, CallTree
<1> QED BY <1>1, <1>2, <1>3, <1>4, <1>5, <1>6, <1>7, <1>8, <1>9 DEF Next
(* It holds before the first call. *)
LEMMA InitTree ==
    ASSUME Init
    PROVE  TreeInv
<1>1. /\ nodes = Tree /\ locks = {} /\ orphans = {} /\ repo = [w \in Workers |-> Fresh]
      /\ refs = Cardinality({n \in DOMAIN Tree : Tree[n].kind = "file" /\ Tree[n].state = 2})
      /\ nextId = Cardinality(DOMAIN Tree) + 1
  BY DEF Init
<1>2. \A w \in Workers : repo[w].pc = "idle"
  BY <1>1 DEF Fresh
<1>3. RowsTyped
  <2>1. Cardinality(DOMAIN Tree) \in Nat
    BY TreeAssumption, FS_CardinalityType
  <2> QED BY <1>1, <2>1, TreeAssumption DEF RowsTyped, RowFields
<1>4. TreeSound
  BY <1>1, TreeAssumption DEF TreeSound
<1>5. ReferencesExact
  <2>1. {n \in DOMAIN nodes : nodes[n].kind = "file" /\ Live(n)} =
          {n \in DOMAIN Tree : Tree[n].kind = "file" /\ Tree[n].state = 2}
    BY <1>1 DEF Live
  <2> QED BY <1>1, <2>1 DEF ReferencesExact
<1>6. PendingFit
  <2>1. Pending = {}
    BY <1>1, <1>2 DEF Pending, Writing
  <2> QED BY <2>1 DEF PendingFit
<1>7. \A w \in Workers : Stage(w)
  BY <1>2 DEF Stage, MkdirStage, MoveStage, RemoveStage, GoesAhead
<1> QED BY <1>3, <1>4, <1>5, <1>6, <1>7 DEF TreeInv

(* However directory transactions interleave, fail and are lost, also when *)
(* the server carries one out after its call was answered: the committed   *)
(* rows stay a tree without cycles, orphans and double names, and the      *)
(* object's reference count stays the number of its live files.            *)
THEOREM TreeStaysSoundCorrect == Spec => []TreeStaysSound
<1>1. Init => TreeInv
  BY InitTree
<1>2. Inv /\ TreeInv /\ [Next]_vars => TreeInv'
  BY NextKeepsTree
<1>3. TreeInv => TreeStaysSound
  BY DEF TreeStaysSound, TreeInv
<1> QED BY <1>1, <1>2, <1>3, Invariance, PTL DEF Spec
=============================================================================
