---------------------------- MODULE MCPersistence ----------------------------
(***************************************************************************)
(* The path of a request to the database and back: the message codec, the  *)
(* reactor's handlers of the directory commands, the node repository, the  *)
(* connection pool, the schema migration, the log on the local disk, and   *)
(* the configuration read at the start.                                    *)
(* A behaviour is a behaviour of one of them, chosen at the start; the     *)
(* variables of the others are switched off or stay in their first state.  *)
(***************************************************************************)
EXTENDS NodeRepository, TLC

VARIABLES which,
  runtime, attached, pool, slots, conns, live, doubled, counted, pool_pc, lease, copy,
  local, waiters, pool_faults,
  db, lock, run_session, sent, run_pc, cat, at, report, lost,
  kind, value, frame, edits, text, chunk,
  script, read, heads, expected, records, flight, queues, owner, receipt, r_session,
  r_expired, carrier, client, output, r_faults,
  names, files, tty, logger, fds, stray, emit, ret, lines, stream, promised, loggers, log_faults,
  c_text, c_env, c_pc, c_file, c_candidate, c_rc, c_error, c_out

Off == "off"

Row(p, n, k) == [parent |-> p, name |-> n, kind |-> k, state |-> 2]

\* A root with two directories, one of them with a child, a file and an upload
\* in progress.
MCTree == <<Row(0, "", "directory"), Row(1, "a", "directory"), Row(2, "c", "directory"),
            Row(1, "f", "file"), Row(1, "b", "directory"),
            [Row(3, "u", "file") EXCEPT !.state = 1]>>

In(o, k, n, p, m) == [op |-> o, key |-> k, node |-> n, parent |-> p, name |-> m]

\* Calls that read, that conflict on a name, that would close a cycle together,
\* and that repeat the idempotency key k.
MCInputs == {In("get_root", "none", 1, 0, ""), In("list", "none", 1, 0, ""),
             In("stat", "none", 3, 0, ""), In("mkdir", "none", 1, 5, "."), In("mkdir", "none", 1, 3, "n"),
             In("mkdir_once", "k", 1, 5, "n"), In("mkdir_once", "k", 1, 2, "c"),
             In("move", "none", 2, 5, "a"), In("move_once", "k", 5, 3, "b"),
             In("move", "none", 1, 2, "r"), In("move", "none", 4, 3, "u"),
             In("remove", "none", 3, 0, ""), In("remove_once", "k", 4, 0, "")}

Pool == INSTANCE MysqlPool WITH
  pc <- pool_pc, faults <- pool_faults, Threads <- {"t1", "t2"}, Capacity <- 1,
  Stms <- {1, 2}, MaxWaiters <- 1, GenMax <- 2, MaxOpens <- 2, MaxFaults <- 1

\* An older release, the current one, and one whose second version differs.
Mig == INSTANCE Migration WITH
  session <- run_session, pc <- run_pc, Runs <- {"r1", "r2"},
  Catalogs <- {<<"a">>, <<"a", "b">>, <<"a", "c">>},
  Steps <- [x \in {"a", "b", "c", "none"} |-> IF x = "b" THEN 1 ELSE 2],
  MaxLost <- 3

Msg == INSTANCE Messages WITH
  Radix <- 9, MaxBody <- 65536, MaxOffset <- 200000, MaxEdits <- 2, MaxText <- 4

Valid(command) == [command |-> command, handle |-> 1, valid |-> TRUE]
Malformed(command) == [command |-> command, handle |-> 1, valid |-> FALSE]
Foreign(command) == [command |-> command, handle |-> 0, valid |-> TRUE]

\* Requests of two commands, refused frames before and after a valid one, two
\* requests of one command, and an AUTH frame below and at the limit.
ClientScripts ==
  {<<Valid("STAT"), Valid("MOVE")>>,
   <<Malformed("ROOT"), Valid("REMOVE"), Foreign("LIST")>>,
   <<Valid("ROOT"), Foreign("STAT")>>,
   <<Valid("LIST"), Valid("LIST"), Valid("AUTH")>>,
   <<Valid("MKDIR"), Valid("MKDIR"), Malformed("AUTH")>>,
   <<Valid("AUTH"), Valid("MKDIR")>>}

Reactor == INSTANCE DirectoryReactor WITH
  session <- r_session, expired <- r_expired, faults <- r_faults,
  Scripts <- ClientScripts, StoreLimit <- 3, ClientLimit <- 2,
  MaxFaults <- 1

\* A file that the first or the second line of a logger just fills or overfills.
Logger == INSTANCE Log WITH
  open <- fds, faults <- log_faults, Threads <- {"t1", "t2"}, LineSizes <- {1, 2},
  MaxBytes <- 3, OldBytes <- 2, MaxLines <- 2, MaxLoggers <- 2, MaxFaults <- 1

\* Lines of a configuration file: every kind that is refused, and every field.
FileLines ==
  { <<>>, <<"#", "worker_count", "=", "9">>, <<"worker_count", "5">>, <<" ", "=", "5">>,
    <<"colour", "=", "5">>, <<"worker_count", "DEL", "=", "5">>,
    <<"worker_count", "=", " ">>, <<"worker_count", "=", "5", "TAB", "5">>,
    <<"TAB", "worker_count", " ", "=", " ", "1", "2", " ">>, <<"worker_count", "=", "0">>,
    <<"max_connections", "=", "2", "5">>, <<"max_connections", "=", "5", "B">>,
    <<"listen_port", "=", "9", "9", "9">>, <<"listen_port", "=", "1", "0", "0", "0">>,
    <<"listen_port", "=", "2", "0", "0", "0", "0">>,
    <<"idle_timeout", "=", "2", "s">>, <<"idle_timeout", "=", "9", "9", "9", "m">>,
    <<"log_max_file_size", "=", "1", "5", "KiB">>, <<"log_max_file_size", "=", "KiB">>,
    <<"log_to_stderr", "=", "false">>, <<"log_to_stderr", "=", "0">>,
    <<"listen_address", "=", "1", ".", "2", "5", "5", ".", "0", ".", "9">>,
    <<"listen_address", "=", "1", ".", "2", "5", "9", ".", "0", ".", "9">>,
    <<"listen_address", "=", "1", ".", "0", "5", ".", "0", ".", "9">>,
    <<"data_dir", "=", "/", "x", "/", "x">>, <<"log_dir", "=", "x">>,
    <<"log_dir", "=", "/", "x", "x", "x", "x", "x", "x", "x", "x", "x">>,
    <<"#", "x", "x", "x", "x", "x", "x", "x", "x", "x", "x", "x", "x">> }
SecondLines ==
  { <<>>, <<"worker_count", "=", "2">>, <<"idle_timeout", "=", "1", "m">>, <<"x">> }
Endings == {<<>>, <<"LF">>, <<"CR", "LF">>, <<"CR">>}

Entry(n, v) == [name |-> n, value |-> v]

Config == INSTANCE Configuration WITH
  SizeMax <- 19999, UintMax <- 19999,
  Texts <- {<<"no file">>} \cup {a \o <<"CR", "LF">> \o b \o e : a \in FileLines, b \in SecondLines, e \in Endings},
  Environments <-
    { <<>>, <<Entry("worker_count", <<" ", "1", "TAB">>), Entry("idle_timeout", <<"5">>)>>,
      <<Entry("log_dir", <<"/">>), Entry("log_dir", <<"/">>)>>, <<Entry("NULL", <<>>)>>,
      <<Entry("listen_port", <<"1">>), Entry("colour", <<"1">>)>>,
      <<Entry("worker_count", <<"5">>), Entry("idle_timeout", <<"5">>), Entry("log_dir", <<"/">>)>> },
  MaxText <- 19, MaxLine <- 12, MaxValue <- 9, MaxItems <- 2, PathCapacity <- 10,
  SizeUnits <- [B |-> 1, KiB |-> 8, MiB |-> 64, GiB |-> 512],
  DurationUnits <- [ms |-> 1, s |-> 10, m |-> 600],
  Limits <- [listen_port |-> [min |-> 1, max |-> 999], max_connections |-> [min |-> 1, max |-> 999],
             worker_count |-> [min |-> 1, max |-> 25], idle_timeout |-> [min |-> 1, max |-> 900],
             log_max_file_size |-> [min |-> 64, max |-> 512]],
  Defaults <- [listen_address |-> <<"1", ".", "0", ".", "0", ".", "1">>, listen_port |-> 900,
               max_connections |-> 100, worker_count |-> 4, idle_timeout |-> 600,
               log_to_stderr |-> TRUE, log_max_file_size |-> 64, data_dir |-> <<"/", "x">>,
               log_dir |-> <<"/", "x">>]

\* The workers are interchangeable.
WorkerSymmetry == Permutations(Workers)

nodeVars == <<nodes, refs, receipts, audits, session, expired, locks, orphans, repo,
              calls, nextId, faults, history>>
poolVars == <<runtime, attached, pool, slots, conns, live, doubled, counted, pool_pc,
              lease, copy, local, waiters, pool_faults>>
migVars == <<db, lock, run_session, sent, run_pc, cat, at, report, lost>>
msgVars == <<kind, value, frame, edits, text, chunk>>
reactorVars == <<script, read, heads, expected, records, flight, queues, owner, receipt,
                 r_session, r_expired, carrier, client, output, r_faults>>
logVars == <<names, files, tty, logger, fds, stray, emit, ret, lines, stream, promised,
             loggers, log_faults>>
configVars == <<c_text, c_env, c_pc, c_file, c_candidate, c_rc, c_error, c_out>>

poolOff ==
  /\ runtime = Off /\ attached = Off /\ pool = Off /\ slots = Off /\ conns = Off
  /\ live = Off /\ doubled = Off /\ counted = Off /\ pool_pc = Off /\ lease = Off
  /\ copy = Off /\ local = Off /\ waiters = Off /\ pool_faults = Off
migOff ==
  /\ db = Off /\ lock = Off /\ run_session = Off /\ sent = Off /\ run_pc = Off
  /\ cat = Off /\ at = Off /\ report = Off /\ lost = Off
msgOff ==
  kind = Off /\ value = Off /\ frame = Off /\ edits = Off /\ text = Off /\ chunk = Off
reactorOff ==
  /\ script = Off /\ read = Off /\ heads = Off /\ expected = Off /\ records = Off
  /\ flight = Off /\ queues = Off /\ owner = Off /\ receipt = Off /\ r_session = Off
  /\ r_expired = Off /\ carrier = Off /\ client = Off /\ output = Off /\ r_faults = Off

logOff ==
  /\ names = Off /\ files = Off /\ tty = Off /\ logger = Off /\ fds = Off /\ stray = Off
  /\ emit = Off /\ ret = Off /\ lines = Off /\ stream = Off /\ promised = Off
  /\ loggers = Off /\ log_faults = Off
configOff ==
  /\ c_text = Off /\ c_env = Off /\ c_pc = Off /\ c_file = Off /\ c_candidate = Off
  /\ c_rc = Off /\ c_error = Off /\ c_out = Off

\* One component runs.  The repository waits in its first state meanwhile, the
\* others are off.
MCInit ==
  /\ Init
  /\ \/ /\ which = "nodes"
        /\ poolOff /\ migOff /\ msgOff /\ reactorOff /\ logOff /\ configOff
     \/ /\ which = "pool" /\ Pool!Init
        /\ migOff /\ msgOff /\ reactorOff /\ logOff /\ configOff
     \/ /\ which = "migration" /\ Mig!Init
        /\ poolOff /\ msgOff /\ reactorOff /\ logOff /\ configOff
     \/ /\ which = "messages" /\ Msg!Init
        /\ poolOff /\ migOff /\ reactorOff /\ logOff /\ configOff
     \/ /\ which = "reactor" /\ Reactor!Init
        /\ poolOff /\ migOff /\ msgOff /\ logOff /\ configOff
     \/ /\ which = "log" /\ Logger!Init
        /\ poolOff /\ migOff /\ msgOff /\ reactorOff /\ configOff
     \/ /\ which = "config" /\ Config!Init
        /\ poolOff /\ migOff /\ msgOff /\ reactorOff /\ logOff

NodeNext ==
  /\ which = "nodes" /\ Next
  /\ UNCHANGED <<which, poolVars, migVars, msgVars, reactorVars, logVars, configVars>>
PoolNext ==
  /\ which = "pool" /\ Pool!Next
  /\ UNCHANGED <<which, nodeVars, migVars, msgVars, reactorVars, logVars, configVars>>
MigNext ==
  /\ which = "migration" /\ Mig!Next
  /\ UNCHANGED <<which, nodeVars, poolVars, msgVars, reactorVars, logVars, configVars>>
MsgNext ==
  /\ which = "messages" /\ Msg!Next
  /\ UNCHANGED <<which, nodeVars, poolVars, migVars, reactorVars, logVars, configVars>>
ReactorNext ==
  /\ which = "reactor" /\ Reactor!Next
  /\ UNCHANGED <<which, nodeVars, poolVars, migVars, msgVars, logVars, configVars>>
LogNext ==
  /\ which = "log" /\ Logger!Next
  /\ UNCHANGED <<which, nodeVars, poolVars, migVars, msgVars, reactorVars, configVars>>
ConfigNext ==
  /\ which = "config" /\ Config!Next
  /\ UNCHANGED <<which, nodeVars, poolVars, migVars, msgVars, reactorVars, logVars>>

MCNext == NodeNext \/ PoolNext \/ MigNext \/ MsgNext \/ ReactorNext \/ LogNext
          \/ ConfigNext

MCSpec ==
  MCInit /\ [][MCNext]_<<which, nodeVars, poolVars, migVars, msgVars, reactorVars, logVars,
                         configVars>>

-----------------------------------------------------------------------------
(* mysql_pool.c, mysql_statement.c: a lease is its borrower's alone and     *)
(* clean, connections are closed once and counted, and no thread sleeps     *)
(* beside an idle connection or in a closed pool.                           *)
LeasesSafe ==
  which = "pool" => Pool!LeasesSafe /\ Pool!ConnectionsAccounted /\ Pool!NoneStranded

(* mysql_migration.c: no crash, late execution or competing process makes a *)
(* DDL step run twice or out of order, and a run that reports ready has the *)
(* whole history of its catalogue applied.  log.c: whichever call of a      *)
(* rotation fails, the log keeps whole lines in order, owns each descriptor *)
(* once and keeps on the disk what a flush promised.                        *)
StorageSound ==
  /\ which = "migration" => Mig!StepsOnce /\ Mig!ReadyTrue
  /\ which = "log" => Logger!LogSound

(* protocol/tlv.c and the message codecs: encoder and decoder agree, frames *)
(* changed in transit are refused, an accepted one carries a value its own  *)
(* encoder would send, and the byte tests of texts are exactly Unicode's.   *)
(* config.c: a loaded configuration is what the environment, the file and   *)
(* the defaults mean, in this order; a refused one changes nothing and      *)
(* names the first wrong line or entry.                                     *)
CodecExact ==
  /\ which = "messages" => Msg!RoundTrip /\ Msg!AcceptsOnlyValid /\ Msg!Utf8Exact
  /\ which = "config" => Config!ConfigExact

(* net/directory_*_reactor.c: a frame is answered at most once and, while   *)
(* its client stays, not forgotten; an entry lives as long as its request   *)
(* is owned; and a result is queued only for an open client in the session  *)
(* that issued it, as a TIMEOUT once its deadline has passed, even when it  *)
(* had to wait for room or for a failed call to be repeated.                *)
AnswersCurrent ==
  /\ [](which = "reactor" => Reactor!OneAnswer /\ Reactor!EntriesOwned)
  /\ [][which = "reactor" => Reactor!AnswerStep]_reactorVars
=============================================================================
