------------------------------ MODULE MCWorkers ------------------------------
(***************************************************************************)
(* What workers do with their tasks: authentication with its user          *)
(* repository, the directory services from the task to the decoded         *)
(* answer, and the path of a completion when calls fail.  A behaviour is a *)
(* behaviour of one of them, chosen at the start.  The completion path     *)
(* keeps its initial state in the others; the variables of the others are  *)
(* switched off.                                                           *)
(***************************************************************************)
EXTENDS CompletionPath

VARIABLES which,
  users, txn, u_conn, gate, gate_live, w, answers, u_events, applied, steady, u_faults,
  changes,
  clock, requests, task, cancelled, worker, result, completion, answer, pocket

Off == "off"

\* One account whose hash is expensive to verify, and a gate whose budget is
\* met by two cheap hashes but not by a cheap and a dear one.
Auth == INSTANCE Authentication WITH
  conn <- u_conn, live <- gate_live, events <- u_events, faults <- u_faults,
  Accounts <- [ann |-> <<"p", "old">>], NewNames <- {"bob"},
  BadName <- "?", Passwords <- {"p"}, CreateMemory <- 65536,
  HashMemory <- [old |-> 98304, new |-> 65536], MaxParallel <- 2, Budget <- 131072,
  MaxTries <- 2, MaxFaults <- 1, MaxChanges <- 1

Dir == INSTANCE DirectoryWorker WITH
  MaxUtc <- 3, Ttl <- 2, Children <- 3, PageSize <- 1, MaxClock <- 1, MaxRequests <- 3

pathVars == <<tasks, tasksClosed, queue, closed, mutex, notifier, wpc, wreq, wbits, fault,
              rpc, phase, cursor, turn, spent, held, closeAt, attempts, stopSignal, rc,
              cleanupResult, faultsAtStop, finalFaults, fate>>
authVars == <<users, txn, u_conn, gate, gate_live, w, answers, u_events, applied, steady,
              u_faults, changes>>
dirVars == <<clock, requests, task, cancelled, worker, result, completion, answer, pocket>>

authOff ==
  /\ users = Off /\ txn = Off /\ u_conn = Off /\ gate = Off /\ gate_live = Off
  /\ w = Off /\ answers = Off /\ u_events = Off /\ applied = Off /\ steady = Off
  /\ u_faults = Off /\ changes = Off
dirOff ==
  /\ clock = Off /\ requests = Off /\ task = Off /\ cancelled = Off /\ worker = Off
  /\ result = Off /\ completion = Off /\ answer = Off /\ pocket = Off

MCInit ==
  /\ Init
  /\ \/ which = "path" /\ authOff /\ dirOff
     \/ which = "auth" /\ Auth!Init /\ dirOff
     \/ which = "directory" /\ Dir!Init /\ authOff

PathNext == which = "path" /\ Next /\ UNCHANGED <<which, authVars, dirVars>>
AuthNext == which = "auth" /\ Auth!Next /\ UNCHANGED <<which, pathVars, dirVars>>
DirNext == which = "directory" /\ Dir!Next /\ UNCHANGED <<which, pathVars, authVars>>

MCNext == PathNext \/ AuthNext \/ DirNext

MCSpec == MCInit /\ [][MCNext]_<<which, pathVars, authVars, dirVars>>

-----------------------------------------------------------------------------
(* service/directory_*.c and the workers and completions around them: every *)
(* answer survives its projection and its decoding, says of the write what  *)
(* is true of it, and the pages of a token chain show each node once.       *)
AnswerTruthful ==
  which = "directory" => Dir!AnswerSurvives /\ Dir!AnswerTruthful /\ Dir!ChainSound

(* service/auth_service.c, mysql_user_repository.c, auth_password.c: what   *)
(* is published is true whatever failed on the way, the gate bounds the     *)
(* hash computations, and a login takes effect only while the account is    *)
(* active and has the hash the password was verified against.               *)
LoginsCurrent ==
  /\ [](which = "auth" => Auth!AnswerTrue /\ Auth!GateBounded)
  /\ [][which = "auth" => Auth!LoginStep]_authVars
=============================================================================
