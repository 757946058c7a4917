----------------------------- MODULE MCSessions -----------------------------
(***************************************************************************)
(* A login from its admission to its session, and the life of its task:    *)
(* the session table, the rate limiter of the logins, the chain of worker  *)
(* runtimes and the cancellation token.  A behaviour is a behaviour of one *)
(* of them, chosen at the start.  The session table keeps its initial      *)
(* state in the others and owes no step there; the variables of the rest   *)
(* are switched off.                                                       *)
(***************************************************************************)
EXTENDS AuthSessions, FiniteSets

VARIABLES which,
  limiter, policies, entries, last_now, clock, log, last,
  layout, chain, refused, faults, thread, kind, queued, done, exited,
  token, claims, task, store, at

Off == "off"

Three(b, i) ==
  <<[burst |-> 2, interval |-> 3], [burst |-> b, interval |-> i], [burst |-> 1, interval |-> 3]>>

\* Four slots for batches of three keys, so that a second client needs slots
\* the first one leaves; too little memory; and a burst of zero.
LimiterOptions ==
  { [max_keys |-> 4, max_memory_bytes |-> 4, policies |-> Three(2, 2)],
    [max_keys |-> 4, max_memory_bytes |-> 3, policies |-> Three(2, 2)],
    [max_keys |-> 4, max_memory_bytes |-> 4, policies |-> Three(0, 3)] }

PeerAddresses == { [family |-> "IPV4", address |-> "a"],
                   [family |-> "IPV6", address |-> "mapped_a"],
                   [family |-> "IPV6", address |-> "b"] }

UserNames == [n \in {"ann", "Ann", "?"} |->
                IF n = "?" THEN [result |-> "PROTOCOL", key |-> "?"]
                ELSE [result |-> "OK", key |-> "ann"]]

Login == INSTANCE LoginAdmission WITH
  Options <- LimiterOptions, Peers <- PeerAddresses,
  Mapped <- [x \in {"mapped_a"} |-> "a"], Names <- UserNames,
  Devices <- {"d", "e"}, MaxTime <- 5, MaxAdmit <- 4

Regular == [s \in 1..7 |-> [operation |-> s, queue |-> s]]

\* The regular layout, and ones in which two stages share an operation or a queue.
SomeLayouts ==
  {Regular} \cup
  {[Regular EXCEPT ![p[1]].operation = p[2]] : p \in {<<3, 1>>, <<7, 4>>}} \cup
  {[Regular EXCEPT ![p[1]].queue = p[2]] : p \in {<<2, 1>>, <<6, 3>>}}

Chain == INSTANCE RuntimeChain WITH
  Threads <- {1, 2}, Tasks <- {1, 2}, Layouts <- SomeLayouts, Attempts <- 1

Life == INSTANCE TaskLifetime WITH
  Workers <- {"w1", "w2"}, Tasks <- {"k1", "k2"}, MaxRefs <- 5

sessionVars == <<lease, table, db, flight, completion, wireStatus, ticket, lastInstance,
                 lastResume, cutoff, stopped>>
loginVars == <<limiter, policies, entries, last_now, clock, log, last>>
chainVars == <<layout, chain, refused, faults, thread, kind, queued, done, exited>>
lifeVars == <<token, claims, task, store, at>>

loginOff ==
  /\ limiter = Off /\ policies = Off /\ entries = Off /\ last_now = Off
  /\ clock = Off /\ log = Off /\ last = Off
chainOff ==
  /\ layout = Off /\ chain = Off /\ refused = Off /\ faults = Off /\ thread = Off
  /\ kind = Off /\ queued = Off /\ done = Off /\ exited = Off
lifeOff ==
  token = Off /\ claims = Off /\ task = Off /\ store = Off /\ at = Off

MCInit ==
  /\ Init
  /\ \/ which = "sessions" /\ loginOff /\ chainOff /\ lifeOff
     \/ which = "login" /\ Login!Init /\ chainOff /\ lifeOff
     \/ which = "chain" /\ Chain!Init /\ loginOff /\ lifeOff
     \/ which = "life" /\ Life!Init /\ loginOff /\ chainOff

SessionsNext ==
  which = "sessions" /\ Next /\ UNCHANGED <<which, loginVars, chainVars, lifeVars>>
LoginNext ==
  which = "login" /\ Login!Next /\ UNCHANGED <<which, sessionVars, chainVars, lifeVars>>
ChainNext ==
  which = "chain" /\ Chain!Next /\ UNCHANGED <<which, sessionVars, loginVars, lifeVars>>
LifeNext ==
  which = "life" /\ Life!Next /\ UNCHANGED <<which, sessionVars, loginVars, chainVars>>

MCNext == SessionsNext \/ LoginNext \/ ChainNext \/ LifeNext

MCSpec ==
  /\ MCInit /\ [][MCNext]_<<which, sessionVars, loginVars, chainVars, lifeVars>>
  /\ Fairness

-----------------------------------------------------------------------------
(* rate_limiter.c, login_admission.c: no key gets more than its burst plus  *)
(* one token per interval over any stretch of time, however names and       *)
(* addresses are spelt and slots are reused; and a client that waits as     *)
(* long as it was told is not refused for the same reason.                  *)
RateBound == which = "login" => Login!RateBound /\ Login!RetryExact

(* The worker runtimes and task_cancel.c: a task that was executed and left *)
(* no completion has left a fault the supervisor sees, each stage answers   *)
(* for its own tasks, and a cancellation token lives exactly as long as an  *)
(* owner names it.                                                          *)
TasksEnd ==
  /\ which = "chain" => Chain!NoSilentTask /\ Chain!OwnStage
  /\ which = "life" => Life!TokenLifetime
=============================================================================
