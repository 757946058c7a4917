-------------------------- MODULE LoginAdmission --------------------------
(***************************************************************************)
(* The login admission check of src/src/service/auth_login_admission.c and *)
(* the keyed token buckets it is built on, src/src/security/rate_limiter.c.*)
(*                                                                         *)
(* The reactor asks `check' before it queues a LOGIN task: one token of    *)
(* the peer's, of the account's and of the device's bucket, all three or   *)
(* none.  The limiter keeps a fixed array of entries.  A key that has none *)
(* takes an empty entry or one whose bucket would be full by now, which is *)
(* the point of the properties: forgetting a key must not give it tokens.  *)
(* Time is counted in ticks; the history variable `log' records what was   *)
(* admitted, `last' the latest decision.                                   *)
(***************************************************************************)
EXTENDS Naturals, Sequences, FiniteSets, FiniteSetsExt, SequencesExt

CONSTANTS
  Options,   \* the option records `create' may be called with
  Peers,     \* peer addresses: [family, address]
  Mapped,    \* the IPv4-mapped IPv6 addresses, as a function to IPv4 ones
  Names,     \* user names, as a function to [result, key]
  Devices,   \* device identifiers
  MaxTime,   \* the clock stops there
  MaxAdmit   \* logins that may be admitted in a behaviour

VARIABLES
  limiter,   \* "none" or "live"
  policies,  \* sequence of [burst, interval]; index 1 peer, 2 account, 3 device
  entries,   \* slot -> [occupied, policy, key, tokens, anchor]
  last_now,  \* the time of the latest check
  clock,
  log,       \* history: sequence of [at, keys]
  last       \* history: the latest answer of check

vars == <<limiter, policies, entries, last_now, clock, log, last>>

EntrySlots == DOMAIN entries

Empty == [occupied |-> FALSE, policy |-> 0, key |-> "", tokens |-> 0, anchor |-> 0]

NoDecision == [result |-> "NONE", outcome |-> "NONE", retry |-> 0, at |-> 0, requests |-> <<>>]

Init ==
  /\ limiter = "none"
  /\ policies = <<>>
  /\ entries = <<>>
  /\ last_now = 0
  /\ clock = 0
  /\ log = <<>>
  /\ last = NoDecision

-----------------------------------------------------------------------------
(* The verdict on the options, and the object on success: allocation of    *)
(* the limiter or of the admission record may fail, and then the limiter   *)
(* built first is destroyed again.                                         *)
verdict(o) ==
  IF o.max_keys = 0 \/ o.max_memory_bytes = 0 THEN "INVALID"
  ELSE IF o.max_keys > o.max_memory_bytes THEN "RANGE"  \* one unit of memory holds one entry
  ELSE IF \E i \in DOMAIN o.policies : o.policies[i].burst = 0 \/ o.policies[i].interval = 0 THEN "INVALID"
  ELSE "OK"

create(o, memory) ==
  /\ limiter = "none"
  /\ verdict(o) = "OK" /\ memory = "granted"
  /\ limiter' = "live"
  /\ policies' = o.policies
  /\ entries' = [i \in 1..o.max_keys |-> Empty]
  /\ last_now' = clock
  /\ UNCHANGED <<clock, log, last>>

destroy ==
  /\ limiter = "live"
  /\ limiter' = "none"
  /\ policies' = <<>>
  /\ entries' = <<>>
  /\ log' = <<>>
  /\ last' = NoDecision
  /\ UNCHANGED <<last_now, clock>>

-----------------------------------------------------------------------------
(* The bucket of an entry at time now: whole periods since the anchor, the *)
(* remainder kept by moving the anchor only by whole periods; a bucket     *)
(* that fills up restarts at now.                                          *)
refill(e, now) ==
  LET policy  == policies[e.policy]
      periods == (now - e.anchor) \div policy.interval
  IN  IF periods >= policy.burst - e.tokens
      THEN [tokens |-> policy.burst, anchor |-> now]
      ELSE [tokens |-> e.tokens + periods, anchor |-> e.anchor + periods * policy.interval]

(* The plan of one request: the slot that holds its key, 0 if none, and    *)
(* the bucket as it stands now; a key without a slot has a full bucket.    *)
plan(r, now) ==
  LET held == {i \in EntrySlots : entries[i].occupied /\ entries[i].policy = r.policy /\ entries[i].key = r.key}
  IN  IF held = {}
      THEN [slot |-> 0, tokens |-> policies[r.policy].burst, anchor |-> now]
      ELSE LET i == Max(held) IN [slot |-> i] @@ refill(entries[i], now)

wait(r, p, now) ==
  IF p.tokens >= r.cost THEN 0
  ELSE (r.cost - p.tokens) * policies[r.policy].interval - (now - p.anchor)

retry_after(rs, plans, now) == Max({wait(rs[j], plans[j], now) : j \in DOMAIN rs})

\* Mutant: an occupied entry is taken over whatever its bucket holds.
usableAny(i, now) == TRUE

(* An entry may be taken over when it is empty or its bucket is full now.  *)
usable(i, now) ==
  entries[i].occupied => refill(entries[i], now).tokens = policies[entries[i].policy].burst

candidates(plans, now) ==
  {i \in EntrySlots : (\A j \in DOMAIN plans : plans[j].slot # i) /\ usable(i, now)}

(* The requests without a slot get the lowest candidates in order.         *)
select(plans, free) ==
  LET order   == SetToSortSeq(free, <)
      rank(j) == Cardinality({k \in 1..j : plans[k].slot = 0})
  IN  [j \in DOMAIN plans |->
         IF plans[j].slot = 0 THEN [plans[j] EXCEPT !.slot = order[rank(j)]] ELSE plans[j]]

charge(rs, plans) ==
  [i \in EntrySlots |->
     IF \E j \in DOMAIN plans : plans[j].slot = i
     THEN LET j == CHOOSE k \in DOMAIN plans : plans[k].slot = i
          IN  [occupied |-> TRUE, policy |-> rs[j].policy, key |-> rs[j].key,
               tokens |-> plans[j].tokens - rs[j].cost, anchor |-> plans[j].anchor]
     ELSE entries[i]]

(* What a check publishes: throttled before the slots are looked at, then  *)
(* out of slots, then admitted; only an admission touches the entries.     *)
decide(rs, now) ==
  LET plans   == [j \in DOMAIN rs |-> plan(rs[j], now)]
      missing == {j \in DOMAIN rs : plans[j].slot = 0}
      free    == candidates(plans, now)
      retry   == retry_after(rs, plans, now)
  IN  IF retry # 0
      THEN [outcome |-> "THROTTLED", retry |-> retry, entries |-> entries]
      ELSE IF Cardinality(free) < Cardinality(missing)
      THEN [outcome |-> "CAPACITY", retry |-> 0, entries |-> entries]
      ELSE [outcome |-> "ADMITTED", retry |-> 0, entries |-> charge(rs, select(plans, free))]

limiter_check(rs, now) ==
  IF now < last_now
  THEN /\ last' = [NoDecision EXCEPT !.result = "INVALID"]
       /\ UNCHANGED <<entries, last_now, log>>
  ELSE LET d == decide(rs, now)
       IN  /\ d.outcome = "ADMITTED" => Len(log) < MaxAdmit
           /\ entries' = d.entries
           /\ last_now' = now
           /\ log' = IF d.outcome = "ADMITTED"
                     THEN Append(log, [at |-> now, keys |-> {<<r.policy, r.key>> : r \in ToSet(rs)}])
                     ELSE log
           /\ last' = [result |-> "OK", outcome |-> d.outcome, retry |-> d.retry, at |-> now, requests |-> rs]

-----------------------------------------------------------------------------
(* An IPv6 peer that is a mapped IPv4 one shares the bucket of the IPv4    *)
(* address; a name is charged by its case-folded key.                      *)
peer_key(peer) ==
  IF peer.family = "IPV6" /\ peer.address \in DOMAIN Mapped
  THEN <<"IPV4", Mapped[peer.address]>>
  ELSE <<peer.family, peer.address>>

requests(peer, name, device) ==
  << [policy |-> 1, cost |-> 1, key |-> peer_key(peer)],
     [policy |-> 2, cost |-> 1, key |-> <<"NAME", Names[name].key>>],
     [policy |-> 3, cost |-> 1, key |-> <<"DEVICE", device>>] >>

(* One call of the admission check, with the clock the reactor sampled,    *)
(* which may be one tick old when the check runs.                          *)
check(peer, name, device, now) ==
  /\ limiter = "live"
  /\ IF Names[name].result # "OK"
     THEN /\ last' = [NoDecision EXCEPT !.result = Names[name].result]
          /\ UNCHANGED <<entries, last_now, log>>
     ELSE limiter_check(requests(peer, name, device), now)
  /\ UNCHANGED <<limiter, policies, clock>>

Tick ==
  /\ clock < MaxTime
  /\ clock' = clock + 1
  /\ UNCHANGED <<limiter, policies, entries, last_now, log, last>>

Next ==
  \/ \E o \in Options, memory \in {"granted", "refused"} : create(o, memory)
  \/ destroy
  \/ \E peer \in Peers, name \in DOMAIN Names, device \in Devices, age \in 0..1 :
        age <= clock /\ check(peer, name, device, clock - age)
  \/ Tick

Spec == Init /\ [][Next]_vars

-----------------------------------------------------------------------------
Uses(id, from, to) ==
  Cardinality({n \in DOMAIN log : id \in log[n].keys /\ log[n].at \in from..to})

(* No key gets more than its burst plus one token per interval, over any   *)
(* stretch of time: not by waiting through a partial period, not by        *)
(* spelling the name or the address differently, and not by having its     *)
(* entry taken over by another key and coming back (rate_limiter.c:156).   *)
RateBound ==
  \A id \in UNION {log[n].keys : n \in DOMAIN log}, from, to \in 0..clock :
    from <= to =>
      Uses(id, from, to) <= policies[id[1]].burst + (to - from) \div policies[id[1]].interval

(* The time a throttled client is told to wait is exact: at that time all  *)
(* of its buckets would serve it, and one tick earlier not all of them     *)
(* would; a refused client was charged nothing (rate_limiter.c:144).       *)
RetryExact ==
  last.outcome = "THROTTLED" =>
    LET served(t) == \A j \in DOMAIN last.requests :
                        plan(last.requests[j], t).tokens >= last.requests[j].cost
    IN  last.at = last_now => served(last.at + last.retry) /\ ~served(last.at + last.retry - 1)

=============================================================================
