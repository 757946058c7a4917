----------------------------- MODULE TimerWheel ------------------------------
(***************************************************************************)
(* The hashed timer wheel of src/timer: a registry of slots with           *)
(* generations (handle_owner.c), the links of every timer to one of the    *)
(* bucket rings, the pending ring or the ready ring (wheel_registry.c),    *)
(* the budgeted advance that may stop in the middle of a bucket            *)
(* (wheel_advance.c), and the stepwise shutdown (wheel_shutdown.c).        *)
(*                                                                         *)
(* One reactor thread owns the wheel, so calls do not overlap.  The loop   *)
(* of advance is one step per round; no other call runs before it returns. *)
(* A ring is represented by the set of slots linked into it: the headers   *)
(* promise no order of discovery or delivery.  A slot's bucket is the one  *)
(* of its due tick, which the code always stores together with it.         *)
(***************************************************************************)
EXTENDS Integers, FiniteSets

CONSTANTS
    Capacity,       \* timers of the registry
    BucketCount, TickNs, Origin,   \* geometry
    MaxNs,          \* UINT64_MAX of a nanosecond time
    MaxGeneration,  \* UINT64_MAX of a generation
    MaxTicks, MaxNodes,            \* budget of an advance
    ShutdownSlots   \* budget of a shutdown step

ASSUME GeometryAssumption ==
    /\ Capacity \in Nat \ {0} /\ BucketCount \in Nat \ {0} /\ TickNs \in Nat \ {0}
    /\ MaxNs \in Nat /\ Origin \in 0..MaxNs
    /\ MaxGeneration \in Nat
    /\ MaxTicks \in Nat \ {0} /\ MaxNodes \in Nat \ {0} /\ ShutdownSlots \in Nat \ {0}

VARIABLES
    clock,       \* the monotonic clock the callers read
    nodes,       \* per slot: generation (0 when free), deadline and due tick
    ring,        \* per slot: the ring it is linked into
    latest,      \* latest_now_ns
    completed,   \* completed_tick
    processing,  \* the pending ring belongs to tick completed + 1
    readyCount,
    lastGeneration,
    stopping, cursor,              \* shutdown, shutdown_cursor
    advancing, ticks, examined,    \* an advance call and its locals
    alive,       \* the wheel has not been destroyed
    fired        \* generations that take_expired has reported

wheelVars == <<nodes, ring, readyCount>>
progressVars == <<latest, completed, processing>>
callVars == <<advancing, ticks, examined>>
registryVars == <<lastGeneration, fired>>
stopVars == <<stopping, cursor, alive>>
vars == <<clock, wheelVars, progressVars, callVars, registryVars, stopVars>>

Times == 0..MaxNs
Slots == 0..(Capacity - 1)
Rings == {"none", "bucket", "pending", "ready", "lost"}

FreeNode == [generation |-> 0, deadline |-> 0, due |-> 0]

Active == {s \in Slots : nodes[s].generation # 0}
Linked(r) == {s \in Slots : ring[s] = r}

------------------------------------------------------------------------------
(* Ticks (wheel_time.c).                                                   *)

Bucket(tick) == tick % BucketCount

(* The last tick that has begun at a time.                                 *)
ElapsedTick(ns) == (ns - Origin) \div TickNs

(* Mutant: a deadline inside a tick is rounded down.                       *)
DeadlineTickFloor(deadline) ==
    IF deadline <= Origin THEN 0 ELSE (deadline - Origin) \div TickNs

(* The first tick that does not begin before the deadline.                 *)
DeadlineTick(deadline) ==
    IF deadline <= Origin THEN 0
    ELSE LET delta == deadline - Origin
         IN  delta \div TickNs + IF delta % TickNs # 0 THEN 1 ELSE 0

(* Mutant: nobody asks whether the clock can reach the tick.               *)
AcceptableUnreachable(now, deadline) == now >= Origin /\ deadline > now

(* deadline_values: a deadline in the past, or one whose tick begins after *)
(* the largest time, is refused.                                           *)
Acceptable(now, deadline) ==
    /\ now >= Origin /\ deadline > now
    /\ Origin + DeadlineTick(deadline) * TickNs <= MaxNs

------------------------------------------------------------------------------
Init ==
    /\ clock = Origin
    /\ nodes = [s \in Slots |-> FreeNode]
    /\ ring = [s \in Slots |-> "none"]
    /\ latest = Origin /\ completed = 0 /\ processing = FALSE
    /\ readyCount = 0 /\ lastGeneration = 0
    /\ stopping = FALSE /\ cursor = 0
    /\ advancing = FALSE /\ ticks = 0 /\ examined = 0
    /\ alive = TRUE /\ fired = {}

TimePasses ==
    /\ clock < MaxNs
    /\ clock' = clock + 1
    /\ UNCHANGED <<wheelVars, progressVars, callVars, registryVars, stopVars>>

Idle == alive /\ ~advancing

(* Mutant: a bucket that is being visited counts as not yet visited.       *)
FrontierCompleted == completed

(* Ticks up to here are visited: a timer due by then must not go into a    *)
(* bucket, which would be looked at only one turn of the wheel later.      *)
Frontier == IF processing THEN completed + 1 ELSE completed

RingFor(due) == IF due <= Frontier THEN "ready" ELSE "bucket"

(* ready_count after a slot has left its ring.                             *)
CountWithout(s) == readyCount - IF ring[s] = "ready" THEN 1 ELSE 0

(* vireo_timer_wheel_place_node, for a slot whose ready_count has been     *)
(* settled as n.                                                           *)
PlaceNode(s, due, n) ==
    /\ ring' = [ring EXCEPT ![s] = RingFor(due)]
    /\ readyCount' = n + IF RingFor(due) = "ready" THEN 1 ELSE 0

------------------------------------------------------------------------------
(* Registration, cancellation and rearming.                                *)

(* vireo_timer_handle_next_generation does not overflow.                   *)
HasNextGeneration == lastGeneration < MaxGeneration

(* Register a timer with any free slot.  The caller's now is a reading of  *)
(* the clock that may have aged.                                           *)
Register(s, now, deadline) ==
    LET due == DeadlineTick(deadline)
    IN  /\ Idle /\ ~stopping
        /\ now <= clock /\ Acceptable(now, deadline)
        /\ HasNextGeneration /\ s \notin Active
        /\ lastGeneration' = lastGeneration + 1
        /\ nodes' = [nodes EXCEPT ![s] = [generation |-> lastGeneration + 1,
                                          deadline |-> deadline, due |-> due]]
        /\ PlaceNode(s, due, readyCount)
        /\ UNCHANGED <<clock, progressVars, callVars, stopVars, fired>>

(* vireo_timer_handle_owner_validate: the slot is active with the handle's *)
(* generation.  Any other handle is refused without an effect.             *)
Valid(s, generation) == generation # 0 /\ nodes[s].generation = generation

(* Unlink the node, release its handle and clear it.                       *)
ReleaseNode(s) ==
    /\ ring' = [ring EXCEPT ![s] = "none"]
    /\ readyCount' = CountWithout(s)
    /\ nodes' = [nodes EXCEPT ![s] = FreeNode]

Cancel(s, generation) ==
    /\ Idle /\ Valid(s, generation)
    /\ ReleaseNode(s)
    /\ UNCHANGED <<clock, progressVars, callVars, registryVars, stopVars>>

(* The timer keeps its handle; it may leave the ready or the pending ring. *)
Rearm(s, generation, now, deadline) ==
    LET due == DeadlineTick(deadline)
    IN  /\ Idle /\ Valid(s, generation) /\ ~stopping
        /\ now <= clock /\ Acceptable(now, deadline)
        /\ nodes' = [nodes EXCEPT ![s] = [generation |-> generation,
                                          deadline |-> deadline, due |-> due]]
        /\ PlaceNode(s, due, CountWithout(s))
        /\ UNCHANGED <<clock, progressVars, callVars, registryVars, stopVars>>
------------------------------------------------------------------------------
(* Advance: up to MaxTicks buckets are opened and MaxNodes timers looked   *)
(* at; a bucket that is not finished is continued by the next call.        *)

AdvanceBegin(now) ==
    /\ Idle /\ ~stopping
    /\ now <= clock /\ now >= Origin /\ now >= latest
    /\ latest' = now
    /\ advancing' = TRUE /\ ticks' = 0 /\ examined' = 0
    /\ UNCHANGED <<clock, wheelVars, completed, processing, registryVars, stopVars>>

CompleteTick ==
    /\ advancing /\ processing /\ Linked("pending") = {}
    /\ completed' = completed + 1 /\ processing' = FALSE
    /\ UNCHANGED <<clock, wheelVars, latest, callVars, registryVars, stopVars>>

InBucket(s, tick) == ring[s] = "bucket" /\ Bucket(nodes[s].due) = Bucket(tick)

(* snapshot_bucket moves the whole bucket to the pending ring; if the      *)
(* bucket is not empty, whatever the pending ring held is cut off.         *)
SnapshotBucket(tick) ==
    ring' = [s \in Slots |->
                CASE InBucket(s, tick) -> "pending"
                  [] ring[s] = "pending" /\ (\E u \in Slots : InBucket(u, tick)) -> "lost"
                  [] OTHER -> ring[s]]

OpenTick ==
    /\ advancing /\ ~processing
    /\ completed # ElapsedTick(latest) /\ ticks # MaxTicks
    /\ SnapshotBucket(completed + 1)
    /\ processing' = TRUE /\ ticks' = ticks + 1
    /\ UNCHANGED <<clock, nodes, readyCount, latest, completed, advancing, examined,
                   registryVars, stopVars>>

(* A timer of a later turn of the wheel goes back to its bucket.           *)
ExamineNode(s) ==
    /\ advancing /\ processing /\ ring[s] = "pending"
    /\ examined # MaxNodes
    /\ PlaceNode(s, nodes[s].due, readyCount)
    /\ examined' = examined + 1
    /\ UNCHANGED <<clock, nodes, progressVars, advancing, ticks, registryVars, stopVars>>

AdvanceReturn ==
    /\ advancing
    /\ \/ ~processing /\ (completed = ElapsedTick(latest) \/ ticks = MaxTicks)
       \/ processing /\ Linked("pending") # {} /\ examined = MaxNodes
    /\ advancing' = FALSE /\ ticks' = 0 /\ examined' = 0
    /\ UNCHANGED <<clock, wheelVars, progressVars, registryVars, stopVars>>

(* take_expired reports one ready timer and releases its handle.           *)
TakeExpired(s) ==
    /\ Idle /\ ring[s] = "ready"
    /\ fired' = fired \cup {nodes[s].generation}
    /\ ReleaseNode(s)
    /\ UNCHANGED <<clock, progressVars, callVars, lastGeneration, stopVars>>

------------------------------------------------------------------------------
(* Shutdown and destruction.                                               *)

ShutdownBegin ==
    /\ Idle
    /\ stopping' = TRUE
    /\ UNCHANGED <<clock, wheelVars, progressVars, callVars, registryVars, cursor, alive>>

Scanned == {s \in Slots : cursor <= s /\ s < cursor + ShutdownSlots}

(* One step cancels the first active timer among the slots it may scan.    *)
ShutdownCancel(s) ==
    /\ Idle /\ stopping
    /\ s \in Scanned /\ s \in Active
    /\ \A u \in Scanned : u < s => u \notin Active
    /\ ReleaseNode(s)
    /\ cursor' = s + 1
    /\ UNCHANGED <<clock, progressVars, callVars, registryVars, stopping, alive>>

(* A step that meets no active timer only moves on.                        *)
ShutdownScan ==
    /\ Idle /\ stopping
    /\ Scanned \cap Active = {}
    /\ cursor' = IF Active = {} \/ cursor + ShutdownSlots > Capacity
                 THEN Capacity ELSE cursor + ShutdownSlots
    /\ UNCHANGED <<clock, wheelVars, progressVars, callVars, registryVars, stopping, alive>>

(* Refused while a ring or the registry holds a timer.                     *)
Destroy ==
    /\ Idle
    /\ \A s \in Slots : ring[s] \in {"none", "lost"}
    /\ Active = {}
    /\ alive' = FALSE
    /\ UNCHANGED <<clock, wheelVars, progressVars, callVars, registryVars, stopping, cursor>>

------------------------------------------------------------------------------
AdvanceRound ==
    \/ CompleteTick \/ OpenTick \/ AdvanceReturn
    \/ \E s \in Slots : ExamineNode(s)

ShutdownStep == ShutdownScan \/ \E s \in Slots : ShutdownCancel(s)

Next ==
    \/ TimePasses
    \/ \E now \in Times : AdvanceBegin(now)
    \/ AdvanceRound
    \/ \E s \in Slots :
          \/ \E now, deadline \in Times : Register(s, now, deadline)
          \/ \E g \in 1..lastGeneration :
                \/ Cancel(s, g)
                \/ \E now, deadline \in Times : Rearm(s, g, now, deadline)
          \/ TakeExpired(s)
    \/ ShutdownBegin \/ ShutdownStep
    \/ Destroy

Spec == Init /\ [][Next]_vars

(* The service loop reads the clock, advances and takes what is ready in   *)
(* every turn, and a wheel that is stopping is stepped until it is empty.  *)
Fairness ==
    /\ WF_vars(TimePasses)
    /\ WF_vars(AdvanceRound)
    /\ SF_vars(AdvanceBegin(clock))
    /\ SF_vars(\E s \in Slots : TakeExpired(s))
    /\ SF_vars(ShutdownStep)

FairSpec == Spec /\ Fairness

------------------------------------------------------------------------------
(* Properties.                                                             *)

(* The types of the wheel's fields, with generations, times and the        *)
(* shutdown cursor inside their ranges.                                    *)
TypeOK ==
    /\ clock \in Times /\ latest \in Origin..MaxNs
    /\ nodes \in [Slots -> [generation : 0..MaxGeneration, deadline : Times, due : Nat]]
    /\ ring \in [Slots -> Rings]
    /\ completed \in Nat /\ processing \in BOOLEAN
    /\ stopping \in BOOLEAN /\ advancing \in BOOLEAN /\ alive \in BOOLEAN
    /\ readyCount \in Nat
    /\ lastGeneration \in 0..MaxGeneration
    /\ cursor \in 0..Capacity
    /\ ticks \in 0..MaxTicks /\ examined \in 0..MaxNodes
    /\ fired \subseteq 1..MaxGeneration

(* Once a tick is completed every live timer due by it is in the ready     *)
(* ring, however the registrations and rearms fell between the calls that  *)
(* visited its bucket, and no live timer ever falls out of the rings.      *)
NothingOverlooked ==
    \A s \in Active :
        /\ ring[s] \in {"bucket", "pending", "ready"}
        /\ nodes[s].due <= completed => ring[s] = "ready"

(* ready_count is the number of timers in the ready ring, after every      *)
(* cancel, rearm, delivery and shutdown step.                              *)
ReadyCountExact == readyCount = Cardinality(Linked("ready"))

TimerOf(s) == [id |-> nodes[s].generation, deadline |-> nodes[s].deadline]
Armed == {TimerOf(s) : s \in Active}

(* The wheel keeps the promise of TimerService: identities are not reused, *)
(* a timer fires at most once and never before its deadline.               *)
Promise ==
    INSTANCE TimerService WITH
        armed <- Armed,
        issued <- lastGeneration,
        now <- latest,
        open <- ~stopping

PromiseKept == Promise!Service

(* Every timer comes to an end: it fires although advance and the rounds   *)
(* of the wheel are budgeted, or it is cancelled, at the latest by the     *)
(* shutdown steps.                                                         *)
EveryTimerEnds ==
    \A g \in 1..MaxGeneration :
        []<>(\A s \in Slots : nodes[s].generation # g)
==============================================================================
