------------------------------ MODULE ObjectPool ------------------------------
(***************************************************************************)
(* The generic slot pool of base/pool.c: a layout computed with checked    *)
(* arithmetic, an identity claimed from a process-wide counter by a        *)
(* compare-and-swap loop, a free list threaded through the slots, and      *)
(* leases that carry the pool's identity, the slot and a generation.       *)
(*                                                                         *)
(* Several threads create pools at once (they share only last_pool_id);    *)
(* a pool itself is used by one thread.  Callers may keep copies of a      *)
(* lease: a release may present any lease ever handed out, by this pool or *)
(* by another, in use or long returned.                                    *)
(***************************************************************************)
EXTENDS Checked, FiniteSets

CONSTANTS
  Threads,        \* threads that own a pool each
  Options,        \* the pool options tried: [size, alignment, capacity, max]
  MetadataSize,   \* sizeof(slot_metadata_t)
  PoolSize,       \* sizeof(vireo_pool_t)
  MaxAlign,       \* _Alignof(max_align_t)
  MaxMemory       \* VIREO_POOL_MAX_MEMORY

NoPool == [pool_id |-> 0]
NoSlot == -1

VARIABLES
  last_pool_id,   \* the process-wide identity counter
  pool,           \* pool[t]: NoPool or the pool of thread t
  claim,          \* claim[t]: the creation in progress, or NoClaim
  issued          \* leases ever handed out, with what their owner still holds

vars == <<last_pool_id, pool, claim, issued>>

NoClaim == [observed |-> -1]

Init ==
  /\ last_pool_id = 0
  /\ pool = [t \in Threads |-> NoPool]
  /\ claim = [t \in Threads |-> NoClaim]
  /\ issued = {}

------------------------------------------------------------------------------
(* Layout *)

PowerOfTwo(n) == \E k \in 0..n : n = 2^k

layout_compute(o, max_storage_bytes) ==
  LET stride == size_align_up(o.size, o.alignment)
      storage == size_mul(stride.value, o.capacity)
  IN IF \/ 0 \in {o.size, o.alignment, o.capacity, max_storage_bytes}
        \/ ~PowerOfTwo(o.alignment)
     THEN Failed("INVALID_ARGUMENT")
     ELSE IF ~IsOk(stride) THEN stride
     ELSE IF ~IsOk(storage) THEN storage
     ELSE IF storage.value > max_storage_bytes THEN Failed("RANGE")
     ELSE Ok([slot_stride |-> stride.value, storage_bytes |-> storage.value])

\* The bytes of the descriptor, the storage and the metadata together.
AllocationBytes(o, layout) ==
  LET metadata == size_mul(MetadataSize, o.capacity)
      partial == size_add(PoolSize, layout.storage_bytes)
      total == size_add(partial.value, metadata.value)
  IN IF ~IsOk(metadata) THEN metadata
     ELSE IF ~IsOk(partial) THEN partial
     ELSE total

Acceptable(o) ==
  LET layout == layout_compute(o, SizeMax)
      bytes == AllocationBytes(o, layout.value)
  IN /\ o.max # 0
     /\ IsOk(layout)
     /\ IsOk(bytes)
     /\ o.alignment <= MaxAlign
     /\ o.max <= MaxMemory
     /\ bytes.value <= o.max

------------------------------------------------------------------------------
(* Creation *)

\* Options that fail a check change nothing; the others lead to the load of
\* the identity counter.
create(t, o) ==
  /\ pool[t] = NoPool
  /\ claim[t] = NoClaim
  /\ Acceptable(o)
  /\ claim' = [claim EXCEPT ![t] = [observed |-> last_pool_id, options |-> o]]
  /\ UNCHANGED <<last_pool_id, pool, issued>>

\* The three allocations: when one fails the earlier ones are given back and
\* the identity stays used up.
Allocate(t, id) ==
  \/ UNCHANGED pool
  \/ LET o == claim[t].options
         layout == layout_compute(o, SizeMax).value
     IN pool' = [pool EXCEPT ![t] =
          [pool_id |-> id, options |-> o, layout |-> layout,
           allocation_bytes |-> AllocationBytes(o, layout).value,
           free_head |-> 0, in_use_count |-> 0, last_generation |-> 0,
           slots |-> [i \in 0..(o.capacity - 1) |->
             [next_free |-> IF i + 1 = o.capacity THEN NoSlot ELSE i + 1,
              generation |-> 0, in_use |-> FALSE]]]]

\* One turn of the compare-and-swap loop: out of identities; exchanged; or
\* failed (another thread was faster, or spuriously) with a new observation.
claim_identity(t) ==
  LET next == u64_add(claim[t].observed, 1)
  IN /\ claim[t] # NoClaim
     /\ \/ /\ ~IsOk(next)
           /\ claim' = [claim EXCEPT ![t] = NoClaim]
           /\ UNCHANGED <<last_pool_id, pool>>
        \/ /\ IsOk(next) /\ last_pool_id = claim[t].observed
           /\ last_pool_id' = next.value
           /\ Allocate(t, next.value)
           /\ claim' = [claim EXCEPT ![t] = NoClaim]
        \/ /\ IsOk(next) /\ last_pool_id # claim[t].observed
           /\ claim' = [claim EXCEPT ![t].observed = last_pool_id]
           /\ UNCHANGED <<last_pool_id, pool>>
     /\ UNCHANGED issued

------------------------------------------------------------------------------
(* Leases *)

\* Generations are used up before slots are looked for; a pool out of either
\* refuses and stays as it is.
acquire(t) ==
  LET p == pool[t]
      generation == u64_add(p.last_generation, 1)
      lease == [pool_id |-> p.pool_id, slot_index |-> p.free_head,
                generation |-> generation.value]
  IN /\ p # NoPool
     /\ IsOk(generation)
     /\ p.free_head # NoSlot
     /\ IsOk(size_mul(p.free_head, p.layout.slot_stride))
     /\ pool' = [pool EXCEPT ![t].free_head = p.slots[p.free_head].next_free,
                             ![t].slots[p.free_head].generation = generation.value,
                             ![t].slots[p.free_head].in_use = TRUE,
                             ![t].last_generation = generation.value,
                             ![t].in_use_count = @ + 1]
     /\ issued' = issued \cup {[lease |-> lease, owner |-> t, held |-> TRUE]}
     /\ UNCHANGED <<last_pool_id, claim>>

\* The checks of a release; a lease that fails one is refused.
Accepts(p, lease) ==
  /\ lease.pool_id = p.pool_id
  /\ lease.slot_index < p.options.capacity
  /\ p.slots[lease.slot_index].in_use
  /\ p.slots[lease.slot_index].generation = lease.generation

release(t, entry) ==
  LET p == pool[t]
      lease == entry.lease
  IN /\ p # NoPool
     /\ Accepts(p, lease)
     /\ pool' = [pool EXCEPT ![t].slots[lease.slot_index].in_use = FALSE,
                             ![t].slots[lease.slot_index].next_free = p.free_head,
                             ![t].free_head = lease.slot_index,
                             ![t].in_use_count = @ - 1]
     /\ issued' = (issued \ {entry}) \cup {[entry EXCEPT !.held = FALSE]}
     /\ UNCHANGED <<last_pool_id, claim>>

destroy(t) ==
  /\ pool[t] # NoPool
  /\ pool[t].in_use_count = 0
  /\ pool' = [pool EXCEPT ![t] = NoPool]
  /\ UNCHANGED <<last_pool_id, claim, issued>>

Next ==
  \E t \in Threads :
    \/ \E o \in Options : create(t, o)
    \/ claim_identity(t)
    \/ acquire(t)
    \/ \E e \in issued : release(t, e)
    \/ destroy(t)

Spec == Init /\ [][Next]_vars

------------------------------------------------------------------------------
(* Properties *)

\* The slots reached from the head of the free list.
FreeList(p) ==
  LET at[n \in 0..p.options.capacity] ==
        IF n = 0 THEN p.free_head
        ELSE IF at[n - 1] = NoSlot THEN NoSlot
        ELSE p.slots[at[n - 1]].next_free
  IN at

\* An owner that still holds its lease owns its slot, alone: the slot is in
\* use under exactly that generation in that thread's pool, no other held
\* lease names the same pool and slot, and the slots nobody holds are exactly
\* those on the free list, which ends.  No stale or foreign lease presented
\* for release can take a slot from its owner, and no two pools of the process
\* share an identity.
LeasesOwned ==
  /\ \A e \in issued : e.held =>
       /\ pool[e.owner] # NoPool
       /\ Accepts(pool[e.owner], e.lease)
       /\ \A f \in issued \ {e} : f.held =>
            <<f.lease.pool_id, f.lease.slot_index>> #
            <<e.lease.pool_id, e.lease.slot_index>>
  /\ \A t \in Threads : pool[t] # NoPool =>
       LET p == pool[t]
           at == FreeList(p)
           free == {at[n] : n \in DOMAIN at} \ {NoSlot}
       IN /\ at[p.options.capacity] = NoSlot
          /\ free = {i \in DOMAIN p.slots : ~p.slots[i].in_use}
          /\ p.in_use_count = Cardinality({e \in issued :
                                             e.held /\ e.owner = t})

\* The slots of every pool that exists are aligned, do not overlap and lie
\* inside the storage it allocated, and what it allocated is within the limit
\* its creator set: no size wrapped on the way.
SlotsInside ==
  \A t \in Threads : pool[t] # NoPool =>
    LET p == pool[t]
        o == p.options
    IN /\ p.layout.slot_stride >= o.size
       /\ p.layout.slot_stride % o.alignment = 0
       /\ \A i \in DOMAIN p.slots :
            i * p.layout.slot_stride + o.size <= p.layout.storage_bytes
       /\ PoolSize + p.layout.storage_bytes + MetadataSize * o.capacity
            = p.allocation_bytes
       /\ p.allocation_bytes <= o.max
==============================================================================
