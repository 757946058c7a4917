-------------------------------- MODULE Buffer --------------------------------
(***************************************************************************)
(* The byte buffer of base/buffer.c through which every frame of every     *)
(* connection passes: a contiguous storage with a read and a write index,  *)
(* appended to at the tail, consumed at the head, compacted, grown and     *)
(* shrunk.  Its promise is twofold: the readable bytes are the appended    *)
(* ones not consumed yet, in order, whatever moves the storage makes; and  *)
(* a byte is wiped as soon as it stops being readable, in the storage and  *)
(* in every block given back to the allocator.                             *)
(*                                                                         *)
(* The bytes of the stream are their positions 1, 2, ...; a wiped cell is  *)
(* Wiped and a cell of a fresh allocation is Junk.  The buffer is used by  *)
(* one thread, so every operation is one step; the order of the wipe and   *)
(* of the deallocation inside it is kept in the value given to `freed`.    *)
(***************************************************************************)
EXTENDS Checked

CONSTANTS MaxCapacity,   \* VIREO_BUFFER_MAX_CAPACITY
          MaxBytes       \* bound on the length of the stream

Wiped == 0
Junk == -1
None == [capacity |-> 0]

VARIABLES
  buffer,     \* None, or [data, capacity, read_index, write_index]
  freed,      \* the cells of the blocks handed back to the allocator
  appended,   \* length of the stream appended so far
  consumed,   \* bytes of it consumed
  answer      \* result of the last call

vars == <<buffer, freed, appended, consumed, answer>>

Init ==
  /\ buffer = None
  /\ freed = {}
  /\ appended = 0
  /\ consumed = 0
  /\ answer = "OK"

Cells(n) == 0..(n - 1)

Fresh(n) == [i \in Cells(n) |-> Junk]

\* secure_clear(data + from, size)
secure_clear(data, from, size) ==
  [i \in DOMAIN data |-> IF i \in from..(from + size - 1) THEN Wiped ELSE data[i]]

\* memmove/memcpy(to, from + at, size): the first size cells of `to`.
Copy(to, from, at, size) ==
  [i \in DOMAIN to |-> IF i < size THEN from[at + i] ELSE to[i]]

Readable(b) == b.write_index - b.read_index

Contents(data) == {data[i] : i \in DOMAIN data}

Refuse(r) ==
  /\ answer' = r
  /\ UNCHANGED <<buffer, freed, appended, consumed>>

Live == buffer # None

\* The descriptor and the storage are two allocations; either may fail, and
\* nothing is kept then.
create(capacity) ==
  /\ ~Live
  /\ \/ capacity \notin 1..MaxCapacity /\ Refuse("RANGE")
     \/ capacity \in 1..MaxCapacity /\ Refuse("NO_MEMORY")
     \/ /\ capacity \in 1..MaxCapacity
        /\ buffer' = [data |-> Fresh(capacity), capacity |-> capacity,
                      read_index |-> 0, write_index |-> 0]
        /\ answer' = "OK"
        /\ appended' = 0
        /\ consumed' = 0
        /\ UNCHANGED freed

destroy ==
  /\ Live
  /\ freed' = freed \cup Contents(secure_clear(buffer.data, 0, buffer.capacity))
  /\ buffer' = None
  /\ answer' = "OK"
  /\ UNCHANGED <<appended, consumed>>

append(size) ==
  LET b == buffer
      next_write == size_add(b.write_index, size)
      room == size_range(b.write_index, size, b.capacity)
  IN /\ Live
     /\ \/ ~IsOk(next_write) /\ Refuse(next_write.result)
        \/ IsOk(next_write) /\ ~IsOk(room) /\ Refuse(room.result)
        \/ /\ IsOk(next_write) /\ IsOk(room)
           /\ appended + size <= MaxBytes
           /\ buffer' = [b EXCEPT
                !.data = [i \in DOMAIN @ |->
                            IF i \in b.write_index..(b.write_index + size - 1)
                            THEN appended + 1 + i - b.write_index ELSE @[i]],
                !.write_index = next_write.value]
           /\ appended' = appended + size
           /\ answer' = "OK"
           /\ UNCHANGED <<freed, consumed>>

\* Mutant: the write index is kept when the buffer becomes empty.
consumeKeepsEnd(size) ==
  LET b == buffer
      range == size_range(b.read_index, size, b.write_index)
      read == b.read_index + size
      empty == read = b.write_index
  IN /\ Live
     /\ \/ ~IsOk(range) /\ Refuse(range.result)
        \/ /\ IsOk(range)
           /\ buffer' = [b EXCEPT
                !.data = secure_clear(@, b.read_index, size),
                !.read_index = IF empty THEN 0 ELSE read]
           /\ consumed' = consumed + size
           /\ answer' = "OK"
           /\ UNCHANGED <<freed, appended>>

\* An empty buffer starts again at the front of its storage.
consume(size) ==
  LET b == buffer
      range == size_range(b.read_index, size, b.write_index)
      read == b.read_index + size
      empty == read = b.write_index
  IN /\ Live
     /\ \/ ~IsOk(range) /\ Refuse(range.result)
        \/ /\ IsOk(range)
           /\ buffer' = [b EXCEPT
                !.data = secure_clear(@, b.read_index, size),
                !.read_index = IF empty THEN 0 ELSE read,
                !.write_index = IF empty THEN 0 ELSE @]
           /\ consumed' = consumed + size
           /\ answer' = "OK"
           /\ UNCHANGED <<freed, appended>>

\* The readable bytes move to the front; what they leave behind, from the
\* new end to the old one, is wiped.
Compacted(b) ==
  LET n == Readable(b)
  IN [b EXCEPT !.data = secure_clear(Copy(b.data, b.data, b.read_index, n), n,
                                     b.write_index - n),
               !.read_index = 0,
               !.write_index = n]

compact ==
  /\ Live
  /\ buffer' = Compacted(buffer)
  /\ answer' = "OK"
  /\ UNCHANGED <<freed, appended, consumed>>

\* The old block is wiped before it is given back; a failed allocation
\* leaves the buffer as it was.
replace_storage(capacity) ==
  \/ Refuse("NO_MEMORY")
  \/ LET b == buffer
         n == Readable(b)
     IN /\ buffer' = [data |-> Copy(Fresh(capacity), b.data, b.read_index, n),
                      capacity |-> capacity, read_index |-> 0, write_index |-> n]
        /\ freed' = freed \cup Contents(secure_clear(b.data, 0, b.capacity))
        /\ answer' = "OK"
        /\ UNCHANGED <<appended, consumed>>

Larger(a, b) == IF a < b THEN b ELSE a

\* The capacity doubles, capped by the maximum, and is never less than what
\* is asked for.
NextCapacity(required) ==
  Larger(required, IF buffer.capacity <= MaxCapacity \div 2
                   THEN size_mul(buffer.capacity, 2).value ELSE MaxCapacity)

reserve(min_tail_space) ==
  LET required == size_add(Readable(buffer), min_tail_space)
      fits == min_tail_space <= buffer.capacity - buffer.write_index
  IN /\ Live
     /\ \/ ~IsOk(required) /\ Refuse(required.result)
        \/ IsOk(required) /\ required.value > MaxCapacity /\ Refuse("RANGE")
        \/ /\ IsOk(required) /\ required.value <= MaxCapacity
           /\ \/ fits /\ Refuse("OK")
              \/ ~fits /\ required.value <= buffer.capacity /\ compact
              \/ /\ ~fits /\ required.value > buffer.capacity
                 /\ replace_storage(NextCapacity(required.value))

shrink(capacity) ==
  /\ Live
  /\ \/ /\ capacity \notin 1..buffer.capacity \/ capacity < Readable(buffer)
        /\ Refuse("RANGE")
     \/ capacity = buffer.capacity /\ Refuse("OK")
     \/ /\ capacity \in 1..(buffer.capacity - 1)
        /\ capacity >= Readable(buffer)
        /\ replace_storage(capacity)

\* What peek shows: the readable cells in order.
peek == [i \in 1..Readable(buffer) |-> buffer.data[buffer.read_index + i - 1]]

\* Request sizes: up to one past the capacity, and the largest size_t.
Sizes == 0..(MaxCapacity + 1) \cup {SizeMax}

Next ==
  \/ \E n \in Sizes : create(n) \/ append(n) \/ consume(n) \/ reserve(n) \/ shrink(n)
  \/ compact
  \/ destroy

Spec == Init /\ [][Next]_vars

------------------------------------------------------------------------------
(* Properties *)

\* Whatever sequence of appends, consumes, compactions, growths, shrinks and
\* failed allocations brought the buffer here, peek shows exactly the bytes
\* appended and not yet consumed, in order.
StreamIntact ==
  Live => peek = [i \in 1..(appended - consumed) |-> consumed + i]

\* A byte of the stream is nowhere but in the readable region: neither in the
\* rest of the storage nor in a block given back to the allocator.
NothingLingers ==
  /\ freed \subseteq {Wiped}
  /\ Live => \A i \in DOMAIN buffer.data :
               \/ i \in buffer.read_index..(buffer.write_index - 1)
               \/ buffer.data[i] \in {Wiped, Junk}
==============================================================================
