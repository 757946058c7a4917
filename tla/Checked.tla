------------------------------- MODULE Checked -------------------------------
(***************************************************************************)
(* The checked integer operations of base/checked.c: every size and every  *)
(* counter of the system is computed with them.  The code's unsigned       *)
(* types hold 0..SIZE_MAX (size_t) and 0..UINT_MAX (the counters); an      *)
(* operation returns its result code and, when that is OK, the value.      *)
(* NULL output pointers are programming errors and are left out.           *)
(***************************************************************************)
EXTENDS Integers

CONSTANTS SizeMax,     \* SIZE_MAX
          UintMax      \* UINT64_MAX, UINT32_MAX

Ok(v) == [result |-> "OK", value |-> v]

Failed(r) == [result |-> r, value |-> 0]

IsOk(r) == r.result = "OK"

\* The subtraction and the division cannot wrap, so the test is exact.
Add(left, right, max) ==
  IF right > max - left THEN Failed("OVERFLOW") ELSE Ok(left + right)

Mul(left, right, max) ==
  IF left # 0 /\ right > max \div left THEN Failed("OVERFLOW")
                                       ELSE Ok(left * right)

size_add(left, right) == Add(left, right, SizeMax)

size_mul(left, right) == Mul(left, right, SizeMax)

u32_add(left, right) == Add(left, right, UintMax)

u64_add(left, right) == Add(left, right, UintMax)

u32_mul(left, right) == Mul(left, right, UintMax)

u64_mul(left, right) == Mul(left, right, UintMax)

\* The guard is compiled in only where size_t is the narrower type.
u64_to_size(v) == IF v > SizeMax THEN Failed("RANGE") ELSE Ok(v)

size_align_up(v, alignment) ==
  IF alignment = 0 THEN Failed("INVALID_ARGUMENT")
  ELSE IF v % alignment = 0 THEN Ok(v)
  ELSE size_add(v, alignment - (v % alignment))

size_range(offset, length, limit) ==
  IF offset > limit \/ length > limit - offset THEN Failed("RANGE") ELSE Ok(0)
==============================================================================
