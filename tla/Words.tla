------------------------------- MODULE Words -------------------------------
(***************************************************************************)
(* The widths of the integers between query_handler and dvt_simulate_data, *)
(* and the number of values the latter decides to produce.                 *)
(***************************************************************************)
EXTENDS Integers

CONSTANTS
  WORD64,         \* 2^64, the values of a uint64_t
  INT32,          \* 2^32, the values of an int
  MAX_N_VALUES    \* 10000

ASSUME WidthAssumption ==
  /\ WORD64 \in Nat /\ INT32 \in Nat /\ INT32 > 1 /\ WORD64 > 1
  /\ MAX_N_VALUES \in Nat /\ MAX_N_VALUES < INT32 \div 2

\* Conversion to int: the low 32 bits, read as a signed number.
ToInt(x) ==
  LET low == x % INT32 IN IF low < INT32 \div 2 THEN low ELSE low - INT32

\* (int)((stop - start) / step): the difference wraps if stop is before start.
Count(start, stop, step) == ToInt(((stop - start) % WORD64) \div step)

\* The upper limit is not enforced.
OutOfRange_NoLimit(n) == n < 1

OutOfRange(n) == n < 1 \/ n > MAX_N_VALUES
=============================================================================
