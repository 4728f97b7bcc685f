------------------------- MODULE SimulateData_proofs -------------------------
(***************************************************************************)
(* For words of any width: the times of a series lie on the grid of the    *)
(* request although they are computed modulo 2^64, and none is left out;   *)
(* the limit on the number of values holds, up to one, as long as the      *)
(* count fits an int; the buffer holds the values of the ranges for which  *)
(* four leave room for a fifth; and loads of wt_tonnes are half a period   *)
(* apart, whatever the random numbers.                                     *)
(***************************************************************************)
EXTENDS WtTonnes, FiniteSetTheorems, TLAPS

Counted == {"metric", "alloc", "emit", "text"}

\* What passed the limit is the count of the request, by a step that is not 0.
CountInv == pc \in Counted => step > 0 /\ n = Count(start, stop, step)

\* The value written last lies before the end of the range.
LastInv ==
  pc \in {"emit", "text"} /\ emitted > 0 => (emitted - 1) * step < stop - start

\* Nothing is written before the buffer is there.
FreshInv == pc \in {"count", "metric", "alloc"} => emitted = 0

IInv == TypeOK /\ OnGrid /\ CountInv /\ LastInv /\ FreshInv

-----------------------------------------------------------------------------
(* Arithmetic.                                                             *)

LEMMA ModSmall ==
  ASSUME NEW w \in Nat, NEW x \in Nat, x < w
  PROVE  x % w = x
  OBVIOUS

LEMMA GridStep ==
  ASSUME NEW a \in Int, NEW e \in Int, NEW d \in Int
  PROVE  a + (e + 1) * d = (a + e * d) + d
  OBVIOUS

LEMMA DivBound ==
  ASSUME NEW x \in Nat, NEW d \in Nat, d > 0
  PROVE  x \div d \in Nat /\ (x \div d) * d <= x /\ x < (x \div d + 1) * d
  OBVIOUS

LEMMA ProductOrder ==
  ASSUME NEW a \in Int, NEW b \in Int, NEW d \in Nat, a * d < b * d
  PROVE  a < b
  OBVIOUS

LEMMA ProductNat ==
  ASSUME NEW a \in Nat, NEW b \in Nat
  PROVE  a * b \in Nat
  OBVIOUS

\* The request's numbers, and the sum the loop computes, which stays below
\* 2^64 although its terms reach 2^63.
LEMMA RequestType ==
  ASSUME TypeOK
  PROVE  /\ start \in Nat /\ stop \in Nat /\ step \in Nat
         /\ \A x \in Nat : x < stop => x + step < WORD64
<1>1. /\ start \in 0 .. (WORD64 \div 2 - 1) /\ stop \in 0 .. (WORD64 \div 2 - 1)
      /\ step \in 0 .. (WORD64 \div 2 - 1) /\ WORD64 \in Nat
  BY RequestAssumption, WidthAssumption DEF TypeOK
<1>2. WORD64 \div 2 + WORD64 \div 2 <= WORD64 /\ WORD64 \div 2 \in Nat
  BY <1>1
<1> QED
  BY <1>1, <1>2

\* One turn of the loop.
LEMMA EmitStep ==
  ASSUME TypeOK, CountInv, Emit
  PROVE  /\ pc = "emit" /\ pc' = "emit" /\ UNCHANGED request
         /\ current \in Nat /\ current < stop /\ step \in Nat /\ step > 0
         /\ current' = current + step /\ current' < WORD64
<1>1. /\ start \in Nat /\ stop \in Nat /\ step \in Nat /\ WORD64 \in Nat /\ current \in Nat
  BY RequestType, WidthAssumption DEF TypeOK
<1>2. pc = "emit" /\ pc' = "emit" /\ UNCHANGED request /\ current < stop /\ step > 0
  BY DEF Emit, More, CountInv, Counted
<1>3. current + step \in Nat /\ current + step < WORD64
  BY <1>1, <1>2, RequestType
<1>4. (current + step) % WORD64 = current + step
  BY <1>1, <1>3, ModSmall
<1> QED
  BY <1>1, <1>2, <1>3, <1>4 DEF Emit

-----------------------------------------------------------------------------
LEMMA InitIInv == Init => IInv
<1> SUFFICES ASSUME Init PROVE IInv
  OBVIOUS
<1>1. WORD64 \in Nat /\ WORD64 > 1
  BY WidthAssumption
<1>2. TypeOK
  BY <1>1 DEF Init, TypeOK
<1> QED
  BY <1>2 DEF Init, IInv, OnGrid, CountInv, LastInv, FreshInv, Counted

LEMMA NextIInv == IInv /\ [Next]_vars => IInv'
<1> SUFFICES ASSUME IInv, [Next]_vars PROVE IInv'
  OBVIOUS
<1>0. /\ TypeOK /\ OnGrid /\ CountInv /\ LastInv /\ FreshInv
      /\ start \in Nat /\ stop \in Nat /\ step \in Nat
      /\ current \in Nat /\ emitted \in Nat /\ used \in Nat
      /\ WORD64 \in Nat /\ WORD64 > 1
  BY RequestType, WidthAssumption DEF IInv, TypeOK
<1>1. CASE Trap
  <2>1. TypeOK'
    BY <1>0, <1>1 DEF Trap, TypeOK, request
  <2> QED
    BY <1>1, <2>1 DEF Trap, IInv, OnGrid, CountInv, LastInv, FreshInv, Counted
<1>2. CASE CountValues
  <2>1. pc' = "metric" => n' \in 1 .. MAX_N_VALUES
    <3>1. ((stop - start) % WORD64) \div step \in Int
      BY <1>0, <1>2 DEF CountValues
    <3>2. n' \in Int
      BY <1>2, <3>1, WidthAssumption DEF CountValues, Count, ToInt
    <3> QED
      BY <1>2, <3>2, WidthAssumption DEF CountValues, OutOfRange
  <2>2. TypeOK'
    BY <1>0, <1>2, <2>1 DEF CountValues, TypeOK, request
  <2>3. CountInv'
    BY <1>0, <1>2 DEF CountValues, CountInv, Counted, request
  <2> QED
    BY <1>2, <2>2, <2>3 DEF CountValues, IInv, OnGrid, LastInv, FreshInv
<1>3. CASE UnknownMetric
  <2>1. TypeOK'
    BY <1>0, <1>3 DEF UnknownMetric, TypeOK, request
  <2> QED
    BY <1>3, <2>1 DEF UnknownMetric, IInv, OnGrid, CountInv, LastInv, FreshInv, Counted
<1>4. CASE MissingParameter
  <2>1. TypeOK'
    BY <1>0, <1>4 DEF MissingParameter, TypeOK, request
  <2> QED
    BY <1>4, <2>1 DEF MissingParameter, IInv, OnGrid, CountInv, LastInv, FreshInv, Counted
<1>5. CASE Parameters
  <2>1. TypeOK'
    BY <1>0, <1>5 DEF Parameters, TypeOK, request
  <2>2. CountInv'
    BY <1>0, <1>5 DEF Parameters, CountInv, Counted, request
  <2> QED
    BY <1>5, <2>1, <2>2 DEF Parameters, IInv, OnGrid, LastInv, FreshInv
<1>6. CASE AllocFails
  <2>1. TypeOK'
    BY <1>0, <1>6 DEF AllocFails, TypeOK, request
  <2> QED
    BY <1>6, <2>1 DEF AllocFails, IInv, OnGrid, CountInv, LastInv, FreshInv, Counted
<1>7. CASE Alloc
  <2>0. emitted = 0
    BY <1>0, <1>7 DEF Alloc, FreshInv
  <2>1. pc' = "emit" /\ current' = start /\ used' = 1 /\ UNCHANGED <<request, n, emitted>>
    BY <1>7 DEF Alloc
  <2>2. start \in 0 .. WORD64 - 1
    BY <1>0, RequestAssumption DEF TypeOK
  <2>3. TypeOK'
    BY <1>0, <1>7, <2>1, <2>2 DEF Alloc, TypeOK, request
  <2>4. CountInv'
    BY <1>0, <1>7, <2>1 DEF Alloc, CountInv, Counted, request
  <2>5. OnGrid' /\ LastInv' /\ FreshInv'
    BY <1>0, <2>0, <2>1 DEF OnGrid, LastInv, FreshInv, request
  <2> QED
    BY <2>3, <2>4, <2>5 DEF IInv
<1>8. CASE Emit
  <2>0. current < stop /\ current = start + emitted * step
    BY <1>0, <1>8, EmitStep DEF Emit, OnGrid
  <2>1. current' = current + step /\ current' < WORD64
    BY <1>0, <1>8, EmitStep
  <2>2. emitted' = emitted + 1 /\ pc' = "emit" /\ UNCHANGED request
    BY <1>8 DEF Emit
  <2>3. used' \in Nat
    BY <1>0, <1>8, RoomAssumption DEF Emit
  <2>4. TypeOK'
    BY <1>0, <1>8, <2>1, <2>2, <2>3 DEF Emit, TypeOK, request
  <2>5. OnGrid'
    BY <1>0, <2>0, <2>1, <2>2, GridStep DEF OnGrid, request
  <2>6. CountInv'
    BY <1>0, <1>8 DEF Emit, CountInv, Counted, request
  <2>7. LastInv'
    <3>1. emitted * step \in Nat
      BY <1>0, ProductNat
    <3>2. emitted * step < stop - start
      BY <1>0, <2>0, <3>1
    <3>3. emitted' - 1 = emitted
      BY <1>0, <2>2
    <3> QED
      BY <2>2, <3>2, <3>3 DEF LastInv, request
  <2> QED
    BY <2>2, <2>4, <2>5, <2>6, <2>7 DEF IInv, FreshInv
<1>9. CASE Close
  <2>1. TypeOK'
    BY <1>0, <1>9 DEF Close, TypeOK, request
  <2>2. OnGrid' /\ LastInv'
    BY <1>0, <1>9 DEF Close, OnGrid, LastInv, request
  <2>3. CountInv'
    BY <1>0, <1>9 DEF Close, CountInv, Counted, request
  <2> QED
    BY <1>9, <2>1, <2>2, <2>3 DEF Close, IInv, FreshInv
<1>10. CASE UNCHANGED vars
  BY <1>10 DEF vars, IInv, TypeOK, OnGrid, CountInv, LastInv, FreshInv
<1> QED
  BY <1>1, <1>2, <1>3, <1>4, <1>5, <1>6, <1>7, <1>8, <1>9, <1>10 DEF Next

-----------------------------------------------------------------------------
(* The end of the loop, and the room in the buffer.                        *)

EndInv == pc = "text" => ~More

LEMMA NextEndInv == EndInv /\ [Next]_vars => EndInv'
<1> SUFFICES ASSUME EndInv, [Next]_vars PROVE EndInv'
  OBVIOUS
<1>1. CASE Close
  BY <1>1 DEF Close, EndInv, More, request
<1>2. CASE UNCHANGED vars
  BY <1>2 DEF vars, EndInv, More
<1>3. CASE \/ Trap \/ CountValues \/ UnknownMetric \/ MissingParameter \/ Parameters
           \/ AllocFails \/ Alloc \/ Emit
  <2>1. pc' # "text"
    BY <1>3
    DEF Trap, CountValues, UnknownMetric, MissingParameter, Parameters, AllocFails, Alloc, Emit
  <2> QED
    BY <2>1 DEF EndInv
<1> QED
  BY <1>1, <1>2, <1>3 DEF Next

LEMMA ProductMonotone ==
  ASSUME NEW a \in Int, NEW b \in Int, NEW d \in Nat, a <= b
  PROVE  a * d <= b * d
  OBVIOUS

\* The values, the commas between them and the brackets, with the NUL.
UsedInv ==
  /\ pc = "emit" => used <= IF emitted = 0 THEN 1 ELSE 12 * emitted
  /\ pc = "text" => used <= IF emitted = 0 THEN 3 ELSE 12 * emitted + 2

LEMMA NextUsedInv ==
  ASSUME Widths \subseteq 0 .. 11
  PROVE  IInv /\ UsedInv /\ [Next]_vars => UsedInv'
<1> SUFFICES ASSUME IInv, UsedInv, [Next]_vars PROVE UsedInv'
  OBVIOUS
<1>0. emitted \in Nat /\ used \in Nat /\ start \in Nat /\ step \in Nat
  BY RequestType DEF IInv, TypeOK
<1>1. CASE Alloc
  <2>1. emitted = 0
    BY <1>1 DEF Alloc, IInv, FreshInv
  <2> QED
    BY <1>1, <2>1 DEF Alloc, UsedInv
<1>2. CASE Emit
  <2>1. PICK w \in Widths : used' = used + (IF current # start THEN 1 ELSE 0) + w
    BY <1>2 DEF Emit
  <2>2. w \in 0 .. 11
    OBVIOUS
  <2>3. /\ pc = "emit" /\ pc' = "emit" /\ emitted' = emitted + 1
        /\ used <= IF emitted = 0 THEN 1 ELSE 12 * emitted
        /\ current = start + emitted * step
    BY <1>2 DEF Emit, UsedInv, IInv, OnGrid
  <2>4. emitted = 0 => current = start
    BY <1>0, <2>3
  <2>5. used' <= 12 * emitted'
    BY <1>0, <2>1, <2>2, <2>3, <2>4
  <2>6. emitted' # 0
    BY <1>0, <2>3
  <2> QED
    BY <2>3, <2>5, <2>6 DEF UsedInv
<1>3. CASE Close
  BY <1>0, <1>3 DEF Close, UsedInv
<1>4. CASE UNCHANGED vars
  BY <1>4 DEF vars, UsedInv
<1>5. CASE \/ Trap \/ CountValues \/ UnknownMetric \/ MissingParameter \/ Parameters \/ AllocFails
  <2>1. pc' \notin {"emit", "text"}
    BY <1>5 DEF Trap, CountValues, UnknownMetric, MissingParameter, Parameters, AllocFails
  <2> QED
    BY <2>1 DEF UsedInv
<1> QED
  BY <1>1, <1>2, <1>3, <1>4, <1>5 DEF Next

\* What was counted and what is written: n is the quotient of a range that is
\* not negative, and at most one value more is written, none more if the range
\* is a whole number of steps.
LEMMA CountedValues ==
  ASSUME IInv, pc = "text", NotCut, emitted > 0
  PROVE  /\ n \in Nat /\ emitted <= n + 1
         /\ Range64 % step = 0 => emitted <= n
<1>0. /\ start \in Nat /\ stop \in Nat /\ step \in Nat /\ emitted \in Nat
      /\ step > 0 /\ n = Count(start, stop, step) /\ n \in 1 .. MAX_N_VALUES
      /\ WORD64 \in Nat /\ MAX_N_VALUES \in Nat /\ INT32 \in Nat
  BY RequestType, WidthAssumption DEF IInv, TypeOK, CountInv, Counted
<1> DEFINE range == stop - start
           q == range \div step
<1>1. (emitted - 1) * step < range /\ emitted - 1 \in Nat
  BY <1>0 DEF IInv, LastInv
<1>2. range \in Nat
  <2>1. (emitted - 1) * step \in Nat
    BY <1>0, <1>1, ProductNat
  <2> QED
    BY <1>0, <1>1, <2>1
<1>3. range < WORD64
  BY <1>0, <1>2, WidthAssumption, RequestAssumption DEF IInv, TypeOK
<1>4. Range64 = range
  BY <1>0, <1>2, <1>3, ModSmall DEF Range64
<1>5. q \in Nat /\ range < (q + 1) * step
  BY <1>0, <1>2, DivBound
<1>6. q < INT32 \div 2
  BY <1>4 DEF NotCut
<1>7. n = q
  <2>1. q < INT32
    BY <1>0, <1>5, <1>6
  <2>2. q % INT32 = q
    BY <1>0, <1>5, <2>1, ModSmall
  <2>3. Count(start, stop, step) = ToInt(q)
    BY <1>4 DEF Count, Range64
  <2> QED
    BY <1>0, <1>6, <2>2, <2>3 DEF ToInt
<1>8. emitted - 1 < q + 1
  <2>1. (emitted - 1) * step \in Int /\ (q + 1) * step \in Int
    BY <1>0, <1>1, <1>5, ProductNat
  <2>2. (emitted - 1) * step < (q + 1) * step
    BY <1>1, <1>2, <1>5, <2>1
  <2> HIDE DEF q
  <2> QED
    BY <1>0, <1>1, <1>5, <2>2, ProductOrder
<1>9. ASSUME Range64 % step = 0 PROVE emitted <= n
  <2>1. range = q * step
    BY <1>0, <1>2, <1>4, <1>9
  <2>2. (emitted - 1) * step < q * step
    BY <1>1, <2>1
  <2> HIDE DEF q
  <2>3. emitted - 1 < q
    BY <1>0, <1>1, <1>5, <2>2, ProductOrder
  <2> QED
    BY <1>0, <1>5, <1>7, <2>3
<1> QED
  BY <1>0, <1>5, <1>7, <1>8, <1>9

-----------------------------------------------------------------------------
(* The loop with the curve of wt_tonnes: one more way to end the process.  *)

LEMMA PeriodTrapKeeps ==
  /\ IInv /\ EndInv /\ PeriodTrap => IInv' /\ EndInv'
  /\ UsedInv /\ PeriodTrap => UsedInv'
<1>1. ASSUME IInv, PeriodTrap PROVE IInv'
  <2>1. TypeOK'
    BY <1>1 DEF PeriodTrap, IInv, TypeOK, request
  <2> QED
    BY <1>1, <2>1 DEF PeriodTrap, IInv, OnGrid, CountInv, LastInv, FreshInv, Counted
<1> QED
  BY <1>1 DEF PeriodTrap, EndInv, UsedInv

LEMMA CurveStep == [CurveNext]_seriesVars => [Next]_vars \/ PeriodTrap
  BY DEF CurveNext, Next, EmitOther, EmitTonnes, seriesVars

LEMMA CurveInitIInv == CurveInit => IInv /\ EndInv /\ UsedInv
  BY InitIInv DEF CurveInit, Init, EndInv, UsedInv

LEMMA CurveNextIInv == IInv /\ EndInv /\ [CurveNext]_seriesVars => IInv' /\ EndInv'
  BY NextIInv, NextEndInv, PeriodTrapKeeps, CurveStep

-----------------------------------------------------------------------------
\* The inductive invariant of dvt_simulate_data, whatever the curve.
THEOREM Invariance == CurveSpec => [](IInv /\ EndInv)
  BY CurveInitIInv, CurveNextIInv, PTL DEF CurveSpec

\* The k-th value of an answer is that of start + (k - 1) * step: the 64-bit
\* sum of dvt_simulate_data's loop never wraps.
THEOREM OnGridHolds == CurveSpec => []OnGrid
<1>1. IInv => OnGrid
  BY DEF IInv
<1> QED
  BY <1>1, Invariance, PTL

\* At most MAX_N_VALUES + 1 values are written, unless the conversion of the
\* count to an int cut it.
THEOREM WithinLimitHolds == CurveSpec => []WithinLimit
<1>1. IInv => WithinLimit
  <2> SUFFICES ASSUME IInv, pc = "text", NotCut PROVE emitted <= MAX_N_VALUES + 1
    BY DEF WithinLimit
  <2>0. n \in 1 .. MAX_N_VALUES /\ MAX_N_VALUES \in Nat /\ emitted \in Nat
    BY WidthAssumption DEF IInv, TypeOK
  <2>1. CASE emitted = 0
    BY <2>0, <2>1
  <2>2. CASE emitted > 0
    BY <2>0, <2>2, CountedValues
  <2> QED
    BY <2>0, <2>1, <2>2
<1> QED
  BY <1>1, Invariance, PTL

\* The grid ends where the loop does.
THEOREM GridCompleteHolds == CurveSpec => []GridComplete
<1>1. IInv /\ EndInv => GridComplete
  <2> SUFFICES ASSUME IInv, EndInv, pc = "text"
               PROVE  emitted = Cardinality({k \in 0 .. stop : start + k * step < stop})
    BY DEF GridComplete
  <2>0. /\ start \in Nat /\ stop \in Nat /\ step \in Nat /\ emitted \in Nat /\ step > 0
        /\ current = start + emitted * step /\ ~(current < stop)
        /\ emitted > 0 => (emitted - 1) * step < stop - start
    BY RequestType DEF IInv, TypeOK, CountInv, Counted, OnGrid, LastInv, EndInv, More
  <2>1. ASSUME NEW k \in 0 .. emitted - 1
        PROVE  k \in 0 .. stop /\ start + k * step < stop
    <3>1. k * step <= (emitted - 1) * step /\ k * 1 <= k * step
      <4>1. k \in Nat /\ k <= emitted - 1 /\ emitted - 1 \in Int
        BY <2>0, <2>1
      <4>2. k * step <= (emitted - 1) * step
        BY <2>0, <4>1, ProductMonotone
      <4>3. 1 * k <= step * k
        BY <2>0, <4>1, ProductMonotone
      <4> QED
        BY <2>0, <4>1, <4>2, <4>3
    <3>2. k * step \in Nat /\ (emitted - 1) * step \in Int /\ k * 1 = k
      BY <2>0, <2>1, ProductNat
    <3> QED
      BY <2>0, <2>1, <3>1, <3>2
  <2>2. ASSUME NEW k \in 0 .. stop, start + k * step < stop
        PROVE  k \in 0 .. emitted - 1
    <3>1. CASE k < emitted
      BY <2>0, <3>1
    <3>2. CASE emitted <= k
      <4>1. emitted * step <= k * step
        BY <2>0, <3>2, ProductMonotone
      <4>2. emitted * step \in Nat /\ k * step \in Nat
        BY <2>0, ProductNat
      <4> QED
        BY <2>0, <2>2, <4>1, <4>2
    <3> QED
      BY <2>0, <3>1, <3>2
  <2>3. {k \in 0 .. stop : start + k * step < stop} = 0 .. emitted - 1
    BY <2>1, <2>2
  <2>4. Cardinality(0 .. emitted - 1) = emitted
    <3>1. 0 \in Int /\ emitted - 1 \in Int
      BY <2>0
    <3>2. Cardinality(0 .. emitted - 1) = IF 0 > emitted - 1 THEN 0 ELSE (emitted - 1) - 0 + 1
      BY <3>1, FS_Interval
    <3> QED
      BY <2>0, <3>2
  <2> QED
    BY <2>3, <2>4
<1> QED
  BY <1>1, Invariance, PTL

\* 16 bytes per value are enough for values of at most 11 characters.
THEOREM EnoughRoomHolds ==
  ASSUME ROOM >= 16, Widths \subseteq 0 .. 11
  PROVE  CurveSpec => []EnoughRoom
<1>1. IInv /\ UsedInv => EnoughRoom
  <2> SUFFICES ASSUME IInv, UsedInv, pc = "text", NotCut, Range64 % step = 0 \/ n >= 4
               PROVE  used <= ROOM * n
    BY DEF EnoughRoom
  <2>0. /\ n \in 1 .. MAX_N_VALUES /\ MAX_N_VALUES \in Nat /\ emitted \in Nat /\ used \in Nat
        /\ ROOM \in Nat /\ n \in Nat /\ n >= 1
    BY WidthAssumption, RoomAssumption DEF IInv, TypeOK
  <2>1. used <= 16 * n
    <3>1. CASE emitted = 0
      BY <2>0, <3>1 DEF UsedInv
    <3>2. CASE emitted > 0
      <4>1. used <= 12 * emitted + 2
        BY <3>2 DEF UsedInv
      <4>2. emitted <= n + 1 /\ (Range64 % step = 0 => emitted <= n)
        BY <3>2, CountedValues
      <4> QED
        BY <2>0, <4>1, <4>2
    <3> QED
      BY <2>0, <3>1, <3>2
  <2>2. 16 * n <= ROOM * n
    BY <2>0, ProductMonotone
  <2>3. ROOM * n \in Nat
    BY <2>0, ProductNat
  <2> QED
    BY <2>0, <2>1, <2>2, <2>3
<1>2. IInv /\ UsedInv /\ [CurveNext]_seriesVars => UsedInv'
  BY NextUsedInv, PeriodTrapKeeps, CurveStep
<1> QED
  BY <1>1, <1>2, CurveInitIInv, Invariance, PTL DEF CurveSpec

-----------------------------------------------------------------------------
(* The blocks of a belt and the loads in them, for one period P and one     *)
(* choice r of the random numbers.                                          *)

First(P, r, k) == (r[k] * P) \div (2 * FINE) + k * P
Last(P, r, k) == ((r[k + 1] + FINE) * P) \div (2 * FINE) + k * P
Loading(P, r, x) == First(P, r, x \div P) <= x /\ x <= Last(P, r, x \div P)

LEMMA DivUnique ==
  ASSUME NEW x \in Nat, NEW m \in Nat, m > 0, NEW q \in Nat, q * m <= x, x < (q + 1) * m
  PROVE  x \div m = q
<1> DEFINE p == x \div m
<1>1. p \in Nat /\ p * m <= x /\ x < (p + 1) * m
  BY DivBound
<1> HIDE DEF p
<1>2. q * m < (p + 1) * m /\ p * m < (q + 1) * m
  <2>1. q * m \in Nat /\ p * m \in Nat /\ (q + 1) * m \in Nat /\ (p + 1) * m \in Nat
    BY <1>1, ProductNat
  <2> QED
    BY <1>1, <2>1
<1>3. q < p + 1 /\ p < q + 1
  BY <1>1, <1>2, ProductOrder
<1> QED
  BY <1>1, <1>3 DEF p

\* A random number r / FINE of half a period h, as the code computes it with
\* the whole period, and the same in the second half.
LEMMA HalfPeriod ==
  ASSUME NEW h \in Nat, NEW r \in 0 .. FINE
  PROVE  LET d == (r * (2 * h)) \div (2 * FINE) IN
         /\ d \in Nat /\ d <= h
         /\ ((r + FINE) * (2 * h)) \div (2 * FINE) = d + h
<1> DEFINE m == 2 * FINE
           x == r * (2 * h)
           d == x \div m
<1>1. FINE \in Nat /\ FINE > 0 /\ m \in Nat /\ m > 0 /\ r \in Nat /\ r <= FINE /\ 2 * h \in Nat
  BY CurveAssumption
<1>2. x \in Nat /\ x <= h * m
  <2>1. r * (2 * h) <= FINE * (2 * h)
    BY <1>1, ProductMonotone
  <2>2. FINE * (2 * h) = h * m
    BY <1>1
  <2> QED
    BY <1>1, <2>1, <2>2, ProductNat
<1>3. d \in Nat /\ d * m <= x /\ x < (d + 1) * m
  BY <1>1, <1>2, DivBound
<1>4. (r + FINE) * (2 * h) = x + h * m
  BY <1>1
<1> HIDE DEF x, d, m
<1>5. d <= h
  <2>1. d * m <= h * m /\ d * m \in Nat /\ h * m \in Nat
    BY <1>1, <1>2, <1>3, ProductNat
  <2>2. (h + 1) * m = h * m + m
    BY <1>1
  <2>3. d * m < (h + 1) * m
    BY <1>1, <2>1, <2>2
  <2>4. d < h + 1
    BY <1>1, <1>3, <2>3, ProductOrder
  <2> QED
    BY <1>3, <2>4
<1>6. (x + h * m) \div m = d + h
  <2>1. /\ (d + h) * m = d * m + h * m /\ ((d + h) + 1) * m = (d + 1) * m + h * m
        /\ h * m \in Nat /\ d * m \in Nat /\ (d + 1) * m \in Nat
    BY <1>1, <1>3, ProductNat
  <2>2. (d + h) * m <= x + h * m /\ x + h * m < ((d + h) + 1) * m
    BY <1>2, <1>3, <2>1
  <2>3. x + h * m \in Nat /\ d + h \in Nat
    BY <1>2, <1>3, <2>1
  <2> QED
    BY <1>1, <2>2, <2>3, DivUnique
<1> QED
  BY <1>3, <1>4, <1>5, <1>6 DEF x, d, m

\* A load lies in its block, begins in the first half and ends in the second,
\* and the next load begins half a period after it.
LEMMA Loads ==
  ASSUME NEW P \in Nat, P % 2 = 0, NEW r \in [0 .. LastBlock -> 0 .. FINE],
         NEW k \in 0 .. LastBlock - 1
  PROVE  /\ First(P, r, k) \in Nat /\ Last(P, r, k) \in Nat /\ First(P, r, k + 1) \in Nat
         /\ k * P <= First(P, r, k)
         /\ Last(P, r, k) <= (k + 1) * P
         /\ (k + 1) * P <= First(P, r, k + 1)
         /\ First(P, r, k + 1) <= (k + 2) * P
         /\ First(P, r, k + 1) = Last(P, r, k) + P \div 2
<1> DEFINE h == P \div 2
           d == (r[k] * P) \div (2 * FINE)
           e == (r[k + 1] * P) \div (2 * FINE)
<1>1. h \in Nat /\ P = 2 * h
  OBVIOUS
<1>2. k \in Nat /\ LastBlock \in Nat /\ k + 1 \in 0 .. LastBlock /\ k \in 0 .. LastBlock
  BY CurveAssumption
<1>3. r[k] \in 0 .. FINE /\ r[k + 1] \in 0 .. FINE
  BY <1>2
<1>4. d \in Nat
  BY <1>1, <1>3, HalfPeriod
<1>5. e \in Nat /\ e <= h /\ ((r[k + 1] + FINE) * P) \div (2 * FINE) = e + h
  BY <1>1, <1>3, HalfPeriod
<1>6. First(P, r, k) = d + k * P /\ Last(P, r, k) = (e + h) + k * P
  BY <1>5 DEF First, Last
<1>7. First(P, r, k + 1) = e + (k + 1) * P
  BY DEF First
<1> HIDE DEF d, e, h
<1>8. k * P \in Nat /\ (k + 1) * P = k * P + P /\ (k + 2) * P = (k * P + P) + P
  BY <1>2, ProductNat
<1> QED
  BY <1>1, <1>4, <1>5, <1>6, <1>7, <1>8 DEF h

LEMMA InBlock ==
  ASSUME NEW P \in Nat, P > 0, NEW x \in Nat
  PROVE  x \div P \in Nat /\ (x \div P) * P <= x /\ x < (x \div P + 1) * P
  BY DivBound

LEMMA BlockOrder ==
  ASSUME NEW P \in Nat, P > 0, NEW x \in Nat, NEW y \in Nat, x <= y
  PROVE  x \div P <= y \div P
<1> DEFINE a == x \div P
           b == y \div P
<1>1. a \in Nat /\ a * P <= x /\ b \in Nat /\ y < (b + 1) * P
  BY InBlock
<1> HIDE DEF a, b
<1>2. a * P \in Nat /\ (b + 1) * P \in Nat
  BY <1>1, ProductNat
<1>3. a * P < (b + 1) * P
  BY <1>1, <1>2
<1>4. a < b + 1
  BY <1>1, <1>3, ProductOrder
<1> QED
  BY <1>1, <1>4 DEF a, b

\* A time that lies in a block, after its load began and before it ended.
LEMMA LoadingIn ==
  ASSUME NEW P \in Nat, P > 0, NEW r, NEW k \in Nat, NEW x \in Nat,
         k * P <= x, x < (k + 1) * P, First(P, r, k) <= x, x <= Last(P, r, k)
  PROVE  x \div P = k /\ Loading(P, r, x)
<1>1. x \div P = k
  BY DivUnique
<1> QED
  BY <1>1 DEF Loading

\* Between two loads that a value without load separates lies half a period.
LEMMA Pause ==
  ASSUME NEW P \in Nat, P > 0, P % 2 = 0, NEW r \in [0 .. LastBlock -> 0 .. FINE],
         NEW y \in Nat, NEW x \in Nat, NEW c \in Nat, y < x, x < c, c \div P < LastBlock,
         Loading(P, r, y), ~Loading(P, r, x), Loading(P, r, c)
  PROVE  c - y >= P \div 2
<1> DEFINE k == y \div P
           b == c \div P
<1>1. /\ k \in Nat /\ k * P <= y /\ y < (k + 1) * P
      /\ b \in Nat /\ b * P <= c /\ c < (b + 1) * P
      /\ First(P, r, k) <= y /\ y <= Last(P, r, k)
      /\ First(P, r, b) <= c /\ c <= Last(P, r, b)
      /\ b < LastBlock
  BY InBlock DEF Loading
<1>0. k <= b
  BY BlockOrder
<1> HIDE DEF k, b
<1>2. k <= b /\ k \in 0 .. LastBlock - 1 /\ b \in 0 .. LastBlock - 1 /\ LastBlock \in Nat
  BY <1>0, <1>1, CurveAssumption
<1>3. /\ First(P, r, k) \in Nat /\ Last(P, r, k) \in Nat /\ First(P, r, k + 1) \in Nat
      /\ First(P, r, k + 1) <= (k + 2) * P
      /\ First(P, r, k + 1) = Last(P, r, k) + P \div 2
      /\ First(P, r, b) \in Nat /\ Last(P, r, b) \in Nat
  BY <1>2, Loads
<1>4. k # b
  <2> SUFFICES ASSUME k = b PROVE FALSE
    OBVIOUS
  <2>1. (k + 1) * P \in Nat /\ k * P \in Nat
    BY <1>1, ProductNat
  <2>2. k * P <= x /\ x < (k + 1) * P /\ First(P, r, k) <= x /\ x <= Last(P, r, k)
    BY <1>1, <1>3, <2>1
  <2> QED
    BY <1>1, <2>2, LoadingIn
<1>5. First(P, r, k + 1) <= c
  <2>1. CASE b = k + 1
    BY <1>1, <2>1
  <2>2. CASE b # k + 1
    <3>1. k + 2 <= b /\ k + 2 \in Nat
      BY <1>1, <1>2, <1>4, <2>2
    <3> DEFINE u == (k + 2) * P
               v == b * P
    <3>2. u <= v /\ u \in Nat /\ v \in Nat
      BY <1>1, <3>1, ProductMonotone, ProductNat
    <3>3. First(P, r, k + 1) <= u /\ v <= c
      BY <1>1, <1>3
    <3> HIDE DEF u, v
    <3> QED
      BY <1>3, <3>2, <3>3
  <2> QED
    BY <2>1, <2>2
<1>6. P \div 2 \in Nat
  OBVIOUS
<1> QED
  BY <1>1, <1>3, <1>5, <1>6

\* No load is shorter than the step.
Long(P, r, s) == \A k \in 0 .. LastBlock - 1 : Last(P, r, k) - First(P, r, k) >= s

\* The next value is not under load: it comes before the next load, and is
\* the first after this one only if this one is over by then.
LEMMA StillPause ==
  ASSUME NEW P \in Nat, P > 0, P % 2 = 0, NEW r \in [0 .. LastBlock -> 0 .. FINE],
         NEW s \in Nat, s > 0, Long(P, r, s),
         NEW y \in Nat, y \div P < LastBlock, Loading(P, r, y),
         NEW c \in Nat, c \div P < LastBlock, ~Loading(P, r, c),
         c - s < First(P, r, y \div P + 1)
  PROVE  /\ c < First(P, r, y \div P + 1)
         /\ c = y + s => c >= Last(P, r, y \div P)
<1> DEFINE k == y \div P
<1>1. /\ k \in Nat /\ k * P <= y /\ y < (k + 1) * P
      /\ First(P, r, k) <= y /\ y <= Last(P, r, k)
  BY InBlock DEF Loading
<1>2. k \in 0 .. LastBlock - 1 /\ LastBlock \in Nat
  BY <1>1, CurveAssumption
<1> HIDE DEF k
<1>3. /\ First(P, r, k) \in Nat /\ Last(P, r, k) \in Nat /\ First(P, r, k + 1) \in Nat
      /\ Last(P, r, k) <= (k + 1) * P /\ (k + 1) * P <= First(P, r, k + 1)
  BY <1>2, Loads
<1>4. k * P \in Nat /\ (k + 1) * P \in Nat /\ k + 1 \in Nat
  BY <1>1, ProductNat
<1>5. c < First(P, r, k + 1)
  <2> SUFFICES ASSUME First(P, r, k + 1) <= c PROVE FALSE
    BY <1>3
  <2>1. k + 1 <= c \div P
    <3> DEFINE b == c \div P
    <3>1. b \in Nat /\ c < (b + 1) * P
      BY InBlock
    <3> HIDE DEF b
    <3> DEFINE u == (k + 1) * P
               v == (b + 1) * P
               a == k + 1
               e == b + 1
    <3>2. u < v
      <4>1. u \in Nat /\ v \in Nat /\ u <= First(P, r, k + 1) /\ c < v
        BY <1>3, <1>4, <3>1, ProductNat
      <4> HIDE DEF u, v
      <4> QED
        BY <1>3, <4>1
    <3>4. a \in Int /\ e \in Int /\ a * P < e * P
      BY <1>4, <3>1, <3>2
    <3>5. a < e
      <4> HIDE DEF a, e
      <4> QED
        BY <3>4, ProductOrder
    <3>3. k + 1 < b + 1
      BY <3>5
    <3> QED
      BY <1>1, <3>1, <3>3 DEF b
  <2>2. k + 1 \in 0 .. LastBlock - 1
    <3>1. c \div P \in Nat
      BY InBlock
    <3> QED
      BY <1>1, <1>2, <2>1, <3>1
  <2>3. /\ Last(P, r, k + 1) - First(P, r, k + 1) >= s /\ Last(P, r, k + 1) \in Nat
        /\ Last(P, r, k + 1) <= ((k + 1) + 1) * P
    BY <2>2, Loads DEF Long
  <2>4. c - s < First(P, r, k + 1)
    BY DEF k
  <2>5. c < Last(P, r, k + 1)
    BY <1>3, <2>3, <2>4
  <2>6. ((k + 1) + 1) * P \in Nat
    BY <1>4, ProductNat
  <2>7. (k + 1) * P <= c /\ c < ((k + 1) + 1) * P
    <3> DEFINE u == (k + 1) * P
               v == ((k + 1) + 1) * P
    <3>1. u \in Nat /\ v \in Nat /\ u <= First(P, r, k + 1) /\ Last(P, r, k + 1) <= v
      BY <1>3, <1>4, <2>3, <2>6
    <3> HIDE DEF u, v
    <3>2. u <= c /\ c < v
      BY <1>3, <2>3, <2>5, <3>1
    <3> QED
      BY <3>2 DEF u, v
  <2> QED
    BY <1>4, <2>3, <2>5, <2>7, LoadingIn
<1>6. ASSUME c = y + s PROVE c >= Last(P, r, k)
  <2> SUFFICES ASSUME c < Last(P, r, k) PROVE FALSE
    BY <1>3
  <2>1. k * P <= c /\ c < (k + 1) * P /\ First(P, r, k) <= c /\ c <= Last(P, r, k)
    <3> DEFINE u == k * P
               v == (k + 1) * P
    <3>1. /\ u \in Nat /\ v \in Nat /\ u <= y /\ Last(P, r, k) <= v
          /\ First(P, r, k) <= y /\ First(P, r, k) \in Nat /\ Last(P, r, k) \in Nat
      BY <1>1, <1>3, <1>4
    <3> HIDE DEF u, v
    <3>2. u <= c /\ c < v /\ First(P, r, k) <= c /\ c <= Last(P, r, k)
      BY <1>6, <3>1
    <3> QED
      BY <3>2 DEF u, v
  <2> QED
    BY <1>1, <2>1, LoadingIn
<1> QED
  BY <1>5, <1>6 DEF k

\* The next value is under load again: the pause was not much too long.
LEMMA PauseEnds ==
  ASSUME NEW P \in Nat, P % 2 = 0, NEW r \in [0 .. LastBlock -> 0 .. FINE], NEW s \in Nat,
         NEW y \in Nat, NEW k \in 0 .. LastBlock - 1, y + s >= Last(P, r, k),
         NEW c \in Nat, c - s < First(P, r, k + 1)
  PROVE  c - y <= P \div 2 + 2 * s
<1>1. /\ Last(P, r, k) \in Nat
      /\ First(P, r, k + 1) = Last(P, r, k) + P \div 2
  BY Loads
<1>2. P \div 2 \in Nat
  OBVIOUS
<1> QED
  BY <1>1, <1>2

-----------------------------------------------------------------------------
(* The values of one load and the pause after it.                          *)

\* y is the last value under load, c the next time: the values since y are
\* without load, the next load has not begun, and this one was over one step
\* after y.
Waiting(P, r, s, y, c) ==
  /\ y \in Nat /\ y \div P < LastBlock /\ Loading(P, r, y) /\ y <= c - s
  /\ y # c - s => ~Loading(P, r, c - s)
  /\ Long(P, r, s) => /\ c - s < First(P, r, y \div P + 1)
                      /\ y # c - s => y + s >= Last(P, r, y \div P)

Fits(P, r, s, p) ==
  /\ p >= P \div 2
  /\ Long(P, r, s) => p <= P \div 2 + 2 * s

LoadInv ==
  /\ pc \in {"count", "metric", "alloc"} => loaded = None
  /\ pc = "emit" /\ loaded # None =>
       /\ IsTonnes /\ period_10m > 0
       /\ Waiting(period_10m, rand, step, loaded, current)

CurveTypes ==
  /\ IsTonnes => width \in Belts /\ rand \in Noise
  /\ ~IsTonnes => loaded = None /\ pause = None

PauseInv == pause # None => Fits(period_10m, rand, step, pause)

LEMMA WaitingLoad ==
  ASSUME NEW P \in Nat, P > 0, P % 2 = 0, NEW r \in [0 .. LastBlock -> 0 .. FINE],
         NEW s \in Nat, NEW c \in Nat, c \div P < LastBlock, Loading(P, r, c)
  PROVE  Waiting(P, r, s, c, c + s)
<1> DEFINE k == c \div P
           u == (k + 1) * P
<1>1. k \in Nat /\ c < u /\ u \in Nat
  BY InBlock, ProductNat
<1>2. k \in 0 .. LastBlock - 1
  BY <1>1, CurveAssumption
<1> HIDE DEF k
<1>3. u <= First(P, r, k + 1) /\ First(P, r, k + 1) \in Nat
  BY <1>2, Loads
<1> HIDE DEF u
<1>4. (c + s) - s = c /\ c < First(P, r, k + 1)
  BY <1>1, <1>3
<1> QED
  BY <1>4 DEF Waiting, k

LEMMA WaitingOn ==
  ASSUME NEW P \in Nat, P > 0, P % 2 = 0, NEW r \in [0 .. LastBlock -> 0 .. FINE],
         NEW s \in Nat, s > 0, NEW y, NEW c \in Nat, Waiting(P, r, s, y, c),
         c \div P < LastBlock, ~Loading(P, r, c)
  PROVE  Waiting(P, r, s, y, c + s)
<1>1. y \in Nat /\ y \div P < LastBlock /\ Loading(P, r, y) /\ y <= c - s
  BY DEF Waiting
<1>2. (c + s) - s = c /\ y # c /\ y <= c
  BY <1>1
<1>3. ASSUME Long(P, r, s)
      PROVE  c < First(P, r, y \div P + 1) /\ y + s >= Last(P, r, y \div P)
  <2>1. c - s < First(P, r, y \div P + 1)
    BY <1>3 DEF Waiting
  <2>2. /\ c < First(P, r, y \div P + 1)
        /\ c = y + s => c >= Last(P, r, y \div P)
    BY <1>1, <1>3, <2>1, StillPause
  <2>3. CASE y = c - s
    <3>1. c = y + s
      BY <1>1, <2>3
    <3> QED
      BY <2>2, <3>1
  <2>4. CASE y # c - s
    BY <1>3, <2>2, <2>4 DEF Waiting
  <2> QED
    BY <2>3, <2>4
<1> QED
  BY <1>1, <1>2, <1>3 DEF Waiting

LEMMA WaitingEnds ==
  ASSUME NEW P \in Nat, P > 0, P % 2 = 0, NEW r \in [0 .. LastBlock -> 0 .. FINE],
         NEW s \in Nat, s > 0, NEW y, NEW c \in Nat, Waiting(P, r, s, y, c),
         c \div P < LastBlock, Loading(P, r, c), y # c - s
  PROVE  Fits(P, r, s, c - y)
<1>1. /\ y \in Nat /\ y \div P < LastBlock /\ Loading(P, r, y) /\ y <= c - s
      /\ ~Loading(P, r, c - s)
  BY DEF Waiting
<1>2. c - s \in Nat /\ y < c - s /\ c - s < c
  BY <1>1
<1>3. c - y >= P \div 2
  BY <1>1, <1>2, Pause
<1>4. ASSUME Long(P, r, s) PROVE c - y <= P \div 2 + 2 * s
  <2>1. c - s < First(P, r, y \div P + 1) /\ y + s >= Last(P, r, y \div P)
    BY <1>4 DEF Waiting
  <2>2. y \div P \in 0 .. LastBlock - 1
    <3>1. y \div P \in Nat
      BY <1>1, InBlock
    <3> QED
      BY <1>1, <3>1, CurveAssumption
  <2> QED
    BY <1>1, <2>1, <2>2, PauseEnds
<1> QED
  BY <1>3, <1>4 DEF Fits

LEMMA EvenRemainder ==
  ASSUME NEW x \in Nat, NEW m \in Nat, m > 0, x % 2 = 0, m % 2 = 0
  PROVE  x % m \in Nat /\ (x % m) % 2 = 0
<1> DEFINE q == x \div m
           a == x \div 2
           b == m \div 2
<1>1. q \in Nat /\ x = m * q + (x % m) /\ x % m \in Nat
  OBVIOUS
<1>2. x = 2 * a /\ m = 2 * b /\ a \in Nat /\ b \in Nat
  OBVIOUS
<1> HIDE DEF q, a, b
<1>3. m * q = 2 * (b * q) /\ b * q \in Nat
  BY <1>1, <1>2, ProductNat
<1>4. x % m = 2 * (a - b * q)
  BY <1>1, <1>2, <1>3
<1> QED
  BY <1>1, <1>2, <1>3, <1>4

LEMMA PeriodType ==
  ASSUME CurveTypes, IsTonnes
  PROVE  /\ period_10m \in Nat /\ period_10m % 2 = 0
         /\ rand \in [0 .. LastBlock -> 0 .. FINE]
<1>0. /\ Belts \subseteq Nat /\ TEN_MINUTES \in Nat /\ TEN_MINUTES % 2 = 0
      /\ WORD32 \in Nat \ {0} /\ WORD32 % 2 = 0
      /\ Noise \subseteq [0 .. LastBlock -> 0 .. FINE]
      /\ width \in Belts /\ rand \in Noise
  BY CurveAssumption DEF CurveTypes
<1>1. /\ width \in Nat /\ TEN_MINUTES \in Nat /\ TEN_MINUTES % 2 = 0
      /\ WORD32 \in Nat /\ WORD32 > 0 /\ WORD32 % 2 = 0
      /\ rand \in [0 .. LastBlock -> 0 .. FINE]
  BY <1>0
<1>2. width * TEN_MINUTES \in Nat /\ (width * TEN_MINUTES) % 2 = 0
  <2> DEFINE t == TEN_MINUTES \div 2
  <2>1. t \in Nat /\ TEN_MINUTES = 2 * t
    BY <1>1
  <2> HIDE DEF t
  <2>2. width * TEN_MINUTES = 2 * (width * t) /\ width * t \in Nat
    BY <1>1, <2>1, ProductNat
  <2> QED
    BY <2>2
<1> QED
  BY <1>1, <1>2, EvenRemainder DEF period_10m, Period

LEMMA CurveIsLoading ==
  ASSUME NEW x
  PROVE  /\ Curve(x) = "load" => Loading(period_10m, rand, x)
         /\ Curve(x) # "load" => ~Loading(period_10m, rand, x)
  BY DEF Curve, Loading, First, Last, p1, p2, Block

\* One value of a belt: the load goes on, the pause goes on, or it ends.
LEMMA TonnesKeeps ==
  ASSUME IInv, CurveTypes, LoadInv, PauseInv, EmitTonnes
  PROVE  LoadInv' /\ PauseInv'
<1>1. /\ IsTonnes /\ period_10m # 0 /\ Emit /\ width' = width /\ rand' = rand
      /\ Curve(current) = "load" =>
           /\ loaded' = current
           /\ pause' = IF loaded = None THEN None
                       ELSE IF loaded = current - step THEN pause ELSE current - loaded
      /\ Curve(current) # "load" => loaded' = loaded /\ pause' = pause
  BY DEF EmitTonnes
<1>2. /\ pc = "emit" /\ pc' = "emit" /\ UNCHANGED request
      /\ current \in Nat /\ current < stop /\ step \in Nat /\ step > 0
      /\ current' = current + step
  BY <1>1, EmitStep DEF IInv
<1>3. period_10m' = period_10m /\ IsTonnes' /\ step' = step
  BY <1>1, <1>2 DEF period_10m, IsTonnes, request
<1> DEFINE P == period_10m
<1>4. P \in Nat /\ P > 0 /\ P % 2 = 0 /\ rand \in [0 .. LastBlock -> 0 .. FINE]
  BY <1>1, PeriodType
<1>5. current \div P < LastBlock
  <2>1. stop \in Times /\ stop \in Nat /\ width \in Belts
    BY <1>1, RequestType DEF IInv, TypeOK, CurveTypes
  <2>2. stop \div P < LastBlock
    BY <1>4, <2>1, BlockAssumption DEF period_10m
  <2>3. current \div P <= stop \div P
    BY <1>2, <1>4, <2>1, BlockOrder
  <2>4. current \div P \in Nat /\ stop \div P \in Nat
    BY <1>2, <1>4, <2>1, InBlock
  <2> QED
    BY <2>2, <2>3, <2>4, CurveAssumption
<1>6. loaded # None => Waiting(P, rand, step, loaded, current)
  BY <1>2 DEF LoadInv
<1> HIDE DEF P
<1>7. CASE Curve(current) = "load"
  <2>1. Loading(P, rand, current)
    BY <1>7, CurveIsLoading DEF P
  <2>2. Waiting(P, rand, step, current, current + step)
    BY <1>2, <1>4, <1>5, <2>1, WaitingLoad
  <2>3. LoadInv'
    BY <1>1, <1>2, <1>3, <1>4, <1>7, <2>2 DEF LoadInv, P
  <2>4. pause' # None => pause' = pause \/ Fits(P, rand, step, pause')
    <3>1. CASE loaded = None \/ loaded = current - step
      BY <1>1, <1>7, <3>1
    <3>2. CASE loaded # None /\ loaded # current - step
      <4>1. Fits(P, rand, step, current - loaded)
        BY <1>2, <1>4, <1>5, <1>6, <2>1, <3>2, WaitingEnds
      <4> QED
        BY <1>1, <1>7, <3>2, <4>1
    <3> QED
      BY <3>1, <3>2
  <2> QED
    BY <1>1, <1>3, <2>3, <2>4 DEF PauseInv, P
<1>8. CASE Curve(current) # "load"
  <2>1. ~Loading(P, rand, current)
    BY <1>8, CurveIsLoading DEF P
  <2>2. loaded # None => Waiting(P, rand, step, loaded, current + step)
    BY <1>2, <1>4, <1>5, <1>6, <2>1, WaitingOn
  <2>3. LoadInv'
    BY <1>1, <1>2, <1>3, <1>4, <1>8, <2>2 DEF LoadInv, P
  <2> QED
    BY <1>1, <1>3, <1>8, <2>3 DEF PauseInv
<1> QED
  BY <1>7, <1>8

LEMMA CurveNextPauseInv ==
  IInv /\ CurveTypes /\ LoadInv /\ PauseInv /\ [CurveNext]_seriesVars
    => CurveTypes' /\ LoadInv' /\ PauseInv'
<1> SUFFICES ASSUME IInv, CurveTypes, LoadInv, PauseInv, [CurveNext]_seriesVars
             PROVE  CurveTypes' /\ LoadInv' /\ PauseInv'
  OBVIOUS
<1>1. UNCHANGED request /\ width' = width /\ rand' = rand
  BY DEF CurveNext, Trap, CountValues, UnknownMetric, MissingParameter, Parameters, AllocFails,
         Alloc, Close, EmitOther, EmitTonnes, Emit, PeriodTrap, request, curveVars, seriesVars, vars
<1>2. period_10m' = period_10m /\ step' = step /\ (IsTonnes' <=> IsTonnes)
  BY <1>1 DEF period_10m, IsTonnes, request
<1>3. CASE EmitTonnes
  <2>1. IsTonnes
    BY <1>3 DEF EmitTonnes
  <2>2. CurveTypes'
    BY <1>1, <1>2, <2>1 DEF CurveTypes
  <2> QED
    BY <1>3, <2>2, TonnesKeeps
<1>4. CASE loaded' = loaded /\ pause' = pause
  <2>1. CurveTypes' /\ PauseInv'
    BY <1>1, <1>2, <1>4 DEF CurveTypes, PauseInv
  <2>2. CASE pc' = pc /\ current' = current
    BY <1>1, <1>2, <1>4, <2>1, <2>2 DEF LoadInv
  <2>3. CASE pc' \notin {"count", "metric", "alloc", "emit"}
    BY <2>1, <2>3 DEF LoadInv
  <2>4. CASE pc \in {"count", "metric", "alloc"}
    BY <1>4, <2>1, <2>4 DEF LoadInv
  <2>5. CASE EmitOther
    <3>1. loaded' = None /\ pc' = "emit"
      BY <1>4, <2>5 DEF EmitOther, Emit, CurveTypes
    <3> QED
      BY <2>1, <3>1 DEF LoadInv
  <2>6. \/ pc' = pc /\ current' = current
        \/ pc' \notin {"count", "metric", "alloc", "emit"}
        \/ pc \in {"count", "metric", "alloc"}
        \/ EmitOther \/ EmitTonnes
    BY DEF CurveNext, Trap, CountValues, UnknownMetric, MissingParameter, Parameters, AllocFails,
           Alloc, Close, PeriodTrap, seriesVars, vars
  <2> QED
    BY <1>3, <2>2, <2>3, <2>4, <2>5, <2>6
<1>5. EmitTonnes \/ (loaded' = loaded /\ pause' = pause)
  BY DEF CurveNext, EmitOther, PeriodTrap, curveVars, seriesVars
<1> QED
  BY <1>3, <1>4, <1>5

\* Two loads a client sees lie half a period apart, whatever the random
\* numbers: never closer, and further by two steps at most if no load is
\* shorter than the step.
THEOREM PauseIsHalfHolds == CurveSpec => []PauseIsHalf
<1>1. CurveInit => CurveTypes /\ LoadInv /\ PauseInv
  BY DEF CurveInit, CurveTypes, LoadInv, PauseInv
<1>2. PauseInv => PauseIsHalf
  <2> SUFFICES ASSUME PauseInv, pause # None
               PROVE  /\ pause >= period_10m \div 2
                      /\ (\A k \in 0 .. LastBlock - 1 : p2(k) - p1(k) >= step) =>
                           pause <= period_10m \div 2 + 2 * step
    BY DEF PauseIsHalf
  <2>1. Fits(period_10m, rand, step, pause)
    BY DEF PauseInv
  <2>2. (\A k \in 0 .. LastBlock - 1 : p2(k) - p1(k) >= step) => Long(period_10m, rand, step)
    BY DEF Long, First, Last, p1, p2
  <2> QED
    BY <2>1, <2>2 DEF Fits
<1> QED
  BY <1>1, <1>2, CurveNextPauseInv, Invariance, PTL DEF CurveSpec

=============================================================================
