-------------------------- MODULE SeriesSet_proofs --------------------------
(***************************************************************************)
(* For every catalogue and every set of queries: the merge of              *)
(* dvt_series_in_set decides InSet, so the loops implement SeriesScan, no  *)
(* matching series is lost, and the answer is exact on the series that     *)
(* carry every label of the query.                                         *)
(***************************************************************************)
EXTENDS SeriesSet, TLAPS

\* What holds inside the merge: the pairs of the set before i have agreed,
\* and every pair of the series before j has a label smaller than that of i.
WalkInv ==
  pc = "walk" =>
    /\ s <= Len(AllSeries)
    /\ MetricAccepts(set, Cur)
    /\ i <= Len(set.kvs) + 1
    /\ j <= Len(Cur.kvs) + 1
    /\ \A m \in 1 .. i - 1 : LowerBoundAgrees(Cur.kvs, set.kvs[m])
    /\ i <= Len(set.kvs) =>
         \A l \in 1 .. j - 1 : Cur.kvs[l].label < set.kvs[i].label

\* What the series before s have contributed to the answer.
AnswerInv ==
  /\ \A m \in 1 .. Len(r) : r[m] < s
  /\ \A n \in 1 .. s - 1 : Answered(n) <=> InSet(set, AllSeries[n])
  /\ AnswerInOrder

IInv == TypeOK /\ WalkInv /\ AnswerInv

-----------------------------------------------------------------------------
(* Facts about the operators of SeriesSpec.                                *)

\* Both kinds of specs have words as ids, natural numbers.
LEMMA SpecType ==
  ASSUME NEW c \in Specs
  PROVE  /\ c.metric \in Nat
         /\ c.kvs \in Seq(Pairs)
         /\ Len(c.kvs) \in Nat
         /\ \A m \in 1 .. Len(c.kvs) :
              /\ c.kvs[m] \in Pairs
              /\ c.kvs[m].label \in Nat
              /\ c.kvs[m].value \in Nat
<1>1. c.metric \in Ids /\ c.kvs \in Seq(Pairs)
  BY DEF Specs
<1>2. Ids \subseteq Nat
  BY WordAssumption DEF Ids
<1>3. \A m \in 1 .. Len(c.kvs) : c.kvs[m] \in Pairs
  BY <1>1
<1>4. \A p \in Pairs : p.label \in Ids /\ p.value \in Ids
  BY DEF Pairs
<1>5. Len(c.kvs) \in Nat
  BY <1>1
<1>6. \A m \in 1 .. Len(c.kvs) : c.kvs[m].label \in Nat /\ c.kvs[m].value \in Nat
  BY <1>2, <1>3, <1>4
<1>7. c.metric \in Nat
  BY <1>1, <1>2
<1> QED
  BY <1>1, <1>3, <1>5, <1>6, <1>7

\* If the merge stopped at j and the value there agrees, the pair is found.
LEMMA StopAgrees ==
  ASSUME NEW c \in Specs, NEW pair \in Pairs, NEW q \in 1 .. Len(c.kvs),
         \A l \in 1 .. q - 1 : c.kvs[l].label < pair.label,
         ~(c.kvs[q].label < pair.label),
         c.kvs[q].value = pair.value
  PROVE  LowerBoundAgrees(c.kvs, pair)
<1>1. c.kvs[q].label \in Nat /\ pair.label \in Nat
  BY SpecType, WordAssumption DEF Pairs, Ids
<1>2. c.kvs[q].label >= pair.label
  BY <1>1
<1> QED
  BY <1>2 DEF LowerBoundAgrees

\* If the merge stopped at j and there is no agreement there, there is none.
LEMMA StopDisagrees ==
  ASSUME NEW c \in Specs, NEW pair \in Pairs, NEW q \in Nat \ {0},
         \A l \in 1 .. q - 1 : l <= Len(c.kvs) => c.kvs[l].label < pair.label,
         q <= Len(c.kvs) => ~(c.kvs[q].label < pair.label),
         q <= Len(c.kvs) => c.kvs[q].value # pair.value
  PROVE  ~LowerBoundAgrees(c.kvs, pair)
<1> SUFFICES ASSUME NEW m \in 1 .. Len(c.kvs),
                    c.kvs[m].label >= pair.label,
                    c.kvs[m].value = pair.value,
                    \A l \in 1 .. (m - 1) : c.kvs[l].label < pair.label
             PROVE  FALSE
  BY DEF LowerBoundAgrees
<1>1. c.kvs[m].label \in Nat /\ pair.label \in Nat /\ Len(c.kvs) \in Nat
  BY SpecType, WordAssumption DEF Pairs, Ids
<1>2. ~(m < q)
  BY <1>1
<1>3. CASE m = q
  BY <1>1, <1>3
<1>4. CASE m > q
  BY <1>1, <1>4
<1> QED
  BY <1>2, <1>3, <1>4, <1>1

\* On a series without repeated labels a pair it has is found.
LEMMA MatchesImpliesInSet ==
  ASSUME NEW q \in Specs, NEW c \in Specs,
         SortedByLabel(c.kvs), DistinctLabels(c.kvs), Matches(q, c)
  PROVE  InSet(q, c)
<1> SUFFICES ASSUME NEW p \in 1 .. Len(q.kvs)
             PROVE  LowerBoundAgrees(c.kvs, q.kvs[p])
  BY DEF Matches, InSet
<1>1. PICK m \in 1 .. Len(c.kvs) : c.kvs[m] = q.kvs[p]
  BY DEF Matches, HasPair
<1>2. \A l \in 1 .. (m - 1) : c.kvs[l].label < c.kvs[m].label
  <2> TAKE l \in 1 .. (m - 1)
  <2>1. l \in 1 .. Len(c.kvs) /\ l < m
    BY SpecType
  <2>2. c.kvs[l].label <= c.kvs[m].label /\ c.kvs[l].label # c.kvs[m].label
    BY <2>1 DEF SortedByLabel, DistinctLabels
  <2> QED
    BY <2>1, <2>2, SpecType
<1>3. /\ c.kvs[m].label >= q.kvs[p].label
      /\ c.kvs[m].value = q.kvs[p].value
  BY <1>1, SpecType
<1> QED
  BY <1>1, <1>2, <1>3 DEF LowerBoundAgrees

\* On a series that has every label of the set, the first label that is not
\* smaller is the label itself.
LEMMA InSetImpliesMatches ==
  ASSUME NEW q \in Specs, NEW c \in Specs,
         SortedByLabel(c.kvs), InSet(q, c),
         \A p \in 1 .. Len(q.kvs) : HasLabel(c.kvs, q.kvs[p].label)
  PROVE  Matches(q, c)
<1> SUFFICES ASSUME NEW p \in 1 .. Len(q.kvs)
             PROVE  HasPair(c.kvs, q.kvs[p])
  BY DEF Matches, InSet
<1>1. PICK h \in 1 .. Len(c.kvs) : c.kvs[h].label = q.kvs[p].label
  BY DEF HasLabel
<1>2. PICK m \in 1 .. Len(c.kvs) :
        /\ c.kvs[m].label >= q.kvs[p].label
        /\ c.kvs[m].value = q.kvs[p].value
        /\ \A l \in 1 .. (m - 1) : c.kvs[l].label < q.kvs[p].label
  BY DEF InSet, LowerBoundAgrees
<1>3. /\ c.kvs[m] \in Pairs /\ q.kvs[p] \in Pairs
      /\ c.kvs[m].label \in Nat /\ c.kvs[h].label \in Nat
  BY SpecType
<1>4. ~(h < m)
  BY <1>1, <1>2, <1>3
<1>5. c.kvs[m].label <= c.kvs[h].label
  BY <1>3, <1>4 DEF SortedByLabel
<1>6. c.kvs[m].label = q.kvs[p].label
  BY <1>1, <1>2, <1>3, <1>5
<1>7. c.kvs[m] = q.kvs[p]
  BY <1>2, <1>3, <1>6 DEF Pairs
<1> QED
  BY <1>7 DEF HasPair

-----------------------------------------------------------------------------
(* The invariant.                                                          *)

LEMMA SetAndSeriesType ==
  ASSUME TypeOK
  PROVE  /\ set \in Specs /\ SortedByLabel(set.kvs)
         /\ Len(AllSeries) \in Nat
         /\ \A n \in 1 .. Len(AllSeries) :
              AllSeries[n] \in Specs /\ SortedByLabel(AllSeries[n].kvs)
BY SeriesAssumption, SetAssumption DEF TypeOK

LEMMA InitIInv == Init => IInv
<1> SUFFICES ASSUME Init PROVE IInv
  OBVIOUS
<1>1. TypeOK
  BY SeriesAssumption DEF Init, TypeOK
<1>2. WalkInv
  BY DEF Init, WalkInv
<1>3. AnswerInv
  BY DEF Init, AnswerInv, AnswerInOrder
<1> QED
  BY <1>1, <1>2, <1>3 DEF IInv

\* Leaving a series behind with a decision that is the right one.
LEMMA DropKeepsAnswer ==
  ASSUME IInv, s <= Len(AllSeries), ~InSet(set, Cur),
         s' = s + 1, UNCHANGED <<set, r>>
  PROVE  AnswerInv'
<1>1. s \in Nat /\ s >= 1 /\ Len(r) \in Nat /\ \A m \in 1 .. Len(r) : r[m] \in Nat
  BY SetAndSeriesType DEF IInv, TypeOK
<1>2. \A m \in 1 .. Len(r) : r[m] < s + 1
  BY <1>1 DEF IInv, AnswerInv
<1>3. ~Answered(s)
  BY <1>1 DEF IInv, AnswerInv, Answered
<1>4. \A n \in 1 .. s : Answered(n) <=> InSet(set, AllSeries[n])
  <2> TAKE n \in 1 .. s
  <2>1. n \in 1 .. s - 1 \/ n = s
    BY <1>1
  <2> QED
    BY <2>1, <1>3 DEF IInv, AnswerInv, Cur
<1>5. 1 .. s' - 1 = 1 .. s
  BY <1>1
<1>6. \A n : Answered(n)' <=> Answered(n)
  BY DEF Answered
<1>7. \A n \in 1 .. s' - 1 : Answered(n)' <=> InSet(set', AllSeries[n])
  BY <1>4, <1>5, <1>6
<1> QED
  BY <1>2, <1>7 DEF IInv, AnswerInv, AnswerInOrder, Answered

LEMMA KeepKeepsAnswer ==
  ASSUME IInv, s <= Len(AllSeries), InSet(set, Cur),
         s' = s + 1, r' = Append(r, s), UNCHANGED set
  PROVE  AnswerInv'
<1>1. /\ s \in Nat /\ s >= 1 /\ r \in Seq(Nat)
      /\ Len(r) \in Nat /\ \A m \in 1 .. Len(r) : r[m] \in Nat
  BY SetAndSeriesType DEF IInv, TypeOK
<1>2. /\ Len(r') = Len(r) + 1 /\ r'[Len(r) + 1] = s
      /\ \A m \in 1 .. Len(r) : r'[m] = r[m]
  BY <1>1
<1>3. \A m \in 1 .. Len(r') : r'[m] < s + 1
  <2> TAKE m \in 1 .. Len(r')
  <2>1. m \in 1 .. Len(r) \/ m = Len(r) + 1
    BY <1>1, <1>2
  <2> QED
    BY <2>1, <1>1, <1>2 DEF IInv, AnswerInv
<1>4. \A n : Answered(n)' <=> (Answered(n) \/ n = s)
  <2> TAKE n
  <2>1. ASSUME Answered(n)' PROVE Answered(n) \/ n = s
    <3>1. PICK m \in 1 .. Len(r') : r'[m] = n
      BY <2>1 DEF Answered
    <3>2. m \in 1 .. Len(r) \/ m = Len(r) + 1
      BY <1>1, <1>2
    <3> QED
      BY <3>1, <3>2, <1>2 DEF Answered
  <2>2. ASSUME Answered(n) \/ n = s PROVE Answered(n)'
    <3>1. CASE n = s
      <4>1. Len(r) + 1 \in 1 .. Len(r') /\ r'[Len(r) + 1] = n
        BY <1>1, <1>2, <3>1
      <4> QED
        BY <4>1 DEF Answered
    <3>2. CASE Answered(n)
      <4>1. PICK m \in 1 .. Len(r) : r[m] = n
        BY <3>2 DEF Answered
      <4>2. m \in 1 .. Len(r') /\ r'[m] = n
        BY <1>1, <1>2, <4>1
      <4> QED
        BY <4>2 DEF Answered
    <3> QED
      BY <2>2, <3>1, <3>2
  <2> QED
    BY <2>1, <2>2
<1>5. \A n \in 1 .. s' - 1 : Answered(n)' <=> InSet(set', AllSeries[n])
  <2> TAKE n \in 1 .. s' - 1
  <2>1. n \in 1 .. s - 1 \/ n = s
    BY <1>1
  <2>2. CASE n = s
    BY <2>2, <1>4 DEF Cur
  <2>3. CASE n \in 1 .. s - 1
    <3>1. n # s
      BY <1>1, <2>3
    <3> QED
      BY <2>3, <3>1, <1>4 DEF IInv, AnswerInv
  <2> QED
    BY <2>1, <2>2, <2>3
<1>6. AnswerInOrder'
  <2> SUFFICES ASSUME NEW a \in 1 .. Len(r'), NEW b \in 1 .. Len(r'), a < b
               PROVE  r'[a] < r'[b]
    BY DEF AnswerInOrder
  <2>1. a \in 1 .. Len(r) /\ (b \in 1 .. Len(r) \/ b = Len(r) + 1)
    BY <1>1, <1>2
  <2>2. CASE b \in 1 .. Len(r)
    BY <2>1, <2>2, <1>2 DEF IInv, AnswerInv, AnswerInOrder
  <2>3. CASE b = Len(r) + 1
    BY <2>1, <2>3, <1>2 DEF IInv, AnswerInv
  <2> QED
    BY <2>1, <2>2, <2>3
<1> QED
  BY <1>3, <1>5, <1>6 DEF AnswerInv

LEMMA NextIInv == IInv /\ [Next]_vars => IInv'
<1> SUFFICES ASSUME IInv, [Next]_vars PROVE IInv'
  OBVIOUS
<1> USE DEF IInv
<1>0. /\ set \in Specs /\ SortedByLabel(set.kvs) /\ set \in SetSpecs
      /\ Len(AllSeries) \in Nat
      /\ \A n \in 1 .. Len(AllSeries) :
           AllSeries[n] \in Specs /\ SortedByLabel(AllSeries[n].kvs)
      /\ s \in Nat /\ s >= 1 /\ s <= Len(AllSeries) + 1
      /\ i \in Nat \ {0} /\ j \in Nat \ {0}
      /\ r \in Seq(1 .. Len(AllSeries))
  BY SetAndSeriesType DEF TypeOK
<1>1. CASE RejectMetric
  <2>1. ~InSet(set, Cur)
    BY <1>1 DEF RejectMetric, InSet
  <2>2. AnswerInv'
    BY <1>1, <2>1, DropKeepsAnswer DEF RejectMetric
  <2>3. TypeOK' /\ WalkInv'
    BY <1>0, <1>1 DEF RejectMetric, TypeOK, WalkInv
  <2> QED
    BY <2>2, <2>3
<1>2. CASE BeginWalk
  <2>1. TypeOK'
    BY <1>0, <1>2 DEF BeginWalk, TypeOK
  <2>2. Cur \in Specs /\ Len(Cur.kvs) \in Nat /\ Len(set.kvs) \in Nat
    BY <1>0, <1>2, SpecType DEF BeginWalk, Cur
  <2>3. WalkInv'
    BY <1>0, <1>2, <2>2 DEF BeginWalk, WalkInv, Cur
  <2>4. AnswerInv'
    BY <1>2 DEF BeginWalk, AnswerInv, AnswerInOrder, Answered
  <2> QED
    BY <2>1, <2>3, <2>4
<1>3. CASE Return
  <2>1. TypeOK' /\ WalkInv'
    BY <1>0, <1>3 DEF Return, TypeOK, WalkInv
  <2>2. AnswerInv'
    BY <1>3 DEF Return, AnswerInv, AnswerInOrder, Answered
  <2> QED
    BY <2>1, <2>2
<1>4. CASE Walk
  <2>1. TypeOK'
    BY <1>0, <1>4 DEF Walk, TypeOK
  <2>2. Cur \in Specs /\ Len(Cur.kvs) \in Nat
    BY <1>0, <1>4, SpecType DEF Walk, WalkInv, Cur
  <2>3. \A l \in 1 .. j' - 1 : Cur.kvs[l].label < set.kvs[i].label
    <3> TAKE l \in 1 .. j' - 1
    <3>1. l \in 1 .. j - 1 \/ l = j
      BY <1>0, <1>4 DEF Walk
    <3> QED
      BY <3>1, <1>4 DEF Walk, WalkInv, Behind
  <2>4. j' <= Len(Cur.kvs) + 1
    BY <1>0, <1>4, <2>2 DEF Walk, Behind
  <2>5. WalkInv'
    BY <1>4, <2>3, <2>4 DEF Walk, WalkInv, Cur
  <2>6. AnswerInv'
    BY <1>4 DEF Walk, AnswerInv, AnswerInOrder, Answered
  <2> QED
    BY <2>1, <2>5, <2>6
<1>5. CASE RejectPair
  <2>1. /\ Cur \in Specs /\ Len(Cur.kvs) \in Nat /\ s <= Len(AllSeries)
        /\ i \in 1 .. Len(set.kvs) /\ set.kvs[i] \in Pairs
    BY <1>0, <1>5, SpecType DEF RejectPair, WalkInv, Cur
  <2>2. ~LowerBoundAgrees(Cur.kvs, set.kvs[i])
    <3>1. \A l \in 1 .. j - 1 : Cur.kvs[l].label < set.kvs[i].label
      BY <1>5 DEF RejectPair, WalkInv
    <3>2. j <= Len(Cur.kvs) => ~(Cur.kvs[j].label < set.kvs[i].label)
      BY <1>5 DEF RejectPair, Behind
    <3>3. j <= Len(Cur.kvs) => Cur.kvs[j].value # set.kvs[i].value
      BY <1>5 DEF RejectPair
    <3> QED
      BY <1>0, <2>1, <3>1, <3>2, <3>3, StopDisagrees
  <2>3. ~InSet(set, Cur)
    BY <2>1, <2>2 DEF InSet
  <2>4. AnswerInv'
    BY <1>5, <2>1, <2>3, DropKeepsAnswer DEF RejectPair
  <2>5. TypeOK' /\ WalkInv'
    BY <1>0, <1>5, <2>1 DEF RejectPair, TypeOK, WalkInv
  <2> QED
    BY <2>4, <2>5
<1>6. CASE AgreePair
  <2>1. TypeOK'
    BY <1>0, <1>6 DEF AgreePair, TypeOK
  <2>2. /\ Cur \in Specs /\ Len(Cur.kvs) \in Nat /\ Len(set.kvs) \in Nat
        /\ i \in 1 .. Len(set.kvs) /\ set.kvs[i] \in Pairs
        /\ j \in 1 .. Len(Cur.kvs)
    BY <1>0, <1>6, SpecType DEF AgreePair, WalkInv, Cur
  <2>3. \A l \in 1 .. j - 1 : Cur.kvs[l].label < set.kvs[i].label
    BY <1>6 DEF AgreePair, WalkInv
  <2>4. LowerBoundAgrees(Cur.kvs, set.kvs[i])
    BY <1>6, <2>2, <2>3, StopAgrees DEF AgreePair, Behind
  <2>5. \A m \in 1 .. i' - 1 : LowerBoundAgrees(Cur.kvs, set.kvs[m])
    <3> TAKE m \in 1 .. i' - 1
    <3>1. m \in 1 .. i - 1 \/ m = i
      BY <1>0, <1>6 DEF AgreePair
    <3> QED
      BY <3>1, <2>4, <1>6 DEF AgreePair, WalkInv
  <2>6. ASSUME i' <= Len(set.kvs), NEW l \in 1 .. j - 1
        PROVE  Cur.kvs[l].label < set.kvs[i'].label
    <3>1. i' = i + 1 /\ i' \in 1 .. Len(set.kvs) /\ i < i'
      BY <2>6, <1>0, <1>6 DEF AgreePair
    <3>2. set.kvs[i].label <= set.kvs[i'].label
      BY <1>0, <2>2, <3>1 DEF SortedByLabel
    <3>3. /\ l \in 1 .. Len(Cur.kvs) /\ Cur.kvs[l].label \in Nat
          /\ set.kvs[i].label \in Nat /\ set.kvs[i'].label \in Nat
      BY <1>0, <2>2, <3>1, SpecType
    <3> QED
      BY <2>3, <3>2, <3>3
  <2>7. WalkInv'
    <3>1. i' <= Len(set.kvs) + 1
      BY <1>0, <1>6, <2>2 DEF AgreePair
    <3> QED
      BY <1>6, <2>5, <2>6, <3>1 DEF AgreePair, WalkInv, Cur
  <2>8. AnswerInv'
    BY <1>6 DEF AgreePair, AnswerInv, AnswerInOrder, Answered
  <2> QED
    BY <2>1, <2>7, <2>8
<1>7. CASE Accept
  <2>1. s <= Len(AllSeries) /\ s \in 1 .. Len(AllSeries) /\ Len(set.kvs) \in Nat
    BY <1>0, <1>7, SpecType DEF Accept, WalkInv
  <2>2. InSet(set, Cur)
    <3>1. \A m \in 1 .. Len(set.kvs) : m \in 1 .. i - 1
      BY <1>0, <1>7, <2>1 DEF Accept
    <3> QED
      BY <1>7, <3>1 DEF Accept, WalkInv, InSet
  <2>3. AnswerInv'
    BY <1>7, <2>1, <2>2, KeepKeepsAnswer DEF Accept
  <2>4. TypeOK' /\ WalkInv'
    BY <1>0, <1>7, <2>1 DEF Accept, TypeOK, WalkInv
  <2> QED
    BY <2>3, <2>4
<1>8. CASE UNCHANGED vars
  BY <1>8 DEF vars, TypeOK, WalkInv, AnswerInv, AnswerInOrder, Answered, Cur
<1> QED
  BY <1>1, <1>2, <1>3, <1>4, <1>5, <1>6, <1>7, <1>8 DEF Next

\* The strengthened invariant holds in every reachable state.
THEOREM Invariance == Spec => []IInv
BY InitIInv, NextIInv, PTL DEF Spec

-----------------------------------------------------------------------------
(* The results.                                                            *)

\* Every position stays inside the catalogue, the answer holds positions of
\* the catalogue only.
THEOREM TypeCorrect == Spec => []TypeOK
<1>1. IInv => TypeOK
  BY DEF IInv
<1> QED
  BY <1>1, Invariance, PTL

\* A series with everything the query names is never skipped.
THEOREM NoSeriesLostHolds == Spec => []NoSeriesLost
<1>1. IInv => NoSeriesLost
  <2> SUFFICES ASSUME IInv, NEW n \in 1 .. s - 1,
                      DistinctLabels(AllSeries[n].kvs), Matches(set, AllSeries[n])
               PROVE  Answered(n)
    BY DEF NoSeriesLost
  <2>1. n \in 1 .. Len(AllSeries)
    BY SetAndSeriesType DEF IInv, TypeOK
  <2>2. /\ set \in Specs /\ AllSeries[n] \in Specs
        /\ SortedByLabel(AllSeries[n].kvs)
    BY <2>1, SetAndSeriesType DEF IInv
  <2>3. InSet(set, AllSeries[n])
    BY <2>2, MatchesImpliesInSet
  <2> QED
    BY <2>3 DEF IInv, AnswerInv
<1> QED
  BY <1>1, Invariance, PTL

\* An answered series that has every label of the query has all its pairs.
THEOREM SoundWhenLabelledHolds == Spec => []SoundWhenLabelled
<1>1. IInv => SoundWhenLabelled
  <2> SUFFICES ASSUME IInv, NEW n \in 1 .. Len(AllSeries), Answered(n),
                      \A p \in 1 .. Len(set.kvs) :
                        HasLabel(AllSeries[n].kvs, set.kvs[p].label)
               PROVE  Matches(set, AllSeries[n])
    BY DEF SoundWhenLabelled
  <2>1. n \in 1 .. s - 1
    BY SetAndSeriesType DEF IInv, TypeOK, AnswerInv, Answered
  <2>2. InSet(set, AllSeries[n])
    BY <2>1 DEF IInv, AnswerInv
  <2>3. /\ set \in Specs /\ AllSeries[n] \in Specs
        /\ SortedByLabel(AllSeries[n].kvs)
    BY SetAndSeriesType DEF IInv
  <2> QED
    BY <2>2, <2>3, InSetImpliesMatches
<1> QED
  BY <1>1, Invariance, PTL

\* Each series is answered at most once, in the order of the cache.
THEOREM AnswerInOrderHolds == Spec => []AnswerInOrder
<1>1. IInv => AnswerInOrder
  BY DEF IInv, AnswerInv
<1> QED
  BY <1>1, Invariance, PTL

\* The loops implement the declarative scan.
THEOREM Refinement == Spec => ImplementsScan
<1>0. \A q, c : Scan!InSet(q, c) <=> InSet(q, c)
  BY DEF InSet, MetricAccepts, LowerBoundAgrees,
         Scan!InSet, Scan!MetricAccepts, Scan!LowerBoundAgrees
<1>1. Init => Scan!Init
  BY DEF Init, Scan!Init
<1>2. IInv /\ IInv' /\ [Next]_vars => [Scan!Next]_Scan!vars
  <2> SUFFICES ASSUME IInv, IInv', [Next]_vars
               PROVE  [Scan!Next]_Scan!vars
    OBVIOUS
  <2>0. s \in Nat /\ s' \in Nat /\ Len(AllSeries) \in Nat
    BY SetAndSeriesType DEF IInv, TypeOK
  <2>00. \A n \in 1 .. s' - 1 :
           (\E m \in 1 .. Len(r') : r'[m] = n) <=> InSet(set', AllSeries[n])
    BY DEF IInv, AnswerInv, Answered
  <2>1. CASE RejectMetric
    <3>1. ~InSet(set, AllSeries[s])
      BY <2>1 DEF RejectMetric, InSet, Cur
    <3> QED
      BY <2>1, <3>1, <1>0 DEF RejectMetric, Scan!Next, Scan!Drop
  <2>2. CASE RejectPair
    <3>1. s <= Len(AllSeries) /\ s \in 1 .. s' - 1 /\ s' = s + 1
      BY <2>0, <2>2 DEF RejectPair, IInv, TypeOK, WalkInv
    <3>2. ~ \E m \in 1 .. Len(r') : r'[m] = s
      BY <2>0, <2>2 DEF RejectPair, IInv, TypeOK, AnswerInv
    <3>3. ~InSet(set, AllSeries[s])
      BY <2>00, <2>2, <3>1, <3>2 DEF RejectPair
    <3> QED
      BY <2>2, <3>1, <3>3, <1>0 DEF RejectPair, Scan!Next, Scan!Drop
  <2>3. CASE Accept
    <3>1. s <= Len(AllSeries) /\ s \in 1 .. s' - 1 /\ s' = s + 1
      BY <2>0, <2>3 DEF Accept, IInv, TypeOK, WalkInv
    <3>2. Len(r) \in Nat /\ r \in Seq(1 .. Len(AllSeries))
      BY DEF IInv, TypeOK
    <3>3. Len(r') = Len(r) + 1 /\ r'[Len(r) + 1] = s
      BY <2>3, <3>2 DEF Accept
    <3>4. Len(r) + 1 \in 1 .. Len(r')
      BY <3>2, <3>3
    <3>5. InSet(set, AllSeries[s])
      BY <2>00, <2>3, <3>1, <3>3, <3>4 DEF Accept
    <3> QED
      BY <2>3, <3>1, <3>5, <1>0 DEF Accept, Scan!Next, Scan!Keep
  <2>4. CASE BeginWalk \/ Return \/ Walk \/ AgreePair \/ UNCHANGED vars
    BY <2>4 DEF BeginWalk, Return, Walk, AgreePair, vars, Scan!vars
  <2> QED
    BY <2>1, <2>2, <2>3, <2>4 DEF Next
<1> QED
  BY <1>1, <1>2, Invariance, PTL DEF Spec, Scan!Spec, ImplementsScan
=============================================================================
