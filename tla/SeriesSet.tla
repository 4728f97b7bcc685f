------------------------------ MODULE SeriesSet ------------------------------
(***************************************************************************)
(* dvt_cache_get_series_set with the loops of dvt_series_in_set: for every *)
(* series of the cache, a merge of the set's sorted pairs with the series' *)
(* sorted pairs.  One action per branch of the loops.  Positions count     *)
(* from 1 where the code counts from 0.                                    *)
(***************************************************************************)
EXTENDS SeriesSpec

CONSTANTS
  AllSeries,    \* cache->all_series
  SetSpecs      \* the set specs a query may resolve to

ASSUME SeriesAssumption ==
  /\ AllSeries \in Seq(Specs)
  /\ \A n \in 1 .. Len(AllSeries) : SortedByLabel(AllSeries[n].kvs)

ASSUME SetAssumption ==
  /\ SetSpecs \subseteq Specs
  /\ \A q \in SetSpecs : SortedByLabel(q.kvs)

VARIABLES
  set,  \* the set spec of the request
  s,    \* the series under examination (loop of dvt_cache_get_series_set)
  r,    \* the result: positions in AllSeries of the accepted series
  pc,   \* "series": head of the series loop, "walk": inside the merge, "done"
  i,    \* position in set.kvs (for loop of dvt_series_in_set)
  j     \* position in the series' kvs (while loop); survives from pair to pair

vars == <<set, s, r, pc, i, j>>

Cur == AllSeries[s]

\* The while condition.  At j = Len + 1 the code evaluates the first conjunct
\* on the word after the array; the second makes the outcome FALSE whatever
\* was read there.
Behind ==
  /\ j <= Len(Cur.kvs)
  /\ Cur.kvs[j].label < set.kvs[i].label

Init ==
  /\ set \in SetSpecs
  /\ s = 1 /\ r = << >>
  /\ pc = "series"
  /\ i = 1 /\ j = 1

\* return 0 on the metric, before any pair is looked at
RejectMetric ==
  /\ pc = "series" /\ s <= Len(AllSeries)
  /\ ~MetricAccepts(set, Cur)
  /\ s' = s + 1
  /\ UNCHANGED <<set, r, pc, i, j>>

BeginWalk ==
  /\ pc = "series" /\ s <= Len(AllSeries)
  /\ MetricAccepts(set, Cur)
  /\ pc' = "walk" /\ i' = 1 /\ j' = 1
  /\ UNCHANGED <<set, s, r>>

Return ==
  /\ pc = "series" /\ s > Len(AllSeries)
  /\ pc' = "done"
  /\ UNCHANGED <<set, s, r, i, j>>

\* A while condition without its bound on labels: the walk stops one pair late.
Walk_Overshoots ==
  /\ pc = "walk" /\ i <= Len(set.kvs)
  /\ j <= Len(Cur.kvs) /\ Cur.kvs[j].label <= set.kvs[i].label
  /\ j' = j + 1
  /\ UNCHANGED <<set, s, r, pc, i>>

Walk ==
  /\ pc = "walk" /\ i <= Len(set.kvs)
  /\ Behind
  /\ j' = j + 1
  /\ UNCHANGED <<set, s, r, pc, i>>

\* The test for the end of the series forgotten: running out is no rejection.
RejectPair_NoEndTest ==
  /\ pc = "walk" /\ i <= Len(set.kvs) /\ ~Behind
  /\ j <= Len(Cur.kvs) /\ Cur.kvs[j].value # set.kvs[i].value
  /\ s' = s + 1 /\ pc' = "series"
  /\ UNCHANGED <<set, r, i, j>>

\* return 0: the series ran out of pairs, or the values at i and j differ
RejectPair ==
  /\ pc = "walk" /\ i <= Len(set.kvs) /\ ~Behind
  /\ j <= Len(Cur.kvs) => Cur.kvs[j].value # set.kvs[i].value
  /\ s' = s + 1 /\ pc' = "series"
  /\ UNCHANGED <<set, r, i, j>>

\* j advanced together with i, as in a merge of two arrays without repetitions.
AgreePair_SkipsAhead ==
  /\ pc = "walk" /\ i <= Len(set.kvs) /\ ~Behind
  /\ j <= Len(Cur.kvs) /\ Cur.kvs[j].value = set.kvs[i].value
  /\ i' = i + 1 /\ j' = j + 1
  /\ UNCHANGED <<set, s, r, pc>>

\* The values are not compared at all.
AgreePair_AnyValue ==
  /\ pc = "walk" /\ i <= Len(set.kvs) /\ ~Behind
  /\ j <= Len(Cur.kvs)
  /\ i' = i + 1
  /\ UNCHANGED <<set, s, r, pc, j>>

\* the values agree: next pair of the set.  j stays, and Cur.kvs[j].label is
\* not compared with set.kvs[i].label.
AgreePair ==
  /\ pc = "walk" /\ i <= Len(set.kvs) /\ ~Behind
  /\ j <= Len(Cur.kvs) /\ Cur.kvs[j].value = set.kvs[i].value
  /\ i' = i + 1
  /\ UNCHANGED <<set, s, r, pc, j>>

\* The accepted series is examined again and again.
Accept_NoProgress ==
  /\ pc = "walk" /\ i > Len(set.kvs)
  /\ r' = Append(r, s)
  /\ pc' = "series"
  /\ UNCHANGED <<set, s, i, j>>

Accept ==
  /\ pc = "walk" /\ i > Len(set.kvs)
  /\ r' = Append(r, s)
  /\ s' = s + 1 /\ pc' = "series"
  /\ UNCHANGED <<set, i, j>>

Next ==
  \/ RejectMetric \/ BeginWalk \/ Return
  \/ Walk \/ RejectPair \/ AgreePair \/ Accept

Spec == Init /\ [][Next]_vars

\* One worker runs the handler to its end: nothing preempts it for ever.
FairSpec == Spec /\ WF_vars(Next)

-----------------------------------------------------------------------------
TypeOK ==
  /\ set \in SetSpecs
  /\ s \in 1 .. Len(AllSeries) + 1
  /\ r \in Seq(1 .. Len(AllSeries))
  /\ pc \in {"series", "walk", "done"}
  /\ i \in Nat \ {0}
  /\ j \in Nat \ {0}

Answered(n) == \E m \in 1 .. Len(r) : r[m] = n

\* The loops of dvt_cache_get_series_set and dvt_series_in_set compute the
\* declarative scan, whatever the catalogue and the query: every step of the
\* merge is a step of SeriesScan or leaves it unchanged.
Scan == INSTANCE SeriesScan WITH
  AllSeries <- AllSeries, SetSpecs <- SetSpecs, set <- set, s <- s, r <- r
ImplementsScan == Scan!Spec

\* No false negatives: a series that carries everything the query names, and
\* that names no label twice, is never skipped by the merge although j is not
\* reset between the pairs of the set.
NoSeriesLost ==
  \A n \in 1 .. s - 1 :
    DistinctLabels(AllSeries[n].kvs) /\ Matches(set, AllSeries[n]) => Answered(n)

\* No false positives among the series that carry every label the query names:
\* on those the value comparison at the stopping point is enough.
SoundWhenLabelled ==
  \A n \in 1 .. Len(AllSeries) :
    /\ Answered(n)
    /\ \A p \in 1 .. Len(set.kvs) : HasLabel(AllSeries[n].kvs, set.kvs[p].label)
    => Matches(set, AllSeries[n])

\* The answer lists each series once, in the order of the cache: the client
\* pairs the returned values with series by position.
AnswerInOrder == \A a, b \in 1 .. Len(r) : a < b => r[a] < r[b]

\* Every query is answered: the merge always ends.
Termination == <>(pc = "done")

-----------------------------------------------------------------------------
\* No false positives at all: every returned series has the metric and every
\* label/value pair the query names.  The code does not keep this promise.
OnlyMatching == \A n \in 1 .. Len(AllSeries) : Answered(n) => Matches(set, AllSeries[n])
=============================================================================
