----------------------------- MODULE SeriesScan -----------------------------
(***************************************************************************)
(* What dvt_cache_get_series_set promises: it takes the series of the      *)
(* cache in their order and keeps, in that order, exactly those that       *)
(* dvt_series_in_set accepts.  Whether a series is accepted is a single    *)
(* declarative predicate (InSet) here; SeriesSet computes it with the      *)
(* loops of the code.                                                      *)
(***************************************************************************)
EXTENDS SeriesSpec

CONSTANTS
  AllSeries,    \* cache->all_series: the sequence of series specs
  SetSpecs      \* the set specs a query may resolve to

VARIABLES
  set,          \* the set spec of the request
  s,            \* the series under examination: 1 .. Len(AllSeries) + 1
  r             \* the result array: positions of the accepted series

vars == <<set, s, r>>

Init ==
  /\ set \in SetSpecs
  /\ s = 1
  /\ r = << >>

Keep ==
  /\ s <= Len(AllSeries)
  /\ InSet(set, AllSeries[s])
  /\ r' = Append(r, s)
  /\ s' = s + 1
  /\ UNCHANGED set

Drop ==
  /\ s <= Len(AllSeries)
  /\ ~InSet(set, AllSeries[s])
  /\ s' = s + 1
  /\ UNCHANGED <<set, r>>

Next == Keep \/ Drop

Spec == Init /\ [][Next]_vars
=============================================================================
