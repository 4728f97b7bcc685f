---------------------------- MODULE SpecFromPairs ----------------------------
(***************************************************************************)
(* dvt_series_spec_from_kv_array: from the name/value pairs of a series,   *)
(* or of a client's query, to the id form.  First a lookup per pair, then  *)
(* ngx_sort (an insertion sort) on the label ids.                          *)
(***************************************************************************)
EXTENDS Lookup

KeyVals == [key : Names, value : Names]

VARIABLES
  label_names,  \* cache->label_names, also the contents of cache->label_ids
  value_names,  \* cache->label_value_names and cache->label_value_ids
  pc,           \* "idle", "lookup", "sort", "done", "crash"
  kvps,         \* the argument
  n,            \* position of the lookup loop in kvps
  metric,       \* dvt_series_spec_metric_value_id(result)
  kvs,          \* the other pairs of the result
  m             \* ngx_sort: the first m pairs are in order

tables == <<label_names, value_names>>
spec == <<metric, kvs>>
encVars == <<tables, pc, kvps, n, metric, kvs, m>>

\* The pairs of the previous call are still there.
Call_KeepsPairs(pairs) ==
  /\ kvps' = pairs
  /\ pc' = "lookup" /\ n' = 1 /\ m' = 1
  /\ metric' = UINT32_MAX
  /\ UNCHANGED <<tables, kvs>>

\* The call, with the result array's first word preset.
Call(pairs) ==
  /\ kvps' = pairs
  /\ pc' = "lookup" /\ n' = 1 /\ m' = 1
  /\ metric' = UINT32_MAX /\ kvs' = << >>
  /\ UNCHANGED tables

lid == LabelId(label_names, kvps[n].key)

\* label_value_ids has an element for every label of the cache and no more.
KnownLabel == lid < Len(value_names)

\* What the value lookup returns: with the id of an unknown label the code
\* reads beyond the end of label_value_ids, and any word may come back.
ValueIds ==
  IF KnownLabel THEN {ValueId(value_names, lid, kvps[n].value)} ELSE Ids

\* The first metric of the query is kept.
LookupMetric_FirstWins ==
  /\ pc = "lookup" /\ n <= Len(kvps) /\ lid = metric_label_id
  /\ IF metric = UINT32_MAX THEN metric' \in ValueIds ELSE UNCHANGED metric
  /\ n' = n + 1
  /\ UNCHANGED <<tables, pc, kvps, kvs, m>>

LookupMetric ==
  /\ pc = "lookup" /\ n <= Len(kvps) /\ lid = metric_label_id
  /\ metric' \in ValueIds
  /\ n' = n + 1
  /\ UNCHANGED <<tables, pc, kvps, kvs, m>>

\* A pair whose label or value the cache does not know is left out.
LookupLabel_SkipsUnknown ==
  /\ pc = "lookup" /\ n <= Len(kvps) /\ lid # metric_label_id
  /\ IF KnownLabel
     THEN \E v \in ValueIds : kvs' = Append(kvs, [label |-> lid, value |-> v])
     ELSE UNCHANGED kvs
  /\ n' = n + 1
  /\ UNCHANGED <<tables, pc, kvps, metric, m>>

LookupLabel ==
  /\ pc = "lookup" /\ n <= Len(kvps) /\ lid # metric_label_id
  /\ \E v \in ValueIds : kvs' = Append(kvs, [label |-> lid, value |-> v])
  /\ n' = n + 1
  /\ UNCHANGED <<tables, pc, kvps, metric, m>>

\* ... or the read beyond the end of the table ends the process.
LookupCrash ==
  /\ pc = "lookup" /\ n <= Len(kvps) /\ ~KnownLabel
  /\ pc' = "crash"
  /\ UNCHANGED <<tables, kvps, n, spec, m>>

BeginSort ==
  /\ pc = "lookup" /\ n > Len(kvps)
  /\ pc' = "sort"
  /\ UNCHANGED <<tables, kvps, n, spec, m>>

\* The pairs before q stay, those from q on are larger and move up.
InsertAt(q) ==
  /\ \A l \in 1 .. q - 1 : kvs[l].label <= kvs[m + 1].label
  /\ \A l \in q .. m : kvs[l].label > kvs[m + 1].label
  /\ kvs' = [x \in 1 .. Len(kvs) |->
               IF x < q \/ x > m + 1 THEN kvs[x]
               ELSE IF x = q THEN kvs[m + 1] ELSE kvs[x - 1]]

\* The outer loop does not advance.
SortStep_Stuck ==
  /\ pc = "sort" /\ m < Len(kvs)
  /\ \E q \in 1 .. m + 1 : InsertAt(q)
  /\ UNCHANGED <<tables, pc, kvps, n, metric, m>>

\* The sort forgets the last pair.
SortStep_StopsEarly ==
  /\ pc = "sort" /\ m < Len(kvs)
  /\ IF m + 1 < Len(kvs) THEN \E q \in 1 .. m + 1 : InsertAt(q) ELSE UNCHANGED kvs
  /\ m' = m + 1
  /\ UNCHANGED <<tables, pc, kvps, n, metric>>

SortStep ==
  /\ pc = "sort" /\ m < Len(kvs)
  /\ \E q \in 1 .. m + 1 : InsertAt(q)
  /\ m' = m + 1
  /\ UNCHANGED <<tables, pc, kvps, n, metric>>

EndSort ==
  /\ pc = "sort" /\ m >= Len(kvs)
  /\ pc' = "done"
  /\ UNCHANGED <<tables, kvps, n, spec, m>>

Encode ==
  \/ LookupMetric \/ LookupLabel \/ LookupCrash
  \/ BeginSort \/ SortStep \/ EndSort

Result == [metric |-> metric, kvs |-> kvs]

-----------------------------------------------------------------------------
(* The reference: what the call returns when every label is known.         *)

Known(pair) == LabelId(label_names, pair.key) < Len(value_names)

Id(pair) ==
  [label |-> LabelId(label_names, pair.key),
   value |-> ValueId(value_names, LabelId(label_names, pair.key), pair.value)]

IsMetric(pair) == Id(pair).label = metric_label_id

MetricOf(pairs) ==
  LET at == {k \in 1 .. Len(pairs) : IsMetric(pairs[k])} IN
    IF at = {} THEN UINT32_MAX
    ELSE Id(pairs[CHOOSE k \in at : \A l \in at : l <= k]).value

Others(pairs) == {k \in 1 .. Len(pairs) : ~IsMetric(pairs[k])}

\* By label, and in the order given where labels agree.
Precedes(pairs, l, k) ==
  \/ Id(pairs[l]).label < Id(pairs[k]).label
  \/ Id(pairs[l]).label = Id(pairs[k]).label /\ l < k

\* The position among the others that comes x-th in that order.
Ranked(pairs, x) ==
  CHOOSE k \in Others(pairs) :
    Cardinality({l \in Others(pairs) : Precedes(pairs, l, k)}) = x - 1

InLabelOrder(pairs) ==
  [x \in 1 .. Cardinality(Others(pairs)) |-> Id(pairs[Ranked(pairs, x)])]

AllKnown == \A k \in 1 .. Len(kvps) : Known(kvps[k])

-----------------------------------------------------------------------------
\* The header's promise, "always stored sorted by label_id", which the merge
\* of dvt_series_in_set depends on: it holds of every finished spec, also of
\* one with unknown labels and values.
FinishedIsSorted == pc = "done" => SortedByLabel(kvs)

\* With known labels the result is the reference: the last metric, and every
\* other pair once, in label order and in the order given where labels agree.
SpecCorrect ==
  pc = "done" /\ AllKnown =>
    metric = MetricOf(kvps) /\ kvs = InLabelOrder(kvps)

\* A metric the cache does not know never turns into "metric not specified":
\* such a query must stay empty, not grow to every metric.
UnknownMetricIsNotAny ==
  pc = "done" /\ metric = UINT32_MAX =>
    \A k \in 1 .. Len(kvps) : LabelId(label_names, kvps[k].key) # metric_label_id
=============================================================================
