----------------------------- MODULE SeriesSpec -----------------------------
(***************************************************************************)
(* The id form of a series, or of a set of series: the array of uint32_t   *)
(* that dvt_series_spec.h describes.  Its first word is the metric's value *)
(* id (UINT32_MAX: metric not specified), then come a count and the other  *)
(* label/value id pairs, "always stored sorted by label_id".  The count is *)
(* the length of the sequence kvs here.                                    *)
(***************************************************************************)
EXTENDS Integers, Sequences

CONSTANT UINT32_MAX     \* 2^32 - 1 in the code; scaled down for TLC

ASSUME WordAssumption == UINT32_MAX \in Nat

\* The values of a uint32_t.
Ids == 0 .. UINT32_MAX

\* dvt_series_spec_label_id and dvt_series_spec_value_id of one position.
Pairs == [label : Ids, value : Ids]

Specs == [metric : Ids, kvs : Seq(Pairs)]

\* What ngx_sort with dvt_kv_cmp leaves behind: only the label ids are compared.
SortedByLabel(kvs) ==
  \A a, b \in 1 .. Len(kvs) : a < b => kvs[a].label <= kvs[b].label

DistinctLabels(kvs) ==
  \A a, b \in 1 .. Len(kvs) : a # b => kvs[a].label # kvs[b].label

HasLabel(kvs, label) == \E m \in 1 .. Len(kvs) : kvs[m].label = label

HasPair(kvs, pair) == \E m \in 1 .. Len(kvs) : kvs[m] = pair

-----------------------------------------------------------------------------
(* Membership of a series c in a set of series.                            *)

\* A set without a metric accepts every metric.
MetricAccepts(set, c) == set.metric = UINT32_MAX \/ c.metric = set.metric

\* What a client asks for: c has the metric and every pair the set names.
Matches(set, c) ==
  /\ MetricAccepts(set, c)
  /\ \A p \in 1 .. Len(set.kvs) : HasPair(c.kvs, set.kvs[p])

\* What the walk of dvt_series_in_set decides for one pair of the set: the
\* first pair of c whose label is not smaller carries the wanted value.  The
\* label found there is not compared again.
LowerBoundAgrees(kvs, pair) ==
  \E m \in 1 .. Len(kvs) :
    /\ kvs[m].label >= pair.label
    /\ kvs[m].value = pair.value
    /\ \A l \in 1 .. (m - 1) : kvs[l].label < pair.label

InSet(set, c) ==
  /\ MetricAccepts(set, c)
  /\ \A p \in 1 .. Len(set.kvs) : LowerBoundAgrees(c.kvs, set.kvs[p])
=============================================================================
