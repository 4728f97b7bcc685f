---------------------------- MODULE MCSeriesSet ----------------------------
(***************************************************************************)
(* Every series over three labels with two values and two metrics (each    *)
(* label at most once), against every set spec of at most two pairs,       *)
(* including sets that name a label twice, an id no series has, and the    *)
(* ids that "not found" and "metric not specified" produce.                *)
(***************************************************************************)
EXTENDS SeriesSet

CONSTANTS Metrics, NotFound

Labels == 1 .. 3
Values == 0 .. 1
Absent == 2       \* the third digit: the series lacks the label

Digit(n, d) == (n \div <<1, 3, 9>>[d]) % 3

\* The n-th choice of value, or of absence, for each label, in label order.
Choice(n) == [d \in Labels |-> [label |-> d, value |-> Digit(n, d)]]

Carried(p) == p.value # Absent

MCAllSeries ==
  [n \in 1 .. 54 |-> [metric |-> n % 2,
                      kvs    |-> SelectSeq(Choice(n \div 2), Carried)]]

\* Pairs a query can resolve to: known ones, and an unknown label or value.
QueryPairs == [label : Labels \cup {NotFound}, value : Values \cup {NotFound}]

MCSetSpecs ==
  {q \in UNION {[metric : Metrics \cup {NotFound, UINT32_MAX},
                 kvs : [1 .. n -> QueryPairs]] : n \in 0 .. 2} : SortedByLabel(q.kvs)}
=============================================================================
