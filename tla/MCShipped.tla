----------------------------- MODULE MCShipped -----------------------------
(***************************************************************************)
(* The catalogue the module is shipped with: the 51 series of `exposition` *)
(* (dvt_exposition.c) under the ids that lavs_from_series_set gives them,  *)
(* and the set specs of src/predefined.json, the pages the web client      *)
(* opens with.  Labels in the order of their first occurrence: 0 metric,   *)
(* 1 level, 2 group, 3 period, 4 scale, 5 width; values likewise.          *)
(***************************************************************************)
EXTENDS SeriesSet

P(label, value) == [label |-> label, value |-> value]

Group == P(2, 0)      \* group="all", on every series

Ping(level) == [metric |-> 0, kvs |-> <<P(1, level), Group>>]
Sin(period, scale) == [metric |-> 1, kvs |-> <<Group, P(3, period), P(4, scale)>>]
Noise(period, scale) == [metric |-> 2, kvs |-> <<Group, P(3, period), P(4, scale)>>]
Tonnes(level, width) == [metric |-> 3, kvs |-> <<P(1, level), Group, P(5, width)>>]
Mixed(scale) == [metric |-> 4, kvs |-> <<Group, P(4, scale)>>]

\* Value ids: levels 4 .. 500 of ping_time_ms are 0 .. 7, those of wt_tonnes
\* 8 .. 15; scales small, medium, large, x_large are 0 .. 3.
MCShippedSeries == <<
  Ping(0), Ping(1), Ping(2), Ping(3), Ping(4), Ping(5), Ping(6), Ping(7),
  Sin(0, 0), Sin(1, 0), Sin(2, 0), Sin(3, 0),
  Sin(4, 1), Sin(5, 1), Sin(6, 1), Sin(7, 1), Sin(8, 1),
  Sin(9, 2), Sin(10, 2), Sin(11, 2),
  Noise(0, 0), Noise(1, 0), Noise(2, 0),
  Noise(12, 1), Noise(13, 1), Noise(14, 1), Noise(15, 1),
  Noise(16, 2), Noise(17, 2), Noise(18, 2), Noise(19, 2), Noise(20, 2),
  Noise(21, 2), Noise(22, 2), Noise(23, 2), Noise(24, 2), Noise(25, 2),
  Noise(26, 2), Noise(27, 2), Noise(28, 2), Noise(29, 2), Noise(30, 3),
  Tonnes(8, 0), Tonnes(9, 1), Tonnes(10, 2), Tonnes(11, 3),
  Tonnes(12, 4), Tonnes(13, 5), Tonnes(14, 6), Tonnes(15, 7),
  Mixed(2) >>

\* "IdentifiedBy" of a series on a page: its metric and all its labels.
Identities == {MCShippedSeries[n] : n \in 1 .. 51}

\* The groups of the pages "By Metric", and sin at scale large.
MetricGroups ==
  {[metric |-> m, kvs |-> <<Group>>] : m \in 0 .. 4}
    \cup {[metric |-> 1, kvs |-> <<P(4, 2)>>]}

\* The groups of the pages "By Scale": no metric, group="all", one scale.
ScaleGroups == {[metric |-> UINT32_MAX, kvs |-> <<Group, P(4, v)>>] : v \in 0 .. 3}

MCPageSpecs == Identities \cup MetricGroups

\* The shipped pages work on the catalogue as shipped: a row that names a
\* series by its metric and all its labels gets that series and no other, and
\* a group of "By Metric" exactly the series that have its labels, in catalogue
\* order: those the page lists as its children.
PagesAnswered ==
  pc = "done" =>
    /\ set \in Identities => Len(r) = 1 /\ AllSeries[r[1]] = set
    /\ set \in MetricGroups =>
         r = SelectSeq([n \in 1 .. Len(AllSeries) |-> n],
                       LAMBDA n : Matches(set, AllSeries[n]))
=============================================================================
