------------------------------ MODULE Rendering ------------------------------
(***************************************************************************)
(* dvt_series_spec_to_text and dvt_series_spec_to_json: from a series' ids *)
(* back to its names.  A text is the sequence of its pieces: braces,       *)
(* commas, and pairs; the two forms differ in their quotation marks only.  *)
(***************************************************************************)
EXTENDS SeriesSpec

\* Every id of the series is a position in its table.
Renderable(label_names, value_names, c) ==
  /\ c.metric # UINT32_MAX => c.metric < Len(value_names[1])
  /\ \A p \in 1 .. Len(c.kvs) :
       /\ c.kvs[p].label < Len(label_names)
       /\ c.kvs[p].value < Len(value_names[c.kvs[p].label + 1])

Mark(c) == [mark |-> c]

NamedPair(label_names, value_names, label, value) ==
  [key |-> label_names[label + 1], value |-> value_names[label + 1][value + 1]]

\* The test for "no metric" taken from the ids.
Written_MetricNotZero(label_names, value_names, c) ==
  (IF c.metric = 0 THEN << >> ELSE <<NamedPair(label_names, value_names, 0, c.metric)>>)
    \o [k \in 1 .. Len(c.kvs) |->
          NamedPair(label_names, value_names, c.kvs[k].label, c.kvs[k].value)]

\* The pairs in the order they are written: the metric first, if there is one.
Written(label_names, value_names, c) ==
  (IF c.metric = UINT32_MAX THEN << >> ELSE <<NamedPair(label_names, value_names, 0, c.metric)>>)
    \o [k \in 1 .. Len(c.kvs) |->
          NamedPair(label_names, value_names, c.kvs[k].label, c.kvs[k].value)]

\* An opening brace, each pair with a comma behind it, and a closing brace in
\* the place of what was written last: the opening brace, if there is no pair.
to_text(label_names, value_names, c) ==
  LET pairs == Written(label_names, value_names, c) IN
    [k \in 1 .. 2 * Len(pairs) + 1 |->
       IF k = 2 * Len(pairs) + 1 THEN Mark("}")
       ELSE IF k = 1 THEN Mark("{")
       ELSE IF k % 2 = 0 THEN pairs[k \div 2] ELSE Mark(",")]

to_json(label_names, value_names, c) == to_text(label_names, value_names, c)

-----------------------------------------------------------------------------
(* A reader of such a text: pairs at every second place, between braces    *)
(* and commas, and at least one of them.                                   *)

IsPair(piece) == "key" \in DOMAIN piece

WellFormed(text) ==
  /\ Len(text) % 2 = 1 /\ Len(text) >= 3
  /\ \A k \in 1 .. Len(text) :
       /\ IsPair(text[k]) <=> k % 2 = 0
       /\ k % 2 = 1 =>
            text[k] = IF k = 1 THEN Mark("{") ELSE IF k = Len(text) THEN Mark("}") ELSE Mark(",")

PairsOf(text) == [k \in 1 .. Len(text) \div 2 |-> text[2 * k]]
=============================================================================
