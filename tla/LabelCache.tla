----------------------------- MODULE LabelCache -----------------------------
(***************************************************************************)
(* dvt_cache_init: reads the exposition the module is built with, gives    *)
(* every label name and every value of a label an id, builds the lookup    *)
(* tables and stores every series in its id form.  The encoding of a       *)
(* series is the sub-machine of SpecFromPairs, on the same tables.         *)
(***************************************************************************)
EXTENDS SpecFromPairs, Rendering

CONSTANTS
  Expositions,     \* what parse_exposition_text may return: series of pairs
  NoExposition,    \* its NULL
  MetricName,      \* "metric", the key of the first pair of every series
  UINT16_MAX       \* of series_count

ASSUME ExpositionAssumption ==
  /\ MetricName \in Names /\ Lower[MetricName] = MetricName
  /\ NoExposition \notin Expositions
  /\ IsFiniteSet(Names) /\ Cardinality(Names) <= Capacity
  /\ Expositions \subseteq Seq(Seq(KeyVals))
  /\ \A e \in Expositions : \A k \in 1 .. Len(e) :
       Len(e[k]) > 0 /\ e[k][1].key = MetricName

ASSUME CountAssumption == UINT16_MAX \in Nat

VARIABLES
  series_collection,  \* load_test_exposition's result
  phase,    \* "load", "intern", "tables", "encode", "ready", "conf_error", "undefined"
  i, j,     \* position of the loops over series and pairs
  labels,   \* lavs: per label its name and, per value, the name and a count
  all_series

cacheVars == <<series_collection, phase, i, j, labels, all_series>>
vars == <<encVars, cacheVars>>

Pair == series_collection[i][j]

Init ==
  /\ series_collection \in Expositions \cup {NoExposition}
  /\ phase = "load" /\ i = 1 /\ j = 1
  /\ labels = << >> /\ all_series = << >>
  /\ label_names = << >> /\ value_names = << >>
  /\ pc = "idle" /\ kvps = << >> /\ n = 1 /\ m = 1
  /\ metric = UINT32_MAX /\ kvs = << >>

Loaded ==
  /\ phase = "load" /\ series_collection # NoExposition
  /\ phase' = "intern"
  /\ UNCHANGED <<encVars, series_collection, i, j, labels, all_series>>

\* lavs is read although it was never assigned.
NotLoaded ==
  /\ phase = "load" /\ series_collection = NoExposition
  /\ phase' = "undefined"
  /\ UNCHANGED <<encVars, series_collection, i, j, labels, all_series>>

\* The count of a new value starts after its first series.
NewValue_Uncounted(v) == [name |-> v, count |-> 0]

NewValue(v) == [name |-> v, count |-> 1 % (UINT16_MAX + 1)]

CountOneMore(value) == [value EXCEPT !.count = (@ + 1) % (UINT16_MAX + 1)]

\* "find or create label value info", and the count.
WithValue(values, v) ==
  LET at == {k \in 1 .. Len(values) : values[k].name = v} IN
    IF at = {} THEN Append(values, NewValue(v))
    ELSE [k \in 1 .. Len(values) |->
            IF k \in at THEN CountOneMore(values[k]) ELSE values[k]]

\* "find or create label info".
WithPair(pair) ==
  IF \E k \in 1 .. Len(labels) : labels[k].name = pair.key
  THEN [k \in 1 .. Len(labels) |->
          IF labels[k].name = pair.key
          THEN [labels[k] EXCEPT !.values = WithValue(@, pair.value)]
          ELSE labels[k]]
  ELSE Append(labels, [name |-> pair.key, values |-> <<NewValue(pair.value)>>])

InternPair ==
  /\ phase = "intern"
  /\ i <= Len(series_collection) /\ j <= Len(series_collection[i])
  /\ labels' = WithPair(Pair)
  /\ j' = j + 1
  /\ UNCHANGED <<encVars, series_collection, phase, i, all_series>>

InternNextSeries ==
  /\ phase = "intern"
  /\ i <= Len(series_collection) /\ j > Len(series_collection[i])
  /\ i' = i + 1 /\ j' = 1
  /\ UNCHANGED <<encVars, series_collection, phase, labels, all_series>>

EndIntern ==
  /\ phase = "intern" /\ i > Len(series_collection)
  /\ phase' = "tables" /\ i' = 1
  /\ UNCHANGED <<encVars, series_collection, j, labels, all_series>>

\* label_names, label_ids, label_value_names and label_value_ids.
BuildTables ==
  /\ phase = "tables"
  /\ label_names' = [k \in 1 .. Len(labels) |-> labels[k].name]
  /\ value_names' = [k \in 1 .. Len(labels) |->
                       [v \in 1 .. Len(labels[k].values) |-> labels[k].values[v].name]]
  /\ phase' = "encode"
  /\ UNCHANGED <<pc, kvps, n, metric, kvs, m, series_collection, i, j, labels, all_series>>

\* ngx_hash_init refuses (out of memory, or names that fit no bucket).
HashFails ==
  /\ phase = "tables"
  /\ phase' = "conf_error"
  /\ UNCHANGED <<encVars, series_collection, i, j, labels, all_series>>

EncodeCall ==
  /\ phase = "encode" /\ pc = "idle" /\ i <= Len(series_collection)
  /\ Call(series_collection[i])
  /\ UNCHANGED cacheVars

EncodeStep ==
  /\ phase = "encode" /\ Encode
  /\ UNCHANGED cacheVars

\* The series is stored, and rendered for the debugging output: with an id
\* that is no position in its table this may end the process.
StoreSeries ==
  /\ phase = "encode" /\ pc = "done"
  /\ all_series' = Append(all_series, Result)
  /\ i' = i + 1 /\ pc' = "idle"
  /\ UNCHANGED <<tables, kvps, n, metric, kvs, m, series_collection, phase, j, labels>>

RenderCrash ==
  /\ phase = "encode" /\ pc = "done"
  /\ ~Renderable(label_names, value_names, Result)
  /\ pc' = "crash"
  /\ UNCHANGED <<tables, kvps, n, metric, kvs, m, cacheVars>>

Return ==
  /\ phase = "encode" /\ pc = "idle" /\ i > Len(series_collection)
  /\ phase' = "ready"
  /\ UNCHANGED <<encVars, series_collection, i, j, labels, all_series>>

Next ==
  \/ Loaded \/ NotLoaded
  \/ InternPair \/ InternNextSeries \/ EndIntern
  \/ BuildTables \/ HashFails
  \/ EncodeCall \/ EncodeStep \/ StoreSeries \/ RenderCrash \/ Return

Spec == Init /\ [][Next]_vars

\* lavs_to_json, as a client reads it: an object per label, with the count of
\* each of its values.
lavs_to_json ==
  [l \in {labels[k].name : k \in 1 .. Len(labels)} |->
     LET values == labels[CHOOSE k \in 1 .. Len(labels) : labels[k].name = l].values IN
       [v \in {values[k].name : k \in 1 .. Len(values)} |->
          values[CHOOSE k \in 1 .. Len(values) : values[k].name = v].count]]

-----------------------------------------------------------------------------
Positions ==
  UNION {{<<k, p>> : p \in 1 .. Len(series_collection[k])} : k \in 1 .. Len(series_collection)}

\* The positions of the exposition the interning loops have passed.
Passed ==
  IF phase = "load" \/ series_collection = NoExposition THEN {}
  ELSE {x \in Positions : phase = "intern" => x[1] < i \/ (x[1] = i /\ x[2] < j)}

At(x) == series_collection[x[1]][x[2]]

\* The count shown for a value is the number of times the exposition names
\* it, as far as it has been read, up to the wrap of its 16 bits.
CountsExact ==
  \A k \in 1 .. Len(labels) : \A v \in 1 .. Len(labels[k].values) :
    labels[k].values[v].count =
      Cardinality({x \in Passed :
                     At(x) = [key |-> labels[k].name, value |-> labels[k].values[v].name]})
        % (UINT16_MAX + 1)

LowerCase(names) == \A k \in 1 .. Len(names) : Lower[names[k]] = names[k]

\* A cache in which all label names and values are written in lower case.
AllLowerCase ==
  LowerCase(label_names) /\ \A k \in 1 .. Len(value_names) : LowerCase(value_names[k])

\* dvt_cache_label_test: the id of the name of an id is the id.
LookupRoundTrip ==
  AllLowerCase =>
    \A k \in 1 .. Len(label_names) :
      /\ LabelId(label_names, label_names[k]) = k - 1
      /\ \A v \in 1 .. Len(value_names[k]) :
           ValueId(value_names, k - 1, value_names[k][v]) = v - 1

\* What dvt_series_in_set relies on without checking: every series of the
\* cache is "stored sorted by label_id".
CatalogueSorted == \A k \in 1 .. Len(all_series) : SortedByLabel(all_series[k].kvs)

Decoded(c) ==
  {[key |-> MetricName, value |-> value_names[1][c.metric + 1]]} \cup
  {[key |-> label_names[c.kvs[p].label + 1],
    value |-> value_names[c.kvs[p].label + 1][c.kvs[p].value + 1]] : p \in 1 .. Len(c.kvs)}

LastMetric(pairs) ==
  CHOOSE k \in 1 .. Len(pairs) :
    /\ pairs[k].key = MetricName
    /\ \A l \in k + 1 .. Len(pairs) : pairs[l].key # MetricName

\* No series is lost, invented or mixed up on its way into the cache: a ready
\* cache holds as many series as the exposition, in its order, and read back
\* through the id tables each is the set of pairs the exposition gave.
SeriesDecode ==
  phase = "ready" /\ AllLowerCase =>
    /\ Len(all_series) = Len(series_collection)
    /\ \A k \in 1 .. Len(all_series) :
         Decoded(all_series[k]) =
           {series_collection[k][p] : p \in
              {q \in 1 .. Len(series_collection[k]) :
                 series_collection[k][q].key = MetricName => q = LastMetric(series_collection[k])}}

=============================================================================
