------------------------------- MODULE Lookup -------------------------------
(***************************************************************************)
(* From names to ids: the hashes of the cache and the two lookups.  The    *)
(* tables are passed as the sequences they were built from, in the order   *)
(* of their ids; the hash itself is nginx's.                               *)
(***************************************************************************)
EXTENDS SeriesSpec, FiniteSets

CONSTANTS
  Names,             \* label names and label values
  Lower,             \* ngx_strlow, as a function on Names
  SameBucket,        \* pairs of names whose hash keys meet in a bucket
  ARBITRARY_OFFSET,  \* ARBITRARY_OFFSET_TO_AVOID_PTR_EQ_NULL: 100 in the code
  Capacity           \* how many labels, or values of a label, a cache may have

ASSUME NamesAssumption ==
  /\ Lower \in [Names -> Names]
  /\ SameBucket \subseteq Names \X Names

\* Ids, the ids of unknown names and UINT32_MAX stay apart.
ASSUME OffsetAssumption ==
  /\ ARBITRARY_OFFSET \in Nat /\ ARBITRARY_OFFSET > 1
  /\ Capacity \in Nat /\ Capacity > 0
  /\ Capacity + ARBITRARY_OFFSET <= UINT32_MAX

metric_label_id == 0

Word(x) == x % (UINT32_MAX + 1)

\* The word both lookups return for a name the hash does not have: 0 - OFFSET.
NotFound == UINT32_MAX + 1 - ARBITRARY_OFFSET

\* ngx_hash_init keeps the names in lower case, in the bucket of the name as
\* it was written; ngx_hash_find compares the name it is given as it is.
Hits(names, name) ==
  {k \in 1 .. Len(names) :
     /\ Lower[names[k]] = name
     /\ names[k] = name \/ <<names[k], name>> \in SameBucket}

\* The value of the first element of the bucket that has the name, or NULL.
HashFind(names, name) ==
  IF Hits(names, name) = {}
  THEN 0
  ELSE (CHOOSE k \in Hits(names, name) : \A l \in Hits(names, name) : k <= l) - 1
         + ARBITRARY_OFFSET

\* The offset is not taken off again.
LabelId_KeepsOffset(label_names, name) == Word(HashFind(label_names, name))

\* dvt_cache_label_id_from_name
LabelId(label_names, name) == Word(HashFind(label_names, name) - ARBITRARY_OFFSET)

\* An offset of one: an unknown value is UINT32_MAX, "metric not specified".
ValueId_OffsetOne(value_names, label_id, name) ==
  LET p == HashFind(value_names[label_id + 1], name) IN
    IF p = 0 THEN UINT32_MAX ELSE Word(p - ARBITRARY_OFFSET)

\* dvt_cache_label_value_id_from_name, for a label id inside the table
ValueId(value_names, label_id, name) ==
  Word(HashFind(value_names[label_id + 1], name) - ARBITRARY_OFFSET)

=============================================================================
