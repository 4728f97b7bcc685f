---------------------------- MODULE Worker_proofs ----------------------------
(***************************************************************************)
(* Two parts.  About LabelCache, for every exposition and every list of    *)
(* names and values: the tables the interning loops build, the counts      *)
(* beside the values, and what the encoding of a list of pairs leaves in   *)
(* the array of a series spec.  About Worker, for every question: what an  *)
(* answer lists, that a worker implements Service, and that links and the  *)
(* summary keep their word.                                                *)
(***************************************************************************)
EXTENDS Worker, TLAPS, FiniteSetTheorems, FunctionTheorems, WellFoundedInduction

ValueInfos == [name : Names, count : Nat]
LabelInfos == [name : Names, values : Seq(ValueInfos)]

Phases == {"load", "intern", "tables", "encode", "ready", "conf_error", "undefined"}

TypeOK ==
  /\ series_collection \in Expositions \cup {NoExposition}
  /\ phase \in Phases
  /\ i \in Nat \ {0} /\ j \in Nat \ {0}
  /\ labels \in Seq(LabelInfos)
  /\ label_names \in Seq(Names) /\ value_names \in Seq(Seq(Names))
  /\ pc \in {"idle", "lookup", "sort", "done", "crash"}
  /\ kvps \in Seq(KeyVals) /\ n \in Nat \ {0}
  /\ metric \in Ids /\ kvs \in Seq(Pairs) /\ m \in Nat \ {0}
  /\ all_series \in Seq(Specs)

-----------------------------------------------------------------------------
(* Numbers, sets and sequences.                                            *)

\* A set of natural numbers has a least element.
LEMMA Least ==
  ASSUME NEW S \in SUBSET Nat, S # {}
  PROVE  \E x \in S : \A y \in S : x <= y
<1>1. PICK x \in S : \A y \in S : ~(<<y, x>> \in OpToRel(<, Nat))
  BY NatLessThanWellFounded, WFMin, Zenon
<1>2. \A y \in S : ~(y < x)
  BY <1>1, Zenon DEF OpToRel
<1> QED
  BY <1>2

\* One 32 bit word.
LEMMA WordIs ==
  ASSUME NEW x \in Int
  PROVE  /\ Word(x) \in Ids
         /\ x \in Ids => Word(x) = x
         /\ -UINT32_MAX - 1 <= x /\ x < 0 => Word(x) = x + UINT32_MAX + 1
<1> UINT32_MAX \in Nat
  BY WordAssumption
<1>1. Word(x) \in Ids
  BY DEF Word, Ids
<1>2. x \in Ids => Word(x) = x
  BY DEF Word, Ids
<1>3. -UINT32_MAX - 1 <= x /\ x < 0 => Word(x) = x + UINT32_MAX + 1
  BY DEF Word
<1> QED
  BY <1>1, <1>2, <1>3

LEMMA AppendFacts ==
  ASSUME NEW S, NEW seq \in Seq(S), NEW e \in S
  PROVE  /\ Append(seq, e) \in Seq(S) /\ Len(Append(seq, e)) = Len(seq) + 1
         /\ \A k \in 1 .. Len(seq) : Append(seq, e)[k] = seq[k]
         /\ Append(seq, e)[Len(seq) + 1] = e
OBVIOUS

\* A sequence without repetitions is no longer than its elements are many.
LEMMA NoRepeatBound ==
  ASSUME NEW S, IsFiniteSet(S), NEW seq \in Seq(S),
         \A k, l \in 1 .. Len(seq) : seq[k] = seq[l] => k = l
  PROVE  Len(seq) <= Cardinality(S)
<1>1. Len(seq) \in Nat /\ seq \in [1 .. Len(seq) -> S]
  OBVIOUS
<1>2. seq \in Injection(1 .. Len(seq), S)
  BY <1>1, Fun_IsInj
<1>3. Cardinality(1 .. Len(seq)) <= Cardinality(S)
  BY <1>2, FS_Injection
<1>4. Cardinality(1 .. Len(seq)) = Len(seq)
  BY SMTT(30), <1>1, FS_Interval
<1> QED
  BY <1>3, <1>4

-----------------------------------------------------------------------------
(* The two lookups.                                                        *)

\* Ids of names, the id of an unknown name and UINT32_MAX stay apart.
LEMMA IdsApart ==
  /\ NotFound \in Ids /\ NotFound > Capacity /\ NotFound # UINT32_MAX
  /\ Capacity \in Nat /\ Capacity < UINT32_MAX /\ UINT32_MAX \in Nat
  /\ ARBITRARY_OFFSET \in Nat
BY WordAssumption, OffsetAssumption DEF NotFound, Ids

\* A lookup finds the first name of the bucket in lower case, or gives NotFound.
LEMMA LookupCases ==
  ASSUME NEW names \in Seq(Names), Len(names) <= Capacity, NEW name
  PROVE  /\ Hits(names, name) = {} => LabelId(names, name) = NotFound
         /\ Hits(names, name) # {} =>
              \E k \in Hits(names, name) : LabelId(names, name) = k - 1
         /\ LabelId(names, name) \in Ids /\ LabelId(names, name) # UINT32_MAX
         /\ LabelId(names, name) < Len(names) <=> Hits(names, name) # {}
<1>1. Len(names) \in Nat /\ Hits(names, name) \subseteq 1 .. Len(names)
  BY DEF Hits
<1>2. CASE Hits(names, name) = {}
  <2>1. LabelId(names, name) = Word(0 - ARBITRARY_OFFSET)
    BY <1>2 DEF LabelId, HashFind
  <2>2. LabelId(names, name) = NotFound
    BY <2>1, IdsApart, OffsetAssumption, WordIs DEF NotFound
  <2> QED
    BY <1>1, <1>2, <2>2, IdsApart DEF Ids
<1>3. CASE Hits(names, name) # {}
  <2> DEFINE k == CHOOSE x \in Hits(names, name) : \A y \in Hits(names, name) : x <= y
  <2>1. k \in Hits(names, name)
    BY <1>1, <1>3, Least
  <2>2. HashFind(names, name) = k - 1 + ARBITRARY_OFFSET
    BY <1>3 DEF HashFind
  <2> HIDE DEF k
  <2>3. k \in 1 .. Len(names)
    BY <1>1, <2>1
  <2>4. LabelId(names, name) = Word(k - 1)
    BY <2>2, <2>3, IdsApart DEF LabelId
  <2>5. k - 1 \in Ids /\ k - 1 # UINT32_MAX
    BY <1>1, <2>3, IdsApart DEF Ids
  <2>6. LabelId(names, name) = k - 1
    BY <2>4, <2>5, WordIs DEF Ids
  <2> QED
    BY <1>1, <1>3, <2>1, <2>3, <2>5, <2>6
<1> QED
  BY <1>2, <1>3

\* Where names are in lower case and none is repeated, a name is found at its
\* own position and nowhere else.
LEMMA LookupExact ==
  ASSUME NEW names \in Seq(Names), Len(names) <= Capacity, LowerCase(names),
         \A k, l \in 1 .. Len(names) : names[k] = names[l] => k = l
  PROVE  /\ \A k \in 1 .. Len(names) : LabelId(names, names[k]) = k - 1
         /\ \A name : LabelId(names, name) < Len(names) =>
              \E k \in 1 .. Len(names) : names[k] = name /\ LabelId(names, name) = k - 1
<1>1. ASSUME NEW name, NEW k \in Hits(names, name)
      PROVE  k \in 1 .. Len(names) /\ names[k] = name
  BY <1>1 DEF Hits, LowerCase
<1>2. ASSUME NEW k \in 1 .. Len(names)
      PROVE  LabelId(names, names[k]) = k - 1
  <2>1. k \in Hits(names, names[k])
    BY DEF Hits, LowerCase
  <2>2. PICK l \in Hits(names, names[k]) : LabelId(names, names[k]) = l - 1
    BY <2>1, LookupCases
  <2> QED
    BY <2>2, <1>1
<1>3. ASSUME NEW name, LabelId(names, name) < Len(names)
      PROVE  \E k \in 1 .. Len(names) : names[k] = name /\ LabelId(names, name) = k - 1
  BY <1>1, <1>3, LookupCases
<1> QED
  BY <1>2, <1>3

LEMMA ValueIsLookup ==
  ASSUME NEW id, NEW name
  PROVE  ValueId(value_names, id, name) = LabelId(value_names[id + 1], name)
BY DEF ValueId, LabelId

-----------------------------------------------------------------------------
(* "find or create": the label and the value of a pair.                    *)

WordCount == UINT16_MAX + 1

LEMMA DivMod ==
  ASSUME NEW y \in Int, NEW w \in Nat, w > 0
  PROVE  y \div w \in Int /\ y % w \in 0 .. w - 1 /\ y = w * (y \div w) + (y % w)
OBVIOUS

LEMMA ModUnique ==
  ASSUME NEW w \in Nat, w > 0, NEW a \in Int, NEW b \in Int,
         NEW r \in 0 .. w - 1, NEW t \in 0 .. w - 1, w * a + r = w * b + t
  PROVE  r = t
<1>1. a = b
  <2>1. CASE a < b
    <3>1. w * (a + 1) <= w * b
      BY <2>1
    <3>2. w * (a + 1) = w * a + w
      OBVIOUS
    <3> QED
      BY <3>1, <3>2
  <2>2. CASE b < a
    <3>1. w * (b + 1) <= w * a
      BY <2>2
    <3>2. w * (b + 1) = w * b + w
      OBVIOUS
    <3> QED
      BY <3>1, <3>2
  <2> QED
    BY <2>1, <2>2
<1> QED
  BY <1>1

\* Counting on from a remainder is counting on from the number.
LEMMA CountOn ==
  ASSUME NEW x \in Nat, NEW w \in Nat, w > 0
  PROVE  ((x % w) + 1) % w = (x + 1) % w
<1> DEFINE r == x % w
           q == x \div w
<1>1. q \in Int /\ r \in 0 .. w - 1 /\ x = w * q + r
  BY DivMod
<1> HIDE DEF r, q
<1>2. /\ (x + 1) \div w \in Int /\ (x + 1) % w \in 0 .. w - 1
      /\ x + 1 = w * ((x + 1) \div w) + ((x + 1) % w)
  BY DivMod
<1>3. /\ (r + 1) \div w \in Int /\ (r + 1) % w \in 0 .. w - 1
      /\ r + 1 = w * ((r + 1) \div w) + ((r + 1) % w)
  BY <1>1, DivMod
<1>4. w * (q + ((r + 1) \div w)) = w * q + w * ((r + 1) \div w)
  BY <1>1, <1>3
<1>5. w * (q + ((r + 1) \div w)) + ((r + 1) % w) = w * ((x + 1) \div w) + ((x + 1) % w)
  <2> DEFINE A == w * ((x + 1) \div w)
             B == w * ((r + 1) \div w)
             C == w * q
  <2>1. A \in Int /\ B \in Int /\ C \in Int
    BY <1>1, <1>2, <1>3
  <2> HIDE DEF A, B, C
  <2>2. C + B + ((r + 1) % w) = A + ((x + 1) % w)
    BY <1>1, <1>2, <1>3, <2>1 DEF A, B, C
  <2> QED
    BY <1>4, <2>2 DEF A, B, C
<1>6. (r + 1) % w = (x + 1) % w
  BY <1>1, <1>2, <1>3, <1>5, ModUnique
<1> QED
  BY <1>6 DEF r

LEMMA WordCountType ==
  /\ WordCount \in Nat /\ WordCount > 0
  /\ \A x \in Int : x % WordCount \in Nat
  /\ \A x \in Nat : ((x % WordCount) + 1) % WordCount = (x + 1) % WordCount
<1>1. WordCount \in Nat /\ WordCount > 0
  BY CountAssumption DEF WordCount
<1>2. \A x \in Int : x % WordCount \in Nat
  BY <1>1
<1>3. ASSUME NEW x \in Nat
      PROVE  ((x % WordCount) + 1) % WordCount = (x + 1) % WordCount
  BY <1>1, CountOn
<1> QED
  BY <1>1, <1>2, <1>3

Once(infos) == \A v, w \in 1 .. Len(infos) : infos[v].name = infos[w].name => v = w

LEMMA OneMoreFacts ==
  ASSUME NEW info \in ValueInfos
  PROVE  /\ CountOneMore(info) \in ValueInfos
         /\ CountOneMore(info).name = info.name
         /\ CountOneMore(info).count = (info.count + 1) % WordCount
<1>1. PICK name \in Names, count \in Nat : info = [name |-> name, count |-> count]
  BY DEF ValueInfos
<1>2. CountOneMore(info) = [info EXCEPT !.count = (info.count + 1) % WordCount]
  BY DEF CountOneMore, WordCount
<1>3. (info.count + 1) % WordCount \in Nat
  BY <1>1, WordCountType
<1> DEFINE c == (info.count + 1) % WordCount
<1> HIDE DEF c
<1>4. CountOneMore(info) = [name |-> name, count |-> c]
  BY <1>1, <1>2 DEF c
<1> QED
  BY <1>1, <1>3, <1>4 DEF ValueInfos, c

\* Between the values of a label before and after "find or create": the new
\* name is there, and only its count has changed.
ValueAdded(values, V, name) ==
  /\ V \in Seq(ValueInfos) /\ Once(V) /\ Len(values) <= Len(V)
  /\ \A w \in 1 .. Len(values) : V[w].name = values[w].name
  /\ \E w \in 1 .. Len(V) : V[w].name = name
  /\ \A w \in 1 .. Len(V) :
       \/ /\ V[w].name # name
          /\ w \in 1 .. Len(values) /\ V[w] = values[w]
       \/ /\ V[w].name = name
          /\ w \in 1 .. Len(values)
          /\ V[w].count = (values[w].count + 1) % WordCount
       \/ /\ V[w].name = name
          /\ \A x \in 1 .. Len(values) : values[x].name # name
          /\ V[w].count = 1 % WordCount

\* A value of a label: either new, or one more of those it has.
LEMMA WithValueFacts ==
  ASSUME NEW values \in Seq(ValueInfos), Once(values), NEW name \in Names
  PROVE  ValueAdded(values, WithValue(values, name), name)
<1> DEFINE at == {k \in 1 .. Len(values) : values[k].name = name}
           V == WithValue(values, name)
<1>0. \A k \in 1 .. Len(values) : values[k] \in ValueInfos
  OBVIOUS
<1>1. CASE at = {}
  <2> DEFINE new == NewValue(name)
  <2>1. new \in ValueInfos /\ new.name = name /\ new.count = 1 % WordCount
    BY WordCountType DEF NewValue, ValueInfos, WordCount
  <2>2. V = Append(values, new)
    BY <1>1 DEF WithValue
  <2> HIDE DEF V, new
  <2>3. /\ V \in Seq(ValueInfos) /\ Len(V) = Len(values) + 1 /\ Len(values) \in Nat
        /\ \A k \in 1 .. Len(values) : V[k] = values[k]
        /\ V[Len(values) + 1] = new
    BY <2>1, <2>2, AppendFacts
  <2>4. \A w \in 1 .. Len(V) : w \in 1 .. Len(values) \/ w = Len(values) + 1
    BY <2>3
  <2>5. \A x \in 1 .. Len(values) : values[x].name # name
    BY <1>1
  <2>6. Once(V)
    BY <2>1, <2>3, <2>4, <2>5 DEF Once
  <2>7. Len(values) + 1 \in 1 .. Len(V)
    BY <2>3
  <2>8. \A w \in 1 .. Len(values) : V[w].name # name
    BY <2>3, <2>5
  <2>9. V[Len(values) + 1].name = name /\ V[Len(values) + 1].count = 1 % WordCount
    BY <2>1, <2>3
  <2> QED
    BY <2>3, <2>4, <2>5, <2>6, <2>7, <2>8, <2>9 DEF V, ValueAdded
<1>2. CASE at # {}
  <2>1. V = [k \in 1 .. Len(values) |->
               IF k \in at THEN CountOneMore(values[k]) ELSE values[k]]
    BY <1>2 DEF WithValue
  <2>2. \A k \in 1 .. Len(values) :
          /\ CountOneMore(values[k]) \in ValueInfos
          /\ CountOneMore(values[k]).name = values[k].name
          /\ CountOneMore(values[k]).count = (values[k].count + 1) % WordCount
    BY <1>0, OneMoreFacts
  <2> HIDE DEF V
  <2>3. /\ Len(V) = Len(values) /\ Len(values) \in Nat
        /\ \A k \in 1 .. Len(values) :
             V[k] = IF k \in at THEN CountOneMore(values[k]) ELSE values[k]
    BY <2>1
  <2>4. V \in Seq(ValueInfos)
    BY <2>1, <2>2
  <2>5. \A k \in 1 .. Len(values) : V[k].name = values[k].name
    BY <2>2, <2>3
  <2>6. Once(V)
    BY <2>3, <2>5 DEF Once
  <2>7. \E w \in 1 .. Len(V) : V[w].name = name
    BY <1>2, <2>3, <2>5
  <2> QED
    BY <2>2, <2>3, <2>4, <2>5, <2>6, <2>7 DEF V, ValueAdded
<1> QED
  BY <1>1, <1>2

Entry(infos, k, v) == [key |-> infos[k].name, value |-> infos[k].values[v].name]

NamesOnce(infos) == Once(infos) /\ \A k \in 1 .. Len(infos) : Once(infos[k].values)

\* Between the labels before and after "find or create" for a pair: they keep
\* their places, the pair is an entry, and only its count has changed.
PairAdded(before, L, pair) ==
  /\ L \in Seq(LabelInfos) /\ NamesOnce(L) /\ Len(before) <= Len(L)
  /\ \A k \in 1 .. Len(before) :
       /\ L[k].name = before[k].name
       /\ Len(before[k].values) <= Len(L[k].values)
       /\ \A v \in 1 .. Len(before[k].values) :
            L[k].values[v].name = before[k].values[v].name
  /\ \E k \in 1 .. Len(L) : \E v \in 1 .. Len(L[k].values) : Entry(L, k, v) = pair
  /\ \A k \in 1 .. Len(L) : k \in 1 .. Len(before) \/ L[k].name = pair.key
  /\ before = << >> => L # << >> /\ L[1].name = pair.key
  /\ \A k \in 1 .. Len(L) : \A v \in 1 .. Len(L[k].values) :
       \/ /\ Entry(L, k, v) # pair
          /\ k \in 1 .. Len(before) /\ v \in 1 .. Len(before[k].values)
          /\ L[k].values[v] = before[k].values[v]
       \/ /\ Entry(L, k, v) = pair
          /\ k \in 1 .. Len(before) /\ v \in 1 .. Len(before[k].values)
          /\ L[k].values[v].count = (before[k].values[v].count + 1) % WordCount
       \/ /\ Entry(L, k, v) = pair
          /\ \A l \in 1 .. Len(before) : \A w \in 1 .. Len(before[l].values) :
               Entry(before, l, w) # pair
          /\ L[k].values[v].count = 1 % WordCount

\* A pair: its label and its value stay or become entries, and the count of
\* the one entry that is the pair is the only one to change.
LEMMA WithPairFacts ==
  ASSUME labels \in Seq(LabelInfos), NamesOnce(labels), NEW pair \in KeyVals
  PROVE  PairAdded(labels, WithPair(pair), pair)
<1> DEFINE L == WithPair(pair)
<1>0. /\ pair.key \in Names /\ pair.value \in Names
      /\ pair = [key |-> pair.key, value |-> pair.value]
  BY DEF KeyVals
<1>1. /\ Len(labels) \in Nat
      /\ \A k \in 1 .. Len(labels) :
           /\ labels[k].name \in Names /\ labels[k].values \in Seq(ValueInfos)
           /\ labels[k] = [name |-> labels[k].name, values |-> labels[k].values]
           /\ Once(labels[k].values) /\ Len(labels[k].values) \in Nat
  <2>1. \A k \in 1 .. Len(labels) : labels[k] \in LabelInfos
    OBVIOUS
  <2> QED
    BY <2>1 DEF LabelInfos, NamesOnce
<1>2. CASE ~ \E k \in 1 .. Len(labels) : labels[k].name = pair.key
  <2> DEFINE new == [name |-> pair.key, values |-> <<NewValue(pair.value)>>]
  <2>1. NewValue(pair.value) \in ValueInfos /\ NewValue(pair.value).name = pair.value
        /\ NewValue(pair.value).count = 1 % WordCount
    BY <1>0, WordCountType DEF NewValue, ValueInfos, WordCount
  <2>2. new \in LabelInfos
    BY <1>0, <2>1 DEF LabelInfos
  <2>3. L = Append(labels, new)
    BY <1>2 DEF WithPair
  <2>4. /\ new.name = pair.key /\ new.values = <<NewValue(pair.value)>>
        /\ Len(new.values) = 1 /\ new.values[1] = NewValue(pair.value)
    OBVIOUS
  <2> HIDE DEF L, new
  <2>5. /\ L \in Seq(LabelInfos) /\ Len(L) = Len(labels) + 1
        /\ \A k \in 1 .. Len(labels) : L[k] = labels[k]
        /\ L[Len(labels) + 1] = new
    BY <2>2, <2>3, AppendFacts
  <2>6. \A k \in 1 .. Len(L) : k \in 1 .. Len(labels) \/ k = Len(labels) + 1
    BY <1>1, <2>5
  <2>16. Len(L[Len(labels) + 1].values) = 1
    <3>1. Len(new.values) = 1
      BY <2>4
    <3> QED
      BY <2>5, <3>1
  <2>7. Once(L)
    BY <1>2, <2>4, <2>5, <2>6 DEF Once, NamesOnce
  <2>8. NamesOnce(L)
    <3>1. Once(new.values)
      BY <2>4 DEF Once
    <3> QED
      BY <1>1, <2>5, <2>6, <2>7, <3>1 DEF NamesOnce
  <2>9. Entry(L, Len(labels) + 1, 1) = pair
        /\ L[Len(labels) + 1].values[1].count = 1 % WordCount
    BY <1>0, <2>1, <2>4, <2>5 DEF Entry
  <2>10. \A l \in 1 .. Len(labels) : \A w \in 1 .. Len(labels[l].values) :
           Entry(labels, l, w) # pair
    BY <1>0, <1>2 DEF Entry
  <2>11. ASSUME NEW k \in 1 .. Len(L), NEW v \in 1 .. Len(L[k].values)
         PROVE  \/ /\ k \in 1 .. Len(labels) /\ v \in 1 .. Len(labels[k].values)
                   /\ Entry(L, k, v) # pair /\ L[k].values[v] = labels[k].values[v]
                \/ Entry(L, k, v) = pair /\ L[k].values[v].count = 1 % WordCount
    <3>1. CASE k \in 1 .. Len(labels)
      BY <2>5, <2>10, <3>1 DEF Entry
    <3>2. CASE k = Len(labels) + 1
      <4>1. L[k] = L[Len(labels) + 1]
        BY <3>2
      <4>2. Len(L[k].values) = 1
        BY <2>16, <4>1
      <4>3. v = 1
        BY <4>2
      <4> QED
        BY <2>9, <3>2, <4>3
    <3> QED
      BY <2>6, <3>1, <3>2
  <2>12. \E k \in 1 .. Len(L) : \E v \in 1 .. Len(L[k].values) : Entry(L, k, v) = pair
    <3>1. Len(labels) + 1 \in 1 .. Len(L) /\ 1 \in 1 .. Len(L[Len(labels) + 1].values)
      BY <1>1, <2>5, <2>16
    <3> QED
      BY <2>9, <3>1
  <2>13. labels = << >> => L # << >> /\ L[1].name = pair.key
    BY <2>4, <2>5
  <2>14. /\ \A k \in 1 .. Len(L) : k \in 1 .. Len(labels) \/ L[k].name = pair.key
         /\ Len(labels) <= Len(L)
    BY <1>1, <2>4, <2>5, <2>6
  <2>15. \A k \in 1 .. Len(labels) :
           /\ L[k].name = labels[k].name
           /\ Len(labels[k].values) <= Len(L[k].values)
           /\ \A v \in 1 .. Len(labels[k].values) :
                L[k].values[v].name = labels[k].values[v].name
    BY <1>1, <2>5
  <2> QED
    BY <2>5, <2>8, <2>10, <2>11, <2>12, <2>13, <2>14, <2>15 DEF L, PairAdded
<1>3. CASE \E k \in 1 .. Len(labels) : labels[k].name = pair.key
  <2>1. PICK at \in 1 .. Len(labels) : labels[at].name = pair.key
    BY <1>3
  <2> DEFINE V == WithValue(labels[at].values, pair.value)
             new == [name |-> pair.key, values |-> V]
  <2>2. /\ V \in Seq(ValueInfos) /\ Once(V) /\ Len(labels[at].values) <= Len(V)
        /\ \A w \in 1 .. Len(labels[at].values) : V[w].name = labels[at].values[w].name
        /\ \E w \in 1 .. Len(V) : V[w].name = pair.value
        /\ \A w \in 1 .. Len(V) :
             \/ /\ V[w].name # pair.value
                /\ w \in 1 .. Len(labels[at].values) /\ V[w] = labels[at].values[w]
             \/ /\ V[w].name = pair.value
                /\ w \in 1 .. Len(labels[at].values)
                /\ V[w].count = (labels[at].values[w].count + 1) % WordCount
             \/ /\ V[w].name = pair.value
                /\ \A x \in 1 .. Len(labels[at].values) :
                     labels[at].values[x].name # pair.value
                /\ V[w].count = 1 % WordCount
    <3>1. labels[at].values \in Seq(ValueInfos) /\ Once(labels[at].values)
      BY <1>1
    <3>2. ValueAdded(labels[at].values, V, pair.value)
      BY <1>0, <3>1, WithValueFacts
    <3> HIDE DEF V
    <3> QED
      BY <3>2 DEF ValueAdded
  <2>3. L = [k \in 1 .. Len(labels) |-> IF k = at THEN new ELSE labels[k]]
    <3>1. L = [k \in 1 .. Len(labels) |->
                 IF labels[k].name = pair.key
                 THEN [labels[k] EXCEPT !.values = WithValue(labels[k].values, pair.value)]
                 ELSE labels[k]]
      BY <1>3 DEF WithPair
    <3>2. \A k \in 1 .. Len(labels) : labels[k].name = pair.key <=> k = at
      BY <2>1 DEF NamesOnce, Once
    <3>3. [labels[at] EXCEPT !.values = V] = new
      <4> HIDE DEF V
      <4>1. labels[at] = [name |-> pair.key, values |-> labels[at].values]
        BY <1>1, <2>1
      <4>2. \A x : [[name |-> pair.key, values |-> x] EXCEPT !.values = V]
                     = [name |-> pair.key, values |-> V]
        OBVIOUS
      <4> QED
        BY <4>1, <4>2
    <3> HIDE DEF L
    <3> QED
      BY <3>1, <3>2, <3>3
  <2> HIDE DEF L, V
  <2>4. new \in LabelInfos /\ new.name = pair.key /\ new.values = V
    BY <1>0, <2>2 DEF LabelInfos
  <2> HIDE DEF new
  <2>5. /\ L \in Seq(LabelInfos) /\ Len(L) = Len(labels)
        /\ \A k \in 1 .. Len(labels) : k # at => L[k] = labels[k]
        /\ L[at] = new
    BY <2>3, <2>4
  <2>6. \A k \in 1 .. Len(L) : L[k].name = labels[k].name
    BY <2>1, <2>4, <2>5
  <2>7. NamesOnce(L)
    <3>1. Once(L)
      BY <2>5, <2>6 DEF Once, NamesOnce
    <3>2. \A k \in 1 .. Len(L) : Once(L[k].values)
      BY <1>1, <2>2, <2>4, <2>5
    <3> QED
      BY <3>1, <3>2 DEF NamesOnce
  <2>8. ASSUME NEW k \in 1 .. Len(labels), NEW v \in 1 .. Len(L[k].values), k # at
        PROVE  /\ Entry(L, k, v) # pair
               /\ v \in 1 .. Len(labels[k].values)
               /\ L[k].values[v] = labels[k].values[v]
    <3>1. labels[k].name # pair.key
      BY <2>1, <2>8 DEF NamesOnce, Once
    <3> QED
      BY <1>0, <2>5, <2>8, <3>1 DEF Entry
  <2>9. \A v \in 1 .. Len(L[at].values) :
          Entry(L, at, v) = pair <=> V[v].name = pair.value
    BY <1>0, <2>4, <2>5 DEF Entry
  <2>10. (\A x \in 1 .. Len(labels[at].values) : labels[at].values[x].name # pair.value) =>
           \A l \in 1 .. Len(labels) : \A w \in 1 .. Len(labels[l].values) :
             Entry(labels, l, w) # pair
    BY <1>0, <2>1 DEF Entry, NamesOnce, Once
  <2>11. ASSUME NEW k \in 1 .. Len(L), NEW v \in 1 .. Len(L[k].values)
         PROVE
              \/ /\ Entry(L, k, v) # pair
                 /\ k \in 1 .. Len(labels) /\ v \in 1 .. Len(labels[k].values)
                 /\ L[k].values[v] = labels[k].values[v]
              \/ /\ Entry(L, k, v) = pair
                 /\ k \in 1 .. Len(labels) /\ v \in 1 .. Len(labels[k].values)
                 /\ L[k].values[v].count = (labels[k].values[v].count + 1) % WordCount
              \/ /\ Entry(L, k, v) = pair
                 /\ \A l \in 1 .. Len(labels) : \A w \in 1 .. Len(labels[l].values) :
                      Entry(labels, l, w) # pair
                 /\ L[k].values[v].count = 1 % WordCount
    <3>1. CASE k # at
      BY <2>5, <2>8, <3>1
    <3>2. CASE k = at
      <4>1. L[k].values = V /\ v \in 1 .. Len(V)
        BY <2>4, <2>5, <3>2
      <4> QED
        BY <2>2, <2>5, <2>9, <2>10, <3>2, <4>1
    <3> QED
      BY <3>1, <3>2
  <2>12. \E k \in 1 .. Len(L) : \E v \in 1 .. Len(L[k].values) : Entry(L, k, v) = pair
    <3>1. PICK w \in 1 .. Len(V) : V[w].name = pair.value
      BY <2>2
    <3>2. at \in 1 .. Len(L) /\ w \in 1 .. Len(L[at].values)
      BY <2>4, <2>5
    <3> QED
      BY <2>9, <3>1, <3>2
  <2>13. \A k \in 1 .. Len(labels) :
           /\ L[k].name = labels[k].name
           /\ Len(labels[k].values) <= Len(L[k].values)
           /\ \A v \in 1 .. Len(labels[k].values) :
                L[k].values[v].name = labels[k].values[v].name
    <3> TAKE k \in 1 .. Len(labels)
    <3>1. CASE k = at
      BY <2>1, <2>2, <2>4, <2>5, <3>1
    <3>2. CASE k # at
      BY <1>1, <2>5, <3>2
    <3> QED
      BY <3>1, <3>2
  <2>14. labels # << >>
    BY <2>1
  <2>15. Len(labels) <= Len(L)
    BY <1>1, <2>5
  <2> QED
    BY <2>5, <2>7, <2>11, <2>12, <2>13, <2>14, <2>15 DEF L, PairAdded
<1> QED
  BY <1>2, <1>3

-----------------------------------------------------------------------------
(* The phases of start-up, and the interning loops.                        *)

Untouched ==
  /\ label_names = << >> /\ value_names = << >> /\ all_series = << >>
  /\ kvps = << >> /\ n = 1 /\ metric = UINT32_MAX /\ kvs = << >> /\ m = 1

TablesBuilt ==
  /\ label_names = [k \in 1 .. Len(labels) |-> labels[k].name]
  /\ value_names = [k \in 1 .. Len(labels) |->
                      [v \in 1 .. Len(labels[k].values) |-> labels[k].values[v].name]]

PhaseInv ==
  /\ series_collection = NoExposition => phase \in {"load", "undefined"}
  /\ phase = "load" => i = 1 /\ j = 1
  /\ phase \in {"load", "undefined"} => labels = << >>
  /\ phase \notin {"encode", "ready"} => Untouched
  /\ phase \in {"load", "intern", "tables", "undefined"} => pc = "idle"
  /\ phase \in {"encode", "ready"} => TablesBuilt

\* Where, among some positions, the exposition has the pair.
Occurrences(lines, passed, pair) == {x \in passed : lines[x[1]][x[2]] = pair}

\* Labels and values are entered once and for pairs that were there, every
\* pair passed has an entry, and the metric's label, which comes first in the
\* first series, has the first.
EntriesInv ==
  /\ NamesOnce(labels)
  /\ IsFiniteSet(Passed)
  /\ labels # << >> => labels[1].name = MetricName
  /\ \A x \in Passed : \E k \in 1 .. Len(labels) : \E v \in 1 .. Len(labels[k].values) :
       Entry(labels, k, v) = At(x)
  /\ \A k \in 1 .. Len(labels) : \E x \in Passed : At(x).key = labels[k].name
  /\ \A k \in 1 .. Len(labels) : \A v \in 1 .. Len(labels[k].values) :
       LET seen == Occurrences(series_collection, Passed, Entry(labels, k, v)) IN
         seen # {} /\ labels[k].values[v].count = Cardinality(seen) % WordCount

\* Names are finitely many and fit a table.
LEMMA NamesFacts ==
  /\ MetricName \in Names /\ IsFiniteSet(Names) /\ Cardinality(Names) <= Capacity
  /\ NoExposition \notin Expositions /\ Expositions \subseteq Seq(Seq(KeyVals))
BY ExpositionAssumption

\* The lines of an exposition: lists of pairs, the first with the metric.
LEMMA LinesType ==
  ASSUME TypeOK, series_collection # NoExposition
  PROVE  /\ Len(series_collection) \in Nat
         /\ \A k \in 1 .. Len(series_collection) :
              /\ series_collection[k] \in Seq(KeyVals)
              /\ Len(series_collection[k]) \in Nat /\ Len(series_collection[k]) > 0
              /\ series_collection[k][1].key = MetricName
              /\ \A p \in 1 .. Len(series_collection[k]) : series_collection[k][p] \in KeyVals
<1>1. series_collection \in Expositions
  BY DEF TypeOK
<1>2. series_collection \in Seq(Seq(KeyVals))
  BY <1>1, NamesFacts
<1>3. \A k \in 1 .. Len(series_collection) : series_collection[k] \in Seq(KeyVals)
  BY <1>2
<1>4. \A k \in 1 .. Len(series_collection) :
        Len(series_collection[k]) > 0 /\ series_collection[k][1].key = MetricName
  BY <1>1, ExpositionAssumption
<1> QED
  BY <1>2, <1>3, <1>4

LEMMA PositionIs ==
  ASSUME TypeOK, series_collection # NoExposition
  PROVE  /\ \A k \in 1 .. Len(series_collection) : \A p \in 1 .. Len(series_collection[k]) :
              <<k, p>> \in Positions
         /\ \A x \in Positions :
              /\ x[1] \in 1 .. Len(series_collection)
              /\ x[2] \in 1 .. Len(series_collection[x[1]])
              /\ x = <<x[1], x[2]>> /\ At(x) \in KeyVals
<1>1. ASSUME NEW x \in Positions
      PROVE  /\ x[1] \in 1 .. Len(series_collection)
             /\ x[2] \in 1 .. Len(series_collection[x[1]])
             /\ x = <<x[1], x[2]>>
  BY DEF Positions
<1>2. ASSUME NEW x \in Positions
      PROVE  At(x) \in KeyVals
  BY <1>1, LinesType DEF At
<1>3. ASSUME NEW k \in 1 .. Len(series_collection), NEW p \in 1 .. Len(series_collection[k])
      PROVE  <<k, p>> \in Positions
  BY DEF Positions
<1> QED
  BY <1>1, <1>2, <1>3

\* The entries are not touched by steps that pass no position.
LEMMA EntriesStay ==
  ASSUME EntriesInv, UNCHANGED <<series_collection, labels>>, Passed' = Passed
  PROVE  EntriesInv'
<1>1. \A x : At(x)' = At(x)
  BY DEF At
<1> QED
  BY <1>1 DEF EntriesInv

\* Reading on: before the loops start nothing is passed, at the end of a
\* series nothing is, and after the loops all is.
LEMMA PassedStays ==
  ASSUME TypeOK, PhaseInv,
         \/ Loaded \/ NotLoaded \/ InternNextSeries \/ EndIntern
         \/ UNCHANGED <<series_collection, phase, i, j>>
         \/ phase \notin {"load", "intern"} /\ phase' \notin {"load", "intern"}
            /\ UNCHANGED series_collection
  PROVE  Passed' = Passed
<1>1. CASE Loaded
  <2>1. \A x \in Positions : ~(x[1] < 1 \/ (x[1] = 1 /\ x[2] < 1))
    BY <1>1, PositionIs, LinesType DEF Loaded
  <2>2. i' = 1 /\ j' = 1 /\ phase' = "intern" /\ Positions' = Positions /\ phase = "load"
    BY <1>1 DEF Loaded, PhaseInv, Positions
  <2>3. Passed = {} /\ Passed' = {}
    BY <2>1, <2>2 DEF Passed
  <2> QED
    BY <2>3
<1>2. CASE NotLoaded
  BY <1>2 DEF NotLoaded, Passed
<1>3. CASE InternNextSeries
  <2>1. /\ series_collection # NoExposition /\ phase = "intern" /\ phase' = "intern"
        /\ i' = i + 1 /\ j' = 1 /\ Positions' = Positions
        /\ series_collection' = series_collection
        /\ i \in Nat /\ j \in Nat /\ j > Len(series_collection[i])
    BY <1>3 DEF InternNextSeries, PhaseInv, Positions, TypeOK
  <2>2. ASSUME NEW x \in Positions
        PROVE  (x[1] < i \/ (x[1] = i /\ x[2] < j)) <=> (x[1] < i + 1 \/ (x[1] = i + 1 /\ x[2] < 1))
    <3>1. /\ x[1] \in Nat /\ x[2] \in Nat \ {0}
          /\ Len(series_collection[x[1]]) \in Nat /\ x[2] <= Len(series_collection[x[1]])
      BY <2>1, PositionIs, LinesType
    <3> QED
      BY <2>1, <3>1
  <2> QED
    BY <2>1, <2>2 DEF Passed
<1>4. CASE EndIntern
  <2>1. /\ series_collection # NoExposition /\ phase = "intern" /\ phase' = "tables"
        /\ Positions' = Positions /\ series_collection' = series_collection
        /\ i \in Nat /\ i > Len(series_collection)
    BY <1>4 DEF EndIntern, PhaseInv, Positions, TypeOK
  <2>2. \A x \in Positions : x[1] < i
    BY <2>1, PositionIs, LinesType
  <2> QED
    BY <2>1, <2>2 DEF Passed
<1>5. CASE UNCHANGED <<series_collection, phase, i, j>>
  BY <1>5 DEF Passed, Positions
<1>6. CASE phase \notin {"load", "intern"} /\ phase' \notin {"load", "intern"}
           /\ UNCHANGED series_collection
  <2>1. Positions' = Positions /\ series_collection' = series_collection
    BY <1>6 DEF Positions
  <2>2. phase # "load" /\ phase # "intern" /\ phase' # "load" /\ phase' # "intern"
    BY <1>6
  <2> QED
    BY <2>1, <2>2 DEF Passed
<1> QED
  BY <1>1, <1>2, <1>3, <1>4, <1>5, <1>6

\* One pair more.
LEMMA InternPairEntries ==
  ASSUME TypeOK, PhaseInv, EntriesInv, InternPair
  PROVE  EntriesInv' /\ labels' \in Seq(LabelInfos)
<1> DEFINE x0 == <<i, j>>
           Seen(e) == Occurrences(series_collection, Passed, e)
           SeenNow(e) == Occurrences(series_collection, Passed', e)
<1>1. /\ series_collection # NoExposition /\ phase = "intern" /\ phase' = "intern"
      /\ i' = i /\ j' = j + 1 /\ series_collection' = series_collection
      /\ Positions' = Positions /\ labels' = WithPair(Pair)
      /\ i \in 1 .. Len(series_collection) /\ j \in 1 .. Len(series_collection[i])
      /\ i \in Nat \ {0} /\ j \in Nat \ {0}
  BY LinesType DEF InternPair, PhaseInv, TypeOK, Positions
<1>2. x0 \in Positions /\ At(x0) = Pair /\ Pair \in KeyVals
  BY <1>1, PositionIs, LinesType DEF At, Pair
<1>3. x0 \notin Passed
  BY <1>1 DEF Passed
<1>4. Passed' = Passed \cup {x0}
  <2>1. ASSUME NEW x \in Positions
        PROVE  (x[1] < i \/ (x[1] = i /\ x[2] < j + 1))
                 <=> (x[1] < i \/ (x[1] = i /\ x[2] < j)) \/ x = x0
    <3>1. x[1] \in Nat /\ x[2] \in Nat /\ x = <<x[1], x[2]>>
      BY <1>1, PositionIs, LinesType
    <3> QED
      BY <1>1, <3>1
  <2> QED
    BY <1>1, <1>2, <2>1 DEF Passed
<1>5. IsFiniteSet(Passed')
  BY <1>4, FS_AddElement DEF EntriesInv
<1>6. \A x : At(x)' = At(x)
  BY <1>1 DEF At
<1>7. PairAdded(labels, labels', Pair)
  BY <1>1, <1>2, WithPairFacts DEF EntriesInv, TypeOK
<1>8. \A e : SeenNow(e) = IF e = Pair THEN Seen(e) \cup {x0} ELSE Seen(e)
  BY <1>2, <1>4 DEF Occurrences, At
<1>9. /\ Cardinality(SeenNow(Pair)) = Cardinality(Seen(Pair)) + 1
      /\ Cardinality(Seen(Pair)) \in Nat
  <2>1. IsFiniteSet(Seen(Pair)) /\ x0 \notin Seen(Pair)
    BY <1>3, FS_Subset DEF EntriesInv, Occurrences
  <2> QED
    BY <1>8, <2>1, FS_AddElement, FS_CardinalityType
<1>10. NamesOnce(labels') /\ labels' \in Seq(LabelInfos)
  BY <1>7 DEF PairAdded
<1>11. labels' # << >> => labels'[1].name = MetricName
  <2>1. CASE labels = << >>
    <3>1. Passed = {}
      BY <2>1 DEF EntriesInv
    <3>2. 1 \in 1 .. Len(series_collection) /\ 1 \in 1 .. Len(series_collection[1])
      BY <1>1, LinesType
    <3>3. <<1, 1>> \in Positions
      BY <1>1, <3>2, PositionIs
    <3>4. i = 1 /\ j = 1
      BY <1>1, <3>1, <3>3 DEF Passed
    <3>5. Pair.key = MetricName
      BY <1>1, <3>2, <3>4, LinesType DEF Pair
    <3> QED
      BY <1>7, <2>1, <3>5 DEF PairAdded
  <2>2. CASE labels # << >>
    <3>1. 1 \in 1 .. Len(labels)
      BY <2>2 DEF TypeOK
    <3> QED
      BY <1>7, <2>2, <3>1 DEF PairAdded, EntriesInv
  <2> QED
    BY <2>1, <2>2
<1>12. ASSUME NEW x \in Passed'
       PROVE  \E k \in 1 .. Len(labels') : \E v \in 1 .. Len(labels'[k].values) :
                Entry(labels', k, v) = At(x)
  <2>1. CASE x = x0
    BY <1>2, <1>7, <2>1 DEF PairAdded
  <2>2. CASE x \in Passed
    <3>1. PICK k \in 1 .. Len(labels) : \E v \in 1 .. Len(labels[k].values) :
                 Entry(labels, k, v) = At(x)
      BY <2>2 DEF EntriesInv
    <3>2. PICK v \in 1 .. Len(labels[k].values) : Entry(labels, k, v) = At(x)
      BY <3>1
    <3>3. k \in 1 .. Len(labels') /\ v \in 1 .. Len(labels'[k].values)
      <4>1. labels[k] \in LabelInfos /\ Len(labels) \in Nat
        BY DEF TypeOK
      <4>2. Len(labels[k].values) \in Nat
        BY <4>1 DEF LabelInfos
      <4>3. labels' \in Seq(LabelInfos) /\ Len(labels) <= Len(labels')
            /\ Len(labels[k].values) <= Len(labels'[k].values)
        BY <1>7 DEF PairAdded
      <4>4. k \in 1 .. Len(labels')
        BY <4>1, <4>3
      <4>5. labels'[k] \in LabelInfos
        BY <4>3, <4>4
      <4>6. Len(labels'[k].values) \in Nat
        BY <4>5 DEF LabelInfos
      <4> QED
        BY <4>2, <4>3, <4>4, <4>6
    <3>4. Entry(labels', k, v) = Entry(labels, k, v)
      BY <1>7 DEF PairAdded, Entry
    <3> QED
      BY <3>2, <3>3, <3>4
  <2> QED
    BY <1>4, <2>1, <2>2
<1>13. ASSUME NEW k \in 1 .. Len(labels')
       PROVE  \E x \in Passed' : At(x).key = labels'[k].name
  <2>1. CASE k \in 1 .. Len(labels)
    <3>1. PICK x \in Passed : At(x).key = labels[k].name
      BY <2>1 DEF EntriesInv
    <3> QED
      BY <1>4, <1>7, <2>1, <3>1 DEF PairAdded
  <2>2. CASE labels'[k].name = Pair.key
    BY <1>2, <1>4, <2>2
  <2> QED
    BY <1>7, <2>1, <2>2 DEF PairAdded
<1>14. ASSUME NEW k \in 1 .. Len(labels'), NEW v \in 1 .. Len(labels'[k].values)
       PROVE  /\ SeenNow(Entry(labels', k, v)) # {}
              /\ labels'[k].values[v].count =
                   Cardinality(SeenNow(Entry(labels', k, v))) % WordCount
  <2>1. CASE /\ Entry(labels', k, v) # Pair
             /\ k \in 1 .. Len(labels) /\ v \in 1 .. Len(labels[k].values)
             /\ labels'[k].values[v] = labels[k].values[v]
    <3>1. Entry(labels', k, v) = Entry(labels, k, v)
      BY <1>7, <2>1 DEF PairAdded, Entry
    <3>2. SeenNow(Entry(labels', k, v)) = Seen(Entry(labels, k, v))
      BY <1>8, <2>1, <3>1
    <3> QED
      BY <2>1, <3>2 DEF EntriesInv
  <2>2. CASE /\ Entry(labels', k, v) = Pair
             /\ k \in 1 .. Len(labels) /\ v \in 1 .. Len(labels[k].values)
             /\ labels'[k].values[v].count = (labels[k].values[v].count + 1) % WordCount
    <3>1. Entry(labels, k, v) = Pair
      BY <1>7, <2>2 DEF PairAdded, Entry
    <3>2. labels[k].values[v].count = Cardinality(Seen(Pair)) % WordCount
      BY <2>2, <3>1 DEF EntriesInv
    <3> DEFINE C == Cardinality(Seen(Pair))
    <3> HIDE DEF C
    <3>3. C \in Nat /\ Cardinality(SeenNow(Pair)) = C + 1
      BY <1>9 DEF C
    <3>4. labels'[k].values[v].count = (C + 1) % WordCount
      BY <2>2, <3>2, <3>3, WordCountType DEF C
    <3> QED
      BY <1>8, <2>2, <3>3, <3>4
  <2>3. CASE /\ Entry(labels', k, v) = Pair
             /\ \A l \in 1 .. Len(labels) : \A w \in 1 .. Len(labels[l].values) :
                  Entry(labels, l, w) # Pair
             /\ labels'[k].values[v].count = 1 % WordCount
    <3>1. Seen(Pair) = {}
      BY <2>3 DEF EntriesInv, Occurrences, At
    <3>2. Cardinality(SeenNow(Pair)) = 1
      BY <1>9, <3>1, FS_EmptySet
    <3> QED
      BY <1>8, <2>3, <3>2
  <2> QED
    BY <1>7, <2>1, <2>2, <2>3 DEF PairAdded
<1> QED
  BY <1>1, <1>5, <1>6, <1>10, <1>11, <1>12, <1>13, <1>14 DEF EntriesInv

CacheInv == TypeOK /\ PhaseInv /\ EntriesInv

NoRepeat(names) == \A k, l \in 1 .. Len(names) : names[k] = names[l] => k = l

\* The id tables, before and after they are built.
LEMMA TableFacts ==
  ASSUME CacheInv
  PROVE  /\ label_names \in Seq(Names) /\ Len(label_names) \in Nat
         /\ Len(value_names) = Len(label_names)
         /\ NoRepeat(label_names) /\ Len(label_names) <= Capacity
         /\ \A k \in 1 .. Len(label_names) :
              /\ value_names[k] \in Seq(Names) /\ Len(value_names[k]) \in Nat
              /\ NoRepeat(value_names[k]) /\ Len(value_names[k]) <= Capacity
<1> TypeOK /\ PhaseInv /\ EntriesInv
  BY DEF CacheInv
<1>0. label_names \in Seq(Names) /\ value_names \in Seq(Seq(Names)) /\ Len(label_names) \in Nat
      /\ \A k \in 1 .. Len(value_names) :
           value_names[k] \in Seq(Names) /\ Len(value_names[k]) \in Nat
  BY DEF TypeOK
<1>1. /\ Len(value_names) = Len(label_names) /\ NoRepeat(label_names)
      /\ \A k \in 1 .. Len(label_names) : NoRepeat(value_names[k])
  <2>1. CASE phase \in {"encode", "ready"}
    <3>1. TablesBuilt
      BY <2>1 DEF PhaseInv
    <3>2. Len(labels) \in Nat /\ \A k \in 1 .. Len(labels) : Len(labels[k].values) \in Nat
      <4>1. \A k \in 1 .. Len(labels) : labels[k] \in LabelInfos
        BY DEF TypeOK
      <4> QED
        BY <4>1 DEF TypeOK, LabelInfos
    <3>3. /\ Len(label_names) = Len(labels) /\ Len(value_names) = Len(labels)
          /\ \A k \in 1 .. Len(labels) :
               /\ label_names[k] = labels[k].name
               /\ Len(value_names[k]) = Len(labels[k].values)
               /\ \A v \in 1 .. Len(labels[k].values) :
                    value_names[k][v] = labels[k].values[v].name
      BY <3>1, <3>2 DEF TablesBuilt
    <3>4. NoRepeat(label_names)
      BY <3>2, <3>3 DEF EntriesInv, NamesOnce, Once, NoRepeat
    <3>5. ASSUME NEW k \in 1 .. Len(label_names)
          PROVE  NoRepeat(value_names[k])
      <4>1. Once(labels[k].values)
        BY <3>3, <3>5 DEF EntriesInv, NamesOnce
      <4> QED
        BY SMTT(30), <3>2, <3>3, <4>1 DEF Once, NoRepeat
    <3> QED
      BY <3>3, <3>4, <3>5
  <2>2. CASE phase \notin {"encode", "ready"}
    BY <2>2 DEF PhaseInv, Untouched, NoRepeat
  <2> QED
    BY <2>1, <2>2
<1>2. Len(label_names) <= Capacity
  <2>1. Len(label_names) <= Cardinality(Names)
    BY <1>0, <1>1, NamesFacts, NoRepeatBound DEF NoRepeat
  <2> QED
    BY <1>0, <2>1, NamesFacts, IdsApart, FS_CardinalityType
<1>3. ASSUME NEW k \in 1 .. Len(label_names)
      PROVE  Len(value_names[k]) <= Capacity
  <2>1. value_names[k] \in Seq(Names) /\ NoRepeat(value_names[k])
    BY <1>0, <1>1
  <2> DEFINE V == value_names[k]
  <2> HIDE DEF V
  <2>2. Len(V) <= Cardinality(Names)
    BY <2>1, NamesFacts, NoRepeatBound DEF NoRepeat, V
  <2> QED
    BY <1>0, <1>1, <2>2, NamesFacts, IdsApart, FS_CardinalityType DEF V
<1> QED
  BY <1>0, <1>1, <1>2, <1>3

-----------------------------------------------------------------------------
(* Start-up up to the tables.                                              *)

LEMMA InitCache == Init => CacheInv
<1> SUFFICES ASSUME Init PROVE CacheInv
  OBVIOUS
<1>1. TypeOK
  BY WordAssumption DEF Init, TypeOK, Phases, Ids
<1>2. PhaseInv
  <2>1. series_collection = NoExposition => phase = "load"
    BY DEF Init
  <2> QED
    BY <2>1 DEF Init, PhaseInv, Untouched
<1>3. EntriesInv
  <2>1. Passed = {} /\ labels = << >>
    BY DEF Init, Passed
  <2> QED
    BY <2>1, FS_EmptySet DEF EntriesInv, NamesOnce, Once
<1> QED
  BY <1>1, <1>2, <1>3 DEF CacheInv

InternStep == Loaded \/ NotLoaded \/ InternPair \/ InternNextSeries \/ EndIntern

LEMMA InternKeeps ==
  ASSUME CacheInv, InternStep
  PROVE  CacheInv'
<1> TypeOK /\ PhaseInv /\ EntriesInv
  BY DEF CacheInv
<1>1. /\ UNCHANGED <<encVars, series_collection, all_series>>
      /\ phase \in {"load", "intern"} /\ phase' \in {"intern", "undefined", "tables"}
      /\ i' \in Nat \ {0} /\ j' \in Nat \ {0}
  BY SMTT(30) DEF InternStep, Loaded, NotLoaded, InternPair, InternNextSeries, EndIntern, TypeOK
<1>2. EntriesInv' /\ labels' \in Seq(LabelInfos)
  <2>1. CASE InternPair
    BY <2>1, InternPairEntries
  <2>2. CASE Loaded \/ NotLoaded \/ InternNextSeries \/ EndIntern
    <3>1. Passed' = Passed
      BY <2>2, PassedStays
    <3>2. UNCHANGED <<series_collection, labels>>
      BY <2>2 DEF Loaded, NotLoaded, InternNextSeries, EndIntern
    <3> QED
      BY <3>1, <3>2, EntriesStay DEF TypeOK
  <2> QED
    BY <2>1, <2>2 DEF InternStep
<1>3. TypeOK'
  BY <1>1, <1>2 DEF TypeOK, Phases, encVars, tables
<1>4. PhaseInv'
  <2>1. Untouched' /\ pc' = "idle"
    BY <1>1 DEF PhaseInv, Untouched, encVars, tables
  <2>2. series_collection' = NoExposition => phase' = "undefined"
    BY <1>1 DEF InternStep, Loaded, NotLoaded, InternPair, InternNextSeries, EndIntern, PhaseInv
  <2>3. phase' = "undefined" => labels' = << >>
    BY <1>1 DEF InternStep, Loaded, NotLoaded, InternPair, InternNextSeries, EndIntern, PhaseInv
  <2> QED
    BY <1>1, <2>1, <2>2, <2>3 DEF PhaseInv
<1> QED
  BY <1>2, <1>3, <1>4 DEF CacheInv

LEMMA TablesKeep ==
  ASSUME CacheInv, BuildTables \/ HashFails
  PROVE  CacheInv'
<1> TypeOK /\ PhaseInv /\ EntriesInv
  BY DEF CacheInv
<1>1. /\ UNCHANGED <<pc, kvps, n, metric, kvs, m, series_collection, i, j, labels, all_series>>
      /\ phase = "tables" /\ phase' \in {"encode", "conf_error"}
  BY DEF BuildTables, HashFails, encVars, spec
<1>2. EntriesInv'
  <2>1. Passed' = Passed
    BY <1>1, PassedStays
  <2> QED
    BY <1>1, <2>1, EntriesStay
<1>3. CASE BuildTables
  <2>1. TablesBuilt' /\ phase' = "encode"
    BY <1>3 DEF BuildTables, TablesBuilt
  <2>2. \A k \in 1 .. Len(labels) :
          /\ labels[k].name \in Names /\ Len(labels[k].values) \in Nat
          /\ \A v \in 1 .. Len(labels[k].values) : labels[k].values[v].name \in Names
    <3> TAKE k \in 1 .. Len(labels)
    <3>1. labels[k] \in LabelInfos
      BY DEF TypeOK
    <3>2. labels[k].values \in Seq(ValueInfos)
      BY <3>1 DEF LabelInfos
    <3>3. \A v \in 1 .. Len(labels[k].values) : labels[k].values[v] \in ValueInfos
      BY <3>2
    <3> QED
      BY SMTT(30), <3>1, <3>2, <3>3 DEF LabelInfos, ValueInfos
  <2>3. label_names' \in Seq(Names)
    <3>1. Len(labels) \in Nat
      BY DEF TypeOK
    <3> QED
      BY <1>3, <2>2, <3>1 DEF BuildTables
  <2>4. value_names' \in Seq(Seq(Names))
    <3>1. \A k \in 1 .. Len(labels) :
            [v \in 1 .. Len(labels[k].values) |-> labels[k].values[v].name] \in Seq(Names)
      BY <2>2
    <3> QED
      BY <1>3, <3>1 DEF BuildTables, TypeOK
  <2>5. TypeOK'
    BY <1>1, <2>1, <2>3, <2>4 DEF TypeOK, Phases
  <2>6. PhaseInv'
    BY <1>1, <2>1 DEF PhaseInv
  <2> QED
    BY <1>2, <2>5, <2>6 DEF CacheInv
<1>4. CASE HashFails
  <2>1. /\ phase' = "conf_error" /\ UNCHANGED <<label_names, value_names>>
    BY <1>4 DEF HashFails, encVars, tables
  <2>2. TypeOK'
    BY <1>1, <2>1 DEF TypeOK, Phases
  <2>3. PhaseInv'
    BY <1>1, <2>1 DEF PhaseInv, Untouched
  <2> QED
    BY <1>2, <2>2, <2>3 DEF CacheInv
<1> QED
  BY <1>3, <1>4

-----------------------------------------------------------------------------
(* The encoding of a list of pairs.                                        *)

\* The lookups are words, a label id of 0 is a known one, and no lookup gives
\* "metric not specified".
LEMMA IdFacts ==
  ASSUME CacheInv, NEW pair
  PROVE  /\ Id(pair).label = LabelId(label_names, pair.key)
         /\ Id(pair).label \in Ids
         /\ Known(pair) => Id(pair) \in Pairs /\ Id(pair).value # UINT32_MAX
         /\ IsMetric(pair) => Known(pair)
<1>1. /\ LabelId(label_names, pair.key) \in Ids
      /\ LabelId(label_names, pair.key) < Len(label_names)
           <=> Hits(label_names, pair.key) # {}
      /\ Hits(label_names, pair.key) = {} => LabelId(label_names, pair.key) = NotFound
  BY TableFacts, LookupCases
<1>2. ASSUME Known(pair)
      PROVE  ValueId(value_names, LabelId(label_names, pair.key), pair.value) \in Ids \ {UINT32_MAX}
  <2> DEFINE id == LabelId(label_names, pair.key)
  <2>1. id + 1 \in 1 .. Len(label_names)
    BY <1>1, <1>2, TableFacts, WordAssumption DEF Known, Ids
  <2>2. /\ LabelId(value_names[id + 1], pair.value) \in Ids
        /\ LabelId(value_names[id + 1], pair.value) # UINT32_MAX
    BY <2>1, TableFacts, LookupCases
  <2> QED
    BY <2>2, ValueIsLookup
<1>3. ASSUME IsMetric(pair)
      PROVE  Known(pair)
  <2>1. LabelId(label_names, pair.key) = 0
    BY <1>3 DEF IsMetric, Id, metric_label_id
  <2>2. LabelId(label_names, pair.key) # NotFound
    BY <2>1, IdsApart DEF Ids
  <2> QED
    BY <1>1, <2>2, TableFacts DEF Known
<1>4. /\ Id(pair).label = LabelId(label_names, pair.key)
      /\ Id(pair).value = ValueId(value_names, LabelId(label_names, pair.key), pair.value)
  BY DEF Id
<1>5. Known(pair) => Id(pair) \in Pairs
  BY <1>1, <1>2 DEF Id, Pairs
<1> QED
  BY <1>1, <1>2, <1>3, <1>4, <1>5

\* What the array holds so far: pos says which of the pairs read stands at
\* which place of the array.  The first m places are in label order.
Placing(pos) ==
  /\ pos \in [1 .. Len(kvs) -> Nat]
  /\ \A x \in 1 .. Len(kvs) : pos[x] \in 1 .. n - 1 /\ ~IsMetric(kvps[pos[x]])
  /\ \A x, y \in 1 .. Len(kvs) : pos[x] = pos[y] => x = y
  /\ \A k \in 1 .. n - 1 : ~IsMetric(kvps[k]) => \E x \in 1 .. Len(kvs) : pos[x] = k
  /\ \A x \in 1 .. Len(kvs) :
       /\ kvs[x].label = Id(kvps[pos[x]]).label
       /\ Known(kvps[pos[x]]) => kvs[x] = Id(kvps[pos[x]])
  /\ \A x, y \in 1 .. Len(kvs) :
       x < y => IF y <= m THEN Precedes(kvps, pos[x], pos[y]) ELSE pos[x] < pos[y]

\* The word of the metric so far: the last metric's among the pairs read.
MetricRead ==
  \/ metric = UINT32_MAX /\ \A k \in 1 .. n - 1 : ~IsMetric(kvps[k])
  \/ \E k \in 1 .. n - 1 :
       /\ IsMetric(kvps[k]) /\ metric = Id(kvps[k]).value
       /\ \A l \in 1 .. n - 1 : IsMetric(kvps[l]) => l <= k

EncInv ==
  /\ n <= Len(kvps) + 1
  /\ pc = "lookup" => m = 1
  /\ pc \in {"sort", "done"} => n = Len(kvps) + 1
  /\ pc = "done" => m >= Len(kvs)
  /\ MetricRead
  /\ \E pos : Placing(pos)

\* Nothing is read and the array is empty.
LEMMA CallEncodes ==
  ASSUME kvps \in Seq(KeyVals), n = 1, m = 1, metric = UINT32_MAX, kvs = << >>,
         pc \in {"idle", "lookup", "crash"}
  PROVE  EncInv
<1>1. MetricRead
  BY DEF MetricRead
<1>2. Placing([x \in 1 .. 0 |-> 0])
  <2>1. Len(kvs) = 0
    OBVIOUS
  <2> QED
    BY <2>1 DEF Placing
<1>3. Len(kvps) \in Nat
  OBVIOUS
<1> QED
  BY <1>1, <1>2, <1>3 DEF EncInv

\* Steps that leave the array and what it was made from alone.
LEMMA EncodeStays ==
  ASSUME EncInv, UNCHANGED <<tables, kvps, n, metric, kvs, m>>,
         pc' = "lookup" => m = 1,
         pc' \in {"sort", "done"} => n = Len(kvps) + 1,
         pc' = "done" => m >= Len(kvs)
  PROVE  EncInv'
<1>1. UNCHANGED <<label_names, value_names, kvps, n, metric, kvs, m>>
  BY DEF tables
<1>2. \A pair : /\ Id(pair)' = Id(pair) /\ IsMetric(pair)' = IsMetric(pair)
                /\ Known(pair)' = Known(pair)
  BY <1>1 DEF Id, IsMetric, Known
<1>3. \A l, k : Precedes(kvps, l, k)' = Precedes(kvps, l, k)
  BY <1>1, <1>2 DEF Precedes
<1>4. MetricRead'
  BY <1>1, <1>2 DEF EncInv, MetricRead
<1>5. \A pos : Placing(pos) => Placing(pos)'
  BY <1>1, <1>2, <1>3 DEF Placing
<1> QED
  BY <1>1, <1>4, <1>5 DEF EncInv

\* What the value lookup may return.
LEMMA ValueIdsAre ==
  ASSUME CacheInv, pc = "lookup", n \in 1 .. Len(kvps)
  PROVE  /\ kvps[n] \in KeyVals /\ lid = Id(kvps[n]).label
         /\ KnownLabel <=> Known(kvps[n])
         /\ KnownLabel => ValueIds = {Id(kvps[n]).value}
         /\ ValueIds \subseteq Ids /\ lid \in Ids
<1> TypeOK
  BY DEF CacheInv
<1>1. kvps[n] \in KeyVals
  BY DEF TypeOK
<1>2. lid = Id(kvps[n]).label /\ (KnownLabel <=> Known(kvps[n]))
  BY DEF lid, Id, KnownLabel, Known
<1>3. ASSUME KnownLabel
      PROVE  ValueIds = {Id(kvps[n]).value} /\ ValueIds \subseteq Ids
  <2>1. ValueIds = {Id(kvps[n]).value}
    BY <1>3 DEF ValueIds, Id, lid
  <2>2. Id(kvps[n]) \in Pairs
    BY <1>2, <1>3, IdFacts
  <2> QED
    BY <2>1, <2>2 DEF Pairs
<1>4. ~KnownLabel => ValueIds = Ids
  BY DEF ValueIds
<1>5. lid \in Ids
  BY <1>2, IdFacts
<1> QED
  BY <1>1, <1>2, <1>3, <1>4, <1>5

\* The steps of the encoding, as far as the tables and the argument go.
LEMMA TablesStay ==
  ASSUME Encode
  PROVE  /\ UNCHANGED <<label_names, value_names, kvps>>
         /\ \A pair : /\ Id(pair)' = Id(pair) /\ IsMetric(pair)' = IsMetric(pair)
                      /\ Known(pair)' = Known(pair)
         /\ \A l, k : Precedes(kvps, l, k)' = Precedes(kvps, l, k)
<1>1. UNCHANGED <<label_names, value_names, kvps>>
  BY DEF Encode, LookupMetric, LookupLabel, LookupCrash, BeginSort, SortStep, EndSort, tables
<1>2. \A pair : /\ Id(pair)' = Id(pair) /\ IsMetric(pair)' = IsMetric(pair)
                /\ Known(pair)' = Known(pair)
  BY <1>1 DEF Id, IsMetric, Known
<1>3. \A l, k : Precedes(kvps, l, k)' = Precedes(kvps, l, k)
  BY <1>1, <1>2 DEF Precedes
<1> QED
  BY <1>1, <1>2, <1>3

\* A metric: the last one read counts, and the array stays.
LEMMA LookupMetricEncodes ==
  ASSUME CacheInv, EncInv, LookupMetric
  PROVE  EncInv' /\ metric' \in Ids
<1> TypeOK
  BY DEF CacheInv
<1>1. /\ n \in 1 .. Len(kvps) /\ n \in Nat /\ Len(kvps) \in Nat /\ n' = n + 1
      /\ pc = "lookup" /\ pc' = "lookup" /\ kvs' = kvs /\ m' = m
      /\ metric' \in ValueIds /\ lid = 0
  BY DEF LookupMetric, TypeOK, metric_label_id
<1>2. kvps' = kvps /\ Encode
  BY DEF LookupMetric, Encode
<1>3. IsMetric(kvps[n]) /\ metric' = Id(kvps[n]).value /\ metric' \in Ids
  <2>1. IsMetric(kvps[n])
    BY <1>1, ValueIdsAre DEF IsMetric, metric_label_id
  <2> QED
    BY <1>1, <2>1, ValueIdsAre, IdFacts
<1>4. MetricRead'
  <2>1. n \in 1 .. n' - 1 /\ \A l \in 1 .. n' - 1 : l <= n
    BY <1>1
  <2> QED
    BY <1>2, <1>3, <2>1, TablesStay DEF MetricRead
<1>5. PICK pos : Placing(pos)
  BY DEF EncInv
<1>6. Placing(pos)'
  <2>1. \A k \in 1 .. n' - 1 : k \in 1 .. n - 1 \/ k = n
    BY <1>1
  <2>2. \A k \in 1 .. n - 1 : k \in 1 .. n' - 1
    BY <1>1
  <2> QED
    BY <1>1, <1>2, <1>3, <1>5, <2>1, <2>2, TablesStay DEF Placing
<1>7. n' <= Len(kvps') + 1 /\ m' = 1
  BY <1>1, <1>2 DEF EncInv
<1> QED
  BY <1>1, <1>3, <1>4, <1>6, <1>7 DEF EncInv

\* Another label: its pair takes the next place.
LEMMA LookupLabelEncodes ==
  ASSUME CacheInv, EncInv, LookupLabel
  PROVE  EncInv' /\ kvs' \in Seq(Pairs)
<1> TypeOK
  BY DEF CacheInv
<1>1. /\ n \in 1 .. Len(kvps) /\ n \in Nat /\ Len(kvps) \in Nat /\ n' = n + 1
      /\ pc = "lookup" /\ pc' = "lookup" /\ metric' = metric /\ m' = m
      /\ lid # metric_label_id
  BY DEF LookupLabel, TypeOK
<1>2. kvps' = kvps /\ Encode
  BY DEF LookupLabel, Encode
<1>3. PICK v \in ValueIds : kvs' = Append(kvs, [label |-> lid, value |-> v])
  BY DEF LookupLabel
<1>4. /\ lid = Id(kvps[n]).label /\ ~IsMetric(kvps[n])
      /\ Known(kvps[n]) => [label |-> lid, value |-> v] = Id(kvps[n])
      /\ [label |-> lid, value |-> v] \in Pairs
  <2>1. Id(kvps[n]) = [label |-> Id(kvps[n]).label, value |-> Id(kvps[n]).value]
    BY DEF Id
  <2> QED
    BY <1>1, <1>3, <2>1, ValueIdsAre DEF IsMetric, Pairs
<1> DEFINE new == [label |-> lid, value |-> v]
<1>5. new.label = lid
  OBVIOUS
<1> HIDE DEF new
<1>6. /\ kvs' \in Seq(Pairs) /\ Len(kvs) \in Nat /\ Len(kvs') = Len(kvs) + 1
      /\ \A x \in 1 .. Len(kvs) : kvs'[x] = kvs[x]
      /\ kvs'[Len(kvs) + 1] = new
  <2>1. kvs \in Seq(Pairs) /\ new \in Pairs
    BY <1>4 DEF TypeOK, new
  <2> QED
    BY <1>3, <2>1, AppendFacts DEF new
<1>7. MetricRead'
  <2>1. \A k \in 1 .. n' - 1 : k \in 1 .. n - 1 \/ k = n
    BY <1>1
  <2>2. \A k \in 1 .. n - 1 : k \in 1 .. n' - 1
    BY <1>1
  <2> QED
    BY <1>1, <1>2, <1>4, <2>1, <2>2, TablesStay DEF EncInv, MetricRead
<1>8. PICK pos : Placing(pos)
  BY DEF EncInv
<1>11. PICK at : at = [x \in 1 .. Len(kvs) + 1 |-> IF x = Len(kvs) + 1 THEN n ELSE pos[x]]
  OBVIOUS
<1>9. Placing(at)'
  <2>1. \A x \in 1 .. Len(kvs) : pos[x] \in 1 .. n - 1 /\ at[x] = pos[x]
    BY <1>6, <1>8, <1>11 DEF Placing
  <2>2. at[Len(kvs) + 1] = n /\ at \in [1 .. Len(kvs) + 1 -> Nat]
    <3>1. Len(kvs) + 1 \in 1 .. Len(kvs) + 1
      BY <1>6
    <3>2. \A x \in 1 .. Len(kvs) + 1 : x # Len(kvs) + 1 => pos[x] \in Nat
      BY <1>6, <1>8 DEF Placing
    <3> QED
      BY <1>1, <1>11, <3>1, <3>2
  <2>3. \A x \in 1 .. Len(kvs) + 1 : x \in 1 .. Len(kvs) \/ x = Len(kvs) + 1
    BY <1>6
  <2>4. \A x \in 1 .. Len(kvs) + 1 : at[x] \in 1 .. n' - 1 /\ ~IsMetric(kvps[at[x]])
    BY SMTT(30), <1>1, <1>4, <1>8, <2>1, <2>2, <2>3 DEF Placing
  <2>5. \A x, y \in 1 .. Len(kvs) + 1 : at[x] = at[y] => x = y
    BY <1>1, <1>8, <2>1, <2>2, <2>3 DEF Placing
  <2>6. \A k \in 1 .. n' - 1 : ~IsMetric(kvps[k]) => \E x \in 1 .. Len(kvs) + 1 : at[x] = k
    <3> SUFFICES ASSUME NEW k \in 1 .. n' - 1, ~IsMetric(kvps[k])
                 PROVE  \E x \in 1 .. Len(kvs) + 1 : at[x] = k
      OBVIOUS
    <3>1. CASE k \in 1 .. n - 1
      <4>1. PICK x \in 1 .. Len(kvs) : pos[x] = k
        BY <1>8, <3>1 DEF Placing
      <4> QED
        BY <1>6, <2>1, <4>1
    <3>2. CASE k = n
      BY <1>6, <2>2, <3>2
    <3> QED
      BY <1>1, <3>1, <3>2
  <2>7. \A x \in 1 .. Len(kvs) + 1 :
          /\ kvs'[x].label = Id(kvps[at[x]]).label
          /\ Known(kvps[at[x]]) => kvs'[x] = Id(kvps[at[x]])
    <3> TAKE x \in 1 .. Len(kvs) + 1
    <3>1. CASE x \in 1 .. Len(kvs)
      BY <1>6, <1>8, <2>1, <3>1 DEF Placing
    <3>2. CASE x = Len(kvs) + 1
      BY <1>4, <1>5, <1>6, <2>2, <3>2 DEF new
    <3> QED
      BY <2>3, <3>1, <3>2
  <2>8. m = 1
    BY <1>1 DEF EncInv
  <2>9. \A x, y \in 1 .. Len(kvs) + 1 :
          x < y => IF y <= m THEN Precedes(kvps, at[x], at[y]) ELSE at[x] < at[y]
    <3> SUFFICES ASSUME NEW x \in 1 .. Len(kvs) + 1, NEW y \in 1 .. Len(kvs) + 1, x < y
                 PROVE  ~(y <= 1) /\ at[x] < at[y]
      BY <2>8
    <3>1. CASE y \in 1 .. Len(kvs)
      BY <1>8, <2>1, <2>3, <2>8, <3>1 DEF Placing
    <3>2. CASE y = Len(kvs) + 1
      <4>1. x \in 1 .. Len(kvs)
        BY <1>6, <3>2
      <4> QED
        BY <1>1, <2>1, <2>2, <3>2, <4>1
    <3> QED
      BY <2>3, <3>1, <3>2
  <2> QED
    BY SMTT(30), <1>1, <1>2, <1>6, <2>2, <2>4, <2>5, <2>6, <2>7, <2>9, TablesStay DEF Placing
<1>10. n' <= Len(kvps') + 1 /\ m' = 1
  BY <1>1, <1>2 DEF EncInv
<1> QED
  BY <1>1, <1>6, <1>7, <1>9, <1>10 DEF EncInv

\* One more pair is moved to its place; the pairs keep their order where their
\* labels agree.
LEMMA SortStepEncodes ==
  ASSUME CacheInv, EncInv, SortStep
  PROVE  EncInv' /\ kvs' \in Seq(Pairs) /\ m' \in Nat \ {0}
<1> TypeOK
  BY DEF CacheInv
<1>1. /\ m \in Nat \ {0} /\ Len(kvs) \in Nat /\ m < Len(kvs) /\ m' = m + 1
      /\ n \in Nat \ {0} /\ n' = n /\ metric' = metric /\ pc' = "sort"
      /\ n = Len(kvps) + 1 /\ kvps' = kvps
      /\ \A x \in 1 .. Len(kvs) : kvs[x] \in Pairs /\ kvs[x].label \in Nat
  <2>1. \A x \in 1 .. Len(kvs) : kvs[x] \in Pairs
    BY DEF TypeOK
  <2>2. \A x \in 1 .. Len(kvs) : kvs[x].label \in Ids
    BY <2>1 DEF Pairs
  <2> QED
    BY <2>1, <2>2, WordAssumption DEF SortStep, TypeOK, EncInv, Ids
<1>2. PICK q \in 1 .. m + 1 : InsertAt(q)
  BY DEF SortStep
<1>3. q \in Nat \ {0} /\ q <= m + 1
  BY <1>1
<1>4. Encode
  BY DEF Encode
<1>5. PICK pos : Placing(pos)
  BY DEF EncInv
\* From the new places to the old ones, and back.
<1>6. PICK old : old = [x \in 1 .. Len(kvs) |->
                         IF x < q \/ x > m + 1 THEN x ELSE IF x = q THEN m + 1 ELSE x - 1]
  OBVIOUS
<1>7. PICK new : new = [x \in 1 .. Len(kvs) |->
                         IF x < q \/ x > m + 1 THEN x ELSE IF x = m + 1 THEN q ELSE x + 1]
  OBVIOUS
<1>8. \A x \in 1 .. Len(kvs) :
        /\ x < q \/ x > m + 1 => old[x] = x
        /\ x = q => old[x] = m + 1
        /\ q < x /\ x <= m + 1 => old[x] = x - 1
        /\ old[x] \in 1 .. Len(kvs)
  BY <1>1, <1>3, <1>6
<1>9. \A x \in 1 .. Len(kvs) :
        /\ x < q \/ x > m + 1 => new[x] = x
        /\ x = m + 1 => new[x] = q
        /\ q <= x /\ x < m + 1 => new[x] = x + 1
        /\ new[x] \in 1 .. Len(kvs)
  BY <1>1, <1>3, <1>7
<1>10. \A x \in 1 .. Len(kvs) : old[new[x]] = x /\ new[old[x]] = x
  <2> TAKE x \in 1 .. Len(kvs)
  <2>1. CASE x < q \/ x > m + 1
    BY <1>1, <1>3, <1>8, <1>9, <2>1
  <2>2. CASE x = q
    <3>1. CASE q = m + 1
      BY <1>1, <1>3, <1>8, <1>9, <2>2, <3>1
    <3>2. CASE q < m + 1
      BY <1>1, <1>3, <1>8, <1>9, <2>2, <3>2
    <3> QED
      BY <1>1, <1>3, <3>1, <3>2
  <2>3. CASE q < x /\ x <= m + 1
    <3>1. old[x] = x - 1 /\ q <= x - 1 /\ x - 1 < m + 1 /\ x - 1 \in 1 .. Len(kvs)
      BY <1>1, <1>3, <1>8, <2>3
    <3>2. new[x - 1] = x
      BY <1>1, <1>3, <1>9, <3>1
    <3>3. CASE x = m + 1
      BY <1>1, <1>3, <1>8, <1>9, <2>3, <3>1, <3>2, <3>3
    <3>4. CASE x < m + 1
      <4>0. q <= x /\ x < m + 1 /\ x + 1 <= m + 1 /\ q < x + 1
        BY <1>1, <1>3, <2>3, <3>4
      <4>1. new[x] = x + 1 /\ x + 1 <= m + 1 /\ q < x + 1
        BY <1>9, <4>0
      <4>2. x + 1 \in 1 .. Len(kvs) /\ x + 1 - 1 = x
        BY <1>1, <3>4
      <4>3. old[x + 1] = x
        BY <1>8, <4>1, <4>2
      <4> QED
        BY <3>1, <3>2, <4>1, <4>3
    <3> QED
      BY <1>1, <2>3, <3>3, <3>4
  <2> QED
    BY <1>1, <1>3, <2>1, <2>2, <2>3
<1>11. kvs' = [x \in 1 .. Len(kvs) |-> kvs[old[x]]]
  <2>1. kvs' = [x \in 1 .. Len(kvs) |->
                  IF x < q \/ x > m + 1 THEN kvs[x]
                  ELSE IF x = q THEN kvs[m + 1] ELSE kvs[x - 1]]
    BY <1>2 DEF InsertAt
  <2> QED
    BY <1>1, <1>3, <1>8, <2>1
<1>12. /\ kvs' \in Seq(Pairs) /\ Len(kvs') = Len(kvs)
       /\ \A x \in 1 .. Len(kvs) : kvs'[x] = kvs[old[x]]
  <2>1. \A x \in 1 .. Len(kvs) : kvs[old[x]] \in Pairs
    BY <1>1, <1>8
  <2> QED
    BY <1>1, <1>11, <2>1
<1>13. PICK at : at = [x \in 1 .. Len(kvs) |-> pos[old[x]]]
  OBVIOUS
<1>14. \A x \in 1 .. Len(kvs) : at[x] = pos[old[x]] /\ at[x] \in 1 .. n - 1 /\ at[x] \in Nat
  BY <1>1, <1>5, <1>8, <1>13 DEF Placing
<1>15. \A x, y \in 1 .. Len(kvs) : at[x] = at[y] => x = y
  <2> SUFFICES ASSUME NEW x \in 1 .. Len(kvs), NEW y \in 1 .. Len(kvs), at[x] = at[y]
               PROVE  x = y
    OBVIOUS
  <2>1. old[x] = old[y]
    BY <1>5, <1>8, <1>14 DEF Placing
  <2> QED
    BY <1>10, <2>1
<1>16. \A k \in 1 .. n - 1 : ~IsMetric(kvps[k]) => \E x \in 1 .. Len(kvs) : at[x] = k
  <2> SUFFICES ASSUME NEW k \in 1 .. n - 1, ~IsMetric(kvps[k])
               PROVE  \E x \in 1 .. Len(kvs) : at[x] = k
    OBVIOUS
  <2>1. PICK y \in 1 .. Len(kvs) : pos[y] = k
    BY <1>5 DEF Placing
  <2> QED
    BY <1>9, <1>10, <1>14, <2>1
<1>17. \A x, y \in 1 .. Len(kvs) :
         x < y => IF y <= m' THEN Precedes(kvps, at[x], at[y]) ELSE at[x] < at[y]
  <2> SUFFICES ASSUME NEW x \in 1 .. Len(kvs), NEW y \in 1 .. Len(kvs), x < y
               PROVE  IF y <= m + 1 THEN Precedes(kvps, at[x], at[y]) ELSE at[x] < at[y]
    BY <1>1
  <2> DEFINE a == old[x]
             b == old[y]
  <2>0. a \in 1 .. Len(kvs) /\ b \in 1 .. Len(kvs) /\ at[x] = pos[a] /\ at[y] = pos[b]
    BY <1>8, <1>14
  <2>1. CASE y > m + 1
    <3>1. b = y /\ a < b
      <4>1. b = y
        BY <1>8, <2>1
      <4>2. (x < q \/ x > m + 1) => a = x
        BY <1>8
      <4>3. x = q => a = m + 1
        BY <1>8
      <4>4. q < x /\ x <= m + 1 => a = x - 1
        BY <1>8
      <4> QED
        BY <1>1, <1>3, <2>1, <4>1, <4>2, <4>3, <4>4
    <3>2. ~(b <= m) /\ ~(y <= m + 1)
      BY <1>1, <2>1, <3>1
    <3> QED
      BY <1>5, <2>0, <3>1, <3>2 DEF Placing
  <2>2. CASE y <= m + 1 /\ x # q /\ y # q
    <3>1. ASSUME y < q
          PROVE  a < b /\ b <= m
      <4>1. a = x /\ b = y
        BY <1>3, <1>8, <3>1
      <4> QED
        BY <1>1, <1>3, <2>2, <3>1, <4>1
    <3>2. ASSUME y > q
          PROVE  a < b /\ b <= m
      <4>1. b = y - 1
        BY <1>8, <2>2, <3>2
      <4>2. (x < q => a = x) /\ (x > q => a = x - 1)
        BY <1>1, <1>3, <1>8, <2>2
      <4>3. x < q \/ x > q
        BY <1>3, <2>2
      <4> QED
        BY <1>1, <1>3, <2>2, <3>2, <4>1, <4>2, <4>3
    <3>3. y < q \/ y > q
      BY <1>3, <2>2
    <3>4. a < b /\ b <= m
      BY <3>1, <3>2, <3>3
    <3> QED
      BY <1>5, <2>0, <2>2, <3>4 DEF Placing
  <2>3. CASE y = q
    <3>1. a = x /\ a <= m /\ b = m + 1 /\ a \in 1 .. q - 1
      BY <1>1, <1>3, <1>8, <2>3
    <3>2. kvs[a].label <= kvs[b].label
      BY <1>2, <3>1 DEF InsertAt
    <3>3. pos[a] < pos[b]
      BY <1>1, <1>5, <2>0, <3>1 DEF Placing
    <3>4. Id(kvps[pos[a]]).label = kvs[a].label /\ Id(kvps[pos[b]]).label = kvs[b].label
      BY <1>5, <2>0 DEF Placing
    <3>5. kvs[a].label \in Nat /\ kvs[b].label \in Nat
      BY <1>1, <2>0
    <3>6. Precedes(kvps, pos[a], pos[b])
      BY <3>2, <3>3, <3>4, <3>5 DEF Precedes
    <3> QED
      BY <1>3, <2>0, <2>3, <3>6
  <2>4. CASE x = q /\ y <= m + 1
    <3>1. a = m + 1 /\ b = y - 1 /\ b \in q .. m
      BY <1>1, <1>3, <1>8, <2>4
    <3>2. kvs[b].label > kvs[a].label
      BY <1>2, <3>1 DEF InsertAt
    <3>3. kvs[a].label \in Nat /\ kvs[b].label \in Nat
      BY <1>1, <2>0
    <3>4. Precedes(kvps, pos[a], pos[b])
      BY <1>5, <2>0, <3>2, <3>3 DEF Precedes, Placing
    <3> QED
      BY <2>0, <2>4, <3>4
  <2> QED
    BY <1>1, <1>3, <2>1, <2>2, <2>3, <2>4
<1>18. \A x \in 1 .. Len(kvs) :
         /\ ~IsMetric(kvps[at[x]])
         /\ kvs'[x].label = Id(kvps[at[x]]).label
         /\ Known(kvps[at[x]]) => kvs'[x] = Id(kvps[at[x]])
  BY SMTT(30), <1>5, <1>8, <1>12, <1>14 DEF Placing
<1>19. Placing(at)'
  <2>1. at \in [1 .. Len(kvs) -> Nat]
    BY <1>13, <1>14
  <2> QED
    BY <1>1, <1>4, <1>12, <1>14, <1>15, <1>16, <1>17, <1>18, <2>1, TablesStay DEF Placing
<1>20. MetricRead'
  BY <1>1, <1>4, TablesStay DEF EncInv, MetricRead
<1> QED
  BY <1>1, <1>12, <1>19, <1>20 DEF EncInv

EncType ==
  /\ pc \in {"idle", "lookup", "sort", "done", "crash"}
  /\ kvps \in Seq(KeyVals) /\ n \in Nat \ {0}
  /\ metric \in Ids /\ kvs \in Seq(Pairs) /\ m \in Nat \ {0}

LEMMA EncodeKeeps ==
  ASSUME CacheInv, EncInv, Encode
  PROVE  EncInv' /\ EncType'
<1> TypeOK
  BY DEF CacheInv
<1>1. EncType
  BY DEF TypeOK, EncType
<1>2. CASE LookupMetric
  <2>1. n' = n + 1 /\ UNCHANGED <<pc, kvps, kvs, m>>
    BY <1>2 DEF LookupMetric
  <2> QED
    BY <1>1, <1>2, <2>1, LookupMetricEncodes DEF EncType
<1>3. CASE LookupLabel
  <2>1. n' = n + 1 /\ UNCHANGED <<pc, kvps, metric, m>>
    BY <1>3 DEF LookupLabel
  <2> QED
    BY <1>1, <1>3, <2>1, LookupLabelEncodes DEF EncType
<1>4. CASE LookupCrash \/ BeginSort \/ EndSort
  <2>1. /\ UNCHANGED <<tables, kvps, n, metric, kvs, m>>
        /\ pc' \in {"crash", "sort", "done"}
        /\ pc' = "sort" => n > Len(kvps)
        /\ pc' = "done" => pc = "sort" /\ m >= Len(kvs)
    BY <1>4 DEF LookupCrash, BeginSort, EndSort, spec
  <2>2. n > Len(kvps) => n = Len(kvps) + 1
    BY DEF TypeOK, EncInv
  <2>3. pc' \in {"sort", "done"} => n = Len(kvps) + 1
    BY <2>1, <2>2 DEF EncInv
  <2>4. EncInv'
    BY <2>1, <2>3, EncodeStays
  <2> QED
    BY <1>1, <2>1, <2>4 DEF EncType
<1>5. CASE SortStep
  <2>1. UNCHANGED <<pc, kvps, n, metric>>
    BY <1>5 DEF SortStep
  <2> QED
    BY <1>1, <1>5, <2>1, SortStepEncodes DEF EncType
<1> QED
  BY <1>2, <1>3, <1>4, <1>5 DEF Encode

-----------------------------------------------------------------------------
(* What a finished encoding is of its pairs.                               *)

\* pos takes the places of s to the positions of the pairs that are no metric,
\* each once, in label order; s has their ids there.
Arranged(pos, s, pairs) ==
  /\ pos \in [1 .. Len(s) -> Others(pairs)]
  /\ \A x, y \in 1 .. Len(s) : pos[x] = pos[y] => x = y
  /\ \A k \in Others(pairs) : \E x \in 1 .. Len(s) : pos[x] = k
  /\ \A x \in 1 .. Len(s) :
       /\ s[x].label = Id(pairs[pos[x]]).label
       /\ Known(pairs[pos[x]]) => s[x] = Id(pairs[pos[x]])
  /\ \A x, y \in 1 .. Len(s) : x < y => Precedes(pairs, pos[x], pos[y])

LastIsMetric(word, pairs) ==
  \/ word = UINT32_MAX /\ \A k \in 1 .. Len(pairs) : ~IsMetric(pairs[k])
  \/ \E k \in 1 .. Len(pairs) :
       /\ IsMetric(pairs[k]) /\ word = Id(pairs[k]).value
       /\ \A l \in 1 .. Len(pairs) : IsMetric(pairs[l]) => l <= k

Encodes(c, pairs) == LastIsMetric(c.metric, pairs) /\ \E pos : Arranged(pos, c.kvs, pairs)

LEMMA FinishedEncodes ==
  ASSUME TypeOK, EncInv, n = Len(kvps) + 1, m >= Len(kvs)
  PROVE  Encodes(Result, kvps)
<1>1. n - 1 = Len(kvps) /\ Len(kvps) \in Nat /\ Len(kvs) \in Nat /\ m \in Nat
  BY DEF TypeOK
<1>2. LastIsMetric(metric, kvps)
  BY <1>1 DEF EncInv, MetricRead, LastIsMetric
<1>3. PICK pos : Placing(pos)
  BY DEF EncInv
<1>4. Arranged(pos, kvs, kvps)
  <2>1. \A y \in 1 .. Len(kvs) : y <= m
    BY <1>1
  <2>2. pos \in [1 .. Len(kvs) -> Others(kvps)]
    BY <1>1, <1>3 DEF Placing, Others
  <2>3. \A k \in Others(kvps) : \E x \in 1 .. Len(kvs) : pos[x] = k
    BY <1>1, <1>3 DEF Placing, Others
  <2> QED
    BY <1>3, <2>1, <2>2, <2>3 DEF Placing, Arranged
<1> QED
  BY <1>2, <1>4 DEF Encodes, Result

LEMMA EncodesStays ==
  ASSUME UNCHANGED <<label_names, value_names>>, NEW c, NEW pairs
  PROVE  Encodes(c, pairs)' <=> Encodes(c, pairs)
<1>1. \A pair : /\ Id(pair)' = Id(pair) /\ IsMetric(pair)' = IsMetric(pair)
                /\ Known(pair)' = Known(pair)
  BY DEF Id, IsMetric, Known
<1>2. \A l, k : Precedes(pairs, l, k)' = Precedes(pairs, l, k)
  BY <1>1 DEF Precedes
<1>3. Others(pairs)' = Others(pairs)
  BY <1>1 DEF Others
<1>4. \A pos : Arranged(pos, c.kvs, pairs)' <=> Arranged(pos, c.kvs, pairs)
  BY <1>1, <1>2, <1>3 DEF Arranged
<1>5. LastIsMetric(c.metric, pairs)' <=> LastIsMetric(c.metric, pairs)
  BY <1>1 DEF LastIsMetric
<1> QED
  BY <1>4, <1>5 DEF Encodes

\* A finished encoding is in label order.
LEMMA EncodedIsSorted ==
  ASSUME CacheInv, NEW c, NEW pairs, Encodes(c, pairs)
  PROVE  SortedByLabel(c.kvs)
<1>1. PICK pos : Arranged(pos, c.kvs, pairs)
  BY DEF Encodes
<1>2. \A x \in 1 .. Len(c.kvs) : c.kvs[x].label \in Nat
  <2> TAKE x \in 1 .. Len(c.kvs)
  <2>1. c.kvs[x].label = Id(pairs[pos[x]]).label
    BY <1>1 DEF Arranged
  <2> QED
    BY <2>1, IdFacts, WordAssumption DEF Ids
<1> SUFFICES ASSUME NEW x \in 1 .. Len(c.kvs), NEW y \in 1 .. Len(c.kvs), x < y
             PROVE  c.kvs[x].label <= c.kvs[y].label
  BY DEF SortedByLabel
<1>3. Precedes(pairs, pos[x], pos[y])
  BY <1>1 DEF Arranged
<1>4. /\ c.kvs[x].label = Id(pairs[pos[x]]).label
      /\ c.kvs[y].label = Id(pairs[pos[y]]).label
  BY <1>1 DEF Arranged
<1> QED
  BY <1>2, <1>3, <1>4 DEF Precedes

-----------------------------------------------------------------------------
(* Start-up: the invariant.                                                *)

\* The series stored so far, each with its line.
Stored == {<<all_series[k], series_collection[k]>> : k \in 1 .. Len(all_series)}

\* The series stored so far are the encodings of the lines, in their order;
\* the encoding under way is that of the next line.
CatalogueInv ==
  /\ \A x \in Stored : Encodes(x[1], x[2])
  /\ phase = "tables" => i = 1
  /\ phase = "encode" =>
       /\ i = Len(all_series) + 1 /\ i <= Len(series_collection) + 1
       /\ pc # "idle" => i <= Len(series_collection) /\ kvps = series_collection[i]
  /\ phase = "ready" => Len(all_series) = Len(series_collection)

IInv == CacheInv /\ EncInv /\ CatalogueInv

\* The tables, once built, stay.
LEMMA CacheStays ==
  ASSUME CacheInv, EncType', UNCHANGED <<series_collection, labels, label_names, value_names, j>>,
         phase \in {"encode", "ready"}, phase' \in {"encode", "ready"},
         i' \in Nat \ {0}, all_series' \in Seq(Specs)
  PROVE  CacheInv'
<1> TypeOK /\ PhaseInv /\ EntriesInv
  BY DEF CacheInv
<1>1. TypeOK'
  BY DEF TypeOK, EncType, Phases
<1>2. PhaseInv'
  BY DEF PhaseInv, TablesBuilt
<1>3. EntriesInv'
  <2>1. Passed' = Passed
    BY PassedStays
  <2> QED
    BY <2>1, EntriesStay
<1> QED
  BY <1>1, <1>2, <1>3 DEF CacheInv

\* A call makes a fresh start, whatever the last one left.
LEMMA CallStarts ==
  ASSUME kvps' \in Seq(KeyVals), n' = 1, m' = 1, metric' = UINT32_MAX, kvs' = << >>,
         pc' \in {"idle", "lookup", "crash"}
  PROVE  EncInv' /\ EncType'
<1>1. MetricRead'
  BY DEF MetricRead
<1>2. Placing([x \in 1 .. 0 |-> 0])'
  <2>1. Len(kvs') = 0
    OBVIOUS
  <2> QED
    BY <2>1 DEF Placing
<1>3. Len(kvps') \in Nat
  OBVIOUS
<1>4. EncInv'
  BY <1>1, <1>2, <1>3 DEF EncInv
<1>5. EncType'
  BY WordAssumption DEF EncType, Ids
<1> QED
  BY <1>4, <1>5

LEMMA InitKeeps == Init => IInv
<1> SUFFICES ASSUME Init PROVE IInv
  OBVIOUS
<1>1. CacheInv
  BY InitCache
<1>2. EncInv
  BY CallEncodes DEF Init
<1>3. CatalogueInv
  BY DEF Init, CatalogueInv, Stored
<1> QED
  BY <1>1, <1>2, <1>3 DEF IInv

\* The result of a finished call is a series.
LEMMA ResultType ==
  ASSUME CacheInv
  PROVE  Result \in Specs
BY DEF CacheInv, TypeOK, Result, Specs

\* StoreSeries: the result is the next series.
LEMMA StoreKeeps ==
  ASSUME IInv, StoreSeries
  PROVE  IInv'
<1> CacheInv /\ EncInv /\ CatalogueInv /\ TypeOK
  BY DEF IInv, CacheInv
<1>1. /\ phase = "encode" /\ pc = "done" /\ pc' = "idle" /\ i' = i + 1
      /\ all_series' = Append(all_series, Result)
      /\ UNCHANGED <<label_names, value_names, kvps, n, metric, kvs, m>>
      /\ UNCHANGED <<series_collection, phase, j, labels>>
  BY DEF StoreSeries, tables
<1>2. Encodes(Result, kvps) /\ Result \in Specs
  BY <1>1, FinishedEncodes, ResultType DEF EncInv
<1> DEFINE c == Result
<1>3. c \in Specs /\ Encodes(c, kvps)
  BY <1>2
<1> HIDE DEF c
<1>4. /\ all_series' \in Seq(Specs) /\ Len(all_series) \in Nat
      /\ Len(all_series') = Len(all_series) + 1
      /\ \A k \in 1 .. Len(all_series) : all_series'[k] = all_series[k]
      /\ all_series'[Len(all_series) + 1] = c
  <2>1. all_series' = Append(all_series, c) /\ all_series \in Seq(Specs)
    BY <1>1 DEF c, TypeOK
  <2> QED
    BY <1>3, <2>1, AppendFacts
<1>5. EncType'
  BY <1>1 DEF EncType, TypeOK
<1>6. CacheInv'
  <2>1. i' \in Nat \ {0}
    BY <1>1 DEF TypeOK
  <2> QED
    BY <1>1, <1>4, <1>5, <2>1, CacheStays
<1>7. EncInv'
  BY <1>1, EncodeStays DEF tables
<1>8. /\ i = Len(all_series) + 1 /\ i <= Len(series_collection)
      /\ kvps = series_collection[i] /\ Len(series_collection) \in Nat
  <2>1. series_collection # NoExposition
    BY <1>1 DEF CacheInv, PhaseInv
  <2> QED
    BY <1>1, <2>1, LinesType DEF CatalogueInv
<1>9. Stored' = Stored \cup {<<c, kvps>>}
  <2>1. \A k \in 1 .. Len(all_series') : k \in 1 .. Len(all_series) \/ k = Len(all_series) + 1
    BY <1>4
  <2>2. Len(all_series) + 1 \in 1 .. Len(all_series')
        /\ \A k \in 1 .. Len(all_series) : k \in 1 .. Len(all_series')
    BY <1>4
  <2> QED
    BY <1>1, <1>4, <1>8, <2>1, <2>2 DEF Stored
<1>10. CatalogueInv'
  <2>1. i' = Len(all_series') + 1 /\ i' <= Len(series_collection') + 1
    BY <1>1, <1>4, <1>8 DEF TypeOK
  <2>2. \A x : Encodes(x[1], x[2])' <=> Encodes(x[1], x[2])
    BY <1>1, EncodesStays
  <2>3. \A x \in Stored' : Encodes(x[1], x[2])'
    BY <1>3, <1>9, <2>2 DEF CatalogueInv
  <2> QED
    BY <1>1, <2>1, <2>3 DEF CatalogueInv
<1> QED
  BY <1>6, <1>7, <1>10 DEF IInv

\* What is stored stays what it is.
LEMMA StoredStays ==
  ASSUME CatalogueInv, UNCHANGED <<label_names, value_names, series_collection, all_series>>
  PROVE  \A x \in Stored' : Encodes(x[1], x[2])'
<1>1. Stored' = Stored
  BY DEF Stored
<1>2. \A x : Encodes(x[1], x[2])' <=> Encodes(x[1], x[2])
  BY EncodesStays
<1> QED
  BY <1>1, <1>2 DEF CatalogueInv

\* Every step of start-up.
LEMMA StartUpKeeps ==
  ASSUME IInv, Next
  PROVE  IInv'
<1> CacheInv /\ EncInv /\ CatalogueInv /\ TypeOK /\ PhaseInv
  BY DEF IInv, CacheInv
<1>0. EncType /\ i \in Nat \ {0} /\ all_series \in Seq(Specs)
  BY DEF TypeOK, EncType
<1>1. CASE InternStep
  <2>1. /\ UNCHANGED <<encVars, series_collection, all_series>> /\ pc = "idle"
        /\ phase' \in {"intern", "undefined", "tables"}
        /\ phase' = "tables" => i' = 1
    BY <1>1 DEF InternStep, Loaded, NotLoaded, InternPair, InternNextSeries, EndIntern, PhaseInv
  <2>2. CacheInv'
    BY <1>1, InternKeeps
  <2>3. EncInv'
    BY <2>1, EncodeStays DEF encVars, tables
  <2>4. CatalogueInv'
    <3>1. UNCHANGED <<label_names, value_names, series_collection, all_series>>
      BY <2>1 DEF encVars, tables
    <3>2. \A x \in Stored' : Encodes(x[1], x[2])'
      BY <3>1, StoredStays
    <3> QED
      BY <2>1, <3>2 DEF CatalogueInv
  <2> QED
    BY <2>2, <2>3, <2>4 DEF IInv
<1>2. CASE BuildTables \/ HashFails
  <2>1. /\ UNCHANGED <<pc, kvps, n, metric, kvs, m, series_collection, i, j, labels, all_series>>
        /\ phase = "tables" /\ phase' \in {"encode", "conf_error"}
    BY <1>2 DEF BuildTables, HashFails, encVars, spec
  <2>2. Untouched /\ pc = "idle" /\ i = 1
    BY <2>1 DEF PhaseInv, CatalogueInv
  <2>3. CacheInv'
    BY <1>2, TablesKeep
  <2>4. EncInv'
    BY <1>0, <2>1, <2>2, CallStarts DEF Untouched, EncType
  <2>5. CatalogueInv'
    <3>1. Stored' = {} /\ Len(all_series) = 0
      BY <2>1, <2>2 DEF Untouched, Stored
    <3>2. series_collection # NoExposition
      BY <2>1 DEF PhaseInv
    <3>3. Len(series_collection) \in Nat
      BY <3>2, LinesType
    <3> QED
      BY <2>1, <2>2, <3>1, <3>3 DEF CatalogueInv
  <2> QED
    BY <2>3, <2>4, <2>5 DEF IInv
<1>3. CASE EncodeCall
  <2>1. /\ phase = "encode" /\ i <= Len(series_collection) /\ UNCHANGED cacheVars
        /\ kvps' = series_collection[i] /\ pc' = "lookup"
        /\ UNCHANGED <<label_names, value_names>>
        /\ n' = 1 /\ m' = 1 /\ metric' = UINT32_MAX /\ kvs' = << >>
    BY <1>3 DEF EncodeCall, Call, tables
  <2>2. series_collection # NoExposition /\ i \in 1 .. Len(series_collection)
    BY <2>1, LinesType DEF PhaseInv, TypeOK
  <2>3. kvps' \in Seq(KeyVals)
    BY <2>1, <2>2, LinesType
  <2>4. EncInv' /\ EncType'
    BY <2>1, <2>3, CallStarts
  <2>5. CacheInv'
    BY <1>0, <2>1, <2>4, CacheStays DEF cacheVars
  <2>6. CatalogueInv'
    BY <2>1, StoredStays DEF CatalogueInv, cacheVars
  <2> QED
    BY <2>4, <2>5, <2>6 DEF IInv
<1>4. CASE EncodeStep
  <2>1. phase = "encode" /\ Encode /\ UNCHANGED cacheVars
    BY <1>4 DEF EncodeStep
  <2>2. UNCHANGED <<label_names, value_names, kvps>> /\ pc # "idle"
    BY <2>1, TablesStay DEF Encode, LookupMetric, LookupLabel, LookupCrash, BeginSort, SortStep, EndSort
  <2>3. EncInv' /\ EncType'
    BY <2>1, EncodeKeeps
  <2>4. CacheInv'
    BY <1>0, <2>1, <2>2, <2>3, CacheStays DEF cacheVars
  <2>5. CatalogueInv'
    BY <2>1, <2>2, StoredStays DEF CatalogueInv, cacheVars
  <2> QED
    BY <2>3, <2>4, <2>5 DEF IInv
<1>5. CASE StoreSeries
  BY <1>5, StoreKeeps
<1>6. CASE RenderCrash
  <2>1. /\ phase = "encode" /\ pc = "done" /\ pc' = "crash"
        /\ UNCHANGED <<tables, kvps, n, metric, kvs, m, cacheVars>>
    BY <1>6 DEF RenderCrash
  <2>2. EncInv'
    BY <2>1, EncodeStays
  <2>3. EncType'
    BY <1>0, <2>1 DEF EncType
  <2>4. CacheInv'
    BY <1>0, <2>1, <2>3, CacheStays DEF cacheVars, tables
  <2>5. CatalogueInv'
    BY <2>1, StoredStays DEF CatalogueInv, cacheVars, tables
  <2> QED
    BY <2>2, <2>4, <2>5 DEF IInv
<1>7. CASE Return
  <2>1. /\ phase = "encode" /\ phase' = "ready" /\ pc = "idle" /\ i > Len(series_collection)
        /\ UNCHANGED <<encVars, series_collection, i, j, labels, all_series>>
    BY <1>7 DEF Return
  <2>2. EncInv'
    BY <2>1, EncodeStays DEF encVars, tables
  <2>3. EncType'
    BY <1>0, <2>1 DEF EncType, encVars
  <2>4. CacheInv'
    BY <1>0, <2>1, <2>3, CacheStays DEF encVars, tables
  <2>5. Len(all_series) = Len(series_collection)
    <3>1. series_collection # NoExposition
      BY <2>1 DEF PhaseInv
    <3>2. Len(series_collection) \in Nat /\ Len(all_series) \in Nat
      BY <3>1, LinesType DEF TypeOK
    <3> QED
      BY <2>1, <3>2 DEF CatalogueInv
  <2>6. CatalogueInv'
    BY <2>1, <2>5, StoredStays DEF CatalogueInv, encVars, tables
  <2> QED
    BY <2>2, <2>4, <2>6 DEF IInv
<1> QED
  BY <1>1, <1>2, <1>3, <1>4, <1>5, <1>6, <1>7 DEF Next, InternStep

\* Start-up as a whole.
THEOREM CacheInvariant == Spec => []IInv
<1>1. Init => IInv
  BY InitKeeps
<1>2. IInv /\ [Next]_vars => IInv'
  <2> SUFFICES ASSUME IInv, [Next]_vars PROVE IInv'
    OBVIOUS
  <2>1. CASE Next
    BY <2>1, StartUpKeeps
  <2>2. CASE UNCHANGED vars
    <3> CacheInv /\ EncInv /\ CatalogueInv /\ TypeOK /\ PhaseInv /\ EntriesInv
      BY DEF IInv, CacheInv
    <3>1. TypeOK'
      BY <2>2 DEF TypeOK, vars, encVars, cacheVars, tables
    <3>2. PhaseInv'
      BY <2>2 DEF PhaseInv, Untouched, TablesBuilt, vars, encVars, cacheVars, tables
    <3>3. EntriesInv'
      BY <2>2, PassedStays, EntriesStay DEF vars, cacheVars
    <3>4. EncInv'
      BY <2>2, EncodeStays DEF EncInv, vars, encVars, tables
    <3>5. CatalogueInv'
      BY <2>2, StoredStays DEF CatalogueInv, vars, cacheVars, encVars, tables
    <3> QED
      BY <3>1, <3>2, <3>3, <3>4, <3>5 DEF IInv, CacheInv
  <2> QED
    BY <2>1, <2>2
<1> QED
  BY <1>1, <1>2, PTL DEF Spec

-----------------------------------------------------------------------------
(* What the invariant says of the cache and of an encoding.                *)

LEMMA CountsHold == IInv => CountsExact
<1> SUFFICES ASSUME IInv, NEW k \in 1 .. Len(labels), NEW v \in 1 .. Len(labels[k].values)
             PROVE  labels[k].values[v].count =
                      Cardinality({x \in Passed :
                                     At(x) = [key |-> labels[k].name,
                                              value |-> labels[k].values[v].name]})
                        % (UINT16_MAX + 1)
  BY DEF CountsExact
<1>1. EntriesInv
  BY DEF IInv, CacheInv
<1>2. Occurrences(series_collection, Passed, Entry(labels, k, v))
        = {x \in Passed : At(x) = [key |-> labels[k].name, value |-> labels[k].values[v].name]}
  BY DEF Occurrences, Entry, At
<1> QED
  BY <1>1, <1>2 DEF EntriesInv, WordCount

\* With lower case, a name is found at its own position in its table, and an
\* id inside a table is that of the name there.
LEMMA NamesFound ==
  ASSUME CacheInv, AllLowerCase
  PROVE  /\ \A k \in 1 .. Len(label_names) : LabelId(label_names, label_names[k]) = k - 1
         /\ \A k \in 1 .. Len(label_names) : \A v \in 1 .. Len(value_names[k]) :
              ValueId(value_names, k - 1, value_names[k][v]) = v - 1
         /\ \A name : LabelId(label_names, name) < Len(label_names) =>
              \E k \in 1 .. Len(label_names) :
                label_names[k] = name /\ LabelId(label_names, name) = k - 1
<1>1. /\ \A k \in 1 .. Len(label_names) : LabelId(label_names, label_names[k]) = k - 1
      /\ \A name : LabelId(label_names, name) < Len(label_names) =>
              \E k \in 1 .. Len(label_names) :
                label_names[k] = name /\ LabelId(label_names, name) = k - 1
  <2>1. LowerCase(label_names)
    BY DEF AllLowerCase
  <2>2. /\ label_names \in Seq(Names) /\ Len(label_names) <= Capacity
        /\ \A k, l \in 1 .. Len(label_names) : label_names[k] = label_names[l] => k = l
    BY TableFacts DEF NoRepeat
  <2> QED
    BY <2>1, <2>2, LookupExact
<1>2. ASSUME NEW k \in 1 .. Len(label_names), NEW v \in 1 .. Len(value_names[k])
      PROVE  ValueId(value_names, k - 1, value_names[k][v]) = v - 1
  <2>1. /\ value_names[k] \in Seq(Names) /\ Len(value_names[k]) <= Capacity
        /\ LowerCase(value_names[k]) /\ NoRepeat(value_names[k])
    BY TableFacts DEF AllLowerCase
  <2> DEFINE V == value_names[k]
  <2> HIDE DEF V
  <2>2. \A x \in 1 .. Len(V) : LabelId(V, V[x]) = x - 1
    BY <2>1, LookupExact DEF V, NoRepeat
  <2>3. k - 1 + 1 = k
    BY TableFacts
  <2>4. ValueId(value_names, k - 1, V[v]) = LabelId(V, V[v])
    BY <2>3, ValueIsLookup DEF V
  <2> QED
    BY <2>2, <2>4 DEF V
<1> QED
  BY <1>1, <1>2

LEMMA RoundTripHolds == IInv => LookupRoundTrip
BY NamesFound DEF IInv, LookupRoundTrip

LEMMA StoredEncodes ==
  ASSUME CatalogueInv, NEW k \in 1 .. Len(all_series)
  PROVE  Encodes(all_series[k], series_collection[k])
<1> DEFINE x == <<all_series[k], series_collection[k]>>
<1>1. x \in Stored
  BY DEF Stored
<1>2. Encodes(x[1], x[2])
  BY <1>1, Zenon DEF CatalogueInv
<1> QED
  BY <1>2

LEMMA SortedHolds == IInv => CatalogueSorted /\ FinishedIsSorted
<1> SUFFICES ASSUME IInv PROVE CatalogueSorted /\ FinishedIsSorted
  OBVIOUS
<1> CacheInv /\ EncInv /\ CatalogueInv /\ TypeOK
  BY DEF IInv, CacheInv
<1>1. CatalogueSorted
  <2> SUFFICES ASSUME NEW k \in 1 .. Len(all_series)
               PROVE  SortedByLabel(all_series[k].kvs)
    BY DEF CatalogueSorted
  <2>1. Encodes(all_series[k], series_collection[k])
    BY StoredEncodes
  <2> QED
    BY <2>1, EncodedIsSorted
<1>2. FinishedIsSorted
  <2> SUFFICES ASSUME pc = "done" PROVE SortedByLabel(kvs)
    BY DEF FinishedIsSorted
  <2>1. Encodes(Result, kvps)
    BY FinishedEncodes DEF EncInv
  <2>2. SortedByLabel(Result.kvs)
    BY <2>1, EncodedIsSorted
  <2> QED
    BY <2>2 DEF Result
<1> QED
  BY <1>1, <1>2

LEMMA UnknownMetricHolds == IInv => UnknownMetricIsNotAny
<1> SUFFICES ASSUME IInv, pc = "done", metric = UINT32_MAX, NEW k \in 1 .. Len(kvps)
             PROVE  LabelId(label_names, kvps[k].key) # metric_label_id
  BY DEF UnknownMetricIsNotAny
<1> CacheInv /\ EncInv
  BY DEF IInv, CacheInv
<1>1. n - 1 = Len(kvps) /\ MetricRead
  BY DEF EncInv, CacheInv, TypeOK
<1>2. ~ \E l \in 1 .. n - 1 : IsMetric(kvps[l]) /\ metric = Id(kvps[l]).value
  BY IdFacts
<1>3. ~IsMetric(kvps[k])
  BY <1>1, <1>2 DEF MetricRead
<1> QED
  BY <1>3 DEF IsMetric, Id

LEMMA Segment ==
  ASSUME NEW k \in Nat
  PROVE  IsFiniteSet(1 .. k) /\ Cardinality(1 .. k) = k
<1>1. IsFiniteSet(1 .. k) /\ Cardinality(1 .. k) = IF 1 > k THEN 0 ELSE k - 1 + 1
  BY FS_Interval
<1> QED
  BY <1>1

\* The order of the labels is strict, whatever the pairs.
LEMMA PrecedesStrict ==
  ASSUME CacheInv, NEW pairs, NEW k \in Nat, NEW l \in Nat, Precedes(pairs, k, l)
  PROVE  ~Precedes(pairs, l, k) /\ k # l
<1>1. Id(pairs[k]).label \in Nat /\ Id(pairs[l]).label \in Nat
  BY IdFacts, WordAssumption DEF Ids
<1> QED
  BY <1>1 DEF Precedes

\* The x-th place has the pair that x - 1 others precede.
LEMMA Rank ==
  ASSUME CacheInv, NEW pairs, Len(pairs) \in Nat, NEW s, Len(s) \in Nat,
         NEW pos, Arranged(pos, s, pairs)
  PROVE  /\ \A x \in 1 .. Len(s) :
              Cardinality({l \in Others(pairs) : Precedes(pairs, l, pos[x])}) = x - 1
         /\ Cardinality(Others(pairs)) = Len(s)
<1>1. ASSUME NEW x \in 1 .. Len(s)
      PROVE  Cardinality({l \in Others(pairs) : Precedes(pairs, l, pos[x])}) = x - 1
  <2> DEFINE before == {l \in Others(pairs) : Precedes(pairs, l, pos[x])}
             f == [y \in 1 .. x - 1 |-> pos[y]]
  <2>1. \A y \in 1 .. Len(s) : pos[y] \in Nat /\ pos[y] \in Others(pairs)
    BY DEF Arranged, Others
  <2>2. \A y \in 1 .. Len(s) : Precedes(pairs, pos[y], pos[x]) <=> y < x
    <3> TAKE y \in 1 .. Len(s)
    <3>1. y < x => Precedes(pairs, pos[y], pos[x])
      BY DEF Arranged
    <3>2. x < y => Precedes(pairs, pos[x], pos[y])
      BY DEF Arranged
    <3>3. x < y => ~Precedes(pairs, pos[y], pos[x])
      BY <2>1, <3>2, PrecedesStrict
    <3>4. y = x => ~Precedes(pairs, pos[y], pos[x])
      BY <2>1, PrecedesStrict
    <3> QED
      BY <3>1, <3>3, <3>4
  <2>3. before = {pos[y] : y \in 1 .. x - 1}
    <3>1. ASSUME NEW l \in before
          PROVE  \E y \in 1 .. x - 1 : l = pos[y]
      <4>1. PICK y \in 1 .. Len(s) : pos[y] = l
        BY DEF Arranged
      <4>2. y < x
        BY <2>2, <4>1
      <4> QED
        BY <4>1, <4>2
    <3>2. \A y \in 1 .. x - 1 : pos[y] \in before
      BY <2>1, <2>2
    <3> QED
      BY <3>1, <3>2
  <2>4. f \in Bijection(1 .. x - 1, before)
    <3>1. f \in [1 .. x - 1 -> before]
      BY <2>3
    <3>2. \A y, z \in 1 .. x - 1 : f[y] = f[z] => y = z
      BY DEF Arranged
    <3>3. \A l \in before : \E y \in 1 .. x - 1 : f[y] = l
      BY <2>3
    <3> QED
      BY <3>1, <3>2, <3>3, Fun_IsBij
  <2>5. IsFiniteSet(1 .. x - 1) /\ Cardinality(1 .. x - 1) = x - 1
    BY Segment
  <2> HIDE DEF before, f
  <2>6. Cardinality(before) = x - 1
    BY <2>4, <2>5, FS_Bijection DEF ExistsBijection
  <2> QED
    BY <2>6 DEF before
<1>2. Cardinality(Others(pairs)) = Len(s)
  <2>1. pos \in Bijection(1 .. Len(s), Others(pairs))
    BY Fun_IsBij DEF Arranged
  <2>2. IsFiniteSet(1 .. Len(s)) /\ Cardinality(1 .. Len(s)) = Len(s)
    BY Segment
  <2> QED
    BY <2>1, <2>2, FS_Bijection DEF ExistsBijection
<1> QED
  BY <1>1, <1>2

LEMMA CorrectHolds == IInv => SpecCorrect
<1> SUFFICES ASSUME IInv, pc = "done", AllKnown
             PROVE  metric = MetricOf(kvps) /\ kvs = InLabelOrder(kvps)
  BY DEF SpecCorrect
<1> CacheInv /\ EncInv /\ TypeOK
  BY DEF IInv, CacheInv
<1>1. LastIsMetric(metric, kvps) /\ \E pos : Arranged(pos, kvs, kvps)
  <2>1. Encodes(Result, kvps)
    BY FinishedEncodes DEF EncInv
  <2> QED
    BY <2>1 DEF Encodes, Result
<1>2. Len(kvps) \in Nat /\ Len(kvs) \in Nat
  BY DEF TypeOK
<1>3. metric = MetricOf(kvps)
  <2> DEFINE at == {k \in 1 .. Len(kvps) : IsMetric(kvps[k])}
             last == CHOOSE k \in at : \A l \in at : l <= k
  <2>0. MetricOf(kvps) = IF at = {} THEN UINT32_MAX ELSE Id(kvps[last]).value
    BY Zenon DEF MetricOf
  <2>1. CASE metric = UINT32_MAX /\ \A k \in 1 .. Len(kvps) : ~IsMetric(kvps[k])
    <3>1. at = {}
      BY <2>1
    <3> QED
      BY <2>0, <2>1, <3>1
  <2>2. CASE \E k \in 1 .. Len(kvps) :
               /\ IsMetric(kvps[k]) /\ metric = Id(kvps[k]).value
               /\ \A l \in 1 .. Len(kvps) : IsMetric(kvps[l]) => l <= k
    <3>1. PICK k \in at : metric = Id(kvps[k]).value /\ \A l \in at : l <= k
      BY <2>2
    <3>2. \A l \in at : (\A x \in at : x <= l) => l = k
      BY <1>2, <3>1
    <3>3. at # {} /\ last \in at /\ \A l \in at : l <= last
      BY <3>1
    <3> HIDE DEF at, last
    <3>4. last = k
      BY <3>2, <3>3
    <3> QED
      BY <2>0, <3>1, <3>3, <3>4
  <2> QED
    BY <1>1, <2>1, <2>2 DEF LastIsMetric
<1>4. kvs = InLabelOrder(kvps)
  <2>1. PICK pos : Arranged(pos, kvs, kvps)
    BY <1>1
  <2>2. /\ \A x \in 1 .. Len(kvs) :
             Cardinality({l \in Others(kvps) : Precedes(kvps, l, pos[x])}) = x - 1
        /\ Cardinality(Others(kvps)) = Len(kvs)
    BY <1>2, <2>1, Rank
  <2>3. ASSUME NEW x \in 1 .. Len(kvs)
        PROVE  Ranked(kvps, x) = pos[x]
    <3>1. /\ pos[x] \in Others(kvps)
          /\ Cardinality({l \in Others(kvps) : Precedes(kvps, l, pos[x])}) = x - 1
      BY <2>1, <2>2 DEF Arranged
    <3>2. ASSUME NEW k \in Others(kvps),
                 Cardinality({l \in Others(kvps) : Precedes(kvps, l, k)}) = x - 1
          PROVE  k = pos[x]
      <4>1. PICK y \in 1 .. Len(kvs) : pos[y] = k
        BY <2>1 DEF Arranged
      <4>2. y - 1 = x - 1
        BY <2>2, <3>2, <4>1
      <4> QED
        BY <1>2, <4>1, <4>2
    <3> QED
      BY <3>1, <3>2 DEF Ranked
  <2>4. \A x \in 1 .. Len(kvs) : kvs[x] = Id(kvps[Ranked(kvps, x)])
    <3> TAKE x \in 1 .. Len(kvs)
    <3>1. pos[x] \in 1 .. Len(kvps)
      BY <2>1 DEF Arranged, Others
    <3>2. Known(kvps[pos[x]])
      BY <3>1 DEF AllKnown
    <3> QED
      BY <2>1, <2>3, <3>2 DEF Arranged
  <2>5. InLabelOrder(kvps) = [x \in 1 .. Len(kvs) |-> Id(kvps[Ranked(kvps, x)])]
    BY <2>2 DEF InLabelOrder
  <2>6. kvs = [x \in 1 .. Len(kvs) |-> kvs[x]]
    BY DEF TypeOK
  <2> QED
    BY <2>4, <2>5, <2>6
<1> QED
  BY <1>3, <1>4

-----------------------------------------------------------------------------
(* From names to ids and back.                                             *)

\* A pair whose label and value the cache has.
InTables(pair) ==
  \E k \in 1 .. Len(label_names) : \E v \in 1 .. Len(value_names[k]) :
    label_names[k] = pair.key /\ value_names[k][v] = pair.value

\* The pair the ids of a label and of its value stand for.
Named(p) ==
  [key |-> label_names[p.label + 1], value |-> value_names[p.label + 1][p.value + 1]]

\* A finished cache has every pair of the exposition, and the metric's label
\* is its first.
LEMMA LinesInTables ==
  ASSUME CacheInv, phase \in {"encode", "ready"}
  PROVE  /\ \A k \in 1 .. Len(series_collection) : \A p \in 1 .. Len(series_collection[k]) :
              InTables(series_collection[k][p])
         /\ label_names # << >> => label_names[1] = MetricName
         /\ series_collection # NoExposition
<1> TypeOK /\ PhaseInv /\ EntriesInv
  BY DEF CacheInv
<1>1. series_collection # NoExposition /\ TablesBuilt
  BY DEF PhaseInv
<1>2. Len(labels) \in Nat /\ \A k \in 1 .. Len(labels) : Len(labels[k].values) \in Nat
  <2>1. \A k \in 1 .. Len(labels) : labels[k] \in LabelInfos
    BY DEF TypeOK
  <2> QED
    BY <2>1 DEF TypeOK, LabelInfos
<1>3. /\ Len(label_names) = Len(labels)
      /\ \A k \in 1 .. Len(labels) :
           /\ label_names[k] = labels[k].name /\ Len(value_names[k]) = Len(labels[k].values)
           /\ \A v \in 1 .. Len(labels[k].values) :
                value_names[k][v] = labels[k].values[v].name
  BY <1>1, <1>2 DEF TablesBuilt
<1>4. ASSUME NEW k \in 1 .. Len(series_collection), NEW p \in 1 .. Len(series_collection[k])
      PROVE  InTables(series_collection[k][p])
  <2> DEFINE x == <<k, p>>
  <2>1. x \in Passed
    <3>1. x \in Positions
      BY <1>1, PositionIs
    <3> QED
      BY <1>1, <3>1 DEF Passed
  <2>2. At(x) = series_collection[k][p]
    BY DEF At
  <2> HIDE DEF x
  <2>3. PICK l \in 1 .. Len(labels) : \E v \in 1 .. Len(labels[l].values) :
               Entry(labels, l, v) = At(x)
    BY <2>1 DEF EntriesInv
  <2>4. PICK v \in 1 .. Len(labels[l].values) : Entry(labels, l, v) = At(x)
    BY <2>3
  <2>5. At(x).key = labels[l].name /\ At(x).value = labels[l].values[v].name
    BY <2>4 DEF Entry
  <2> QED
    BY <1>3, <2>2, <2>5 DEF InTables
<1>5. label_names # << >> => label_names[1] = MetricName
  <2> SUFFICES ASSUME label_names # << >> PROVE label_names[1] = MetricName
    OBVIOUS
  <2>1. Len(label_names) > 0
    BY DEF TypeOK
  <2>2. labels # << >> /\ 1 \in 1 .. Len(labels)
    BY <1>2, <1>3, <2>1
  <2> QED
    BY <1>3, <2>2 DEF EntriesInv
<1> QED
  BY <1>1, <1>4, <1>5

\* With lower case the ids of such a pair are positions, and stand for it.
LEMMA PairDecodes ==
  ASSUME CacheInv, AllLowerCase, NEW pair \in KeyVals, InTables(pair)
  PROVE  /\ Known(pair) /\ Id(pair) \in Pairs /\ Named(Id(pair)) = pair
         /\ Id(pair).label + 1 \in 1 .. Len(label_names)
         /\ Id(pair).value + 1 \in 1 .. Len(value_names[Id(pair).label + 1])
         /\ label_names[1] = MetricName => (IsMetric(pair) <=> pair.key = MetricName)
<1>1. PICK k \in 1 .. Len(label_names) : \E v \in 1 .. Len(value_names[k]) :
             label_names[k] = pair.key /\ value_names[k][v] = pair.value
  BY DEF InTables
<1>2. PICK v \in 1 .. Len(value_names[k]) :
             label_names[k] = pair.key /\ value_names[k][v] = pair.value
  BY <1>1
<1>3. Id(pair).label = k - 1 /\ Id(pair).value = v - 1
  <2>1. LabelId(label_names, pair.key) = k - 1
    BY <1>2, NamesFound
  <2>2. ValueId(value_names, k - 1, pair.value) = v - 1
    BY <1>2, NamesFound
  <2> QED
    BY <2>1, <2>2 DEF Id
<1>4. /\ Len(label_names) \in Nat /\ Len(value_names[k]) \in Nat
      /\ Len(value_names) = Len(label_names) /\ NoRepeat(label_names)
  BY TableFacts
<1>5. k - 1 + 1 = k /\ v - 1 + 1 = v
  BY <1>4
<1>6. Known(pair)
  BY <1>3, <1>4 DEF Known, Id
<1>7. Named(Id(pair)) = pair
  BY <1>2, <1>3, <1>5 DEF Named, KeyVals
<1>8. label_names[1] = MetricName => (IsMetric(pair) <=> pair.key = MetricName)
  <2>1. IsMetric(pair) <=> k = 1
    BY <1>3, <1>4 DEF IsMetric, metric_label_id
  <2>2. 1 \in 1 .. Len(label_names)
    BY <1>4
  <2> QED
    BY <1>2, <1>4, <2>1, <2>2 DEF NoRepeat
<1> QED
  BY <1>3, <1>5, <1>6, <1>7, <1>8, IdFacts

\* A list of pairs the cache can tell apart, as a line is.
Readable(pairs) ==
  /\ pairs \in Seq(KeyVals)
  /\ \A k \in 1 .. Len(pairs) : InTables(pairs[k])
  /\ label_names # << >> => label_names[1] = MetricName

\* What an encoding of such a list says: the ids of the pairs that are no
\* metric, each the id of its names.
Says(pos, c, pairs) ==
  /\ \A k \in 1 .. Len(pairs) :
       /\ pairs[k] \in KeyVals /\ Known(pairs[k]) /\ Named(Id(pairs[k])) = pairs[k]
       /\ IsMetric(pairs[k]) <=> pairs[k].key = MetricName
  /\ \A x \in 1 .. Len(c.kvs) :
       /\ pos[x] \in 1 .. Len(pairs) /\ pairs[pos[x]].key # MetricName
       /\ c.kvs[x] = Id(pairs[pos[x]]) /\ Named(c.kvs[x]) = pairs[pos[x]]

LEMMA EncodedMeaning ==
  ASSUME CacheInv, AllLowerCase, NEW pairs, Readable(pairs), NEW c,
         NEW pos, Arranged(pos, c.kvs, pairs)
  PROVE  Says(pos, c, pairs)
<1>1. ASSUME NEW k \in 1 .. Len(pairs)
      PROVE  /\ pairs[k] \in KeyVals /\ Known(pairs[k]) /\ Named(Id(pairs[k])) = pairs[k]
             /\ IsMetric(pairs[k]) <=> pairs[k].key = MetricName
  <2>1. pairs[k] \in KeyVals /\ InTables(pairs[k])
    BY DEF Readable
  <2>2. label_names # << >>
    BY <2>1, TableFacts DEF InTables
  <2>3. label_names[1] = MetricName
    BY <2>2 DEF Readable
  <2> QED
    BY <2>1, <2>3, PairDecodes
<1>2. ASSUME NEW x \in 1 .. Len(c.kvs)
      PROVE  /\ pos[x] \in 1 .. Len(pairs) /\ pairs[pos[x]].key # MetricName
             /\ c.kvs[x] = Id(pairs[pos[x]]) /\ Named(c.kvs[x]) = pairs[pos[x]]
  <2>1. pos[x] \in 1 .. Len(pairs) /\ ~IsMetric(pairs[pos[x]])
    BY DEF Arranged, Others
  <2> QED
    BY <1>1, <2>1 DEF Arranged
<1> QED
  BY <1>1, <1>2 DEF Says

LEMMA DecodeHolds == IInv => SeriesDecode
<1> SUFFICES ASSUME IInv, phase = "ready", AllLowerCase
             PROVE  /\ Len(all_series) = Len(series_collection)
                    /\ \A k \in 1 .. Len(all_series) :
                         Decoded(all_series[k]) =
                           {series_collection[k][p] : p \in
                              {q \in 1 .. Len(series_collection[k]) :
                                 series_collection[k][q].key = MetricName =>
                                   q = LastMetric(series_collection[k])}}
  BY DEF SeriesDecode
<1> CacheInv /\ CatalogueInv /\ TypeOK
  BY DEF IInv, CacheInv
<1>1. Len(all_series) = Len(series_collection)
  BY DEF CatalogueInv
<1> SUFFICES ASSUME NEW k \in 1 .. Len(all_series)
             PROVE  Decoded(all_series[k]) =
                      {series_collection[k][p] : p \in
                         {q \in 1 .. Len(series_collection[k]) :
                            series_collection[k][q].key = MetricName =>
                              q = LastMetric(series_collection[k])}}
  BY <1>1
<1>2. Encodes(all_series[k], series_collection[k])
  BY StoredEncodes
<1>3. /\ Readable(series_collection[k])
      /\ Len(series_collection[k]) \in Nat /\ Len(series_collection[k]) > 0
      /\ series_collection[k][1].key = MetricName
  BY <1>1, LinesInTables, LinesType DEF Readable
<1>4. PICK c : c = all_series[k]
  OBVIOUS
<1>5. PICK pairs : pairs = series_collection[k]
  OBVIOUS
<1>6. PICK pos : Arranged(pos, c.kvs, pairs)
  BY <1>2, <1>4, <1>5 DEF Encodes
<1>7. /\ \A q \in 1 .. Len(pairs) :
           /\ pairs[q] \in KeyVals /\ Known(pairs[q]) /\ Named(Id(pairs[q])) = pairs[q]
           /\ IsMetric(pairs[q]) <=> pairs[q].key = MetricName
      /\ \A x \in 1 .. Len(c.kvs) :
           /\ pos[x] \in 1 .. Len(pairs) /\ pairs[pos[x]].key # MetricName
           /\ c.kvs[x] = Id(pairs[pos[x]]) /\ Named(c.kvs[x]) = pairs[pos[x]]
  <2>1. Readable(pairs)
    BY <1>3, <1>5
  <2>2. Says(pos, c, pairs)
    BY <1>6, <2>1, EncodedMeaning
  <2> QED
    BY <2>2 DEF Says
<1>8. PICK last \in 1 .. Len(pairs) :
        /\ IsMetric(pairs[last]) /\ c.metric = Id(pairs[last]).value
        /\ \A l \in 1 .. Len(pairs) : IsMetric(pairs[l]) => l <= last
  <2>1. LastIsMetric(c.metric, pairs)
    BY <1>2, <1>4, <1>5 DEF Encodes
  <2>2. 1 \in 1 .. Len(pairs) /\ IsMetric(pairs[1])
    BY <1>3, <1>5, <1>7
  <2> QED
    BY <2>1, <2>2 DEF LastIsMetric
<1>9. LastMetric(pairs) = last
  <2>0. Len(pairs) \in Nat
    BY <1>3, <1>5
  <2>1. pairs[last].key = MetricName /\ \A l \in last + 1 .. Len(pairs) : pairs[l].key # MetricName
    <3>1. ASSUME NEW l \in last + 1 .. Len(pairs)
          PROVE  pairs[l].key # MetricName
      <4>1. l \in 1 .. Len(pairs) /\ ~(l <= last)
        BY <2>0
      <4> QED
        BY <1>7, <1>8, <4>1
    <3> QED
      BY <1>7, <1>8, <3>1
  <2>2. ASSUME NEW q \in 1 .. Len(pairs), pairs[q].key = MetricName,
               \A l \in q + 1 .. Len(pairs) : pairs[l].key # MetricName
        PROVE  q = last
    <3>1. q <= last
      BY <1>7, <1>8, <2>2
    <3>2. last \notin q + 1 .. Len(pairs)
      BY <2>1, <2>2
    <3> QED
      BY <2>0, <3>1, <3>2
  <2> QED
    BY <2>1, <2>2 DEF LastMetric
<1>10. [key |-> MetricName, value |-> value_names[1][c.metric + 1]] = pairs[last]
  <2>1. Named(Id(pairs[last])) = pairs[last] /\ pairs[last].key = MetricName
    BY <1>7, <1>8
  <2>2. Id(pairs[last]).label = 0
    BY <1>8 DEF IsMetric, metric_label_id
  <2>3. Named(Id(pairs[last])).value = value_names[1][c.metric + 1]
    BY <1>8, <2>2 DEF Named
  <2>4. pairs[last] = [key |-> pairs[last].key, value |-> pairs[last].value]
    BY <1>7 DEF KeyVals
  <2> QED
    BY <2>1, <2>3, <2>4
<1>11. {Named(c.kvs[x]) : x \in 1 .. Len(c.kvs)} = {pairs[q] : q \in Others(pairs)}
  <2>1. \A x \in 1 .. Len(c.kvs) : pos[x] \in Others(pairs) /\ Named(c.kvs[x]) = pairs[pos[x]]
    BY <1>6, <1>7 DEF Arranged
  <2>2. \A q \in Others(pairs) : \E x \in 1 .. Len(c.kvs) : pos[x] = q
    BY <1>6 DEF Arranged
  <2> QED
    BY <2>1, <2>2
<1>12. {q \in 1 .. Len(pairs) : pairs[q].key = MetricName => q = last} = Others(pairs) \cup {last}
  BY <1>7, <1>8 DEF Others
<1>13. Decoded(c) = {pairs[last]} \cup {Named(c.kvs[x]) : x \in 1 .. Len(c.kvs)}
  BY <1>10 DEF Decoded, Named
<1>14. Decoded(c) = {pairs[p] : p \in Others(pairs) \cup {last}}
  BY <1>11, <1>13
<1> QED
  BY <1>4, <1>5, <1>9, <1>12, <1>14

\* Start-up, from the exposition to the tables and the catalogue, for every
\* exposition: the counts of the summary, the lookups, and the series stored.
THEOREM StartUpCorrect ==
  Spec => [](/\ CountsExact /\ LookupRoundTrip /\ CatalogueSorted /\ SeriesDecode
             /\ FinishedIsSorted /\ SpecCorrect /\ UnknownMetricIsNotAny)
BY CacheInvariant, CountsHold, RoundTripHolds, SortedHolds, DecodeHolds, CorrectHolds,
   UnknownMetricHolds, PTL

-----------------------------------------------------------------------------
(* Lists of positions.                                                     *)

\* The one list of a set in its order: as long as the set, with each element.
LEMMA InOrderFacts ==
  ASSUME NEW S, IsFiniteSet(S), NEW a \in InOrder(S)
  PROVE  /\ a \in Seq(S) /\ Len(a) = Cardinality(S) /\ Len(a) \in Nat
         /\ S \subseteq Nat =>
              /\ \A x, y \in 1 .. Len(a) : x < y => a[x] < a[y]
              /\ \A k \in S : \E x \in 1 .. Len(a) : a[x] = k
<1> DEFINE D == 1 .. Cardinality(S)
<1>1. Cardinality(S) \in Nat
  BY FS_CardinalityType
<1>2. a \in [D -> S] /\ \A x, y \in D : x < y => a[x] < a[y]
  BY DEF InOrder
<1>3. a \in Seq(S) /\ Len(a) = Cardinality(S)
  BY <1>1, <1>2
<1>4. ASSUME S \subseteq Nat
      PROVE  \A k \in S : \E x \in D : a[x] = k
  <2>1. ASSUME NEW x \in D, NEW y \in D, a[x] = a[y]
        PROVE  x = y
    <3>1. a[x] \in Nat
      BY <1>2, <1>4
    <3> QED
      BY <1>1, <1>2, <2>1, <3>1
  <2>2. a \in Injection(D, S)
    BY <1>2, <2>1, Fun_IsInj
  <2>3. Cardinality(D) = Cardinality(S)
    BY <1>1, Segment
  <2> HIDE DEF D
  <2>4. a \in Surjection(D, S)
    BY <2>2, <2>3, FS_Injection
  <2> QED
    BY <2>4, Fun_SurjectionProperties
<1> QED
  BY <1>1, <1>2, <1>3, <1>4

-----------------------------------------------------------------------------
(* What the ids of a line and of a question say.                           *)

\* A label the cache knows is a name of the table, and only MetricName's id is
\* that of the metric.
LEMMA KnownLabels ==
  ASSUME CacheInv, AllLowerCase, NEW pair, Known(pair)
  PROVE  \E k \in 1 .. Len(label_names) : label_names[k] = pair.key /\ Id(pair).label = k - 1
<1>1. LabelId(label_names, pair.key) < Len(label_names)
  BY TableFacts DEF Known
<1> QED
  BY <1>1, NamesFound, IdFacts

\* With the id of a pair the cache has, a pair of a known label is that pair.
LEMMA SameId ==
  ASSUME CacheInv, AllLowerCase, NEW q \in KeyVals, Known(q),
         NEW p \in KeyVals, InTables(p), Id(q).label = Id(p).label, Id(q).value = Id(p).value
  PROVE  q = p
<1>1. /\ Named(Id(p)) = p /\ Id(p).value + 1 \in 1 .. Len(value_names[Id(p).label + 1])
      /\ Id(p) \in Pairs
  BY PairDecodes
<1>2. PICK k \in 1 .. Len(label_names) : label_names[k] = q.key /\ Id(q).label = k - 1
  BY KnownLabels
<1>3. k - 1 + 1 = k /\ Id(p).label + 1 = k
  BY <1>2, TableFacts
<1>4. p.key = q.key
  BY <1>1, <1>2, <1>3 DEF Named
<1> DEFINE V == value_names[k]
<1>5. /\ V \in Seq(Names) /\ Len(V) <= Capacity /\ LowerCase(V) /\ Len(V) \in Nat
      /\ \A x, y \in 1 .. Len(V) : V[x] = V[y] => x = y
  BY TableFacts DEF AllLowerCase, NoRepeat
<1>6. p.value = V[Id(p).value + 1]
  BY <1>1, <1>3 DEF Named
<1>7. Id(q).value = LabelId(V, q.value)
  <2>1. Id(q).value = ValueId(value_names, Id(q).label, q.value)
    BY DEF Id
  <2> QED
    BY <1>2, <1>3, <2>1, ValueIsLookup
<1>8. Id(p).value \in Nat /\ Id(p).value < Len(V)
  BY <1>1, <1>3, <1>5, WordAssumption DEF Pairs, Ids
<1> HIDE DEF V
<1>9. PICK v \in 1 .. Len(V) : V[v] = q.value /\ LabelId(V, q.value) = v - 1
  <2>1. LabelId(V, q.value) < Len(V)
    BY <1>7, <1>8
  <2> QED
    BY <1>5, <2>1, LookupExact
<1>10. v = Id(p).value + 1
  BY <1>5, <1>7, <1>8, <1>9
<1>11. p.value = q.value
  BY <1>6, <1>9, <1>10
<1> QED
  BY <1>4, <1>11 DEF KeyVals

\* What a stored series says of its line.
LineSays(c, pairs) ==
  /\ \A p \in 1 .. Len(pairs) :
       /\ pairs[p] \in KeyVals /\ InTables(pairs[p]) /\ Known(pairs[p])
       /\ Named(Id(pairs[p])) = pairs[p] /\ (IsMetric(pairs[p]) <=> pairs[p].key = MetricName)
  /\ \E p \in 1 .. Len(pairs) :
       pairs[p].key = MetricName /\ IsMetric(pairs[p]) /\ c.metric = Id(pairs[p]).value
  /\ \A x \in 1 .. Len(c.kvs) : \E p \in 1 .. Len(pairs) :
       pairs[p].key # MetricName /\ c.kvs[x] = Id(pairs[p])
  /\ \A p \in 1 .. Len(pairs) : pairs[p].key # MetricName =>
       \E x \in 1 .. Len(c.kvs) : c.kvs[x] = Id(pairs[p])
  /\ (\A p, q \in 1 .. Len(pairs) : pairs[p].key = pairs[q].key => p = q) =>
       DistinctLabels(c.kvs)
  /\ Len(c.kvs) \in Nat /\ SortedByLabel(c.kvs)

LEMMA EncodedLine ==
  ASSUME CacheInv, AllLowerCase, NEW pairs, Readable(pairs), Len(pairs) > 0,
         pairs[1].key = MetricName, NEW c \in Specs, Encodes(c, pairs)
  PROVE  LineSays(c, pairs)
<1>1. pairs \in Seq(KeyVals) /\ \A p \in 1 .. Len(pairs) : InTables(pairs[p])
  BY DEF Readable
<1>2. PICK pos : Arranged(pos, c.kvs, pairs)
  BY DEF Encodes
<1>3. Says(pos, c, pairs)
  BY <1>2, EncodedMeaning
<1>4. \E p \in 1 .. Len(pairs) :
        pairs[p].key = MetricName /\ IsMetric(pairs[p]) /\ c.metric = Id(pairs[p]).value
  <2>1. 1 \in 1 .. Len(pairs) /\ IsMetric(pairs[1])
    BY <1>1, <1>3 DEF Says
  <2> QED
    BY <1>3, <2>1 DEF Encodes, LastIsMetric, Says
<1>5. \A p \in 1 .. Len(pairs) : pairs[p].key # MetricName =>
         \E x \in 1 .. Len(c.kvs) : c.kvs[x] = Id(pairs[p])
  <2> SUFFICES ASSUME NEW p \in 1 .. Len(pairs), pairs[p].key # MetricName
               PROVE  \E x \in 1 .. Len(c.kvs) : c.kvs[x] = Id(pairs[p])
    OBVIOUS
  <2>1. p \in Others(pairs)
    BY <1>3 DEF Says, Others
  <2> QED
    BY <1>2, <1>3, <2>1 DEF Arranged, Says
<1>6. (\A p, q \in 1 .. Len(pairs) : pairs[p].key = pairs[q].key => p = q) =>
         DistinctLabels(c.kvs)
  <2> SUFFICES ASSUME \A p, q \in 1 .. Len(pairs) : pairs[p].key = pairs[q].key => p = q,
                      NEW x \in 1 .. Len(c.kvs), NEW y \in 1 .. Len(c.kvs),
                      c.kvs[x].label = c.kvs[y].label
               PROVE  x = y
    BY DEF DistinctLabels
  <2>1. Named(c.kvs[x]).key = Named(c.kvs[y]).key
    BY DEF Named
  <2>2. pos[x] = pos[y]
    BY <1>3, <2>1 DEF Says
  <2> QED
    BY <1>2, <2>2 DEF Arranged
<1>7. SortedByLabel(c.kvs)
  BY EncodedIsSorted
<1>8. Len(c.kvs) \in Nat
  BY DEF Specs
<1> QED
  BY <1>1, <1>3, <1>4, <1>5, <1>6, <1>7, <1>8 DEF LineSays, Says

\* The lines of a finished cache.
LEMMA LineReadable ==
  ASSUME CacheInv, phase \in {"encode", "ready"}, NEW k \in 1 .. Len(series_collection)
  PROVE  /\ Readable(series_collection[k]) /\ Len(series_collection[k]) > 0
         /\ series_collection[k][1].key = MetricName
         /\ label_names # << >> /\ label_names[1] = MetricName
<1> TypeOK
  BY DEF CacheInv
<1>1. series_collection # NoExposition
  BY LinesInTables
<1>2. /\ series_collection[k] \in Seq(KeyVals) /\ Len(series_collection[k]) > 0
      /\ series_collection[k][1].key = MetricName
      /\ \A p \in 1 .. Len(series_collection[k]) : InTables(series_collection[k][p])
  BY <1>1, LinesType, LinesInTables
<1>3. InTables(series_collection[k][1])
  BY <1>2
<1>4. label_names # << >>
  BY <1>3 DEF InTables
<1> QED
  BY <1>2, <1>4, LinesInTables DEF Readable

LEMMA StoredSays ==
  ASSUME CacheInv, CatalogueInv, phase = "ready", AllLowerCase, NEW k \in 1 .. Len(all_series)
  PROVE  /\ LineSays(all_series[k], series_collection[k])
         /\ label_names # << >> /\ label_names[1] = MetricName
         /\ k \in 1 .. Len(series_collection) /\ series_collection[k] \in Seq(KeyVals)
<1> TypeOK
  BY DEF CacheInv
<1>1. k \in 1 .. Len(series_collection)
  BY DEF CatalogueInv
<1>2. PICK c : c = all_series[k]
  OBVIOUS
<1>3. PICK pairs : pairs = series_collection[k]
  OBVIOUS
<1>4. Readable(pairs) /\ Len(pairs) > 0 /\ pairs[1].key = MetricName
  BY <1>1, <1>3, LineReadable
<1>5. Encodes(c, pairs) /\ c \in Specs
  BY <1>2, <1>3, StoredEncodes DEF TypeOK
<1>6. LineSays(c, pairs)
  BY <1>4, <1>5, EncodedLine
<1>7. pairs \in Seq(KeyVals)
  BY <1>4 DEF Readable
<1> QED
  BY <1>1, <1>2, <1>3, <1>6, <1>7, LineReadable

\* A series that encodes a line has ids that are positions.
LEMMA LineRenderable ==
  ASSUME CacheInv, AllLowerCase, NEW c, NEW line, LineSays(c, line)
  PROVE  Renderable(label_names, value_names, c)
<1>1. ASSUME NEW pair \in KeyVals, InTables(pair)
      PROVE  /\ Id(pair).label < Len(label_names)
             /\ Id(pair).value < Len(value_names[Id(pair).label + 1])
  <2>1. Id(pair) \in Pairs
    BY <1>1, PairDecodes
  <2>2. Id(pair).label \in Nat /\ Id(pair).value \in Nat
    BY <2>1, WordAssumption DEF Pairs, Ids
  <2>3. Id(pair).label + 1 \in 1 .. Len(label_names)
    BY <1>1, PairDecodes
  <2>4. Id(pair).value + 1 \in 1 .. Len(value_names[Id(pair).label + 1])
    BY <1>1, PairDecodes
  <2>5. Len(label_names) \in Nat /\ Len(value_names[Id(pair).label + 1]) \in Nat
    BY <2>3, TableFacts
  <2> QED
    BY <2>2, <2>3, <2>4, <2>5
<1>2. c.metric < Len(value_names[1])
  <2>1. PICK p \in 1 .. Len(line) : IsMetric(line[p]) /\ c.metric = Id(line[p]).value
    BY DEF LineSays
  <2>2. Id(line[p]).label + 1 = 1 /\ line[p] \in KeyVals /\ InTables(line[p])
    BY <2>1 DEF IsMetric, metric_label_id, LineSays
  <2> QED
    BY <1>1, <2>1, <2>2
<1>3. ASSUME NEW x \in 1 .. Len(c.kvs)
      PROVE  /\ c.kvs[x].label < Len(label_names)
             /\ c.kvs[x].value < Len(value_names[c.kvs[x].label + 1])
  <2>1. PICK p \in 1 .. Len(line) : c.kvs[x] = Id(line[p])
    BY DEF LineSays
  <2> QED
    BY <1>1, <2>1 DEF LineSays
<1> QED
  BY <1>2, <1>3 DEF Renderable

\* What the encoding of a question says, if its labels are known.
QuestionSays(set, pairs) ==
  /\ LastIsMetric(set.metric, pairs)
  /\ \A x \in 1 .. Len(set.kvs) : \E p \in 1 .. Len(pairs) :
       ~IsMetric(pairs[p]) /\ set.kvs[x] = Id(pairs[p])
  /\ \A p \in 1 .. Len(pairs) : ~IsMetric(pairs[p]) =>
       \E x \in 1 .. Len(set.kvs) : set.kvs[x] = Id(pairs[p])

LEMMA EncodedQuestion ==
  ASSUME NEW set, NEW pairs, Encodes(set, pairs), \A p \in 1 .. Len(pairs) : Known(pairs[p])
  PROVE  QuestionSays(set, pairs)
<1>1. PICK pos : Arranged(pos, set.kvs, pairs)
  BY DEF Encodes
<1>2. \A x \in 1 .. Len(set.kvs) : pos[x] \in Others(pairs) /\ set.kvs[x] = Id(pairs[pos[x]])
  BY <1>1 DEF Arranged, Others
<1>3. \A p \in 1 .. Len(pairs) : ~IsMetric(pairs[p]) =>
        \E x \in 1 .. Len(set.kvs) : set.kvs[x] = Id(pairs[p])
  <2> SUFFICES ASSUME NEW p \in 1 .. Len(pairs), ~IsMetric(pairs[p])
               PROVE  \E x \in 1 .. Len(set.kvs) : set.kvs[x] = Id(pairs[p])
    OBVIOUS
  <2>1. p \in Others(pairs)
    BY DEF Others
  <2>2. PICK x \in 1 .. Len(set.kvs) : pos[x] = p
    BY <1>1, <2>1 DEF Arranged
  <2> QED
    BY <1>2, <2>2
<1>4. \A x \in 1 .. Len(set.kvs) : \E p \in 1 .. Len(pairs) :
        ~IsMetric(pairs[p]) /\ set.kvs[x] = Id(pairs[p])
  BY <1>2 DEF Others
<1>5. LastIsMetric(set.metric, pairs)
  BY DEF Encodes
<1> QED
  BY <1>3, <1>4, <1>5 DEF QuestionSays

LEMMA MetricKnown ==
  ASSUME CacheInv, AllLowerCase, label_names[1] = MetricName, NEW pair, Known(pair)
  PROVE  IsMetric(pair) <=> pair.key = MetricName
<1>1. PICK k \in 1 .. Len(label_names) : label_names[k] = pair.key /\ Id(pair).label = k - 1
  BY KnownLabels
<1>2. IsMetric(pair) <=> k = 1
  BY <1>1, TableFacts DEF IsMetric, metric_label_id
<1>3. 1 \in 1 .. Len(label_names) /\ NoRepeat(label_names)
  BY TableFacts
<1> QED
  BY <1>1, <1>2, <1>3 DEF NoRepeat

\* A question that names the metric at most once, of labels the cache knows.
Clear(pairs) ==
  /\ pairs \in Seq(KeyVals) /\ \A p \in 1 .. Len(pairs) : Known(pairs[p])
  /\ \A p, q \in 1 .. Len(pairs) :
       pairs[p].key = MetricName /\ pairs[q].key = MetricName => p = q

Distinct(line) == \A p, q \in 1 .. Len(line) : line[p].key = line[q].key => p = q

Within(pairs, line) ==
  \A p \in 1 .. Len(pairs) : \E r \in 1 .. Len(line) : line[r] = pairs[p]

Carries(line, pairs) ==
  \A p \in 1 .. Len(pairs) : \E r \in 1 .. Len(line) : line[r].key = pairs[p].key

\* A line that says all of a question is selected.
LEMMA WithinSelected ==
  ASSUME CacheInv, AllLowerCase, label_names[1] = MetricName,
         NEW pairs, Clear(pairs), NEW set, QuestionSays(set, pairs),
         NEW line, NEW c, LineSays(c, line), Distinct(line), Within(pairs, line)
  PROVE  InSet(set, c)
<1>1. MetricAccepts(set, c)
  <2>1. CASE set.metric = UINT32_MAX
    BY <2>1 DEF MetricAccepts
  <2>2. CASE \E p \in 1 .. Len(pairs) : IsMetric(pairs[p]) /\ set.metric = Id(pairs[p]).value
    <3>1. PICK p \in 1 .. Len(pairs) : IsMetric(pairs[p]) /\ set.metric = Id(pairs[p]).value
      BY <2>2
    <3>2. PICK r \in 1 .. Len(line) : line[r] = pairs[p]
      BY DEF Within
    <3>3. PICK q \in 1 .. Len(line) : line[q].key = MetricName /\ c.metric = Id(line[q]).value
      BY DEF LineSays
    <3>4. line[r].key = MetricName
      BY <3>1, <3>2 DEF LineSays
    <3>5. q = r
      BY <3>3, <3>4 DEF Distinct
    <3> QED
      BY <3>1, <3>2, <3>3, <3>5 DEF MetricAccepts
  <2> QED
    BY <2>1, <2>2 DEF QuestionSays, LastIsMetric
<1>2. ASSUME NEW x \in 1 .. Len(set.kvs)
      PROVE  LowerBoundAgrees(c.kvs, set.kvs[x])
  <2>1. PICK p \in 1 .. Len(pairs) : ~IsMetric(pairs[p]) /\ set.kvs[x] = Id(pairs[p])
    BY DEF QuestionSays
  <2>2. PICK r \in 1 .. Len(line) : line[r] = pairs[p]
    BY DEF Within
  <2>3. line[r].key # MetricName
    BY <2>1, <2>2 DEF LineSays
  <2>4. PICK y \in 1 .. Len(c.kvs) : c.kvs[y] = Id(line[r])
    BY <2>3 DEF LineSays
  <2>5. \A z \in 1 .. Len(c.kvs) : c.kvs[z].label \in Nat
    <3> TAKE z \in 1 .. Len(c.kvs)
    <3>1. PICK s \in 1 .. Len(line) : c.kvs[z] = Id(line[s])
      BY DEF LineSays
    <3> QED
      BY <3>1, IdFacts, WordAssumption DEF Ids
  <2>6. c.kvs[y] = set.kvs[x]
    BY <2>1, <2>2, <2>4
  <2>7. ASSUME NEW l \in 1 .. y - 1
        PROVE  c.kvs[l].label < c.kvs[y].label
    <3>1. l \in 1 .. Len(c.kvs) /\ l < y
      BY DEF LineSays
    <3>2. c.kvs[l].label <= c.kvs[y].label /\ c.kvs[l].label # c.kvs[y].label
      BY <3>1 DEF LineSays, Distinct, DistinctLabels, SortedByLabel
    <3>3. c.kvs[l].label \in Nat /\ c.kvs[y].label \in Nat
      BY <2>5, <3>1
    <3> QED
      BY SMTT(30), <3>2, <3>3
  <2>8. /\ c.kvs[y].label >= set.kvs[x].label /\ c.kvs[y].value = set.kvs[x].value
        /\ \A l \in 1 .. y - 1 : c.kvs[l].label < set.kvs[x].label
    BY <2>5, <2>6, <2>7
  <2> QED
    BY <2>8 DEF LowerBoundAgrees
<1> QED
  BY <1>1, <1>2 DEF InSet

\* A line that is selected and has the labels of a question says all of it.
LEMMA SelectedWithin ==
  ASSUME CacheInv, AllLowerCase, label_names[1] = MetricName,
         NEW pairs, Clear(pairs), NEW set, QuestionSays(set, pairs),
         NEW line, NEW c, LineSays(c, line), Carries(line, pairs), InSet(set, c), Distinct(line)
  PROVE  Within(pairs, line)
<1> SUFFICES ASSUME NEW p \in 1 .. Len(pairs)
             PROVE  \E r \in 1 .. Len(line) : line[r] = pairs[p]
  BY DEF Within
<1>1. pairs[p] \in KeyVals /\ Known(pairs[p])
  BY DEF Clear
<1>2. CASE IsMetric(pairs[p])
  <2>1. pairs[p].key = MetricName
    BY <1>1, <1>2, MetricKnown
  <2>2. \A q \in 1 .. Len(pairs) : IsMetric(pairs[q]) => q = p
    BY <2>1, MetricKnown DEF Clear
  <2>3. set.metric = Id(pairs[p]).value
    BY <1>2, <2>2 DEF QuestionSays, LastIsMetric
  <2>4. set.metric # UINT32_MAX
    BY <1>1, <2>3, IdFacts
  <2>5. PICK r \in 1 .. Len(line) :
          line[r].key = MetricName /\ IsMetric(line[r]) /\ c.metric = Id(line[r]).value
    BY DEF LineSays
  <2>6. Id(pairs[p]).value = Id(line[r]).value /\ Id(pairs[p]).label = Id(line[r]).label
    BY <1>2, <2>3, <2>4, <2>5 DEF InSet, MetricAccepts, IsMetric
  <2>7. line[r] \in KeyVals /\ InTables(line[r])
    BY DEF LineSays
  <2> QED
    BY <1>1, <2>6, <2>7, SameId
<1>3. CASE ~IsMetric(pairs[p])
  <2>1. PICK x \in 1 .. Len(set.kvs) : set.kvs[x] = Id(pairs[p])
    BY <1>3 DEF QuestionSays
  <2>2. PICK y \in 1 .. Len(c.kvs) :
          /\ c.kvs[y].label >= set.kvs[x].label
          /\ c.kvs[y].value = set.kvs[x].value
          /\ \A l \in 1 .. (y - 1) : c.kvs[l].label < set.kvs[x].label
    BY DEF InSet, LowerBoundAgrees
  <2>3. PICK s \in 1 .. Len(line) : line[s].key = pairs[p].key
    BY DEF Carries
  <2>4. line[s].key # MetricName /\ Id(line[s]).label = Id(pairs[p]).label
    BY <1>1, <1>3, <2>3, MetricKnown DEF Id
  <2>5. PICK z \in 1 .. Len(c.kvs) : c.kvs[z] = Id(line[s])
    BY <2>4 DEF LineSays
  <2>6. c.kvs[z].label = set.kvs[x].label
    BY <2>1, <2>4, <2>5
  <2>7. /\ Len(c.kvs) \in Nat /\ y \in Nat /\ z \in Nat
        /\ c.kvs[y].label \in Nat /\ c.kvs[z].label \in Nat
    <3>1. PICK q \in 1 .. Len(line) : c.kvs[y] = Id(line[q])
      BY DEF LineSays
    <3>2. c.kvs[y].label \in Nat /\ c.kvs[z].label \in Nat
      BY SMTT(30), <2>5, <3>1, IdFacts, WordAssumption DEF Ids
    <3>3. Len(c.kvs) \in Nat
      BY DEF LineSays
    <3> QED
      BY <3>2, <3>3
  <2>8. y <= z
    <3>1. z \in 1 .. y - 1 => c.kvs[z].label < c.kvs[z].label
      BY <2>2, <2>6
    <3> QED
      BY <2>7, <3>1
  <2>9. c.kvs[y].label <= c.kvs[z].label
    <3>1. CASE y = z
      BY <2>7, <3>1
    <3>2. CASE y < z
      BY <3>2 DEF LineSays, SortedByLabel
    <3> QED
      BY <2>7, <2>8, <3>1, <3>2
  <2>10. PICK q \in 1 .. Len(line) : c.kvs[y] = Id(line[q])
    BY DEF LineSays
  <2>11. Id(pairs[p]).label = Id(line[q]).label /\ Id(pairs[p]).value = Id(line[q]).value
    BY <2>1, <2>2, <2>6, <2>7, <2>9, <2>10
  <2>12. line[q] \in KeyVals /\ InTables(line[q])
    BY DEF LineSays
  <2> QED
    BY <1>1, <2>11, <2>12, SameId
<1> QED
  BY <1>2, <1>3

\* A question with an unknown label selects nothing: its id is beyond the ids
\* of all labels.
LEMMA UnknownSelectsNone ==
  ASSUME CacheInv, NEW pairs, NEW set, Encodes(set, pairs),
         NEW p \in 1 .. Len(pairs), ~Known(pairs[p]), NEW line, NEW c, LineSays(c, line)
  PROVE  ~InSet(set, c)
<1>1. Id(pairs[p]).label = NotFound /\ ~IsMetric(pairs[p])
  <2>1. Hits(label_names, pairs[p].key) = {}
    BY TableFacts, LookupCases DEF Known
  <2>2. LabelId(label_names, pairs[p].key) = NotFound
    BY <2>1, TableFacts, LookupCases
  <2> QED
    BY <2>2, IdFacts
<1>2. PICK pos : Arranged(pos, set.kvs, pairs)
  BY DEF Encodes
<1>3. PICK x \in 1 .. Len(set.kvs) : pos[x] = p
  BY <1>1, <1>2 DEF Arranged, Others
<1>4. set.kvs[x].label = NotFound
  BY <1>1, <1>2, <1>3 DEF Arranged
<1>5. ASSUME NEW y \in 1 .. Len(c.kvs), c.kvs[y].label >= NotFound
      PROVE  FALSE
  <2>1. PICK q \in 1 .. Len(line) : c.kvs[y] = Id(line[q])
    BY DEF LineSays
  <2>2. Known(line[q])
    BY DEF LineSays
  <2>3. c.kvs[y].label < Len(label_names) /\ c.kvs[y].label \in Nat
    BY <2>1, <2>2, TableFacts, IdFacts, WordAssumption DEF Known, Ids
  <2>4. Len(label_names) <= Capacity /\ Len(label_names) \in Nat
    BY TableFacts
  <2>5. NotFound > Capacity /\ NotFound \in Nat /\ Capacity \in Nat
    BY IdsApart, WordAssumption DEF Ids
  <2> QED
    BY <1>5, <2>3, <2>4, <2>5
<1>6. ~LowerBoundAgrees(c.kvs, set.kvs[x])
  BY <1>4, <1>5 DEF LowerBoundAgrees
<1> QED
  BY <1>6 DEF InSet

-----------------------------------------------------------------------------
(* The text of a series, read back.                                        *)

LEMMA Halves ==
  ASSUME NEW k \in Nat
  PROVE  /\ (2 * k) % 2 = 0 /\ (2 * k) \div 2 = k
         /\ (2 * k + 1) \div 2 = k /\ (2 * k + 1) % 2 = 1
OBVIOUS

\* The pairs of a series that has a metric, as they are written.
WrittenAs(names, values, c, W) ==
  /\ Len(W) = Len(c.kvs) + 1
  /\ W[1] = NamedPair(names, values, 0, c.metric)
  /\ \A x \in 1 .. Len(c.kvs) :
       W[x + 1] = NamedPair(names, values, c.kvs[x].label, c.kvs[x].value)

LEMMA TextRead ==
  ASSUME NEW names, NEW values, NEW c, Len(c.kvs) \in Nat
  PROVE  /\ PairsOf(to_json(names, values, c)) = Written(names, values, c)
         /\ c.metric # UINT32_MAX => WrittenAs(names, values, c, Written(names, values, c))
<1> DEFINE W == Written(names, values, c)
           T == to_json(names, values, c)
           others == [k \in 1 .. Len(c.kvs) |->
                        NamedPair(names, values, c.kvs[k].label, c.kvs[k].value)]
<1>1. W = (IF c.metric = UINT32_MAX THEN << >> ELSE <<NamedPair(names, values, 0, c.metric)>>)
            \o others
  BY DEF Written
<1>2. Len(others) = Len(c.kvs)
  OBVIOUS
<1>3. \A x \in 1 .. Len(c.kvs) :
        others[x] = NamedPair(names, values, c.kvs[x].label, c.kvs[x].value)
  OBVIOUS
<1> DEFINE U == UNION {{NamedPair(names, values, 0, c.metric)}, {others[x] : x \in 1 .. Len(c.kvs)}}
<1>4. others \in Seq(U) /\ <<NamedPair(names, values, 0, c.metric)>> \in Seq(U)
  OBVIOUS
<1> HIDE DEF others, U
<1>5. /\ Len(W) = Len(c.kvs) + IF c.metric = UINT32_MAX THEN 0 ELSE 1
      /\ \A x \in 1 .. Len(c.kvs) :
           W[x + IF c.metric = UINT32_MAX THEN 0 ELSE 1] = others[x]
      /\ c.metric # UINT32_MAX => W[1] = NamedPair(names, values, 0, c.metric)
      /\ W \in Seq(U)
  <2>1. CASE c.metric = UINT32_MAX
    <3>1. W = << >> \o others
      BY <1>1, <2>1
    <3>2. W = others
      BY <1>4, <3>1
    <3> QED
      BY <1>2, <1>4, <2>1, <3>2
  <2>2. CASE c.metric # UINT32_MAX
    <3>1. W = <<NamedPair(names, values, 0, c.metric)>> \o others
      BY <1>1, <2>2
    <3> HIDE DEF W
    <3> QED
      BY <1>2, <1>4, <2>2, <3>1
  <2> QED
    BY <2>1, <2>2
<1>6. T = [k \in 1 .. 2 * Len(W) + 1 |->
             IF k = 2 * Len(W) + 1 THEN Mark("}")
             ELSE IF k = 1 THEN Mark("{")
             ELSE IF k % 2 = 0 THEN W[k \div 2] ELSE Mark(",")]
  BY DEF to_json, to_text
<1> HIDE DEF W, T
<1>7. Len(W) \in Nat /\ W = [k \in 1 .. Len(W) |-> W[k]]
  <2>1. W \in Seq(U)
    BY <1>5
  <2> QED
    BY <2>1
<1>8. Len(T) = 2 * Len(W) + 1
  <2> DEFINE N == 2 * Len(W) + 1
  <2>1. N \in Nat
    BY <1>7
  <2>2. T = [k \in 1 .. N |-> T[k]]
    BY <1>6
  <2> HIDE DEF N
  <2>3. T \in [1 .. N -> {T[k] : k \in 1 .. N}]
    BY <2>2
  <2>4. Len(T) = N
    BY <2>1, <2>3
  <2> QED
    BY <2>4 DEF N
<1>9. ASSUME NEW k \in 1 .. Len(W)
      PROVE  T[2 * k] = W[k]
  <2>1. 2 * k \in 1 .. 2 * Len(W) + 1 /\ 2 * k # 2 * Len(W) + 1 /\ 2 * k # 1
    BY <1>7
  <2>2. (2 * k) % 2 = 0 /\ (2 * k) \div 2 = k
    BY <1>7, Halves
  <2> QED
    BY <1>6, <2>1, <2>2
<1>10. PairsOf(T) = [k \in 1 .. Len(T) \div 2 |-> T[2 * k]]
  BY DEF PairsOf
<1>11. PairsOf(T) = W
  <2>1. Len(T) \div 2 = Len(W)
    BY <1>7, <1>8, Halves
  <2> QED
    BY <1>7, <1>9, <1>10, <2>1
<1>12. c.metric # UINT32_MAX => WrittenAs(names, values, c, W)
  BY <1>3, <1>5 DEF WrittenAs
<1> QED
  BY <1>11, <1>12 DEF W, T

\* The text of a series that has a metric is one a reader can take apart.
LEMMA TextWellFormed ==
  ASSUME NEW names, NEW values, NEW c, Len(c.kvs) \in Nat, c.metric # UINT32_MAX
  PROVE  WellFormed(to_json(names, values, c))
<1> DEFINE W == Written(names, values, c)
           T == to_json(names, values, c)
           L == Len(c.kvs) + 1
<1>1. WrittenAs(names, values, c, W)
  BY TextRead
<1>2. Len(W) = L /\ L \in Nat /\ L >= 1
  BY <1>1 DEF WrittenAs
<1>3. \A k \in 1 .. L : IsPair(W[k])
  <2> TAKE k \in 1 .. L
  <2>1. k = 1 \/ (k - 1 \in 1 .. Len(c.kvs) /\ (k - 1) + 1 = k)
    BY <1>2
  <2>2. \E label, value : W[k] = NamedPair(names, values, label, value)
    BY <1>1, <2>1 DEF WrittenAs
  <2> QED
    BY <2>2 DEF NamedPair, IsPair
<1> DEFINE N == 2 * L + 1
           F(k) == IF k = N THEN Mark("}")
                   ELSE IF k = 1 THEN Mark("{")
                   ELSE IF k % 2 = 0 THEN W[k \div 2] ELSE Mark(",")
<1>4. T = [k \in 1 .. N |-> F(k)]
  BY <1>2 DEF to_json, to_text
<1>5. N \in Nat /\ N >= 3 /\ N % 2 = 1
  <2>1. L \in Nat /\ L >= 1
    BY <1>2
  <2> HIDE DEF L
  <2>2. N \in Nat /\ N >= 3
    BY <2>1
  <2> QED
    BY <2>1, <2>2, Halves
<1> HIDE DEF W, T, F
<1>6. Len(T) = N
  <2> HIDE DEF N
  <2>1. T \in [1 .. N -> {F(k) : k \in 1 .. N}]
    BY <1>4
  <2> QED
    BY <1>5, <2>1
<1>7. Len(T) % 2 = 1 /\ Len(T) >= 3
  BY <1>5, <1>6
<1>8. \A mark : ~IsPair(Mark(mark))
  BY DEF IsPair, Mark
<1>9. ASSUME NEW k \in 1 .. N
      PROVE  /\ IsPair(T[k]) <=> k % 2 = 0
             /\ k % 2 = 1 =>
                  T[k] = IF k = 1 THEN Mark("{") ELSE IF k = N THEN Mark("}") ELSE Mark(",")
  <2>1. T[k] = F(k)
    BY <1>4
  <2>2. CASE k % 2 = 0
    <3>1. k # 1 /\ k # N /\ k \div 2 \in 1 .. L
      BY <1>2, <2>2
    <3>2. T[k] = W[k \div 2]
      BY <2>1, <2>2, <3>1 DEF F
    <3>3. IsPair(T[k])
      BY <1>3, <3>1, <3>2
    <3>4. k % 2 # 1
      BY <2>2
    <3> QED
      BY <2>2, <3>3, <3>4, Zenon
  <2>3. CASE k % 2 = 1
    <3>1. k = 1 => k # N
      BY <1>5
    <3>2. k % 2 # 0
      BY <2>3
    <3> HIDE DEF N
    <3>3. F(k) = IF k = N THEN Mark("}") ELSE IF k = 1 THEN Mark("{") ELSE Mark(",")
      BY <3>2 DEF F
    <3>4. ~IsPair(T[k])
      BY <1>8, <2>1, <3>3
    <3> QED
      BY <2>1, <3>1, <3>2, <3>3, <3>4
  <2>4. k % 2 = 0 \/ k % 2 = 1
    BY <1>5
  <2> QED
    BY <2>2, <2>3, <2>4, Zenon
<1> QED
  BY <1>6, <1>7, <1>9 DEF WellFormed, T

-----------------------------------------------------------------------------
(* Requests.                                                               *)

Answered == n = Len(kvps) + 1 /\ m >= Len(kvs) /\ answer \in InOrder(Selected)

\* A request has been taken on.
Taken == phase = "ready" /\ (pc # "idle" \/ link # 0 \/ asked # << >>)

\* The question is the argument of the encoding; one with known labels ends
\* with an answer.
ClientInv ==
  /\ asked \in Seq(KeyVals)
  /\ answer \in Seq(Nat) /\ \A x \in 1 .. Len(answer) : answer[x] \in 1 .. Len(all_series)
  /\ phase # "ready" => answer = << >> /\ link = 0
  /\ phase \notin {"ready", "conf_error"} => asked = << >>
  /\ Taken => kvps = asked
  /\ link # 0 =>
       /\ link \in 1 .. Len(all_series) /\ Renderable(label_names, value_names, all_series[link])
       /\ asked = PairsOf(Described(link))
  /\ Taken /\ AllLowerCase /\ (\A p \in 1 .. Len(asked) : Known(asked[p])) =>
       pc # "crash" /\ (pc = "idle" => Answered)

WorkerInv == IInv /\ ClientInv

LEMMA SelectedType ==
  ASSUME CacheInv
  PROVE  /\ Selected \subseteq 1 .. Len(all_series) /\ Selected \subseteq Nat
         /\ IsFiniteSet(Selected) /\ Len(all_series) \in Nat
<1>1. Len(all_series) \in Nat
  BY DEF CacheInv, TypeOK
<1>2. Selected \subseteq 1 .. Len(all_series)
  BY DEF Selected
<1>3. IsFiniteSet(1 .. Len(all_series))
  BY <1>1, Segment
<1>4. IsFiniteSet(Selected)
  BY <1>2, <1>3, FS_Subset
<1>5. Selected \subseteq Nat
  BY <1>2
<1> QED
  BY <1>1, <1>2, <1>4, <1>5

\* The pairs of the text of a series, whose ids are positions.
LEMMA TextType ==
  ASSUME CacheInv, label_names # << >>, NEW c \in Specs, Renderable(label_names, value_names, c)
  PROVE  PairsOf(to_json(label_names, value_names, c)) \in Seq(KeyVals)
<1> DEFINE W == Written(label_names, value_names, c)
<1>1. ASSUME NEW label \in Nat, label < Len(label_names),
             NEW value \in Nat, value < Len(value_names[label + 1])
      PROVE  NamedPair(label_names, value_names, label, value) \in KeyVals
  <2>1. label + 1 \in 1 .. Len(label_names)
    BY <1>1, TableFacts
  <2>2. label_names[label + 1] \in Names
    BY <2>1, TableFacts
  <2>3. value_names[label + 1] \in Seq(Names) /\ Len(value_names[label + 1]) \in Nat
    BY <2>1, TableFacts
  <2>4. value + 1 \in 1 .. Len(value_names[label + 1])
    BY <1>1, <2>3
  <2>5. value_names[label + 1][value + 1] \in Names
    BY <2>3, <2>4
  <2> QED
    BY <2>2, <2>5 DEF NamedPair, KeyVals
<1>2. /\ Len(c.kvs) \in Nat /\ c.metric \in Nat
      /\ \A x \in 1 .. Len(c.kvs) : c.kvs[x].label \in Nat /\ c.kvs[x].value \in Nat
  <2>1. c.kvs \in Seq(Pairs) /\ c.metric \in Ids
    BY DEF Specs
  <2>2. \A x \in 1 .. Len(c.kvs) : c.kvs[x] \in Pairs
    BY <2>1
  <2> QED
    BY <2>1, <2>2, WordAssumption DEF Pairs, Ids
<1>3. \A x \in 1 .. Len(c.kvs) :
        NamedPair(label_names, value_names, c.kvs[x].label, c.kvs[x].value) \in KeyVals
  BY <1>1, <1>2 DEF Renderable
<1>4. c.metric # UINT32_MAX => NamedPair(label_names, value_names, 0, c.metric) \in KeyVals
  <2>1. 0 < Len(label_names)
    BY TableFacts
  <2>2. c.metric # UINT32_MAX => c.metric < Len(value_names[0 + 1])
    BY DEF Renderable
  <2> QED
    BY <1>1, <1>2, <2>1, <2>2
<1>5. W \in Seq(KeyVals)
  <2>1. [k \in 1 .. Len(c.kvs) |->
           NamedPair(label_names, value_names, c.kvs[k].label, c.kvs[k].value)] \in Seq(KeyVals)
    BY <1>2, <1>3
  <2>2. (IF c.metric = UINT32_MAX THEN << >>
         ELSE <<NamedPair(label_names, value_names, 0, c.metric)>>) \in Seq(KeyVals)
    BY <1>4
  <2> QED
    BY <2>1, <2>2 DEF Written
<1> QED
  BY <1>2, <1>5, TextRead

\* Steps of a worker leave the cache alone.
LEMMA ServingKeepsCache ==
  ASSUME IInv, EncInv', EncType', phase = "ready",
         UNCHANGED <<cacheVars, label_names, value_names>>
  PROVE  IInv'
<1> CacheInv /\ CatalogueInv /\ TypeOK
  BY DEF IInv, CacheInv
<1>1. CacheInv'
  BY CacheStays DEF cacheVars, TypeOK
<1>2. CatalogueInv'
  BY StoredStays DEF CatalogueInv, cacheVars
<1> QED
  BY <1>1, <1>2 DEF IInv

\* A worker without a cache has nothing.
LEMMA BrokenKeepsCache ==
  ASSUME IInv, phase = "conf_error", pc' \in {"idle", "lookup", "crash"},
         UNCHANGED <<tables, kvps, n, metric, kvs, m, cacheVars>>
  PROVE  IInv'
<1> CacheInv /\ EncInv /\ CatalogueInv /\ TypeOK /\ PhaseInv /\ EntriesInv
  BY DEF IInv, CacheInv
<1>1. Untouched
  BY DEF PhaseInv
<1>2. UNCHANGED <<series_collection, phase, i, j, labels, all_series, label_names, value_names>>
  BY DEF cacheVars, tables
<1>3. EncInv'
  BY <1>1, CallStarts DEF Untouched, TypeOK
<1>4. TypeOK'
  BY <1>2 DEF TypeOK
<1>5. PhaseInv'
  BY <1>1, <1>2 DEF PhaseInv, Untouched
<1>6. EntriesInv'
  BY <1>2, PassedStays, EntriesStay
<1>7. CatalogueInv'
  BY <1>2, StoredStays DEF CatalogueInv
<1> QED
  BY <1>3, <1>4, <1>5, <1>6, <1>7 DEF IInv, CacheInv

\* A request, with pairs of the client's own or with those of a link.
LEMMA RequestKeeps ==
  ASSUME WorkerInv, NEW pairs \in Seq(KeyVals), NEW k, Request(pairs, k),
         k # 0 => /\ k \in 1 .. Len(all_series)
                  /\ Renderable(label_names, value_names, all_series[k])
                  /\ pairs = PairsOf(Described(k))
  PROVE  WorkerInv'
<1> IInv /\ ClientInv
  BY DEF WorkerInv
<1>1. /\ phase = "ready" /\ UNCHANGED <<label_names, value_names>> /\ UNCHANGED cacheVars
      /\ kvps' = pairs /\ pc' = "lookup"
      /\ n' = 1 /\ m' = 1 /\ metric' = UINT32_MAX /\ kvs' = << >>
      /\ asked' = pairs /\ link' = k /\ answer' = << >>
  BY DEF Request, Call, tables
<1>2. EncInv' /\ EncType'
  BY <1>1, CallStarts
<1>3. IInv'
  BY <1>1, <1>2, ServingKeepsCache
<1>4. all_series' = all_series /\ phase' = phase
  BY <1>1 DEF cacheVars
<1>5. link' # 0 =>
        /\ link' \in 1 .. Len(all_series')
        /\ Renderable(label_names', value_names', all_series'[link'])
        /\ asked' = PairsOf(Described(link))'
  BY <1>1, <1>4 DEF Described
<1>6. ClientInv'
  BY <1>1, <1>4, <1>5 DEF ClientInv, Taken
<1> QED
  BY <1>3, <1>6 DEF WorkerInv

LEMMA FollowIsRequest ==
  ASSUME WorkerInv, Follow
  PROVE  \E pairs \in Seq(KeyVals) : \E k :
           /\ Request(pairs, k) /\ k \in 1 .. Len(all_series)
           /\ Renderable(label_names, value_names, all_series[k])
           /\ pairs = PairsOf(Described(k))
<1> IInv /\ ClientInv /\ CacheInv /\ CatalogueInv /\ TypeOK
  BY DEF WorkerInv, IInv, CacheInv
<1>1. PICK x \in 1 .. Len(answer) :
        /\ Renderable(label_names, value_names, all_series[answer[x]])
        /\ Request(PairsOf(Described(answer[x])), answer[x])
  BY DEF Follow
<1>2. PICK k : k = answer[x]
  OBVIOUS
<1>3. k \in 1 .. Len(all_series) /\ phase = "ready"
  BY <1>1, <1>2 DEF ClientInv, Request
<1>4. label_names # << >>
  <2>1. k \in 1 .. Len(series_collection)
    BY <1>3 DEF CatalogueInv
  <2> QED
    BY <1>3, <2>1, LineReadable
<1>5. all_series[k] \in Specs
  BY <1>3 DEF TypeOK
<1>6. PairsOf(Described(k)) \in Seq(KeyVals)
  BY <1>1, <1>2, <1>4, <1>5, TextType DEF Described
<1> QED
  BY <1>1, <1>2, <1>3, <1>6

\* With known labels no lookup reads beyond its table, and with lower case
\* every stored series can be shown.
LEMMA NoCrash ==
  ASSUME WorkerInv, phase = "ready", AllLowerCase, \A p \in 1 .. Len(asked) : Known(asked[p])
  PROVE  ~LookupCrash /\ ~AnswerCrash
<1> IInv /\ ClientInv /\ CacheInv /\ CatalogueInv /\ TypeOK /\ EncInv
  BY DEF WorkerInv, IInv, CacheInv
<1>1. ASSUME LookupCrash
      PROVE  FALSE
  <2>1. pc = "lookup" /\ n \in 1 .. Len(kvps) /\ ~KnownLabel
    BY <1>1 DEF LookupCrash, TypeOK
  <2>2. kvps = asked
    BY <2>1 DEF ClientInv, Taken
  <2> QED
    BY <2>1, <2>2, ValueIdsAre
<1>2. ASSUME AnswerCrash
      PROVE  FALSE
  <2>1. PICK k \in Selected : ~Renderable(label_names, value_names, all_series[k])
    BY <1>2 DEF AnswerCrash
  <2>2. k \in 1 .. Len(all_series)
    BY SelectedType
  <2>3. LineSays(all_series[k], series_collection[k])
    BY <2>2, StoredSays
  <2> QED
    BY <2>1, <2>3, LineRenderable
<1> QED
  BY <1>1, <1>2

\* The condition under which a question is answered is not touched by steps
\* that leave the tables and the question alone.
LEMMA QuestionStays ==
  ASSUME UNCHANGED <<label_names, value_names, asked>>
  PROVE  /\ AllLowerCase' <=> AllLowerCase
         /\ (\A p \in 1 .. Len(asked) : Known(asked[p]))'
              <=> \A p \in 1 .. Len(asked) : Known(asked[p])
BY DEF AllLowerCase, LowerCase, Known

LEMMA EncodeRequestKeeps ==
  ASSUME WorkerInv, EncodeRequest
  PROVE  WorkerInv'
<1> IInv /\ ClientInv /\ CacheInv /\ CatalogueInv /\ TypeOK /\ EncInv
  BY DEF WorkerInv, IInv, CacheInv
<1>1. /\ phase = "ready" /\ Encode /\ UNCHANGED cacheVars /\ UNCHANGED <<asked, link, answer>>
      /\ phase' = phase /\ all_series' = all_series
  BY DEF EncodeRequest, cacheVars, clientVars
<1>2. /\ UNCHANGED <<label_names, value_names, kvps>>
      /\ pc \in {"lookup", "sort"} /\ pc' \in {"lookup", "sort", "done", "crash"}
      /\ pc' = "crash" => LookupCrash
  BY <1>1, TablesStay
     DEF Encode, LookupMetric, LookupLabel, LookupCrash, BeginSort, SortStep, EndSort
<1>3. EncInv' /\ EncType'
  BY <1>1, EncodeKeeps
<1>4. IInv'
  BY <1>1, <1>2, <1>3, ServingKeepsCache
<1>5. Described(link)' = Described(link)
  BY <1>1, <1>2 DEF Described
<1>6. Taken /\ Taken'
  BY <1>1, <1>2 DEF Taken
<1>7. AllLowerCase' /\ (\A p \in 1 .. Len(asked) : Known(asked[p]))' => pc' # "crash"
  BY <1>1, <1>2, QuestionStays, NoCrash
<1>8. ClientInv'
  BY <1>1, <1>2, <1>5, <1>6, <1>7 DEF ClientInv
<1> QED
  BY <1>4, <1>8 DEF WorkerInv

LEMMA AnswerKeeps ==
  ASSUME WorkerInv, Answer
  PROVE  WorkerInv'
<1> IInv /\ ClientInv /\ CacheInv /\ CatalogueInv /\ TypeOK /\ EncInv
  BY DEF WorkerInv, IInv, CacheInv
<1>1. /\ phase = "ready" /\ pc = "done" /\ pc' = "idle" /\ answer' \in InOrder(Selected)
      /\ UNCHANGED cacheVars /\ UNCHANGED <<tables, kvps, n, metric, kvs, m>>
      /\ UNCHANGED <<asked, link>>
  BY DEF Answer, spec
<1>2. /\ UNCHANGED <<label_names, value_names, kvps, n, metric, kvs, m>>
      /\ phase' = phase /\ all_series' = all_series
  BY <1>1 DEF tables, cacheVars
<1>3. EncInv' /\ EncType'
  <2>1. EncInv'
    BY <1>1, EncodeStays
  <2> QED
    BY <1>1, <1>2, <2>1 DEF EncType, TypeOK
<1>4. IInv'
  BY <1>1, <1>2, <1>3, ServingKeepsCache
<1>5. Described(link)' = Described(link)
  BY <1>1, <1>2 DEF Described
<1>6. Selected' = Selected
  BY <1>2 DEF Selected, Result
<1>7. /\ answer' \in Seq(Nat)
      /\ \A x \in 1 .. Len(answer') : answer'[x] \in 1 .. Len(all_series')
  <2>1. answer' \in Seq(Selected)
    BY <1>1, SelectedType, InOrderFacts
  <2> QED
    BY <1>2, <2>1, SelectedType
<1>8. Answered'
  <2>1. n = Len(kvps) + 1 /\ m >= Len(kvs)
    BY <1>1 DEF EncInv
  <2> QED
    BY <1>1, <1>2, <1>6, <2>1 DEF Answered
<1>9. Taken
  BY <1>1 DEF Taken
<1>10. ClientInv'
  BY <1>1, <1>2, <1>5, <1>7, <1>8, <1>9 DEF ClientInv
<1> QED
  BY <1>4, <1>10 DEF WorkerInv

LEMMA CrashKeeps ==
  ASSUME WorkerInv, AnswerCrash \/ (phase = "ready" /\ Respawn)
  PROVE  WorkerInv'
<1> IInv /\ ClientInv /\ CacheInv /\ CatalogueInv /\ TypeOK /\ EncInv
  BY DEF WorkerInv, IInv, CacheInv
<1>1. /\ phase = "ready" /\ pc' \in {"crash", "idle"}
      /\ pc' = "idle" => pc = "crash"
      /\ pc' = "crash" => AnswerCrash /\ pc = "done"
      /\ UNCHANGED <<cacheVars, clientVars>> /\ UNCHANGED <<tables, kvps, n, metric, kvs, m>>
  BY DEF AnswerCrash, Respawn, spec
<1>2. /\ UNCHANGED <<label_names, value_names, kvps, asked, link, answer>>
      /\ phase' = phase /\ all_series' = all_series
  BY <1>1 DEF tables, cacheVars, clientVars
<1>3. EncInv' /\ EncType'
  <2>1. EncInv'
    BY <1>1, EncodeStays
  <2> QED
    BY <1>1, <2>1 DEF EncType, TypeOK
<1>4. IInv'
  BY <1>1, <1>2, <1>3, ServingKeepsCache
<1>5. Described(link)' = Described(link)
  BY <1>2 DEF Described
<1>6. Taken
  BY <1>1 DEF Taken
<1>7. ~(AllLowerCase' /\ (\A p \in 1 .. Len(asked) : Known(asked[p]))')
  <2>1. ~(AllLowerCase /\ \A p \in 1 .. Len(asked) : Known(asked[p]))
    BY <1>1, <1>6, NoCrash DEF ClientInv
  <2> QED
    BY <1>2, <2>1, QuestionStays
<1>8. ClientInv'
  BY <1>1, <1>2, <1>5, <1>6, <1>7 DEF ClientInv
<1> QED
  BY <1>4, <1>8 DEF WorkerInv

LEMMA BrokenKeeps ==
  ASSUME WorkerInv,
         RequestWithoutCache \/ CrashWithoutCache \/ (phase = "conf_error" /\ Respawn)
  PROVE  WorkerInv'
<1> IInv /\ ClientInv /\ CacheInv /\ TypeOK
  BY DEF WorkerInv, IInv, CacheInv
<1>1. /\ phase = "conf_error" /\ phase' = phase /\ pc' \in {"idle", "lookup", "crash"}
      /\ UNCHANGED <<tables, kvps, n, metric, kvs, m, cacheVars>>
      /\ link' = 0 /\ answer' = << >>
      /\ asked' = asked \/ asked' \in Questions[series_collection]
  BY DEF RequestWithoutCache, CrashWithoutCache, Respawn, spec, clientVars, cacheVars, ClientInv
<1>2. IInv'
  BY <1>1, BrokenKeepsCache
<1>3. asked' \in Seq(KeyVals)
  <2>1. series_collection \in Expositions
    BY <1>1 DEF CacheInv, PhaseInv, TypeOK
  <2>2. Questions[series_collection] \subseteq Seq(KeyVals)
    BY <2>1, QuestionsAssumption
  <2> QED
    BY <1>1, <2>2 DEF ClientInv
<1>4. ClientInv'
  BY <1>1, <1>3 DEF ClientInv, Taken
<1> QED
  BY <1>2, <1>4 DEF WorkerInv

LEMMA ServiceStartKeeps ==
  ASSUME WorkerInv, StartUp
  PROVE  WorkerInv'
<1> IInv /\ ClientInv /\ CacheInv
  BY DEF WorkerInv, IInv
<1>1. /\ Next /\ phase \notin {"ready", "conf_error", "undefined"}
      /\ UNCHANGED <<asked, link, answer>>
  BY DEF StartUp, clientVars
<1>2. IInv'
  BY <1>1, StartUpKeeps
<1>3. asked = << >> /\ link = 0 /\ answer = << >>
  BY <1>1 DEF ClientInv
<1>4. phase' = "ready" => pc' = "idle"
  BY <1>1 DEF Next, Loaded, NotLoaded, InternPair, InternNextSeries, EndIntern, BuildTables,
              HashFails, EncodeCall, EncodeStep, StoreSeries, RenderCrash, Return,
              encVars, cacheVars
<1>5. ClientInv'
  BY <1>1, <1>3, <1>4 DEF ClientInv, Taken
<1> QED
  BY <1>2, <1>5 DEF WorkerInv

LEMMA WorkerInitKeeps == WorkerInit => WorkerInv
<1> SUFFICES ASSUME WorkerInit PROVE WorkerInv
  OBVIOUS
<1>1. IInv
  BY InitKeeps DEF WorkerInit
<1>2. ClientInv
  BY DEF WorkerInit, Init, ClientInv, Taken
<1> QED
  BY <1>1, <1>2 DEF WorkerInv

LEMMA WorkerStutters ==
  ASSUME WorkerInv, UNCHANGED workerVars
  PROVE  WorkerInv'
<1> IInv /\ ClientInv /\ CacheInv /\ EncInv /\ CatalogueInv /\ TypeOK /\ PhaseInv /\ EntriesInv
  BY DEF WorkerInv, IInv, CacheInv
<1>1. /\ UNCHANGED <<label_names, value_names, pc, kvps, n, metric, kvs, m>>
      /\ UNCHANGED <<series_collection, phase, i, j, labels, all_series>>
      /\ UNCHANGED <<asked, link, answer>> /\ UNCHANGED tables
  BY DEF workerVars, vars, encVars, tables, cacheVars, clientVars
<1>2. TypeOK'
  BY <1>1 DEF TypeOK
<1>3. PhaseInv'
  BY <1>1 DEF PhaseInv, Untouched, TablesBuilt
<1>4. EntriesInv'
  BY <1>1, PassedStays, EntriesStay
<1>5. EncInv'
  BY <1>1, EncodeStays DEF EncInv
<1>6. CatalogueInv'
  BY <1>1, StoredStays DEF CatalogueInv
<1>7. ClientInv'
  <2>1. Described(link)' = Described(link) /\ Selected' = Selected
    BY <1>1 DEF Described, Selected, Result
  <2>2. Answered' <=> Answered
    BY <1>1, <2>1 DEF Answered
  <2>3. Taken' <=> Taken
    BY <1>1 DEF Taken
  <2> QED
    BY <1>1, <2>1, <2>2, <2>3, QuestionStays DEF ClientInv
<1> QED
  BY <1>2, <1>3, <1>4, <1>5, <1>6, <1>7 DEF WorkerInv, IInv, CacheInv

LEMMA WorkerKeeps ==
  ASSUME WorkerInv, [WorkerNext]_workerVars
  PROVE  WorkerInv'
<1>1. CASE StartUp
  BY <1>1, ServiceStartKeeps
<1>2. CASE Ask
  <2>1. PICK q \in Questions[series_collection] : Request(q, 0)
    BY <1>2 DEF Ask
  <2>2. series_collection \in Expositions
    BY <1>2 DEF Ask, WorkerInv, IInv, CacheInv, PhaseInv, TypeOK
  <2>3. q \in Seq(KeyVals)
    BY <2>2, QuestionsAssumption
  <2> QED
    BY <2>1, <2>3, RequestKeeps
<1>3. CASE Follow
  BY <1>3, FollowIsRequest, RequestKeeps
<1>4. CASE RequestWithoutCache \/ CrashWithoutCache
  BY <1>4, BrokenKeeps
<1>5. CASE EncodeRequest
  BY <1>5, EncodeRequestKeeps
<1>6. CASE Answer
  BY <1>6, AnswerKeeps
<1>7. CASE AnswerCrash
  BY <1>7, CrashKeeps
<1>8. CASE Respawn
  <2>1. phase = "ready" \/ phase = "conf_error"
    BY <1>8 DEF Respawn
  <2> QED
    BY <1>8, <2>1, CrashKeeps, BrokenKeeps
<1>9. CASE UNCHANGED workerVars
  BY <1>9, WorkerStutters
<1> QED
  BY <1>1, <1>2, <1>3, <1>4, <1>5, <1>6, <1>7, <1>8, <1>9 DEF WorkerNext, Serve

\* What holds after every step of start-up, of a client and of a worker: the
\* cache is what dvt_cache_init makes of the lines read so far, the spec on the
\* machine is what the loop of dvt_series_spec_from_kv_array has made so far,
\* and an answer lists series of the cache that dvt_series_in_set accepts.
THEOREM WorkerInvariant == WorkerSpec => []WorkerInv
<1>1. WorkerInit => WorkerInv
  BY WorkerInitKeeps
<1>2. WorkerInv /\ [WorkerNext]_workerVars => WorkerInv'
  BY WorkerKeeps
<1> QED
  BY <1>1, <1>2, PTL DEF WorkerSpec

-----------------------------------------------------------------------------
(* Links.                                                                  *)

\* The text of a stored series, as a question: first the metric, then the
\* pairs in the order of their labels, each with the ids of the series.
Linked(text, c) ==
  /\ Len(text) = Len(c.kvs) + 1
  /\ IsMetric(text[1]) /\ Known(text[1]) /\ Id(text[1]).value = c.metric
  /\ \A x \in 1 .. Len(c.kvs) :
       Known(text[x + 1]) /\ ~IsMetric(text[x + 1]) /\ Id(text[x + 1]) = c.kvs[x]

LEMMA LinkText ==
  ASSUME CacheInv, AllLowerCase, label_names[1] = MetricName,
         NEW line, NEW c \in Specs, LineSays(c, line),
         NEW text, text = Written(label_names, value_names, c)
  PROVE  Linked(text, c)
<1>1. Len(c.kvs) \in Nat
  BY DEF LineSays
<1>2. PICK p \in 1 .. Len(line) :
        line[p].key = MetricName /\ IsMetric(line[p]) /\ c.metric = Id(line[p]).value
  BY DEF LineSays
<1>3. /\ Known(line[p]) /\ Named(Id(line[p])) = line[p] /\ c.metric # UINT32_MAX
  BY <1>2, IdFacts DEF LineSays
<1>4. /\ Len(text) = Len(c.kvs) + 1
      /\ text[1] = NamedPair(label_names, value_names, 0, c.metric)
      /\ \A x \in 1 .. Len(c.kvs) :
           text[x + 1] = NamedPair(label_names, value_names, c.kvs[x].label, c.kvs[x].value)
  <2>1. WrittenAs(label_names, value_names, c, text)
    BY <1>1, <1>3, TextRead
  <2> QED
    BY <2>1 DEF WrittenAs
<1>5. text[1] = line[p]
  <2>1. Id(line[p]).label = 0
    BY <1>2 DEF IsMetric, metric_label_id
  <2>2. Named(Id(line[p])) = NamedPair(label_names, value_names, 0, c.metric)
    BY <1>2, <2>1 DEF Named, NamedPair
  <2> QED
    BY <1>3, <1>4, <2>2
<1>6. ASSUME NEW x \in 1 .. Len(c.kvs)
      PROVE  Known(text[x + 1]) /\ ~IsMetric(text[x + 1]) /\ Id(text[x + 1]) = c.kvs[x]
  <2>1. PICK q \in 1 .. Len(line) : line[q].key # MetricName /\ c.kvs[x] = Id(line[q])
    BY DEF LineSays
  <2>2. text[x + 1] = Named(c.kvs[x])
    BY <1>4 DEF Named, NamedPair
  <2>3. text[x + 1] = line[q]
    BY <2>1, <2>2 DEF LineSays
  <2> QED
    BY <2>1, <2>3 DEF LineSays
<1> QED
  BY <1>2, <1>3, <1>4, <1>5, <1>6 DEF Linked

LEMMA FromTwo ==
  ASSUME NEW k \in Nat
  PROVE  Cardinality(2 .. k + 1) = k
<1> DEFINE l == k + 1
<1>1. l \in Int /\ l - 2 + 1 = k /\ (2 > l => k = 0)
  OBVIOUS
<1> HIDE DEF l
<1>2. Cardinality(2 .. l) = IF 2 > l THEN 0 ELSE l - 2 + 1
  BY <1>1, FS_Interval
<1> QED
  BY <1>1, <1>2 DEF l

\* Such a question encodes to the series it is the text of.
LEMMA LinkEncodes ==
  ASSUME CacheInv, AllLowerCase, label_names[1] = MetricName,
         NEW line, NEW c \in Specs, LineSays(c, line),
         NEW text, text = Written(label_names, value_names, c),
         NEW set \in Specs, Encodes(set, text)
  PROVE  set = c
<1> DEFINE L == Len(c.kvs)
<1>1. /\ Len(text) = L + 1 /\ L \in Nat
      /\ IsMetric(text[1]) /\ Known(text[1]) /\ Id(text[1]).value = c.metric
      /\ \A x \in 1 .. L :
           Known(text[x + 1]) /\ ~IsMetric(text[x + 1]) /\ Id(text[x + 1]) = c.kvs[x]
  <2>1. Linked(text, c)
    BY LinkText
  <2>2. Len(c.kvs) \in Nat
    BY DEF LineSays
  <2> QED
    BY <2>1, <2>2 DEF Linked
<1>2. \A k \in 2 .. L + 1 :
        Known(text[k]) /\ ~IsMetric(text[k]) /\ Id(text[k]) = c.kvs[k - 1] /\ k - 1 \in 1 .. L
  <2> TAKE k \in 2 .. L + 1
  <2>1. k - 1 \in 1 .. L /\ (k - 1) + 1 = k
    BY <1>1
  <2> QED
    BY <1>1, <2>1
<1>3. Others(text) = 2 .. L + 1
  <2>1. \A k \in 1 .. Len(text) : k = 1 \/ k \in 2 .. L + 1
    BY <1>1
  <2>2. \A k \in 2 .. L + 1 : k \in 1 .. Len(text)
    BY <1>1
  <2> QED
    BY <1>1, <1>2, <2>1, <2>2 DEF Others
<1>4. \A x \in 1 .. L : c.kvs[x].label \in Nat
  <2> TAKE x \in 1 .. L
  <2>1. c.kvs[x] = Id(text[x + 1])
    BY <1>1
  <2> QED
    BY <2>1, IdFacts, WordAssumption DEF Ids
<1>5. ASSUME NEW k \in 2 .. L + 1, NEW l \in 2 .. L + 1
      PROVE  Precedes(text, l, k) <=> l < k
  <2>1. /\ k - 1 \in 1 .. L /\ l - 1 \in 1 .. L
        /\ Id(text[k]) = c.kvs[k - 1] /\ Id(text[l]) = c.kvs[l - 1]
    BY <1>2
  <2>2. c.kvs[k - 1].label \in Nat /\ c.kvs[l - 1].label \in Nat
    BY <1>4, <2>1
  <2>3. l < k => c.kvs[l - 1].label <= c.kvs[k - 1].label
    <3>1. l < k => l - 1 < k - 1
      BY <1>1
    <3> QED
      BY <2>1, <3>1 DEF LineSays, SortedByLabel
  <2>4. k < l => c.kvs[k - 1].label <= c.kvs[l - 1].label
    <3>1. k < l => k - 1 < l - 1
      BY <1>1
    <3> QED
      BY <2>1, <3>1 DEF LineSays, SortedByLabel
  <2>5. Precedes(text, l, k) <=>
          \/ c.kvs[l - 1].label < c.kvs[k - 1].label
          \/ c.kvs[l - 1].label = c.kvs[k - 1].label /\ l < k
    BY <2>1 DEF Precedes
  <2>6. CASE l < k
    BY <2>2, <2>3, <2>5, <2>6
  <2>7. CASE k < l
    BY <2>2, <2>4, <2>5, <2>7
  <2>8. CASE k = l
    BY <2>2, <2>5, <2>8
  <2> QED
    BY <1>1, <2>6, <2>7, <2>8
<1>6. PICK pos : Arranged(pos, set.kvs, text)
  BY DEF Encodes
<1>7. Len(set.kvs) \in Nat /\ set.kvs \in Seq(Pairs) /\ c.kvs \in Seq(Pairs)
  BY DEF Specs
<1>8. /\ \A x \in 1 .. Len(set.kvs) :
           Cardinality({l \in Others(text) : Precedes(text, l, pos[x])}) = x - 1
      /\ Cardinality(Others(text)) = Len(set.kvs)
  BY <1>1, <1>6, <1>7, Rank
<1>9. Len(set.kvs) = L
  <2>1. Cardinality(2 .. L + 1) = L
    BY <1>1, FromTwo
  <2> QED
    BY <1>3, <1>8, <2>1
<1>10. ASSUME NEW x \in 1 .. L
       PROVE  pos[x] = x + 1
  <2>1. pos[x] \in 2 .. L + 1
    BY <1>3, <1>6, <1>9 DEF Arranged
  <2>2. {l \in Others(text) : Precedes(text, l, pos[x])} = 2 .. pos[x] - 1
    <3>1. \A l \in 2 .. L + 1 : Precedes(text, l, pos[x]) <=> l < pos[x]
      BY <1>5, <2>1
    <3> QED
      BY <1>1, <1>3, <2>1, <3>1
  <2>3. Cardinality(2 .. pos[x] - 1) = pos[x] - 2
    <3>1. pos[x] - 2 \in Nat /\ (pos[x] - 2) + 1 = pos[x] - 1
      BY <1>1, <2>1
    <3> QED
      BY <3>1, FromTwo
  <2>4. Cardinality(2 .. pos[x] - 1) = x - 1
    BY <1>8, <1>9, <2>2
  <2> QED
    BY <1>1, <2>1, <2>3, <2>4
<1>11. \A x \in 1 .. L : set.kvs[x] = c.kvs[x]
  <2> TAKE x \in 1 .. L
  <2>1. pos[x] = x + 1 /\ Known(text[x + 1]) /\ Id(text[x + 1]) = c.kvs[x]
    BY <1>1, <1>10
  <2> QED
    BY <1>6, <1>9, <2>1 DEF Arranged
<1>12. set.kvs = c.kvs
  BY <1>7, <1>9, <1>11
<1>13. set.metric = c.metric
  <2>1. \A k \in 1 .. Len(text) : IsMetric(text[k]) => k = 1
    BY <1>1, <1>2
  <2>2. 1 \in 1 .. Len(text)
    BY <1>1
  <2> QED
    BY <1>1, <2>1, <2>2 DEF Encodes, LastIsMetric
<1> QED
  BY <1>12, <1>13 DEF Specs

\* A question with known labels has, at rest, the answer to its encoding.
LEMMA AtRest ==
  ASSUME WorkerInv, phase = "ready", AllLowerCase, pc = "idle", asked # << >> \/ link # 0,
         \A p \in 1 .. Len(asked) : Known(asked[p])
  PROVE  /\ kvps = asked /\ Result \in Specs /\ Encodes(Result, asked)
         /\ answer \in InOrder(Selected)
<1> IInv /\ ClientInv /\ CacheInv /\ TypeOK /\ EncInv
  BY DEF WorkerInv, IInv, CacheInv
<1>1. Taken
  BY DEF Taken
<1>2. kvps = asked /\ Answered
  BY <1>1 DEF ClientInv
<1>3. Encodes(Result, kvps)
  BY <1>2, FinishedEncodes DEF Answered
<1> QED
  BY <1>2, <1>3, ResultType DEF Answered

\* A series that names no label twice is in the set of itself.
LEMMA InOwnSet ==
  ASSUME NEW c, DistinctLabels(c.kvs), SortedByLabel(c.kvs), Len(c.kvs) \in Nat,
         \A x \in 1 .. Len(c.kvs) : c.kvs[x].label \in Nat
  PROVE  InSet(c, c)
<1> SUFFICES ASSUME NEW x \in 1 .. Len(c.kvs)
             PROVE  LowerBoundAgrees(c.kvs, c.kvs[x])
  BY DEF InSet, MetricAccepts
<1>1. ASSUME NEW l \in 1 .. (x - 1)
      PROVE  c.kvs[l].label < c.kvs[x].label
  <2>1. l \in 1 .. Len(c.kvs) /\ l < x
    OBVIOUS
  <2>2. c.kvs[l].label <= c.kvs[x].label /\ c.kvs[l].label # c.kvs[x].label
    BY <2>1 DEF DistinctLabels, SortedByLabel
  <2> QED
    BY <2>1, <2>2
<1>2. c.kvs[x].label >= c.kvs[x].label
  OBVIOUS
<1> QED
  BY <1>1, <1>2 DEF LowerBoundAgrees

\* The texts in an answer.
LEMMA AnswerReads ==
  ASSUME WorkerInv, phase = "ready", AllLowerCase
  PROVE  \A x \in 1 .. Len(answer) : WellFormed(Described(answer[x]))
<1> IInv /\ ClientInv /\ CacheInv /\ CatalogueInv
  BY DEF WorkerInv, IInv
<1> TAKE x \in 1 .. Len(answer)
<1>1. answer[x] \in 1 .. Len(all_series)
  BY DEF ClientInv
<1>2. PICK c : c = all_series[answer[x]]
  OBVIOUS
<1>3. PICK line : line = series_collection[answer[x]]
  OBVIOUS
<1>4. LineSays(c, line)
  BY <1>1, <1>2, <1>3, StoredSays
<1>5. Len(c.kvs) \in Nat
  BY <1>4 DEF LineSays
<1>6. c.metric # UINT32_MAX
  <2>1. PICK p \in 1 .. Len(line) :
          line[p].key = MetricName /\ IsMetric(line[p]) /\ c.metric = Id(line[p]).value
    BY <1>4 DEF LineSays
  <2> QED
    BY <1>4, <2>1, IdFacts DEF LineSays
<1> QED
  BY <1>2, <1>5, <1>6, TextWellFormed DEF Described

\* A question with the pairs of a series.
LEMMA LinkLeadsBack ==
  ASSUME WorkerInv, phase = "ready", AllLowerCase, pc = "idle", link # 0
  PROVE  /\ Result = all_series[link]
         /\ DistinctLabels(Result.kvs) => \E x \in 1 .. Len(answer) : answer[x] = link
<1> IInv /\ ClientInv /\ CacheInv /\ CatalogueInv /\ TypeOK /\ EncInv
  BY DEF WorkerInv, IInv, CacheInv
<1>1. link \in 1 .. Len(all_series) /\ asked = PairsOf(Described(link))
  BY DEF ClientInv
<1>2. PICK c : c = all_series[link]
  OBVIOUS
<1>3. PICK line : line = series_collection[link]
  OBVIOUS
<1>4. c \in Specs
  BY <1>1, <1>2 DEF TypeOK
<1>5. LineSays(c, line) /\ label_names[1] = MetricName
  BY <1>1, <1>2, <1>3, StoredSays
<1>6. asked = Written(label_names, value_names, c)
  <2>1. Len(c.kvs) \in Nat
    BY <1>5 DEF LineSays
  <2> QED
    BY <1>1, <1>2, <2>1, TextRead DEF Described
<1>7. Linked(asked, c)
  BY <1>4, <1>5, <1>6, LinkText
<1>8. \A p \in 1 .. Len(asked) : Known(asked[p])
  <2> SUFFICES ASSUME NEW p \in 1 .. Len(asked) PROVE Known(asked[p])
    OBVIOUS
  <2>1. Len(asked) = Len(c.kvs) + 1 /\ Len(c.kvs) \in Nat
    BY <1>5, <1>7 DEF Linked, LineSays
  <2>2. p = 1 \/ (p - 1 \in 1 .. Len(c.kvs) /\ (p - 1) + 1 = p)
    BY <2>1
  <2> QED
    BY <1>7, <2>2 DEF Linked
<1>9. Result \in Specs /\ Encodes(Result, asked) /\ answer \in InOrder(Selected)
  BY <1>8, AtRest
<1>10. Result = c
  BY <1>4, <1>5, <1>6, <1>9, LinkEncodes
<1>11. ASSUME DistinctLabels(c.kvs)
       PROVE  \E x \in 1 .. Len(answer) : answer[x] = link
  <2>1. InSet(c, c)
    <3>1. SortedByLabel(c.kvs) /\ Len(c.kvs) \in Nat
      BY <1>5 DEF LineSays
    <3>2. \A x \in 1 .. Len(c.kvs) : c.kvs[x].label \in Nat
      <4> TAKE x \in 1 .. Len(c.kvs)
      <4>1. c.kvs[x] = Id(asked[x + 1])
        BY <1>7 DEF Linked
      <4> QED
        BY <4>1, IdFacts, WordAssumption DEF Ids
    <3> QED
      BY <1>11, <3>1, <3>2, InOwnSet
  <2>2. link \in Selected
    BY <1>1, <1>2, <1>10, <2>1 DEF Selected
  <2> QED
    BY <1>9, <2>2, SelectedType, InOrderFacts
<1> QED
  BY <1>2, <1>10, <1>11

LEMMA LinkHolds == WorkerInv => LinkFindsSeries
BY AnswerReads, LinkLeadsBack DEF LinkFindsSeries

-----------------------------------------------------------------------------
(* The summary.                                                            *)

\* An entry of the summary: the count of a pair of the exposition.
LEMMA SummaryEntry ==
  ASSUME IInv, phase = "ready", NEW p \in KeyVals,
         p.key \in DOMAIN lavs_to_json, p.value \in DOMAIN lavs_to_json[p.key]
  PROVE  /\ InTables(p)
         /\ lavs_to_json[p.key][p.value] =
              Cardinality(Occurrences(series_collection, Positions, p)) % WordCount
<1> CacheInv /\ TypeOK /\ EntriesInv /\ PhaseInv /\ TablesBuilt
  BY DEF IInv, CacheInv, PhaseInv
<1> DEFINE names == {labels[k].name : k \in 1 .. Len(labels)}
           at(l) == CHOOSE k \in 1 .. Len(labels) : labels[k].name = l
           shown(values) ==
             [v \in {values[k].name : k \in 1 .. Len(values)} |->
                values[CHOOSE k \in 1 .. Len(values) : values[k].name = v].count]
<1>1. lavs_to_json = [l \in names |-> shown(labels[at(l)].values)]
  BY DEF lavs_to_json
<1>2. p.key \in names /\ lavs_to_json[p.key] = shown(labels[at(p.key)].values)
  BY <1>1
<1>3. PICK k : k = at(p.key)
  OBVIOUS
<1>4. k \in 1 .. Len(labels) /\ labels[k].name = p.key
  BY <1>2, <1>3, Zenon
<1>5. PICK values : values = labels[k].values
  OBVIOUS
<1> HIDE DEF shown, at, names
<1>6. lavs_to_json[p.key] = shown(values)
  BY <1>2, <1>3, <1>5
<1>7. p.value \in {values[x].name : x \in 1 .. Len(values)}
  BY <1>6 DEF shown
<1>8. PICK v : v = CHOOSE x \in 1 .. Len(values) : values[x].name = p.value
  OBVIOUS
<1>9. v \in 1 .. Len(values) /\ values[v].name = p.value
  BY <1>7, <1>8, Zenon
<1>10. lavs_to_json[p.key][p.value] = values[v].count
  BY <1>6, <1>7, <1>8 DEF shown
<1>11. Entry(labels, k, v) = p
  BY <1>4, <1>5, <1>9 DEF Entry, KeyVals
<1>12. Passed = Positions
  BY DEF Passed, PhaseInv
<1>13. values[v].count = Cardinality(Occurrences(series_collection, Positions, p)) % WordCount
  BY <1>4, <1>5, <1>9, <1>11, <1>12 DEF EntriesInv
<1>14. InTables(p)
  <2>1. Len(labels) \in Nat /\ Len(labels[k].values) \in Nat
    <3>1. labels[k] \in LabelInfos
      BY <1>4 DEF TypeOK
    <3> QED
      BY <3>1 DEF TypeOK, LabelInfos
  <2>2. /\ Len(label_names) = Len(labels) /\ label_names[k] = p.key
        /\ Len(value_names[k]) = Len(values) /\ value_names[k][v] = p.value
    BY <1>4, <1>5, <1>9, <2>1 DEF TablesBuilt
  <2> QED
    BY <1>4, <1>9, <2>2 DEF InTables
<1> QED
  BY <1>10, <1>13, <1>14

\* The line of every occurrence of a pair asked for is selected, and each only
\* once if no line repeats a label.
LEMMA OccurrencesSelected ==
  ASSUME CacheInv, CatalogueInv, phase = "ready", AllLowerCase, NoRepetition,
         NEW pairs \in Seq(KeyVals), Len(pairs) = 1, InTables(pairs[1]),
         QuestionSays(Result, pairs),
         NEW occ, occ = Occurrences(series_collection, Positions, pairs[1])
  PROVE  /\ Cardinality(occ) \in Nat /\ Cardinality(occ) <= Cardinality(Selected)
         /\ OnEveryLine(pairs[1].key) => Cardinality(occ) = Cardinality(Selected)
<1> TypeOK
  BY DEF CacheInv
<1> DEFINE p == pairs[1]
           f == [x \in occ |-> x[1]]
<1>1. p \in KeyVals /\ Known(p) /\ series_collection # NoExposition
  <2>1. p \in KeyVals
    OBVIOUS
  <2>2. Known(p)
    BY <2>1, PairDecodes
  <2> QED
    BY <2>1, <2>2, LinesInTables
<1>2. Clear(pairs)
  BY <1>1 DEF Clear
<1>3. Len(all_series) = Len(series_collection) /\ Len(all_series) \in Nat
  BY SelectedType DEF CatalogueInv
<1>4. ASSUME NEW x \in occ
      PROVE  /\ x[1] \in 1 .. Len(all_series) /\ x[2] \in 1 .. Len(series_collection[x[1]])
             /\ x = <<x[1], x[2]>> /\ series_collection[x[1]][x[2]] = p
  BY <1>1, <1>3, PositionIs DEF Occurrences
<1>5. ASSUME NEW k \in 1 .. Len(all_series)
      PROVE  /\ LineSays(all_series[k], series_collection[k]) /\ Distinct(series_collection[k])
             /\ label_names[1] = MetricName
  BY <1>3, StoredSays DEF Distinct, NoRepetition
<1>6. ASSUME NEW x \in occ
      PROVE  x[1] \in Selected
  <2>1. PICK k : k = x[1]
    OBVIOUS
  <2>2. PICK line : line = series_collection[k]
    OBVIOUS
  <2>3. PICK c : c = all_series[k]
    OBVIOUS
  <2>4. Within(pairs, line)
    BY <1>4, <2>1, <2>2 DEF Within
  <2>5. InSet(Result, c)
    BY <1>2, <1>4, <1>5, <2>1, <2>2, <2>3, <2>4, WithinSelected
  <2> QED
    BY <1>4, <2>1, <2>3, <2>5 DEF Selected
<1>7. f \in Injection(occ, Selected)
  <2>1. f \in [occ -> Selected]
    BY <1>6
  <2>2. ASSUME NEW x \in occ, NEW y \in occ, f[x] = f[y]
        PROVE  x = y
    <3>1. x[1] = y[1]
      BY <2>2
    <3>2. x[2] = y[2]
      BY <1>3, <1>4, <3>1 DEF NoRepetition
    <3> QED
      BY <1>4, <3>1, <3>2
  <2> QED
    BY <2>1, <2>2, Fun_IsInj
<1>8. ASSUME OnEveryLine(p.key)
      PROVE  f \in Surjection(occ, Selected)
  <2>1. ASSUME NEW k \in Selected
        PROVE  \E x \in occ : f[x] = k
    <3>1. k \in 1 .. Len(all_series) /\ InSet(Result, all_series[k])
      BY DEF Selected
    <3>2. PICK line : line = series_collection[k]
      OBVIOUS
    <3>3. Carries(line, pairs)
      BY <1>3, <1>8, <3>1, <3>2 DEF Carries, OnEveryLine
    <3>4. Within(pairs, line)
      BY <1>2, <1>5, <3>1, <3>2, <3>3, SelectedWithin
    <3>5. PICK q \in 1 .. Len(line) : line[q] = p
      BY <3>4 DEF Within
    <3>6. <<k, q>> \in occ
      BY <1>1, <1>3, <3>1, <3>2, <3>5, PositionIs DEF Occurrences
    <3> QED
      BY <3>6
  <2>2. f \in [occ -> Selected]
    BY <1>6
  <2> QED
    BY <2>1, <2>2, Fun_IsSurj
<1> HIDE DEF f
<1>9. /\ IsFiniteSet(occ) /\ Cardinality(occ) <= Cardinality(Selected)
      /\ f \in Surjection(occ, Selected) => Cardinality(occ) = Cardinality(Selected)
  BY <1>7, SelectedType, FS_Injection
<1>10. Cardinality(occ) \in Nat
  BY <1>9, FS_CardinalityType
<1> QED
  BY <1>8, <1>9, <1>10

LEMMA OneIsNotEmpty == \A s : Len(s) = 1 => s # << >>
  OBVIOUS

LEMMA SummaryHolds == WorkerInv => SummaryCountsAnswer
<1> SUFFICES ASSUME WorkerInv, phase = "ready", AllLowerCase, pc = "idle", Len(asked) = 1,
                    NoRepetition, NEW p, p = asked[1],
                    p.key \in DOMAIN lavs_to_json, p.value \in DOMAIN lavs_to_json[p.key]
             PROVE  /\ lavs_to_json[p.key][p.value] <= Len(answer)
                    /\ OnEveryLine(p.key) =>
                         lavs_to_json[p.key][p.value] = Len(answer) % (UINT16_MAX + 1)
  BY DEF SummaryCountsAnswer
<1> IInv /\ ClientInv /\ CacheInv /\ CatalogueInv /\ TypeOK
  BY DEF WorkerInv, IInv, CacheInv
<1>1. asked \in Seq(KeyVals) /\ p \in KeyVals
  BY DEF ClientInv
<1>2. PICK occ : occ = Occurrences(series_collection, Positions, p)
  OBVIOUS
<1>3. InTables(p) /\ lavs_to_json[p.key][p.value] = Cardinality(occ) % WordCount
  BY <1>1, <1>2, SummaryEntry
<1>4. \A x \in 1 .. Len(asked) : Known(asked[x])
  BY <1>1, <1>3, PairDecodes
<1>5. Encodes(Result, asked) /\ answer \in InOrder(Selected)
  <2>1. asked # << >>
    BY OneIsNotEmpty, Zenon
  <2> QED
    BY <1>4, <2>1, AtRest
<1>6. QuestionSays(Result, asked)
  BY <1>4, <1>5, EncodedQuestion
<1>7. Len(answer) = Cardinality(Selected) /\ Len(answer) \in Nat
  BY <1>5, SelectedType, InOrderFacts
<1>8. /\ Cardinality(occ) \in Nat /\ Cardinality(occ) <= Len(answer)
      /\ OnEveryLine(p.key) => Cardinality(occ) = Len(answer)
  BY <1>1, <1>2, <1>3, <1>6, <1>7, OccurrencesSelected
<1>9. Cardinality(occ) % WordCount <= Cardinality(occ)
  <2>1. WordCount \in Nat /\ WordCount > 0
    BY WordCountType
  <2> QED
    BY <1>8, <2>1
<1>10. Cardinality(occ) % WordCount <= Len(answer)
  <2>1. Cardinality(occ) % WordCount \in Nat
    BY <1>8, WordCountType
  <2> QED
    BY <1>7, <1>8, <1>9, <2>1
<1> QED
  BY <1>3, <1>8, <1>10 DEF WordCount

-----------------------------------------------------------------------------
(* A worker implements Service.                                            *)

\* The state of the service, by phase and program counter.
ServiceState ==
  /\ phase = "ready" =>
       mode = "serving" /\ turn = IF pc = "idle" THEN "idle" ELSE IF pc = "crash" THEN "lost" ELSE "busy"
  /\ phase = "conf_error" =>
       mode = "broken" /\ turn = IF pc = "idle" THEN "idle" ELSE IF pc = "crash" THEN "lost" ELSE "busy"
  /\ phase = "undefined" => mode = "dead" /\ turn = "idle"
  /\ phase \notin {"ready", "conf_error", "undefined"} =>
       mode = (IF pc = "crash" THEN "dead" ELSE "starting") /\ turn = "idle"

LEMMA ServiceStateIs == ServiceState /\ ServiceState'
<1>1. ServiceState
  BY DEF ServiceState, mode, turn
<1>2. ServiceState'
  BY DEF ServiceState, mode, turn
<1> QED
  BY <1>1, <1>2

\* The names of the tables are those of the lines.
LEMMA TablesFromLines ==
  ASSUME CacheInv, phase \in {"encode", "ready"}
  PROVE  /\ series_collection # NoExposition
         /\ \A k \in 1 .. Len(label_names) :
              \E l \in 1 .. Len(series_collection) : \E p \in 1 .. Len(series_collection[l]) :
                series_collection[l][p].key = label_names[k]
         /\ \A k \in 1 .. Len(label_names) : \A v \in 1 .. Len(value_names[k]) :
              \E l \in 1 .. Len(series_collection) : \E p \in 1 .. Len(series_collection[l]) :
                series_collection[l][p].value = value_names[k][v]
<1> TypeOK /\ PhaseInv /\ EntriesInv /\ TablesBuilt
  BY DEF CacheInv, PhaseInv
<1>1. series_collection # NoExposition
  BY DEF PhaseInv
<1>2. Len(labels) \in Nat /\ \A k \in 1 .. Len(labels) : Len(labels[k].values) \in Nat
  <2>1. \A k \in 1 .. Len(labels) : labels[k] \in LabelInfos
    BY DEF TypeOK
  <2> QED
    BY <2>1 DEF TypeOK, LabelInfos
<1>3. /\ Len(label_names) = Len(labels)
      /\ \A k \in 1 .. Len(labels) :
           /\ label_names[k] = labels[k].name /\ Len(value_names[k]) = Len(labels[k].values)
           /\ \A v \in 1 .. Len(labels[k].values) :
                value_names[k][v] = labels[k].values[v].name
  BY <1>2 DEF TablesBuilt
<1>4. ASSUME NEW x \in Passed
      PROVE  /\ x[1] \in 1 .. Len(series_collection)
             /\ x[2] \in 1 .. Len(series_collection[x[1]])
             /\ At(x) = series_collection[x[1]][x[2]]
  <2>1. x \in Positions
    BY <1>1 DEF Passed
  <2> QED
    BY <1>1, <2>1, PositionIs DEF At
<1>5. ASSUME NEW k \in 1 .. Len(label_names)
      PROVE  \E l \in 1 .. Len(series_collection) : \E p \in 1 .. Len(series_collection[l]) :
                series_collection[l][p].key = label_names[k]
  <2>1. PICK x \in Passed : At(x).key = labels[k].name
    BY <1>3 DEF EntriesInv
  <2> QED
    BY <1>3, <1>4, <2>1
<1>6. ASSUME NEW k \in 1 .. Len(label_names), NEW v \in 1 .. Len(value_names[k])
      PROVE  \E l \in 1 .. Len(series_collection) : \E p \in 1 .. Len(series_collection[l]) :
                series_collection[l][p].value = value_names[k][v]
  <2>1. Occurrences(series_collection, Passed, Entry(labels, k, v)) # {}
    BY <1>3 DEF EntriesInv
  <2>2. PICK x \in Passed : series_collection[x[1]][x[2]] = Entry(labels, k, v)
    BY <2>1 DEF Occurrences
  <2>3. series_collection[x[1]][x[2]].value = value_names[k][v]
    BY <1>3, <2>2 DEF Entry
  <2> QED
    BY <1>4, <2>3
<1> QED
  BY <1>1, <1>5, <1>6

LEMMA LowerCaseTables ==
  ASSUME CacheInv, phase \in {"encode", "ready"}, Promises!LowerCaseLines
  PROVE  AllLowerCase
<1>1. ASSUME NEW l \in 1 .. Len(series_collection), NEW p \in 1 .. Len(series_collection[l])
      PROVE  /\ Lower[series_collection[l][p].key] = series_collection[l][p].key
             /\ Lower[series_collection[l][p].value] = series_collection[l][p].value
  BY DEF Promises!LowerCaseLines, Promises!Says
<1>2. LowerCase(label_names)
  BY <1>1, TablesFromLines DEF LowerCase
<1>3. ASSUME NEW k \in 1 .. Len(label_names)
      PROVE  LowerCase(value_names[k])
  <2> SUFFICES ASSUME NEW v \in 1 .. Len(value_names[k])
               PROVE  Lower[value_names[k][v]] = value_names[k][v]
    BY DEF LowerCase
  <2>1. PICK l \in 1 .. Len(series_collection) : \E p \in 1 .. Len(series_collection[l]) :
               series_collection[l][p].value = value_names[k][v]
    BY TablesFromLines
  <2> QED
    BY <1>1, <2>1
<1>4. Len(value_names) = Len(label_names)
  BY TableFacts
<1> QED
  BY <1>2, <1>3, <1>4 DEF AllLowerCase

\* A question is understood if the cache knows its labels.
LEMMA UnderstoodIsKnown ==
  ASSUME CacheInv, phase = "ready", AllLowerCase
  PROVE  Promises!Understood <=> \A p \in 1 .. Len(asked) : Known(asked[p])
<1>1. Promises!Understood <=>
        \A p \in 1 .. Len(asked) :
          \E l \in 1 .. Len(series_collection) : \E q \in 1 .. Len(series_collection[l]) :
            series_collection[l][q].key = asked[p].key
  <2>1. Promises!LabelsOf(Promises!Wanted) = {asked[p].key : p \in 1 .. Len(asked)}
    BY DEF Promises!LabelsOf, Promises!Wanted
  <2>2. Promises!AllLabels =
          UNION {{series_collection[l][q].key : q \in 1 .. Len(series_collection[l])} :
                 l \in 1 .. Len(series_collection)}
    BY DEF Promises!AllLabels, Promises!LabelsOf, Promises!Says
  <2>3. Promises!Understood <=>
          {asked[p].key : p \in 1 .. Len(asked)} \subseteq
            UNION {{series_collection[l][q].key : q \in 1 .. Len(series_collection[l])} :
                   l \in 1 .. Len(series_collection)}
    BY <2>1, <2>2 DEF Promises!Understood
  <2> DEFINE there == UNION {{series_collection[l][q].key : q \in 1 .. Len(series_collection[l])} :
                             l \in 1 .. Len(series_collection)}
  <2>4. \A y : y \in there <=>
          \E l \in 1 .. Len(series_collection) : \E q \in 1 .. Len(series_collection[l]) :
            series_collection[l][q].key = y
    OBVIOUS
  <2> HIDE DEF there
  <2>5. Promises!Understood <=> \A p \in 1 .. Len(asked) : asked[p].key \in there
    BY <2>3 DEF there
  <2> QED
    BY <2>4, <2>5
<1>2. ASSUME NEW p \in 1 .. Len(asked), Known(asked[p])
      PROVE  \E l \in 1 .. Len(series_collection) : \E q \in 1 .. Len(series_collection[l]) :
               series_collection[l][q].key = asked[p].key
  <2>1. PICK k \in 1 .. Len(label_names) : label_names[k] = asked[p].key
    BY <1>2, KnownLabels
  <2> QED
    BY <2>1, TablesFromLines
<1>3. ASSUME NEW p \in 1 .. Len(asked), NEW l \in 1 .. Len(series_collection),
             NEW q \in 1 .. Len(series_collection[l]),
             series_collection[l][q].key = asked[p].key
      PROVE  Known(asked[p])
  <2>1. Readable(series_collection[l])
    BY LineReadable
  <2>2. series_collection[l][q] \in KeyVals /\ InTables(series_collection[l][q])
    BY <2>1 DEF Readable
  <2>3. Known(series_collection[l][q])
    BY <2>2, PairDecodes
  <2> QED
    BY <1>3, <2>3 DEF Known
<1> QED
  BY <1>1, <1>2, <1>3

\* With lower case, what Answer lists for a question keeps the promise.
LEMMA AnswerKeepsPromise ==
  ASSUME WorkerInv, phase = "ready", pc = "done", Promises!LowerCaseLines,
         NEW a \in InOrder(Selected)
  PROVE  Promises!Promise(a)
<1> IInv /\ ClientInv /\ CacheInv /\ CatalogueInv /\ TypeOK /\ EncInv
  BY DEF WorkerInv, IInv, CacheInv
<1>1. AllLowerCase /\ asked \in Seq(KeyVals) /\ Len(asked) \in Nat
  BY LowerCaseTables DEF ClientInv
<1>2. Encodes(Result, asked)
  <2>1. kvps = asked
    BY DEF ClientInv, Taken
  <2> QED
    BY <2>1, FinishedEncodes DEF EncInv
<1>3. Len(all_series) = Len(series_collection)
  BY DEF CatalogueInv
<1>4. /\ a \in Seq(Selected) /\ Len(a) \in Nat /\ Len(a) = Cardinality(Selected)
      /\ \A x, y \in 1 .. Len(a) : x < y => a[x] < a[y]
      /\ \A k \in Selected : \E x \in 1 .. Len(a) : a[x] = k
  BY SelectedType, InOrderFacts
<1>5. \A x \in 1 .. Len(a) : a[x] \in Selected /\ a[x] \in 1 .. Len(series_collection)
  BY <1>3, <1>4, SelectedType
<1>6. ASSUME ~Promises!Understood
      PROVE  a = << >>
  <2>1. PICK p \in 1 .. Len(asked) : ~Known(asked[p])
    BY <1>1, <1>6, UnderstoodIsKnown
  <2>2. ASSUME NEW k \in Selected
        PROVE  FALSE
    <3>1. k \in 1 .. Len(all_series) /\ InSet(Result, all_series[k])
      BY DEF Selected
    <3>2. LineSays(all_series[k], series_collection[k])
      BY <1>1, <3>1, StoredSays
    <3> QED
      BY <1>2, <2>1, <3>1, <3>2, UnknownSelectsNone
  <2>3. Selected = {}
    BY <2>2
  <2>4. Len(a) = 0
    BY <1>4, <2>3, FS_EmptySet
  <2> QED
    BY <1>4, <2>4
<1>7. ASSUME Promises!Understood, NEW k \in 1 .. Len(series_collection), Promises!Simple(k),
             Promises!OneMetric
      PROVE  LET listed == \E x \in 1 .. Len(a) : a[x] = k IN
               /\ Promises!Wanted \subseteq Promises!Says(k) => listed
               /\ Promises!LabelsOf(Promises!Wanted) \subseteq Promises!LabelsOf(Promises!Says(k))
                    /\ listed => Promises!Wanted \subseteq Promises!Says(k)
  <2>1. \A p \in 1 .. Len(asked) : Known(asked[p])
    BY <1>1, <1>7, UnderstoodIsKnown
  <2>2. Clear(asked) /\ QuestionSays(Result, asked)
    BY <1>1, <1>2, <1>7, <2>1, EncodedQuestion DEF Clear, Promises!OneMetric
  <2>3. PICK line : line = series_collection[k]
    OBVIOUS
  <2>4. PICK c : c = all_series[k]
    OBVIOUS
  <2>5. LineSays(c, line) /\ label_names[1] = MetricName /\ Distinct(line)
    BY <1>1, <1>3, <1>7, <2>3, <2>4, StoredSays DEF Distinct, Promises!Simple
  <2>6. Promises!Wanted \subseteq Promises!Says(k) <=> Within(asked, line)
    BY <2>3 DEF Promises!Wanted, Promises!Says, Within
  <2>7. (\E x \in 1 .. Len(a) : a[x] = k) <=> InSet(Result, c)
    BY <1>3, <1>4, <1>5, <2>4 DEF Selected
  <2>8. Promises!LabelsOf(Promises!Wanted) \subseteq Promises!LabelsOf(Promises!Says(k))
          => Carries(line, asked)
    BY <2>3 DEF Promises!Wanted, Promises!Says, Promises!LabelsOf, Carries
  <2>9. Within(asked, line) => InSet(Result, c)
    BY <1>1, <2>2, <2>5, WithinSelected
  <2>10. Carries(line, asked) /\ InSet(Result, c) => Within(asked, line)
    BY <1>1, <2>2, <2>5, SelectedWithin
  <2> QED
    BY <2>6, <2>7, <2>8, <2>9, <2>10
<1> QED
  BY <1>4, <1>5, <1>6, <1>7 DEF Promises!Promise

\* A request can be lost only for a label the exposition does not have, or
\* without lower case.
LEMMA LostWithReason ==
  ASSUME WorkerInv, phase = "ready", EncodeRequest \/ AnswerCrash, pc' = "crash"
  PROVE  ~Promises!Understood \/ ~Promises!LowerCaseLines
<1> CacheInv
  BY DEF WorkerInv, IInv
<1> SUFFICES ASSUME Promises!LowerCaseLines, Promises!Understood PROVE FALSE
  OBVIOUS
<1>1. AllLowerCase
  BY LowerCaseTables
<1>2. \A p \in 1 .. Len(asked) : Known(asked[p])
  BY <1>1, UnderstoodIsKnown
<1>3. ~LookupCrash /\ ~AnswerCrash
  BY <1>1, <1>2, NoCrash
<1>4. EncodeRequest /\ ~LookupCrash => pc' # "crash"
  BY DEF EncodeRequest, Encode, LookupMetric, LookupLabel, BeginSort, SortStep, EndSort,
         CacheInv, TypeOK
<1> QED
  BY <1>3, <1>4

\* Start-up does not end in a crash if all is in lower case.
LEMMA StartsWithLowerCase ==
  ASSUME IInv, phase = "encode", EncodeStep \/ RenderCrash, pc' = "crash",
         Promises!LowerCaseLines
  PROVE  FALSE
<1> CacheInv /\ CatalogueInv /\ EncInv /\ TypeOK
  BY DEF IInv, CacheInv
<1>1. AllLowerCase
  BY LowerCaseTables
<1>2. ASSUME pc # "idle"
      PROVE  /\ Readable(kvps) /\ Len(kvps) > 0 /\ kvps[1].key = MetricName
             /\ \A p \in 1 .. Len(kvps) : Known(kvps[p])
  <2>1. i \in 1 .. Len(series_collection) /\ kvps = series_collection[i]
    BY <1>2 DEF CatalogueInv, TypeOK
  <2>2. PICK k : k = i
    OBVIOUS
  <2>3. Readable(kvps) /\ Len(kvps) > 0 /\ kvps[1].key = MetricName
    BY <2>1, <2>2, LineReadable
  <2>4. \A p \in 1 .. Len(kvps) : kvps[p] \in KeyVals /\ InTables(kvps[p])
    BY <2>3 DEF Readable
  <2> QED
    BY <1>1, <2>3, <2>4, PairDecodes
<1>3. ~LookupCrash
  <2> SUFFICES ASSUME LookupCrash PROVE FALSE
    OBVIOUS
  <2>1. pc = "lookup" /\ n \in 1 .. Len(kvps) /\ ~KnownLabel
    BY DEF LookupCrash, TypeOK
  <2> QED
    BY <1>2, <2>1, ValueIdsAre
<1>4. ~RenderCrash
  <2> SUFFICES ASSUME RenderCrash PROVE FALSE
    OBVIOUS
  <2>1. pc = "done" /\ ~Renderable(label_names, value_names, Result)
    BY DEF RenderCrash
  <2>2. Encodes(Result, kvps) /\ Result \in Specs
    BY <2>1, FinishedEncodes, ResultType DEF EncInv
  <2>3. LineSays(Result, kvps)
    BY <1>1, <1>2, <2>1, <2>2, EncodedLine
  <2> QED
    BY <1>1, <2>1, <2>3, LineRenderable
<1>5. EncodeStep /\ ~LookupCrash => pc' # "crash"
  BY DEF EncodeStep, Encode, LookupMetric, LookupLabel, BeginSort, SortStep, EndSort, TypeOK
<1> QED
  BY <1>3, <1>4, <1>5

Promised == [Promises!Next]_(Promises!vars)

LEMMA StartUpPromised ==
  ASSUME WorkerInv, StartUp
  PROVE  Promised
<1> IInv /\ CacheInv /\ PhaseInv /\ TypeOK
  BY DEF WorkerInv, IInv, CacheInv
<1> ServiceState /\ ServiceState'
  BY ServiceStateIs
<1>1. /\ Next /\ phase \notin {"ready", "conf_error", "undefined"}
      /\ UNCHANGED <<asked, link, answer>>
  BY DEF StartUp, clientVars
<1>2. UNCHANGED series_collection
  BY <1>1 DEF Next, Loaded, NotLoaded, InternPair, InternNextSeries, EndIntern, BuildTables,
              HashFails, EncodeCall, EncodeStep, StoreSeries, RenderCrash, Return,
              encVars, cacheVars
<1>3. turn = "idle" /\ (pc # "crash" => mode = "starting")
  BY <1>1 DEF ServiceState
<1>4. CASE Loaded \/ InternPair \/ InternNextSeries \/ EndIntern \/ BuildTables
  <2>1. /\ phase' \in {"intern", "tables", "encode"} /\ pc' = pc /\ pc = "idle"
    BY <1>4 DEF Loaded, InternPair, InternNextSeries, EndIntern, BuildTables, encVars, PhaseInv
  <2>2. turn' = turn /\ mode' = mode
    BY <1>3, <2>1 DEF ServiceState
  <2> QED
    BY <1>1, <1>2, <2>2 DEF Promised, Promises!vars
<1>5. CASE NotLoaded
  <2>1. phase' = "undefined" /\ pc = "idle" /\ series_collection = NoExposition
    BY <1>5 DEF NotLoaded, PhaseInv
  <2>2. mode' = "dead" /\ turn' = turn /\ mode = "starting"
    BY <1>3, <2>1 DEF ServiceState
  <2> QED
    BY <1>1, <1>2, <2>1, <2>2 DEF Promised, Promises!Next, Promises!Start
<1>6. CASE HashFails \/ Return
  <2>1. /\ phase' \in {"ready", "conf_error"} /\ pc = "idle" /\ pc' = pc
        /\ series_collection # NoExposition
    BY <1>6 DEF HashFails, Return, PhaseInv, encVars
  <2>2. mode' \in {"serving", "broken"} /\ turn' = turn /\ mode = "starting"
    BY <1>3, <2>1 DEF ServiceState
  <2> QED
    BY <1>1, <1>2, <2>1, <2>2 DEF Promised, Promises!Next, Promises!Start
<1>7. CASE EncodeCall \/ EncodeStep \/ StoreSeries \/ RenderCrash
  <2>1. /\ phase = "encode" /\ phase' = phase /\ pc # "crash"
        /\ pc' = "crash" => EncodeStep \/ RenderCrash
    BY <1>7 DEF EncodeCall, EncodeStep, StoreSeries, RenderCrash, cacheVars, Call, Encode,
                LookupMetric, LookupLabel, LookupCrash, BeginSort, SortStep, EndSort
  <2>2. turn' = turn /\ mode' = IF pc' = "crash" THEN "dead" ELSE mode
    BY <1>3, <2>1 DEF ServiceState
  <2>3. CASE pc' # "crash"
    BY <1>1, <1>2, <2>2, <2>3 DEF Promised, Promises!vars
  <2>4. CASE pc' = "crash"
    <3>1. ~Promises!LowerCaseLines
      BY <2>1, <2>4, StartsWithLowerCase
    <3> QED
      BY <1>1, <1>2, <1>3, <2>1, <2>2, <2>4, <3>1
         DEF Promised, Promises!Next, Promises!Start
  <2> QED
    BY <2>3, <2>4
<1> QED
  BY <1>1, <1>4, <1>5, <1>6, <1>7 DEF Next

LEMMA RequestPromised ==
  ASSUME WorkerInv, WorkerInv', Ask \/ Follow \/ RequestWithoutCache
  PROVE  Promised
<1> ServiceState /\ ServiceState'
  BY ServiceStateIs
<1>1. /\ phase \in {"ready", "conf_error"} /\ phase' = phase
      /\ pc = "idle" /\ pc' = "lookup" /\ answer' = << >>
      /\ UNCHANGED series_collection
  BY DEF Ask, Follow, Request, RequestWithoutCache, Call, cacheVars
<1>2. asked' \in Seq(KeyVals)
  BY DEF WorkerInv, ClientInv
<1>3. /\ mode \in {"serving", "broken"} /\ mode' = mode
      /\ turn = "idle" /\ turn' = "busy"
  BY <1>1 DEF ServiceState
<1> QED
  BY <1>1, <1>2, <1>3 DEF Promised, Promises!Next, Promises!Ask

LEMMA ServePromised ==
  ASSUME WorkerInv, Serve
  PROVE  Promised
<1> ServiceState /\ ServiceState'
  BY ServiceStateIs
<1> IInv /\ CacheInv /\ TypeOK
  BY DEF WorkerInv, IInv, CacheInv
<1>1. CASE EncodeRequest \/ AnswerCrash
  <2>1. /\ phase = "ready" /\ phase' = phase /\ UNCHANGED <<series_collection, asked, link, answer>>
        /\ pc \in {"lookup", "sort", "done"} /\ pc' \in {"lookup", "sort", "done", "crash"}
    BY <1>1 DEF EncodeRequest, AnswerCrash, Encode, cacheVars, clientVars,
                LookupMetric, LookupLabel, LookupCrash, BeginSort, SortStep, EndSort
  <2>2. /\ mode = "serving" /\ mode' = mode
        /\ turn = "busy" /\ turn' = IF pc' = "crash" THEN "lost" ELSE "busy"
    BY <2>1 DEF ServiceState
  <2>3. CASE pc' = "crash"
    <3>1. ~Promises!Understood \/ ~Promises!LowerCaseLines
      BY <1>1, <2>1, <2>3, LostWithReason
    <3> QED
      BY <2>1, <2>2, <2>3, <3>1 DEF Promised, Promises!Next, Promises!Lose
  <2>4. CASE pc' # "crash"
    BY <2>1, <2>2, <2>4 DEF Promised, Promises!vars
  <2> QED
    BY <2>3, <2>4
<1>2. CASE Answer
  <2>1. /\ phase = "ready" /\ phase' = phase /\ UNCHANGED <<series_collection, asked, link>>
        /\ pc = "done" /\ pc' = "idle" /\ answer' \in InOrder(Selected)
    BY <1>2 DEF Answer, cacheVars
  <2>2. mode = "serving" /\ mode' = mode /\ turn = "busy" /\ turn' = "idle"
    BY <2>1 DEF ServiceState
  <2>3. Promises!LowerCaseLines => Promises!Promise(answer')
    BY <2>1, AnswerKeepsPromise
  <2> QED
    BY <2>1, <2>2, <2>3 DEF Promised, Promises!Next, Promises!Reply
<1>3. CASE CrashWithoutCache
  <2>1. /\ phase = "conf_error" /\ phase' = phase
        /\ UNCHANGED <<series_collection, asked, link, answer>>
        /\ pc = "lookup" /\ pc' = "crash"
    BY <1>3 DEF CrashWithoutCache, cacheVars, clientVars
  <2>2. mode = "broken" /\ mode' = mode /\ turn = "busy" /\ turn' = "lost"
    BY <2>1 DEF ServiceState
  <2> QED
    BY <2>1, <2>2 DEF Promised, Promises!Next, Promises!Lose
<1>4. CASE Respawn
  <2>1. /\ phase \in {"ready", "conf_error"} /\ phase' = phase
        /\ UNCHANGED <<series_collection, asked, link, answer>>
        /\ pc = "crash" /\ pc' = "idle"
    BY <1>4 DEF Respawn, cacheVars, clientVars
  <2>2. mode' = mode /\ turn = "lost" /\ turn' = "idle"
    BY <2>1 DEF ServiceState
  <2> QED
    BY <2>1, <2>2 DEF Promised, Promises!Next, Promises!Recover
<1> QED
  BY <1>1, <1>2, <1>3, <1>4 DEF Serve

LEMMA StepPromised ==
  ASSUME WorkerInv, WorkerInv', [WorkerNext]_workerVars
  PROVE  Promised
<1>1. CASE StartUp
  BY <1>1, StartUpPromised
<1>2. CASE Ask \/ Follow \/ RequestWithoutCache
  BY <1>2, RequestPromised
<1>3. CASE Serve
  BY <1>3, ServePromised
<1>4. CASE UNCHANGED workerVars
  <2>1. UNCHANGED <<series_collection, phase, pc, asked, answer>>
    BY <1>4 DEF workerVars, vars, encVars, cacheVars, clientVars
  <2>2. mode' = mode /\ turn' = turn
    BY <2>1 DEF mode, turn
  <2> QED
    BY <2>1, <2>2 DEF Promised, Promises!vars
<1> QED
  BY <1>1, <1>2, <1>3, <1>4 DEF WorkerNext

LEMMA InitPromised == WorkerInit => Promises!Init
BY DEF WorkerInit, Init, mode, turn, Promises!Init

\* A worker keeps the promises of Service for every exposition and every list
\* of pairs: what dvt_cache_init, dvt_series_spec_from_kv_array and
\* dvt_cache_get_series_set compute with ids is what a client means by names.
THEOREM WorkerImplements == WorkerSpec => ImplementsService
<1>1. WorkerInit => Promises!Init
  BY InitPromised
<1>2. WorkerInv /\ WorkerInv' /\ [WorkerNext]_workerVars => [Promises!Next]_(Promises!vars)
  BY StepPromised DEF Promised
<1> QED
  BY <1>1, <1>2, WorkerInvariant, PTL DEF WorkerSpec, ImplementsService, Promises!Spec

-----------------------------------------------------------------------------
(* What the cache promises holds with a worker that uses it.               *)

\* The count shown beside a value is the number of its occurrences in the
\* exposition, up to 16 bits, while dvt_cache_init reads it and ever after.
THEOREM CountsServe == WorkerSpec => []CountsExact
BY WorkerInvariant, CountsHold, PTL DEF WorkerInv

\* dvt_cache_label_id_from_name and dvt_cache_label_value_id_from_name give
\* the id a name has in its table, for every set of names in lower case.
THEOREM LookupsServe == WorkerSpec => []LookupRoundTrip
BY WorkerInvariant, RoundTripHolds, PTL DEF WorkerInv

\* Read back through the tables, the series of the cache are the lines of the
\* exposition: dvt_cache_init loses, invents and mixes up none.
THEOREM SeriesServe == WorkerSpec => []SeriesDecode
BY WorkerInvariant, DecodeHolds, PTL DEF WorkerInv

\* A spec dvt_series_spec_from_kv_array has made is sorted by label id, also
\* one with unknown labels and values.
THEOREM FinishedServes == WorkerSpec => []FinishedIsSorted
BY WorkerInvariant, SortedHolds, PTL DEF WorkerInv

\* With known labels, what dvt_series_spec_from_kv_array makes is the last
\* metric and every other pair once, in label order.
THEOREM EncodingServes == WorkerSpec => []SpecCorrect
BY WorkerInvariant, CorrectHolds, PTL DEF WorkerInv

\* The id of a metric the cache does not know is not the word for "any metric".
THEOREM UnknownMetricServes == WorkerSpec => []UnknownMetricIsNotAny
BY WorkerInvariant, UnknownMetricHolds, PTL DEF WorkerInv

\* The texts dvt_series_spec_to_json gives a client are well formed, and each
\* leads back to the series it was written from.
THEOREM LinksLeadBack == WorkerSpec => []LinkFindsSeries
BY WorkerInvariant, LinkHolds, PTL

\* The counts of dvt_cache_init's summary agree with the answers of
\* dvt_cache_get_series_set.
THEOREM SummaryAgrees == WorkerSpec => []SummaryCountsAnswer
BY WorkerInvariant, SummaryHolds, PTL

=============================================================================
