-------------------------- MODULE StringHash_proofs --------------------------
(***************************************************************************)
(* For names, hash functions and buckets of every size: what the fitting   *)
(* loop counts is what the elements of a bucket take, so that none is      *)
(* written over another, and a search finds the first element it should.   *)
(***************************************************************************)
EXTENDS StringHash, TLAPS, WellFoundedInduction

Keys == Names \cup {NoKey}

-----------------------------------------------------------------------------
(* The sums of the fitting loop, for given names, hash and number of       *)
(* buckets.                                                                *)

EltOf(key) == ELT_SIZE(LengthOf(key))

\* The k-th name goes to bucket b.
Goes(ks, h, sz, b, k) == ks[k] # NoKey /\ h[ks[k]] % sz = b

\* What is added for the k-th name.
Part(ks, h, sz, b, k) == IF Goes(ks, h, sz, b, k) THEN EltOf(ks[k]) ELSE 0

SumsOf(ks, h, sz, b, first) ==
  LET used[k \in 0 .. Len(ks)] ==
        IF k = 0 THEN first
        ELSE IF ks[k] # NoKey /\ h[ks[k]] % sz = b
             THEN UShort(used[k - 1] + ELT_SIZE(LengthOf(ks[k])))
             ELSE used[k - 1]
  IN used

\* The names of bucket b.
In(b, k) == keys[k] # NoKey /\ BucketOf(k) = b

\* How far bucket b is filled after so many names.
Sums(b) == SumsOf(keys, hash, size, b, 0)
Total(b) == Sums(b)[Len(keys)]

-----------------------------------------------------------------------------
(* The invariant.                                                          *)

Ready == {"place", "fill", "end", "built", "walk", "answered"}
Phases == Ready \cup {"check", "fit", "error", "trap", "clobbered", "undefined"}
Buckets == 0 .. size - 1

TypeOK ==
  /\ phase \in Phases
  /\ keys \in KeyLists /\ hash \in Hashes
  /\ hinit \in [bucket_size : BucketSizes, max_size : MaxSizes]
  /\ n \in Nat /\ free \in Nat
  /\ phase \in Ready \cup {"fit"} => size \in Nat \ {0}
  /\ phase \in Ready => /\ buckets \in [Buckets -> Nat \cup {Null}]
                        /\ test \in [Buckets -> Nat]

\* Only names that fit a bucket get beyond the first check, and only sums
\* that do beyond the second.
FitInv ==
  /\ phase \in Ready \cup {"fit"} => AllShort
  /\ phase \in Ready => Fits

\* The buckets that have been given their place, in the order of their places.
HasPlace(b) == b \in Buckets /\ (phase = "place" => b < n)

RoomInv ==
  phase \in Ready /\ Narrow =>
    \A b \in Buckets : HasPlace(b) =>
      /\ buckets[b] = Null <=> Total(b) = 0
      /\ buckets[b] # Null => buckets[b] + PTR + Total(b) <= free
      /\ \A c \in 0 .. b - 1 :
           buckets[c] # Null /\ buckets[b] # Null => buckets[c] + PTR + Total(c) <= buckets[b]

Element(k) ==
  [at |-> buckets[BucketOf(k)] + Sums(BucketOf(k))[k - 1], bytes |-> EltOf(keys[k]),
   value |-> Value(k), len |-> UShort(LengthOf(keys[k])), name |-> Lower[keys[k]]]

Closing(b) == [at |-> buckets[b] + Total(b), bytes |-> PTR, value |-> NULL, len |-> 0, name |-> NoKey]

Elements(m) == {Element(k) : k \in {l \in 1 .. m - 1 : keys[l] # NoKey}}
Closings(m) == {Closing(b) : b \in {c \in 0 .. m - 1 : buckets[c] # Null}}

\* The names before n are written, each behind those of its bucket; then the
\* NULLs of the buckets before n.
MemInv ==
  /\ phase \in {"check", "fit"} => mem = {}
  /\ phase = "place" =>
       /\ n \in 0 .. size /\ mem = {}
       /\ \A b \in Buckets : test[b] = Measure(b) /\ (b >= n => buckets[b] = Null)
  /\ phase = "fill" =>
       /\ n \in 1 .. Len(keys) + 1 /\ mem = Elements(n)
       /\ \A b \in Buckets : test[b] = Sums(b)[n - 1]
       /\ \A k \in 1 .. n - 1 : keys[k] # NoKey => buckets[BucketOf(k)] # Null
  /\ phase = "end" =>
       /\ n \in 0 .. size /\ mem = Elements(Len(keys) + 1) \cup Closings(n)
       /\ \A b \in Buckets : test[b] = Total(b)
  /\ phase \in {"built", "walk", "answered"} =>
       mem = Elements(Len(keys) + 1) \cup Closings(size)
  /\ phase \in {"end", "built", "walk", "answered"} =>
       \A k \in 1 .. Len(keys) : keys[k] # NoKey => buckets[BucketOf(k)] # Null

Apart(e, f) == e.at + e.bytes <= f.at \/ f.at + f.bytes <= e.at
ApartInv == phase \in Ready => \A e, f \in mem : e = f \/ Apart(e, f)

\* The elements a search for a name is to find.
Hit(name, k) == In(hash[name] % size, k) /\ Lower[keys[k]] = name

\* A search has gone by the elements of its bucket up to k.
WalkInv ==
  phase = "walk" =>
    /\ asked \in Names /\ found = NULL
    /\ buckets[hash[asked] % size] # Null
    /\ \E k \in 0 .. Len(keys) :
         /\ elt = buckets[hash[asked] % size] + Sums(hash[asked] % size)[k]
         /\ \A l \in 1 .. k : ~Hit(asked, l)

IInv == /\ TypeOK /\ FitInv /\ RoomInv /\ MemInv /\ ApartInv /\ WalkInv
        /\ NothingClobbered /\ FindExact

-----------------------------------------------------------------------------
(* Numbers.                                                                *)

\* What holds at the beginning and from each number to the next holds up to N.
LEMMA UpTo ==
  ASSUME NEW N \in Nat, NEW S, 0 \in S, \A k \in 1 .. N : k - 1 \in S => k \in S
  PROVE  \A k \in 0 .. N : k \in S
<1> DEFINE T == {k \in 0 .. N : k \notin S}
<1> SUFFICES ASSUME T # {}
             PROVE  FALSE
  OBVIOUS
<1>1. T \subseteq Nat
  OBVIOUS
<1>2. PICK k \in T : \A l \in T : ~(<<l, k>> \in OpToRel(<, Nat))
  BY <1>1, NatLessThanWellFounded, WFMin, Zenon
<1>3. \A l \in T : ~(l < k)
  BY <1>1, <1>2, Zenon DEF OpToRel
<1>4. k # 0 /\ k - 1 \in 0 .. N /\ k \in 1 .. N
  OBVIOUS
<1>5. k - 1 \in S
  BY <1>3, <1>4
<1> QED
  BY <1>4, <1>5

\* A set of numbers has a least one.
LEMMA Least ==
  ASSUME NEW S \in SUBSET Nat, S # {}
  PROVE  \E k \in S : \A l \in S : k <= l
<1>1. PICK k \in S : \A l \in S : ~(<<l, k>> \in OpToRel(<, Nat))
  BY NatLessThanWellFounded, WFMin, Zenon
<1>2. \A l \in S : ~(l < k)
  BY <1>1, Zenon DEF OpToRel
<1> QED
  BY <1>2

\* A number is rounded up by less than the unit.
LEMMA AlignIs ==
  ASSUME NEW x \in Nat, NEW a \in Nat \ {0}
  PROVE  Align(x, a) \in Nat /\ x <= Align(x, a) /\ Align(x, a) < x + a
<1> DEFINE q == (x + a - 1) \div a
<1>1. q \in Nat /\ q * a <= x + a - 1 /\ x + a - 1 < q * a + a
  OBVIOUS
<1>2. q * a \in Nat
  BY <1>1
<1>3. Align(x, a) = q * a
  BY DEF Align
<1> HIDE DEF q
<1> QED
  BY <1>1, <1>2, <1>3

\* A whole unit is kept.
LEMMA AlignUnit ==
  ASSUME NEW x \in Nat, NEW a \in Nat \ {0}
  PROVE  Align(a + x, a) = a + Align(x, a)
<1> DEFINE q == (x + a - 1) \div a
           p == ((a + x) + a - 1) \div a
<1>1. q \in Nat /\ q * a <= x + a - 1 /\ x + a - 1 < q * a + a
  OBVIOUS
<1>2. p \in Nat /\ p * a <= (a + x) + a - 1 /\ (a + x) + a - 1 < p * a + a
  OBVIOUS
<1>3. p = q + 1
  OBVIOUS
<1>4. Align(x, a) = q * a /\ Align(a + x, a) = p * a
  BY DEF Align
<1> HIDE DEF q, p
<1>5. p * a = q * a + a
  BY <1>1, <1>3
<1> QED
  BY <1>4, <1>5, <1>1

LEMMA UShortIs ==
  ASSUME NEW x \in Nat
  PROVE  UShort(x) \in Nat /\ UShort(x) < WORD16 /\ (x < WORD16 => UShort(x) = x)
<1> WORD16 \in Nat \ {0}
  BY SizeAssumption
<1> QED
  BY DEF UShort

\* An element has room for a pointer, and for the length and the name.
LEMMA EltIs ==
  ASSUME NEW key \in Keys
  PROVE  /\ LengthOf(key) \in Nat /\ EltOf(key) \in Nat
         /\ EltOf(key) >= 2 * PTR /\ EltOf(key) > LengthOf(key)
         /\ EltOf(key) = Align(PTR + 2 + LengthOf(key), PTR)
<1> PTR \in Nat \ {0}
  BY SizeAssumption
<1> DEFINE len == LengthOf(key)
<1>1. len \in Nat
  BY KeysAssumption DEF LengthOf, Keys
<1> HIDE DEF len
<1>2. /\ Align(len + 2, PTR) \in Nat /\ len + 2 <= Align(len + 2, PTR)
      /\ Align(PTR + (len + 2), PTR) = PTR + Align(len + 2, PTR)
  BY <1>1, AlignIs, AlignUnit
<1>3. EltOf(key) = PTR + Align(len + 2, PTR)
  BY DEF EltOf, ELT_SIZE, len
<1>4. Align(len + 2, PTR) >= PTR
  <2> DEFINE q == ((len + 2) + PTR - 1) \div PTR
  <2>1. q \in Nat /\ (len + 2) + PTR - 1 < q * PTR + PTR
    BY <1>1
  <2>2. q >= 1
    BY <1>1, <2>1
  <2>3. Align(len + 2, PTR) = q * PTR
    BY DEF Align
  <2> HIDE DEF q
  <2> QED
    BY <2>1, <2>2, <2>3
<1>5. PTR + (len + 2) = PTR + 2 + len
  BY <1>1
<1> QED
  BY <1>1, <1>2, <1>3, <1>4, <1>5 DEF len

-----------------------------------------------------------------------------
(* The sums.                                                               *)

Grown(ks, h, sz, b, k, x) ==
  IF ks[k] # NoKey /\ h[ks[k]] % sz = b THEN UShort(x + ELT_SIZE(LengthOf(ks[k]))) ELSE x

LEMMA GrownType ==
  ASSUME NEW ks \in Seq(Keys), NEW h, NEW sz, NEW b, NEW k \in 1 .. Len(ks), NEW x \in Nat
  PROVE  Grown(ks, h, sz, b, k, x) \in Nat
<1>1. EltOf(ks[k]) \in Nat
  BY EltIs
<1>2. x + ELT_SIZE(LengthOf(ks[k])) \in Nat
  BY <1>1 DEF EltOf
<1> QED
  BY <1>2, UShortIs DEF Grown

\* The function that the definition of the sums chooses exists.
LEMMA SumsIs ==
  ASSUME NEW ks \in Seq(Keys), NEW h, NEW sz, NEW b, NEW first \in Nat
  PROVE  LET used == SumsOf(ks, h, sz, b, first) IN
           /\ used \in [0 .. Len(ks) -> Nat] /\ used[0] = first
           /\ \A k \in 1 .. Len(ks) : used[k] = Grown(ks, h, sz, b, k, used[k - 1])
<1> DEFINE N == Len(ks)
           Rec(g) == [k \in 0 .. N |-> IF k = 0 THEN first ELSE Grown(ks, h, sz, b, k, g[k - 1])]
           Good(g, m) == /\ g \in [0 .. N -> Nat] /\ g[0] = first
                         /\ \A k \in 1 .. m : g[k] = Grown(ks, h, sz, b, k, g[k - 1])
           S == {m \in 0 .. N : \E g : Good(g, m)}
<1>1. N \in Nat /\ N = Len(ks)
  OBVIOUS
<1> HIDE DEF N
<1>2. 0 \in S
  <2>1. Good([k \in 0 .. N |-> first], 0)
    BY <1>1
  <2>2. \E g : Good(g, 0)
    <3> HIDE DEF Good
    <3> QED
      BY <2>1
  <2> QED
    BY <1>1, <2>2
<1>3. ASSUME NEW m \in 1 .. N, m - 1 \in S
      PROVE  m \in S
  <2>1. PICK g : Good(g, m - 1)
    BY <1>3
  <2> DEFINE f == [g EXCEPT ![m] = Grown(ks, h, sz, b, m, g[m - 1])]
  <2>2. g[m - 1] \in Nat
    <3>1. g \in [0 .. N -> Nat]
      BY <2>1
    <3>2. m - 1 \in 0 .. N
      BY <1>1
    <3> QED
      BY <3>1, <3>2
  <2>3. Grown(ks, h, sz, b, m, g[m - 1]) \in Nat
    BY <1>1, <2>2, GrownType
  <2>4. f \in [0 .. N -> Nat] /\ f[m] = Grown(ks, h, sz, b, m, g[m - 1])
        /\ \A k \in 0 .. N : k # m => f[k] = g[k]
    BY <1>1, <2>1, <2>3
  <2> HIDE DEF f
  <2>5. f[0] = first
    BY <1>1, <2>1, <2>4
  <2>6. ASSUME NEW k \in 1 .. m
        PROVE  f[k] = Grown(ks, h, sz, b, k, f[k - 1])
    <3>1. f[k - 1] = g[k - 1]
      BY <1>1, <2>4
    <3>2. CASE k = m
      BY <2>4, <3>1, <3>2
    <3>3. CASE k # m
      <4>1. k \in 1 .. m - 1 /\ f[k] = g[k]
        BY <1>1, <2>4, <3>3
      <4> QED
        BY <2>1, <3>1, <4>1
    <3> QED
      BY <3>2, <3>3
  <2>7. Good(f, m)
    BY <2>4, <2>5, <2>6
  <2> HIDE DEF Good
  <2> QED
    BY <2>7
<1>4. N \in S
  <2> HIDE DEF S
  <2>1. \A k \in 0 .. N : k \in S
    BY <1>1, <1>2, <1>3, UpTo
  <2> QED
    BY <1>1, <2>1
<1>5. PICK g : Good(g, N)
  BY <1>4
<1>6. g = Rec(g)
  <2>1. \A k \in 0 .. N : g[k] = Rec(g)[k]
    <3> TAKE k \in 0 .. N
    <3>1. CASE k = 0
      BY <1>5, <3>1
    <3>2. CASE k # 0
      <4>1. k \in 1 .. N
        BY <1>1, <3>2
      <4> QED
        BY <1>5, <3>2, <4>1
    <3> QED
      BY <3>1, <3>2
  <2> QED
    BY <1>5, <2>1
<1> DEFINE used == CHOOSE f : f = Rec(f)
<1>7. used = Rec(used)
  <2> HIDE DEF Rec
  <2> QED
    BY <1>6
<1>8. SumsOf(ks, h, sz, b, first) = used
  BY <1>1 DEF SumsOf, Grown
<1> HIDE DEF used
<1>9. used[0] = first /\ \A k \in 1 .. N : used[k] = Grown(ks, h, sz, b, k, used[k - 1])
  BY <1>1, <1>7
<1>10. \A k \in 0 .. N : used[k] \in Nat
  <2> DEFINE T == {k \in 0 .. N : used[k] \in Nat}
  <2>1. 0 \in T
    BY <1>1, <1>9
  <2>2. ASSUME NEW k \in 1 .. N, k - 1 \in T
        PROVE  k \in T
    BY <1>1, <1>9, <2>2, GrownType
  <2>3. \A k \in 0 .. N : k \in T
    <3> HIDE DEF T
    <3> QED
      BY <1>1, <2>1, <2>2, UpTo
  <2> QED
    BY <2>3
<1>11. used \in [0 .. N -> Nat]
  BY <1>7, <1>10
<1> QED
  BY <1>1, <1>8, <1>9, <1>11

LEMMA UsedIs ==
  ASSUME NEW b, NEW first
  PROVE  /\ Used(b, first) = SumsOf(keys, hash, size, b, first)
         /\ Used(b, first)' = SumsOf(keys', hash', size', b, first)
<1>1. Used(b, first) = SumsOf(keys, hash, size, b, first)
  BY DEF Used, SumsOf, BucketOf
<1>2. Used(b, first)' = SumsOf(keys', hash', size', b, first)
  BY DEF Used, SumsOf, BucketOf
<1> QED
  BY <1>1, <1>2

\* After the fitting loop the sums stay what they are.
LEMMA SumsStay ==
  ASSUME keys' = keys, hash' = hash, size' = size, NEW b
  PROVE  /\ Sums(b)' = Sums(b) /\ Total(b)' = Total(b) /\ Measure(b)' = Measure(b)
         /\ Used(b, 0)' = Used(b, 0)
<1>1. Sums(b)' = Sums(b) /\ Total(b)' = Total(b)
  BY DEF Sums, Total
<1>2. Used(b, 0)' = Used(b, 0) /\ Used(b, PTR)' = Used(b, PTR)
  BY UsedIs
<1>3. Measure(b)' = Measure(b)
  BY <1>2 DEF Measure
<1> QED
  BY <1>1, <1>2, <1>3

LEMMA KeysType ==
  ASSUME TypeOK
  PROVE  /\ keys \in Seq(Keys) /\ Len(keys) \in Nat /\ \A k \in 1 .. Len(keys) : keys[k] \in Keys
         /\ hash \in [Names -> Nat]
<1>1. keys \in Seq(Keys)
  BY SizeAssumption DEF TypeOK, Keys
<1>2. \A k \in 1 .. Len(keys) : keys[k] \in Keys
  BY <1>1
<1> QED
  BY <1>1, <1>2, KeysAssumption DEF TypeOK

LEMMA BucketsType ==
  ASSUME TypeOK, size \in Nat \ {0}
  PROVE  /\ \A k \in 1 .. Len(keys) : keys[k] # NoKey => BucketOf(k) \in Buckets
         /\ \A name \in Names : hash[name] % size \in Buckets
<1>1. \A x \in Nat : x % size \in 0 .. size - 1
  OBVIOUS
<1>2. \A name \in Names : hash[name] % size \in Buckets
  BY <1>1, KeysType DEF Buckets
<1> QED
  BY <1>2, KeysType DEF BucketOf, Keys

\* The sums from name to name.
LEMMA SumsGrow ==
  ASSUME TypeOK, NEW b
  PROVE  /\ Sums(b) \in [0 .. Len(keys) -> Nat] /\ Sums(b)[0] = 0 /\ Total(b) \in Nat
         /\ \A k \in 0 .. Len(keys) : Sums(b)[k] \in Nat
         /\ \A k \in 1 .. Len(keys) :
              /\ In(b, k) => Sums(b)[k] = UShort(Sums(b)[k - 1] + EltOf(keys[k]))
              /\ ~In(b, k) => Sums(b)[k] = Sums(b)[k - 1]
<1>1. /\ Sums(b) \in [0 .. Len(keys) -> Nat] /\ Sums(b)[0] = 0
      /\ \A k \in 1 .. Len(keys) : Sums(b)[k] = Grown(keys, hash, size, b, k, Sums(b)[k - 1])
  BY KeysType, SumsIs DEF Sums
<1>2. Len(keys) \in 0 .. Len(keys)
  BY KeysType
<1>3. \A k, x :
        /\ In(b, k) => Grown(keys, hash, size, b, k, x) = UShort(x + EltOf(keys[k]))
        /\ ~In(b, k) => Grown(keys, hash, size, b, k, x) = x
  BY DEF In, Grown, BucketOf, EltOf
<1> QED
  BY <1>1, <1>2, <1>3 DEF Total

\* Buckets that are not too wide for a u_short are filled without a wrap.
LEMMA NoWrap ==
  ASSUME TypeOK, FitInv, phase \in Ready, Narrow, NEW b \in Buckets
  PROVE  /\ \A k \in 0 .. Len(keys) : Sums(b)[k] + PTR <= hinit.bucket_size
         /\ \A k \in 1 .. Len(keys) : In(b, k) => Sums(b)[k] = Sums(b)[k - 1] + EltOf(keys[k])
<1> PTR \in Nat \ {0} /\ WORD16 \in Nat
  BY SizeAssumption
<1>1. hinit.bucket_size \in Nat /\ hinit.bucket_size >= PTR /\ 2 * hinit.bucket_size <= WORD16
  BY SizeAssumption DEF TypeOK, Narrow
<1>2. UShort(bucket_size) = hinit.bucket_size - PTR
  <2>1. bucket_size \in Nat /\ bucket_size < WORD16 /\ bucket_size = hinit.bucket_size - PTR
    BY <1>1 DEF bucket_size
  <2> QED
    BY <2>1, UShortIs
<1>3. \A k \in 0 .. Len(keys) : Sums(b)[k] \in Nat /\ Sums(b)[k] + PTR <= hinit.bucket_size
  <2> TAKE k \in 0 .. Len(keys)
  <2>1. Sums(b)[k] \in Nat /\ Sums(b)[0] = 0
    BY SumsGrow
  <2>2. CASE k = 0
    BY <1>1, <2>1, <2>2
  <2>3. CASE k # 0
    <3>1. k \in 1 .. Len(keys)
      BY KeysType, <2>3
    <3>2. Used(b, 0)[k] <= UShort(bucket_size)
      BY <3>1 DEF FitInv, Fits, Buckets
    <3>3. Sums(b)[k] <= hinit.bucket_size - PTR
      BY <1>2, <3>2, UsedIs DEF Sums
    <3> QED
      BY <1>1, <2>1, <3>3
  <2> QED
    BY <2>2, <2>3
<1>4. ASSUME NEW k \in 1 .. Len(keys), In(b, k)
      PROVE  Sums(b)[k] = Sums(b)[k - 1] + EltOf(keys[k])
  <2>1. EltOf(keys[k]) \in Nat /\ EltOf(keys[k]) + PTR <= hinit.bucket_size
    BY KeysType, EltIs DEF FitInv, AllShort, EltOf
  <2>2. k - 1 \in 0 .. Len(keys)
    BY KeysType
  <2>3. Sums(b)[k - 1] \in Nat /\ Sums(b)[k - 1] + PTR <= hinit.bucket_size
    BY <1>3, <2>2
  <2>4. Sums(b)[k - 1] + EltOf(keys[k]) \in Nat /\ Sums(b)[k - 1] + EltOf(keys[k]) < WORD16
    BY SMTT(30), <1>1, <2>1, <2>3
  <2> QED
    BY <1>4, <2>4, SumsGrow, UShortIs
<1> QED
  BY <1>3, <1>4

LEMMA SumsOrdered ==
  ASSUME TypeOK, FitInv, phase \in Ready, Narrow, NEW b \in Buckets
  PROVE  \A k \in 0 .. Len(keys) : \A j \in 0 .. k : Sums(b)[j] <= Sums(b)[k]
<1> DEFINE S == {k \in 0 .. Len(keys) : \A j \in 0 .. k : Sums(b)[j] <= Sums(b)[k]}
<1>1. Len(keys) \in Nat /\ \A k \in 0 .. Len(keys) : Sums(b)[k] \in Nat
  BY KeysType, SumsGrow
<1>2. 0 \in S
  BY <1>1
<1>3. ASSUME NEW k \in 1 .. Len(keys), k - 1 \in S
      PROVE  k \in S
  <2>1. k - 1 \in 0 .. Len(keys) /\ k \in 0 .. Len(keys)
    BY <1>1
  <2>2. Sums(b)[k - 1] <= Sums(b)[k]
    <3>1. CASE In(b, k)
      <4>1. EltOf(keys[k]) \in Nat
        BY KeysType, EltIs
      <4>2. Sums(b)[k] = Sums(b)[k - 1] + EltOf(keys[k])
        BY <3>1, NoWrap
      <4>3. Sums(b)[k - 1] \in Nat
        BY <1>1, <2>1
      <4> QED
        BY <4>1, <4>2, <4>3
    <3>2. CASE ~In(b, k)
      BY <1>1, <2>1, <3>2, SumsGrow
    <3> QED
      BY <3>1, <3>2
  <2>3. ASSUME NEW j \in 0 .. k
        PROVE  Sums(b)[j] <= Sums(b)[k]
    <3>1. CASE j = k
      BY <1>1, <2>1, <3>1
    <3>2. CASE j # k
      <4>1. j \in 0 .. k - 1 /\ j \in 0 .. Len(keys)
        BY <1>1, <3>2
      <4>2. Sums(b)[j] <= Sums(b)[k - 1]
        BY <1>3, <4>1
      <4> QED
        BY <1>1, <2>1, <2>2, <4>1, <4>2
    <3> QED
      BY <3>1, <3>2
  <2> QED
    BY <2>1, <2>3
<1>4. \A k \in 0 .. Len(keys) : k \in S
  <2> HIDE DEF S
  <2> QED
    BY <1>1, <1>2, <1>3, UpTo
<1> QED
  BY <1>4

\* The memory of a bucket: none without elements, and otherwise room for them
\* and the NULL.
LEMMA MeasureIs ==
  ASSUME TypeOK, FitInv, phase \in Ready, Narrow, NEW b \in Buckets
  PROVE  /\ Measure(b) \in Nat
         /\ Measure(b) = PTR <=> Total(b) = 0
         /\ Total(b) # 0 => PTR + Total(b) <= Measure(b)
<1> DEFINE used == Used(b, PTR)
           S == {k \in 0 .. Len(keys) : used[k] = PTR + Sums(b)[k]}
<1> /\ PTR \in Nat \ {0} /\ WORD16 \in Nat /\ CACHELINE \in Nat \ {0} /\ 2 * CACHELINE <= WORD16
  BY SizeAssumption
<1>1. /\ Len(keys) \in Nat /\ \A k \in 0 .. Len(keys) : Sums(b)[k] \in Nat
      /\ Total(b) \in Nat
  BY KeysType, SumsGrow
<1>2. hinit.bucket_size \in Nat /\ 2 * hinit.bucket_size <= WORD16
  BY SizeAssumption DEF TypeOK, Narrow
<1>3. /\ used[0] = PTR
      /\ \A k \in 1 .. Len(keys) : used[k] = Grown(keys, hash, size, b, k, used[k - 1])
  BY UsedIs, KeysType, SumsIs
<1> HIDE DEF used
<1>4. 0 \in S
  BY <1>1, <1>3, SumsGrow
<1>5. ASSUME NEW k \in 1 .. Len(keys), k - 1 \in S
      PROVE  k \in S
  <2>1. k - 1 \in 0 .. Len(keys) /\ k \in 0 .. Len(keys)
    BY <1>1
  <2>2. used[k - 1] = PTR + Sums(b)[k - 1]
    BY <1>5
  <2>3. CASE In(b, k)
    <3>1. EltOf(keys[k]) \in Nat
      BY KeysType, EltIs
    <3>2. used[k] = UShort(used[k - 1] + EltOf(keys[k]))
      BY <1>3, <2>3 DEF Grown, In, BucketOf, EltOf
    <3>3. Sums(b)[k] = Sums(b)[k - 1] + EltOf(keys[k]) /\ Sums(b)[k] + PTR <= hinit.bucket_size
      BY <2>1, <2>3, NoWrap
    <3>4. /\ used[k - 1] + EltOf(keys[k]) = PTR + Sums(b)[k]
          /\ PTR + Sums(b)[k] \in Nat /\ PTR + Sums(b)[k] < WORD16
      <4>1. Sums(b)[k - 1] \in Nat /\ Sums(b)[k] \in Nat
        BY <1>1, <2>1
      <4>2. PTR + Sums(b)[k] \in Nat /\ PTR + Sums(b)[k] < WORD16
        BY <1>2, <3>3, <4>1
      <4>3. (PTR + Sums(b)[k - 1]) + EltOf(keys[k]) = PTR + (Sums(b)[k - 1] + EltOf(keys[k]))
        BY <3>1, <4>1
      <4> QED
        BY <2>2, <3>3, <4>2, <4>3
    <3> QED
      BY <2>1, <3>2, <3>4, UShortIs
  <2>4. CASE ~In(b, k)
    <3>1. used[k] = used[k - 1]
      BY <1>3, <2>4 DEF Grown, In, BucketOf
    <3> QED
      BY <2>1, <2>2, <2>4, <3>1, SumsGrow
  <2> QED
    BY <2>3, <2>4
<1>6. \A k \in 0 .. Len(keys) : k \in S
  <2> HIDE DEF S
  <2> QED
    BY <1>1, <1>4, <1>5, UpTo
<1> DEFINE all == PTR + Total(b)
<1>7. used[Len(keys)] = all /\ all \in Nat /\ all <= hinit.bucket_size
  BY <1>1, <1>6, NoWrap DEF Total
<1>8. Measure(b) = IF all = PTR THEN PTR ELSE UShort(Align(all, CACHELINE))
  BY <1>7 DEF Measure, used
<1>9. Align(all, CACHELINE) \in Nat /\ all <= Align(all, CACHELINE) /\ Align(all, CACHELINE) < WORD16
  <2>1. /\ Align(all, CACHELINE) \in Nat /\ all <= Align(all, CACHELINE)
        /\ Align(all, CACHELINE) < all + CACHELINE
    BY <1>7, AlignIs
  <2> QED
    BY <1>2, <1>7, <2>1
<1>10. UShort(Align(all, CACHELINE)) = Align(all, CACHELINE)
  BY <1>9, UShortIs
<1> QED
  BY <1>1, <1>8, <1>9, <1>10

\* A bucket with a name in it is not empty.
LEMMA InCounts ==
  ASSUME TypeOK, FitInv, phase \in Ready, Narrow, NEW b \in Buckets,
         NEW k \in 1 .. Len(keys), In(b, k)
  PROVE  /\ Sums(b)[k - 1] + EltOf(keys[k]) <= Total(b) /\ Total(b) # 0
         /\ \A j \in 1 .. k - 1 : In(b, j) => Sums(b)[j - 1] + EltOf(keys[j]) <= Sums(b)[k - 1]
<1> /\ Len(keys) \in Nat /\ k - 1 \in 0 .. Len(keys) /\ k \in 0 .. Len(keys)
    /\ \A j \in 0 .. Len(keys) : Sums(b)[j] \in Nat
  BY KeysType, SumsGrow
<1> EltOf(keys[k]) \in Nat /\ EltOf(keys[k]) >= 2 * PTR /\ PTR \in Nat \ {0}
  BY KeysType, EltIs, SizeAssumption
<1>1. Sums(b)[k] = Sums(b)[k - 1] + EltOf(keys[k])
  BY NoWrap
<1>2. Sums(b)[k] <= Total(b) /\ Total(b) \in Nat
  <2>1. Len(keys) \in 0 .. Len(keys) /\ k \in 0 .. Len(keys)
    OBVIOUS
  <2>2. Sums(b)[k] <= Sums(b)[Len(keys)]
    BY <2>1, SumsOrdered
  <2> QED
    BY <2>2, SumsGrow DEF Total
<1>3. ASSUME NEW j \in 1 .. k - 1, In(b, j)
      PROVE  Sums(b)[j - 1] + EltOf(keys[j]) <= Sums(b)[k - 1]
  <2>1. j \in 1 .. Len(keys) /\ j \in 0 .. k - 1
    OBVIOUS
  <2> QED
    BY <1>3, <2>1, NoWrap, SumsOrdered
<1> QED
  BY <1>1, <1>2, <1>3

-----------------------------------------------------------------------------
(* Types, and what the first two loops have let pass.                      *)

LEMMA ArgsStay ==
  ASSUME [Next]_vars
  PROVE  keys' = keys /\ hash' = hash /\ hinit' = hinit
BY DEF Next, vars, args, search, Goto, TooLong, DivideByZero, Checked, AllocFails, NextSize,
       NoSize, Found, PlaceBucket, Placed, SkipKey, Fill, Clobber, Filled, EndBucket, NoBucket,
       Built, Find, Step, Answer, ToArray

LEMMA BucketSizeIs ==
  ASSUME TypeOK
  PROVE  bucket_size \in Nat /\ bucket_size = hinit.bucket_size - PTR
<1>1. PTR \in Nat /\ hinit.bucket_size \in Nat /\ hinit.bucket_size >= PTR
  BY SizeAssumption DEF TypeOK
<1> QED
  BY <1>1 DEF bucket_size

LEMMA StartIs ==
  ASSUME TypeOK, bucket_size \div (2 * PTR) # 0
  PROVE  start \in Nat \ {0}
<1> DEFINE d == bucket_size \div (2 * PTR)
           least == Len(keys) \div d
<1>1. d \in Nat \ {0}
  BY BucketSizeIs, SizeAssumption
<1> HIDE DEF d
<1>2. least \in Nat
  BY <1>1, KeysType
<1>3. hinit.max_size \in Nat
  BY SizeAssumption DEF TypeOK
<1>4. start = IF hinit.max_size > MANY /\ keys # << >> /\ hinit.max_size \div Len(keys) < DENSE
              THEN hinit.max_size - LAST
              ELSE IF least = 0 THEN 1 ELSE least
  BY DEF start, d
<1> HIDE DEF least
<1> QED
  BY <1>2, <1>3, <1>4, SizeAssumption

\* Any bucket is measured by a number.
LEMMA MeasureType ==
  ASSUME TypeOK, NEW b
  PROVE  Measure(b) \in Nat
<1> PTR \in Nat /\ CACHELINE \in Nat \ {0}
  BY SizeAssumption
<1>1. Used(b, PTR) \in [0 .. Len(keys) -> Nat]
  BY UsedIs, KeysType, SumsIs
<1>2. Used(b, PTR)[Len(keys)] \in Nat
  BY <1>1, KeysType
<1>3. Align(Used(b, PTR)[Len(keys)], CACHELINE) \in Nat
  BY <1>2, AlignIs
<1> QED
  BY <1>3, UShortIs DEF Measure

LEMMA InitType == Init => TypeOK /\ FitInv
BY DEF Init, TypeOK, FitInv, Phases, Ready

\* Steps to an end, where nothing more is promised.
LEMMA GotoEnd ==
  ASSUME TypeOK, [Next]_vars, phase' \in Phases \ (Ready \cup {"fit"}), n' = n, free' = free
  PROVE  TypeOK' /\ FitInv'
BY ArgsStay DEF TypeOK, FitInv

\* The start of the fitting loop and its next size.
LEMMA FitKeeps ==
  ASSUME TypeOK, FitInv, Checked \/ NextSize
  PROVE  TypeOK' /\ FitInv'
<1>1. keys' = keys /\ hash' = hash /\ hinit' = hinit /\ n' = n /\ free' = free /\ phase' = "fit"
  BY DEF Checked, NextSize, args
<1>2. size' \in Nat \ {0}
  BY StartIs DEF Checked, NextSize, TypeOK
<1>3. AllShort
  BY DEF Checked, NextSize, FitInv
<1>4. AllShort'
  BY <1>1, <1>3 DEF AllShort
<1>5. TypeOK'
  BY <1>1, <1>2 DEF TypeOK, Phases, Ready
<1> QED
  BY <1>1, <1>4, <1>5 DEF FitInv, Ready

\* After the fitting loop only the places, the counters and the searches move.
LEMMA ReadyKeeps ==
  ASSUME TypeOK, FitInv, size' = size, phase' \in Ready, keys' = keys, hash' = hash, hinit' = hinit,
         n' \in Nat, free' \in Nat, phase \in Ready \/ Found,
         buckets' \in [Buckets -> Nat \cup {Null}], test' \in [Buckets -> Nat]
  PROVE  TypeOK' /\ FitInv'
<1>1. AllShort /\ Fits /\ size \in Nat \ {0}
  BY DEF FitInv, Found, TypeOK
<1>2. Buckets' = Buckets
  BY DEF Buckets
<1>3. AllShort'
  BY <1>1 DEF AllShort
<1>4. \A b : Used(b, 0)' = Used(b, 0)
  BY SumsStay
<1>5. bucket_size' = bucket_size
  BY DEF bucket_size
<1>6. Fits'
  BY <1>1, <1>4, <1>5 DEF Fits
<1>7. TypeOK'
  BY <1>1, <1>2 DEF TypeOK, Phases
<1> QED
  BY <1>3, <1>6, <1>7 DEF FitInv

LEMMA TypeKeeps ==
  ASSUME TypeOK, FitInv, MemInv, [Next]_vars
  PROVE  TypeOK' /\ FitInv'
<1> USE DEF Ready
<1> PTR \in Nat /\ Null = -1
  BY SizeAssumption DEF Null
<1>1. CASE TooLong \/ DivideByZero \/ AllocFails \/ NoSize \/ Clobber \/ ToArray
  <2>1. phase' \in {"error", "trap", "clobbered", "undefined"} /\ n' = n /\ free' = free
    BY <1>1 DEF TooLong, DivideByZero, AllocFails, NoSize, Clobber, ToArray, Goto
  <2> QED
    BY <2>1, GotoEnd DEF Phases
<1>2. CASE Checked \/ NextSize
  BY <1>2, FitKeeps
<1>3. CASE Found
  <2>1. size' = size /\ phase' = "place" /\ n' = 0 /\ free' = free
    BY <1>3 DEF Found
  <2>2. buckets' \in [Buckets -> Nat \cup {Null}]
    BY <1>3 DEF Found, Buckets
  <2>3. test' \in [Buckets -> Nat]
    BY <1>3, MeasureType DEF Found, Buckets
  <2> QED
    BY <1>3, <2>1, <2>2, <2>3, ArgsStay, ReadyKeeps DEF TypeOK
<1>4. CASE PlaceBucket
  <2>1. n \in Buckets /\ phase = "place" /\ phase' = "place" /\ size' = size /\ n' = n + 1 /\ test' = test
    BY <1>4 DEF PlaceBucket, TypeOK, Buckets
  <2>2. test[n] \in Nat /\ free \in Nat /\ n \in Nat /\ buckets \in [Buckets -> Nat \cup {Null}]
    BY <2>1 DEF TypeOK
  <2>3. buckets' \in [Buckets -> Nat \cup {Null}] /\ free' \in Nat
    BY <1>4, <2>1, <2>2 DEF PlaceBucket
  <2> QED
    BY <2>1, <2>2, <2>3, ArgsStay, ReadyKeeps DEF TypeOK
<1>5. CASE Fill
  <2>1. /\ phase = "fill" /\ phase' = "fill" /\ size' = size /\ n' = n + 1 /\ free' = free
        /\ buckets' = buckets
    BY <1>5 DEF Fill
  <2>2. test \in [Buckets -> Nat] /\ size \in Nat \ {0}
    BY <2>1 DEF TypeOK
  <2>3. PICK w \in Writes : test' = [test EXCEPT ![BucketOf(n)] = UShort(@ + w.bytes)]
    BY <1>5 DEF Fill
  <2>4. n \in 1 .. Len(keys) /\ keys[n] # NoKey /\ w.bytes = EltOf(keys[n])
    BY <2>1, <2>3 DEF Writes, EltOf, MemInv
  <2>5. BucketOf(n) \in Buckets /\ w.bytes \in Nat
    BY <2>2, <2>4, BucketsType, KeysType, EltIs
  <2>6. UShort(test[BucketOf(n)] + w.bytes) \in Nat
    BY <2>2, <2>5, UShortIs
  <2>7. test' \in [Buckets -> Nat]
    BY <2>2, <2>3, <2>6
  <2> QED
    BY <2>1, <2>7, ArgsStay, ReadyKeeps DEF TypeOK
<1>6. CASE Placed
  <2>1. /\ phase = "place" /\ phase' = "fill" /\ size' = size /\ n' = 1 /\ free' = free
        /\ buckets' = buckets
    BY <1>6 DEF Placed
  <2>2. test' \in [Buckets -> Nat]
    BY <1>6 DEF Placed, Buckets
  <2> QED
    BY <2>1, <2>2, ArgsStay, ReadyKeeps DEF TypeOK
<1>7. CASE SkipKey \/ Filled \/ EndBucket \/ NoBucket \/ Built \/ Find \/ Step \/ Answer
  <2>1. /\ phase \in Ready /\ phase' \in Ready /\ size' = size /\ free' = free /\ test' = test
        /\ buckets' = buckets /\ n' \in {n, 0, n + 1}
    BY <1>7 DEF SkipKey, Filled, EndBucket, NoBucket, Built, Find, Step, Answer, Goto
  <2> QED
    BY <2>1, ArgsStay, ReadyKeeps DEF TypeOK
<1>8. CASE UNCHANGED vars
  <2>1. Buckets' = Buckets /\ AllShort' = AllShort /\ (Fits' <=> Fits)
    BY <1>8 DEF vars, args, Buckets, AllShort, Fits, Used, BucketOf, bucket_size
  <2> QED
    BY <1>8, <2>1 DEF vars, args, TypeOK, FitInv
<1> QED
  BY <1>1, <1>2, <1>3, <1>4, <1>5, <1>6, <1>7, <1>8 DEF Next

-----------------------------------------------------------------------------
(* The places of the buckets.                                              *)

LEMMA PlaceKeepsRoom ==
  ASSUME TypeOK, FitInv, RoomInv, MemInv, PlaceBucket, [Next]_vars, Narrow
  PROVE  RoomInv'
<1>1. /\ phase = "place" /\ phase' = "place" /\ phase \in Ready /\ n \in Buckets /\ n' = n + 1
      /\ size' = size /\ size \in Nat /\ n \in Nat
  BY DEF PlaceBucket, TypeOK, Buckets, Ready
<1>2. Buckets' = Buckets /\ \A b : Total(b)' = Total(b)
  BY <1>1, ArgsStay, SumsStay DEF Buckets
<1>3. /\ test[n] = Measure(n) /\ buckets[n] = Null /\ free \in Nat
      /\ buckets \in [Buckets -> Nat \cup {Null}]
  BY <1>1 DEF MemInv, TypeOK
<1>4. \A b \in Buckets : b < n =>
        /\ buckets[b] = Null <=> Total(b) = 0
        /\ buckets[b] # Null => buckets[b] + PTR + Total(b) <= free
        /\ \A c \in 0 .. b - 1 :
             buckets[c] # Null /\ buckets[b] # Null => buckets[c] + PTR + Total(c) <= buckets[b]
  BY <1>1 DEF RoomInv, HasPlace
<1>5. PTR \in Nat /\ Null = -1 /\ \A b : Total(b) \in Nat
  BY SizeAssumption, SumsGrow DEF Null
<1>6. /\ Measure(n) \in Nat /\ (Measure(n) = PTR <=> Total(n) = 0)
      /\ Total(n) # 0 => PTR + Total(n) <= Measure(n)
  BY <1>1, MeasureIs
<1>7. /\ free' \in Nat /\ free <= free' /\ buckets' \in [Buckets -> Nat \cup {Null}]
      /\ \A b \in Buckets : b # n => buckets'[b] = buckets[b]
  BY <1>1, <1>3, <1>6 DEF PlaceBucket
<1>8. ASSUME NEW b \in Buckets, b < n + 1
      PROVE  /\ buckets'[b] = Null <=> Total(b) = 0
             /\ buckets'[b] # Null => buckets'[b] + PTR + Total(b) <= free'
             /\ \A c \in 0 .. b - 1 :
                  buckets'[c] # Null /\ buckets'[b] # Null =>
                    buckets'[c] + PTR + Total(c) <= buckets'[b]
  <2>1. \A c \in 0 .. b - 1 : c \in Buckets /\ c # n /\ c < n /\ buckets'[c] = buckets[c]
    BY <1>1, <1>7, <1>8 DEF Buckets
  <2>2. CASE b # n
    <3>1. b < n /\ buckets'[b] = buckets[b] /\ buckets[b] \in Nat \cup {Null}
      BY <1>1, <1>3, <1>7, <1>8, <2>2 DEF Buckets
    <3>2. buckets[b] # Null => buckets[b] + PTR + Total(b) <= free'
      BY <1>3, <1>4, <1>5, <1>7, <3>1
    <3> QED
      BY <1>4, <2>1, <3>1, <3>2
  <2>3. CASE b = n /\ Total(n) = 0
    <3>1. buckets'[b] = Null
      BY <1>3, <1>6, <2>3 DEF PlaceBucket
    <3> QED
      BY <2>3, <3>1
  <2>4. CASE b = n /\ Total(n) # 0
    <3>1. buckets'[b] = free /\ free' = free + Measure(n)
      BY <1>1, <1>3, <1>6, <2>4 DEF PlaceBucket
    <3>2. \A c \in 0 .. b - 1 : buckets[c] # Null => buckets[c] + PTR + Total(c) <= free
      BY <1>4, <2>1, <2>4
    <3>3. free # Null /\ free + PTR + Total(b) <= free'
      BY <1>3, <1>5, <1>6, <2>4, <3>1
    <3> QED
      BY <2>1, <2>4, <3>1, <3>2, <3>3
  <2> QED
    BY <2>2, <2>3, <2>4
<1> QED
  BY <1>1, <1>2, <1>8 DEF RoomInv, HasPlace

LEMMA RoomKeeps ==
  ASSUME TypeOK, FitInv, RoomInv, MemInv, [Next]_vars
  PROVE  RoomInv'
<1> SUFFICES ASSUME phase' \in Ready, Narrow'
             PROVE  RoomInv'
  BY DEF RoomInv
<1> USE DEF Ready
<1>1. Narrow
  BY ArgsStay DEF Narrow
<1>2. CASE Found
  <2>1. phase' = "place" /\ n' = 0
    BY <1>2 DEF Found
  <2>2. \A b \in Buckets' : ~(b < 0)
    BY DEF Buckets
  <2> QED
    BY <2>1, <2>2 DEF RoomInv, HasPlace
<1>3. CASE PlaceBucket
  BY <1>1, <1>3, PlaceKeepsRoom
<1>4. CASE /\ phase \in Ready /\ size' = size /\ buckets' = buckets /\ free' = free
           /\ \/ phase # "place" /\ phase' # "place"
              \/ phase = "place" /\ phase' = "place" /\ n' = n
              \/ n = size
  <2>1. Buckets' = Buckets /\ \A b : Total(b)' = Total(b)
    BY <1>4, ArgsStay, SumsStay DEF Buckets
  <2>2. \A b : HasPlace(b)' => HasPlace(b)
    <3>1. size \in Nat /\ \A b \in Buckets : b < size
      BY <1>4 DEF TypeOK, Buckets
    <3> QED
      BY <1>4, <2>1, <3>1 DEF HasPlace
  <2> QED
    BY <1>1, <1>4, <2>1, <2>2 DEF RoomInv
<1>5. \/ Found \/ PlaceBucket
      \/ /\ phase \in Ready /\ size' = size /\ buckets' = buckets /\ free' = free
         /\ \/ phase # "place" /\ phase' # "place"
            \/ phase = "place" /\ phase' = "place" /\ n' = n
            \/ n = size
  BY DEF Next, vars, args, search, Goto, TooLong, DivideByZero, Checked, AllocFails, NextSize,
         NoSize, Placed, SkipKey, Fill, Clobber, Filled, EndBucket, NoBucket,
         Built, Find, Step, Answer, ToArray
<1> QED
  BY <1>2, <1>3, <1>4, <1>5

-----------------------------------------------------------------------------
(* What has been written.                                                  *)

LEMMA LayoutStays ==
  ASSUME keys' = keys, hash' = hash, size' = size, buckets' = buckets
  PROVE  /\ Buckets' = Buckets
         /\ \A k : BucketOf(k)' = BucketOf(k) /\ Element(k)' = Element(k)
         /\ \A b : Closing(b)' = Closing(b) /\ Sums(b)' = Sums(b) /\ Total(b)' = Total(b)
         /\ \A m : Elements(m)' = Elements(m) /\ Closings(m)' = Closings(m)
<1>1. Buckets' = Buckets /\ \A k : BucketOf(k)' = BucketOf(k)
  BY DEF Buckets, BucketOf
<1>2. \A b : Sums(b)' = Sums(b) /\ Total(b)' = Total(b)
  BY SumsStay
<1>3. \A k : Element(k)' = Element(k)
  BY <1>1, <1>2 DEF Element, Value, EltOf
<1>4. \A b : Closing(b)' = Closing(b)
  BY <1>2 DEF Closing
<1>5. \A m : Elements(m)' = Elements(m) /\ Closings(m)' = Closings(m)
  BY <1>3, <1>4 DEF Elements, Closings
<1> QED
  BY <1>1, <1>2, <1>3, <1>4, <1>5

LEMMA ElementsGrow ==
  ASSUME TypeOK, NEW k \in 1 .. Len(keys)
  PROVE  Elements(k + 1) = IF keys[k] = NoKey THEN Elements(k) ELSE Elements(k) \cup {Element(k)}
<1>1. 1 .. (k + 1) - 1 = (1 .. k - 1) \cup {k}
  OBVIOUS
<1> QED
  BY <1>1 DEF Elements

LEMMA ClosingsGrow ==
  ASSUME NEW b \in Nat
  PROVE  Closings(b + 1) = IF buckets[b] = Null THEN Closings(b) ELSE Closings(b) \cup {Closing(b)}
<1>1. 0 .. (b + 1) - 1 = (0 .. b - 1) \cup {b}
  OBVIOUS
<1> QED
  BY <1>1 DEF Closings

LEMMA NoneYet == Elements(1) = {} /\ Closings(0) = {}
BY DEF Elements, Closings

\* The write of a name is its element.
LEMMA FillIs ==
  ASSUME TypeOK, MemInv, Fill
  PROVE  /\ n \in 1 .. Len(keys) /\ keys[n] # NoKey /\ BucketOf(n) \in Buckets
         /\ buckets[BucketOf(n)] # Null
         /\ mem' = mem \cup {Element(n)}
         /\ Element(n).at # Null /\ Element(n).at + Element(n).bytes <= free
         /\ \A e \in mem : Apart(Element(n), e)
         /\ test' = [test EXCEPT ![BucketOf(n)] = UShort(@ + EltOf(keys[n]))]
<1>1. phase = "fill"
  BY DEF Fill
<1>2. PICK w \in Writes : /\ Unwritten(w) /\ Write(w, Value(n), keys[n])
                          /\ test' = [test EXCEPT ![BucketOf(n)] = UShort(@ + w.bytes)]
  BY DEF Fill
<1>3. /\ n \in 1 .. Len(keys) /\ keys[n] # NoKey
      /\ w = [at |-> Place(BucketOf(n)), bytes |-> EltOf(keys[n])]
  BY <1>1, <1>2 DEF Writes, MemInv, EltOf
<1>4. BucketOf(n) \in Buckets
  BY <1>1, <1>3, BucketsType DEF TypeOK, Ready
<1>5. buckets[BucketOf(n)] # Null
  BY <1>2, <1>3 DEF Unwritten, Place
<1>6. w.at = buckets[BucketOf(n)] + Sums(BucketOf(n))[n - 1] /\ w.bytes = EltOf(keys[n])
  BY <1>1, <1>3, <1>4, <1>5 DEF Place, MemInv
<1>7. /\ mem' = mem \cup {Element(n)} /\ Element(n).at = w.at /\ Element(n).bytes = w.bytes
  BY <1>2, <1>3, <1>6 DEF Write, Element
<1> QED
  BY <1>2, <1>3, <1>4, <1>5, <1>6, <1>7 DEF Unwritten, Apart

\* The write of a NULL is the closing of its bucket.
LEMMA EndIs ==
  ASSUME TypeOK, MemInv, EndBucket
  PROVE  /\ n \in Buckets /\ buckets[n] # Null
         /\ mem' = mem \cup {Closing(n)}
         /\ \A e \in mem : Apart(Closing(n), e)
<1>1. phase = "end" /\ WORD16 \in Nat \ {0}
  BY SizeAssumption DEF EndBucket
<1>2. PICK w \in Writes : Unwritten(w) /\ Write(w, NULL, NoKey)
  BY DEF EndBucket
<1>3. n < size /\ buckets[n] # Null /\ w = [at |-> Place(n), bytes |-> PTR]
  BY <1>1, <1>2 DEF Writes
<1>4. n \in Buckets
  BY <1>1, <1>3 DEF MemInv, Buckets, TypeOK, Ready
<1>5. w.at = buckets[n] + Total(n) /\ w.bytes = PTR
  BY <1>1, <1>3, <1>4 DEF Place, MemInv
<1>6. UShort(LengthOf(NoKey)) = 0
  BY <1>1, UShortIs DEF LengthOf
<1>7. mem' = mem \cup {Closing(n)} /\ Closing(n).at = w.at /\ Closing(n).bytes = w.bytes
  BY <1>2, <1>5, <1>6 DEF Write, Closing
<1> QED
  BY <1>2, <1>3, <1>4, <1>7 DEF Unwritten, Apart

LEMMA ApartKeeps ==
  ASSUME TypeOK, MemInv, ApartInv, [Next]_vars
  PROVE  ApartInv'
<1> SUFFICES ASSUME phase' \in Ready
             PROVE  \A e, f \in mem' : e = f \/ Apart(e, f)
  BY DEF ApartInv, Apart
<1> USE DEF Ready
<1>1. CASE Fill
  <2>1. phase \in Ready /\ mem' = mem \cup {Element(n)} /\ \A e \in mem : Apart(Element(n), e)
    BY <1>1, FillIs DEF Fill
  <2> QED
    BY <2>1 DEF ApartInv, Apart
<1>2. CASE EndBucket
  <2>1. phase \in Ready /\ mem' = mem \cup {Closing(n)} /\ \A e \in mem : Apart(Closing(n), e)
    BY <1>2, EndIs DEF EndBucket
  <2> QED
    BY <2>1 DEF ApartInv, Apart
<1>3. CASE Found
  BY <1>3 DEF Found, MemInv
<1>4. CASE phase \in Ready /\ mem' = mem
  BY <1>4 DEF ApartInv
<1>5. Fill \/ EndBucket \/ Found \/ (phase \in Ready /\ mem' = mem)
  BY DEF Next, vars, args, search, Goto, TooLong, DivideByZero, Checked, AllocFails, NextSize,
         NoSize, PlaceBucket, Placed, SkipKey, Clobber, Filled, NoBucket,
         Built, Find, Step, Answer, ToArray
<1> QED
  BY <1>1, <1>2, <1>3, <1>4, <1>5

\* The same elements, with another counter or another test.
LEMMA MemKeeps ==
  ASSUME TypeOK, FitInv, MemInv, [Next]_vars
  PROVE  MemInv'
<1> USE DEF Ready
<1>a. keys' = keys /\ hash' = hash /\ hinit' = hinit /\ Len(keys) \in Nat
  BY ArgsStay, KeysType
<1>1. CASE Found
  <2>1. /\ phase' = "place" /\ n' = 0 /\ mem' = {} /\ size' = size /\ size \in Nat \ {0}
        /\ \A b \in Buckets : test'[b] = Measure(b) /\ buckets'[b] = Null
    BY <1>1 DEF Found, MemInv, TypeOK, Buckets
  <2>2. Buckets' = Buckets /\ \A b : Measure(b)' = Measure(b)
    BY <1>a, <2>1, SumsStay DEF Buckets
  <2>3. n' \in 0 .. size'
    BY <2>1
  <2> QED
    BY <2>1, <2>2, <2>3 DEF MemInv
<1>2. CASE PlaceBucket
  <2>1. /\ phase = "place" /\ phase' = "place" /\ n' = n + 1 /\ mem' = mem /\ size' = size
        /\ test' = test /\ n < size /\ size \in Nat
    BY <1>2 DEF PlaceBucket, TypeOK
  <2>2. Buckets' = Buckets /\ \A b : Measure(b)' = Measure(b)
    BY <1>a, <2>1, SumsStay DEF Buckets
  <2>3. \A b \in Buckets : b >= n + 1 => b >= n /\ b # n
    BY <2>1 DEF TypeOK, Buckets
  <2>4. \A b \in Buckets : b # n => buckets'[b] = buckets[b]
    BY <1>2, <2>1 DEF PlaceBucket, TypeOK
  <2>5. n + 1 \in 0 .. size
    BY <2>1 DEF TypeOK
  <2> QED
    BY <2>1, <2>2, <2>3, <2>4, <2>5 DEF MemInv
<1>3. CASE Placed
  <2>1. /\ phase = "place" /\ phase' = "fill" /\ n' = 1 /\ mem' = mem /\ size' = size
        /\ buckets' = buckets /\ \A b \in Buckets : test'[b] = 0
    BY <1>3 DEF Placed, Buckets
  <2>2. mem' = Elements(1)
    BY <2>1, NoneYet DEF MemInv
  <2>3. 1 \in 1 .. Len(keys) + 1 /\ 1 - 1 = 0 /\ 1 .. 0 = {}
    BY <1>a
  <2> QED
    BY <1>a, <2>1, <2>2, <2>3, LayoutStays, SumsGrow DEF MemInv
<1>4. CASE SkipKey
  <2>1. /\ phase = "fill" /\ phase' = "fill" /\ n' = n + 1 /\ mem' = mem /\ size' = size
        /\ buckets' = buckets /\ test' = test /\ n \in 1 .. Len(keys) /\ keys[n] = NoKey
    BY <1>a, <1>4 DEF SkipKey, MemInv
  <2>2. Elements(n + 1) = Elements(n)
    BY <2>1, ElementsGrow
  <2>3. \A b \in Buckets : test[b] = Sums(b)[n]
    BY <2>1, SumsGrow DEF MemInv, In
  <2>4. n + 1 \in 1 .. Len(keys) + 1 /\ (n + 1) - 1 = n /\ 1 .. n = (1 .. n - 1) \cup {n}
    BY <1>a, <2>1
  <2>5. /\ mem = Elements(n)
        /\ \A k \in 1 .. n - 1 : keys[k] # NoKey => buckets[BucketOf(k)] # Null
    BY <2>1 DEF MemInv
  <2> QED
    BY <1>a, <2>1, <2>2, <2>3, <2>4, <2>5, LayoutStays DEF MemInv
<1>5. CASE Fill
  <2>1. /\ phase = "fill" /\ phase' = "fill" /\ n' = n + 1 /\ size' = size
        /\ buckets' = buckets
    BY <1>5 DEF Fill
  <2>2. /\ n \in 1 .. Len(keys) /\ keys[n] # NoKey /\ BucketOf(n) \in Buckets
        /\ buckets[BucketOf(n)] # Null /\ mem' = mem \cup {Element(n)}
        /\ test' = [test EXCEPT ![BucketOf(n)] = UShort(@ + EltOf(keys[n]))]
    BY <1>5, FillIs
  <2>3. mem' = Elements(n + 1)
    BY <2>1, <2>2, ElementsGrow DEF MemInv
  <2>4. ASSUME NEW b \in Buckets
        PROVE  test'[b] = Sums(b)[n]
    <3>1. test[b] = Sums(b)[n - 1] /\ test \in [Buckets -> Nat]
      BY <2>1 DEF MemInv, TypeOK
    <3>2. CASE b = BucketOf(n)
      BY <2>2, <3>1, <3>2, SumsGrow DEF In
    <3>3. CASE b # BucketOf(n)
      BY <2>2, <3>1, <3>3, SumsGrow DEF In
    <3> QED
      BY <3>2, <3>3
  <2>5. n + 1 \in 1 .. Len(keys) + 1 /\ (n + 1) - 1 = n /\ 1 .. n = (1 .. n - 1) \cup {n}
    BY <1>a, <2>2
  <2>6. \A k \in 1 .. n : keys[k] # NoKey => buckets[BucketOf(k)] # Null
    BY <2>1, <2>2, <2>5 DEF MemInv
  <2> QED
    BY <1>a, <2>1, <2>3, <2>4, <2>5, <2>6, LayoutStays DEF MemInv
<1>6. CASE Filled
  <2>1. /\ phase = "fill" /\ phase' = "end" /\ n' = 0 /\ mem' = mem /\ size' = size
        /\ buckets' = buckets /\ test' = test /\ n = Len(keys) + 1 /\ size \in Nat
    BY <1>a, <1>6 DEF Filled, MemInv, TypeOK
  <2>2. mem = Elements(Len(keys) + 1) \cup Closings(0)
    BY <2>1, NoneYet DEF MemInv
  <2>3. (Len(keys) + 1) - 1 = Len(keys) /\ 0 \in 0 .. size
    BY <1>a, <2>1
  <2>4. \A b \in Buckets : test[b] = Total(b)
    BY <2>1, <2>3 DEF MemInv, Total
  <2>5. \A k \in 1 .. Len(keys) : keys[k] # NoKey => buckets[BucketOf(k)] # Null
    BY <2>1, <2>3 DEF MemInv
  <2> QED
    BY <1>a, <2>1, <2>2, <2>3, <2>4, <2>5, LayoutStays DEF MemInv
<1>7. CASE EndBucket \/ NoBucket
  <2>1. /\ phase = "end" /\ phase' = "end" /\ n' = n + 1 /\ size' = size
        /\ buckets' = buckets /\ test' = test /\ n \in Nat /\ size \in Nat
    BY <1>7 DEF EndBucket, NoBucket, TypeOK
  <2>2. /\ n < size
        /\ mem' = IF buckets[n] = Null THEN mem ELSE mem \cup {Closing(n)}
    BY <1>7, <2>1, EndIs DEF NoBucket, Buckets
  <2>3. mem' = Elements(Len(keys) + 1) \cup Closings(n + 1)
    BY <2>1, <2>2, ClosingsGrow DEF MemInv
  <2>4. n + 1 \in 0 .. size
    BY <2>1, <2>2
  <2>5. /\ \A b \in Buckets : test[b] = Total(b)
        /\ \A k \in 1 .. Len(keys) : keys[k] # NoKey => buckets[BucketOf(k)] # Null
    BY <2>1 DEF MemInv
  <2> QED
    BY <1>a, <2>1, <2>3, <2>4, <2>5, LayoutStays DEF MemInv
<1>8. CASE Built \/ Find \/ Step \/ Answer
  <2>1. /\ phase \in {"built", "walk", "answered"} \/ (phase = "end" /\ n = size)
        /\ phase' \in {"built", "walk", "answered"} /\ mem' = mem /\ size' = size
        /\ buckets' = buckets
    BY <1>8 DEF Built, Find, Step, Answer, Goto
  <2>2. /\ mem = Elements(Len(keys) + 1) \cup Closings(size)
        /\ \A k \in 1 .. Len(keys) : keys[k] # NoKey => buckets[BucketOf(k)] # Null
    BY <2>1 DEF MemInv
  <2> QED
    BY <1>a, <2>1, <2>2, LayoutStays DEF MemInv
<1>9. CASE Checked \/ NextSize
  <2>1. phase' = "fit" /\ mem' = {}
    BY <1>9 DEF Checked, NextSize, MemInv
  <2> QED
    BY <2>1 DEF MemInv
<1>10. CASE TooLong \/ DivideByZero \/ AllocFails \/ NoSize \/ Clobber \/ ToArray
  <2>1. phase' \in {"error", "trap", "clobbered", "undefined"}
    BY <1>10 DEF TooLong, DivideByZero, AllocFails, NoSize, Clobber, ToArray, Goto
  <2> QED
    BY <2>1 DEF MemInv
<1>11. CASE UNCHANGED vars
  <2>1. /\ phase' = phase /\ mem' = mem /\ size' = size /\ buckets' = buckets /\ test' = test
        /\ n' = n
    BY <1>11 DEF vars
  <2>2. \A b : Measure(b)' = Measure(b)
    BY <1>a, <2>1, SumsStay
  <2> QED
    BY <1>a, <2>1, <2>2, LayoutStays DEF MemInv
<1> QED
  BY <1>1, <1>2, <1>3, <1>4, <1>5, <1>6, <1>7, <1>8, <1>9, <1>10, <1>11 DEF Next

-----------------------------------------------------------------------------
(* Nothing is written over.                                                *)

\* What ends within one bucket ends before what is in the next.
LEMMA Before ==
  ASSUME NEW p \in Nat, NEW s \in Nat, NEW len \in Nat, NEW all \in Nat, NEW q \in Nat, NEW t \in Nat,
         NEW ptr \in Nat, s + len <= all + ptr, p + ptr + all <= q
  PROVE  (p + s) + len <= q + t
OBVIOUS

\* And within one bucket.
LEMMA Behind ==
  ASSUME NEW p \in Nat, NEW s \in Nat, NEW len \in Nat, NEW t \in Nat, s + len <= t
  PROVE  (p + s) + len <= p + t
OBVIOUS

\* Where an element of the memory lies.
LEMMA ElementIs ==
  ASSUME TypeOK, size \in Nat \ {0}, NEW k \in 1 .. Len(keys), keys[k] # NoKey
  PROVE  /\ BucketOf(k) \in Buckets /\ In(BucketOf(k), k)
         /\ Element(k).at = buckets[BucketOf(k)] + Sums(BucketOf(k))[k - 1]
         /\ Element(k).bytes = EltOf(keys[k]) /\ EltOf(keys[k]) \in Nat /\ EltOf(keys[k]) > 0
         /\ Sums(BucketOf(k))[k - 1] \in Nat
<1>1. k - 1 \in 0 .. Len(keys)
  BY KeysType
<1>2. EltOf(keys[k]) \in Nat /\ EltOf(keys[k]) > 0
  BY SMTT(30), KeysType, EltIs, SizeAssumption
<1> QED
  BY <1>1, <1>2, BucketsType, SumsGrow DEF In, Element

\* All of a bucket lies between its place and the place of the next.
LEMMA Rooms ==
  ASSUME TypeOK, RoomInv, Narrow, phase \in Ready \ {"place"}, NEW b \in Buckets, buckets[b] # Null
  PROVE  /\ buckets[b] \in Nat /\ Total(b) \in Nat /\ PTR \in Nat
         /\ buckets[b] + PTR + Total(b) <= free
         /\ \A c \in Buckets : buckets[c] # Null /\ c # b =>
              \/ buckets[c] + PTR + Total(c) <= buckets[b]
              \/ buckets[b] + PTR + Total(b) <= buckets[c]
<1>1. phase \in Ready /\ \A c \in Buckets : HasPlace(c)
  BY DEF HasPlace, Ready
<1>2. buckets[b] \in Nat /\ Total(b) \in Nat /\ PTR \in Nat
  BY <1>1, SumsGrow, SizeAssumption DEF TypeOK
<1>3. buckets[b] + PTR + Total(b) <= free
  BY <1>1 DEF RoomInv
<1>4. ASSUME NEW c \in Buckets, buckets[c] # Null, c # b
      PROVE  \/ buckets[c] + PTR + Total(c) <= buckets[b]
             \/ buckets[b] + PTR + Total(b) <= buckets[c]
  <2>1. c \in 0 .. b - 1 \/ b \in 0 .. c - 1
    BY <1>4 DEF Buckets
  <2> QED
    BY <1>1, <1>4, <2>1 DEF RoomInv
<1> QED
  BY <1>2, <1>3, <1>4

LEMMA FillFits ==
  ASSUME TypeOK, FitInv, RoomInv, MemInv, Narrow, phase = "fill",
         n \in 1 .. Len(keys), keys[n] # NoKey
  PROVE  Unwritten([at |-> Place(BucketOf(n)), bytes |-> EltOf(keys[n])])
<1> DEFINE b == BucketOf(n)
           w == [at |-> Place(b), bytes |-> EltOf(keys[n])]
<1>1. phase \in Ready /\ phase \in Ready \ {"place"} /\ size \in Nat \ {0} /\ Len(keys) \in Nat
  BY KeysType DEF Ready, TypeOK
<1>2. /\ b \in Buckets /\ In(b, n) /\ EltOf(keys[n]) \in Nat /\ Sums(b)[n - 1] \in Nat
      /\ Total(b) \in Nat
  BY <1>1, ElementIs, SumsGrow
<1> HIDE DEF b
<1>3. Sums(b)[n - 1] + EltOf(keys[n]) <= Total(b) /\ Total(b) # 0
  BY <1>1, <1>2, InCounts
<1>4. buckets[b] # Null
  BY <1>1, <1>2, <1>3 DEF RoomInv, HasPlace
<1>5. /\ buckets[b] \in Nat /\ PTR \in Nat
      /\ buckets[b] + PTR + Total(b) <= free
      /\ \A c \in Buckets : buckets[c] # Null /\ c # b =>
           \/ buckets[c] + PTR + Total(c) <= buckets[b]
           \/ buckets[b] + PTR + Total(b) <= buckets[c]
  BY <1>1, <1>2, <1>4, Rooms
<1>6. w.at = buckets[b] + Sums(b)[n - 1] /\ w.bytes = EltOf(keys[n])
  BY <1>2, <1>4 DEF Place, MemInv
<1> HIDE DEF w
<1>7. w.at # Null /\ w.at + w.bytes <= free
  <2>1. free \in Nat
    BY DEF TypeOK
  <2> QED
    BY SMTT(30), <1>2, <1>3, <1>5, <1>6, <2>1 DEF Null
<1>8. ASSUME NEW e \in mem
      PROVE  w.at + w.bytes <= e.at \/ e.at + e.bytes <= w.at
  <2>1. PICK k \in 1 .. n - 1 : keys[k] # NoKey /\ e = Element(k)
    BY <1>8 DEF MemInv, Elements
  <2> DEFINE c == BucketOf(k)
  <2>2. k \in 1 .. Len(keys)
    BY <1>1
  <2>3. /\ c \in Buckets /\ In(c, k) /\ EltOf(keys[k]) \in Nat /\ Sums(c)[k - 1] \in Nat
        /\ e.at = buckets[c] + Sums(c)[k - 1] /\ e.bytes = EltOf(keys[k]) /\ Total(c) \in Nat
    BY <1>1, <2>1, <2>2, ElementIs, SumsGrow
  <2>4. buckets[c] # Null
    BY <2>1 DEF MemInv
  <2> HIDE DEF c
  <2>5. buckets[c] \in Nat
    BY <1>1, <2>3, <2>4 DEF TypeOK
  <2>6. CASE c = b
    <3>1. Sums(b)[k - 1] + EltOf(keys[k]) <= Sums(b)[n - 1]
      BY <1>1, <1>2, <2>3, <2>6, InCounts
    <3>2. (buckets[b] + Sums(b)[k - 1]) + EltOf(keys[k]) <= buckets[b] + Sums(b)[n - 1]
      BY <1>2, <1>5, <2>3, <2>6, <3>1, Behind
    <3> QED
      BY <1>6, <2>3, <2>6, <3>2
  <2>7. CASE c # b
    <3>1. Sums(c)[k - 1] + EltOf(keys[k]) <= Total(c)
      BY <1>1, <2>2, <2>3, InCounts
    <3>2. \/ buckets[c] + PTR + Total(c) <= buckets[b]
          \/ buckets[b] + PTR + Total(b) <= buckets[c]
      BY <1>5, <2>3, <2>4, <2>7
    <3>3. CASE buckets[c] + PTR + Total(c) <= buckets[b]
      <4>1. Sums(c)[k - 1] + EltOf(keys[k]) <= Total(c) + PTR
        BY <1>5, <2>3, <3>1
      <4>2. (buckets[c] + Sums(c)[k - 1]) + EltOf(keys[k]) <= buckets[b] + Sums(b)[n - 1]
        BY <1>2, <1>5, <2>3, <2>5, <3>3, <4>1, Before
      <4> QED
        BY <1>6, <2>3, <4>2
    <3>4. CASE buckets[b] + PTR + Total(b) <= buckets[c]
      <4>1. Sums(b)[n - 1] + EltOf(keys[n]) <= Total(b) + PTR
        BY <1>2, <1>3, <1>5
      <4>2. (buckets[b] + Sums(b)[n - 1]) + EltOf(keys[n]) <= buckets[c] + Sums(c)[k - 1]
        BY <1>2, <1>5, <2>3, <2>5, <3>4, <4>1, Before
      <4> QED
        BY <1>6, <2>3, <4>2
    <3> QED
      BY <3>2, <3>3, <3>4
  <2> QED
    BY <2>6, <2>7
<1> QED
  BY <1>7, <1>8 DEF Unwritten, b, w

LEMMA EndFits ==
  ASSUME TypeOK, FitInv, RoomInv, MemInv, Narrow, phase = "end", n < size, buckets[n] # Null
  PROVE  Unwritten([at |-> Place(n), bytes |-> PTR])
<1> DEFINE w == [at |-> Place(n), bytes |-> PTR]
<1>1. phase \in Ready /\ phase \in Ready \ {"place"} /\ size \in Nat \ {0} /\ Len(keys) \in Nat
  BY KeysType DEF Ready, TypeOK
<1>2. n \in Buckets /\ Total(n) \in Nat
  BY <1>1, SumsGrow DEF TypeOK, Buckets
<1>3. /\ buckets[n] \in Nat /\ PTR \in Nat
      /\ buckets[n] + PTR + Total(n) <= free
      /\ \A c \in Buckets : buckets[c] # Null /\ c # n =>
           \/ buckets[c] + PTR + Total(c) <= buckets[n]
           \/ buckets[n] + PTR + Total(n) <= buckets[c]
  BY <1>1, <1>2, Rooms
<1>4. w.at = buckets[n] + Total(n) /\ w.bytes = PTR
  BY <1>2 DEF Place, MemInv
<1> HIDE DEF w
<1>5. w.at # Null /\ w.at + w.bytes <= free
  <2>1. free \in Nat
    BY DEF TypeOK
  <2> QED
    BY <1>2, <1>3, <1>4, <2>1 DEF Null
<1>6. ASSUME NEW k \in 1 .. Len(keys), keys[k] # NoKey
      PROVE  w.at + w.bytes <= Element(k).at \/ Element(k).at + Element(k).bytes <= w.at
  <2> DEFINE c == BucketOf(k)
  <2>1. /\ c \in Buckets /\ In(c, k) /\ EltOf(keys[k]) \in Nat /\ Sums(c)[k - 1] \in Nat
        /\ Element(k).at = buckets[c] + Sums(c)[k - 1] /\ Element(k).bytes = EltOf(keys[k])
        /\ Total(c) \in Nat
    BY <1>1, <1>6, ElementIs, SumsGrow
  <2>2. buckets[c] # Null
    BY <1>6 DEF MemInv
  <2> HIDE DEF c
  <2>3. buckets[c] \in Nat
    BY <1>1, <2>1, <2>2 DEF TypeOK
  <2>4. Sums(c)[k - 1] + EltOf(keys[k]) <= Total(c)
    BY <1>1, <2>1, InCounts
  <2>5. CASE c = n
    <3>1. (buckets[n] + Sums(n)[k - 1]) + EltOf(keys[k]) <= buckets[n] + Total(n)
      BY <1>2, <1>3, <2>1, <2>4, <2>5, Behind
    <3> QED
      BY <1>4, <2>1, <2>5, <3>1
  <2>6. CASE c # n
    <3>1. \/ buckets[c] + PTR + Total(c) <= buckets[n]
          \/ buckets[n] + PTR + Total(n) <= buckets[c]
      BY <1>3, <2>1, <2>2, <2>6
    <3>2. CASE buckets[c] + PTR + Total(c) <= buckets[n]
      <4>1. Sums(c)[k - 1] + EltOf(keys[k]) <= Total(c) + PTR
        BY <1>3, <2>1, <2>4
      <4>2. (buckets[c] + Sums(c)[k - 1]) + EltOf(keys[k]) <= buckets[n] + Total(n)
        BY <1>2, <1>3, <2>1, <2>3, <3>2, <4>1, Before
      <4> QED
        BY <1>4, <2>1, <4>2
    <3>3. CASE buckets[n] + PTR + Total(n) <= buckets[c]
      <4>1. Total(n) + PTR <= Total(n) + PTR
        BY <1>2, <1>3
      <4>2. (buckets[n] + Total(n)) + PTR <= buckets[c] + Sums(c)[k - 1]
        BY SMTT(30), <1>2, <1>3, <2>1, <2>3, <3>3, <4>1, Before
      <4> QED
        BY <1>4, <2>1, <4>2
    <3> QED
      BY <3>1, <3>2, <3>3
  <2> QED
    BY <2>5, <2>6
<1>7. ASSUME NEW c \in 0 .. n - 1, buckets[c] # Null
      PROVE  w.at + w.bytes <= Closing(c).at \/ Closing(c).at + Closing(c).bytes <= w.at
  <2>1. c \in Buckets /\ c # n /\ Total(c) \in Nat
    BY <1>1, <1>2, SumsGrow DEF Buckets
  <2>2. Closing(c).at = buckets[c] + Total(c) /\ Closing(c).bytes = PTR
    BY DEF Closing
  <2>3. buckets[c] \in Nat
    BY <1>1, <1>7, <2>1 DEF TypeOK
  <2>4. \/ buckets[c] + PTR + Total(c) <= buckets[n]
        \/ buckets[n] + PTR + Total(n) <= buckets[c]
    BY <1>3, <1>7, <2>1
  <2>5. CASE buckets[c] + PTR + Total(c) <= buckets[n]
    BY <1>2, <1>3, <1>4, <2>1, <2>2, <2>3, <2>5
  <2>6. CASE buckets[n] + PTR + Total(n) <= buckets[c]
    BY <1>2, <1>3, <1>4, <2>1, <2>2, <2>3, <2>6
  <2> QED
    BY <2>4, <2>5, <2>6
<1>8. \A e \in mem : w.at + w.bytes <= e.at \/ e.at + e.bytes <= w.at
  <2>1. /\ mem = Elements(Len(keys) + 1) \cup Closings(n)
        /\ (Len(keys) + 1) - 1 = Len(keys)
    BY <1>1 DEF MemInv
  <2> QED
    BY <1>6, <1>7, <2>1 DEF Elements, Closings
<1> QED
  BY <1>5, <1>8 DEF Unwritten, w

LEMMA NoClobber ==
  ASSUME TypeOK, FitInv, RoomInv, MemInv, NothingClobbered, [Next]_vars
  PROVE  NothingClobbered'
<1> SUFFICES ASSUME Narrow, phase' = "clobbered"
             PROVE  FALSE
  BY ArgsStay DEF NothingClobbered, Narrow
<1>1. Clobber
  BY DEF NothingClobbered, Next, vars, Goto, TooLong, DivideByZero, Checked, AllocFails, NextSize,
         NoSize, Found, PlaceBucket, Placed, SkipKey, Fill, Filled, EndBucket, NoBucket,
         Built, Find, Step, Answer, ToArray
<1>2. PICK w \in Writes : ~Unwritten(w)
  BY <1>1 DEF Clobber
<1>3. CASE phase = "fill" /\ n <= Len(keys) /\ keys[n] # NoKey
  <2>1. n \in 1 .. Len(keys) /\ w = [at |-> Place(BucketOf(n)), bytes |-> EltOf(keys[n])]
    BY <1>2, <1>3, KeysType DEF Writes, EltOf, MemInv
  <2> QED
    BY <1>2, <1>3, <2>1, FillFits
<1>4. CASE phase = "end" /\ n < size /\ buckets[n] # Null
  <2>1. w = [at |-> Place(n), bytes |-> PTR]
    BY <1>2, <1>4 DEF Writes
  <2> QED
    BY <1>2, <1>4, <2>1, EndFits
<1> QED
  BY <1>2, <1>3, <1>4 DEF Writes

-----------------------------------------------------------------------------
(* The elements of a bucket, one behind the other.                         *)

\* Other names do not move a bucket on.
LEMMA Flat ==
  ASSUME TypeOK, NEW b, NEW i \in 0 .. Len(keys), NEW k \in i .. Len(keys),
         \A l \in i + 1 .. k : ~In(b, l)
  PROVE  Sums(b)[k] = Sums(b)[i]
<1> DEFINE S == {m \in 0 .. Len(keys) : i <= m /\ m <= k => Sums(b)[m] = Sums(b)[i]}
<1>1. Len(keys) \in Nat
  BY KeysType
<1>2. 0 \in S
  BY <1>1
<1>3. ASSUME NEW m \in 1 .. Len(keys), m - 1 \in S
      PROVE  m \in S
  <2>1. CASE i < m /\ m <= k
    <3>1. m \in i + 1 .. k /\ i <= m - 1 /\ m - 1 <= k
      BY <1>1, <2>1
    <3> QED
      BY <1>1, <1>3, <3>1, SumsGrow
  <2>2. CASE ~(i < m /\ m <= k)
    <3>1. i <= m /\ m <= k => m = i
      BY <1>1, <2>2
    <3> QED
      BY <1>1, <3>1
  <2> QED
    BY <2>1, <2>2
<1>4. \A m \in 0 .. Len(keys) : m \in S
  <2> HIDE DEF S
  <2> QED
    BY <1>1, <1>2, <1>3, UpTo
<1>5. k \in 0 .. Len(keys) /\ i <= k /\ k <= k
  BY <1>1
<1> QED
  BY <1>4, <1>5

\* What stands where the first k names of a bucket end: the next name of the
\* bucket, or the NULL.
LEMMA NextIs ==
  ASSUME TypeOK, NEW b, NEW k \in 0 .. Len(keys)
  PROVE  \/ \E j \in k + 1 .. Len(keys) :
              /\ In(b, j) /\ Sums(b)[j - 1] = Sums(b)[k]
              /\ \A l \in k + 1 .. j - 1 : ~In(b, l)
         \/ Total(b) = Sums(b)[k] /\ \A l \in k + 1 .. Len(keys) : ~In(b, l)
<1> DEFINE S == {j \in k + 1 .. Len(keys) : In(b, j)}
<1>1. Len(keys) \in Nat
  BY KeysType
<1>2. CASE S = {}
  <2>1. \A l \in k + 1 .. Len(keys) : ~In(b, l)
    BY <1>2
  <2> QED
    BY <1>1, <2>1, Flat DEF Total
<1>3. CASE S # {}
  <2>1. S \in SUBSET Nat
    BY <1>1
  <2>2. PICK j \in S : \A l \in S : j <= l
    <3> HIDE DEF S
    <3> QED
      BY <1>3, <2>1, Least
  <2>3. j \in k + 1 .. Len(keys) /\ In(b, j) /\ j - 1 \in k .. Len(keys)
    BY <1>1, <2>2
  <2>4. \A l \in k + 1 .. j - 1 : ~In(b, l)
    <3> SUFFICES ASSUME NEW l \in k + 1 .. j - 1, In(b, l)
                 PROVE  FALSE
      OBVIOUS
    <3>1. l \in S /\ ~(j <= l)
      BY <1>1, <2>3
    <3> QED
      BY <2>2, <3>1
  <2>5. Sums(b)[j - 1] = Sums(b)[k]
    BY <2>3, <2>4, Flat
  <2> QED
    BY <2>3, <2>4, <2>5
<1> QED
  BY <1>2, <1>3

Searched == {"built", "walk", "answered"}

LEMMA ElementIn ==
  ASSUME TypeOK, MemInv, phase \in Searched, NEW b \in Buckets, buckets[b] # Null,
         NEW k \in 1 .. Len(keys), In(b, k)
  PROVE  /\ Element(k) \in mem /\ buckets[b] \in Nat /\ Sums(b)[k - 1] \in Nat
         /\ Element(k).at = buckets[b] + Sums(b)[k - 1] /\ Element(k).bytes = EltOf(keys[k])
         /\ Element(k).value = k - 1 + ARBITRARY_OFFSET /\ Element(k).value # NULL
         /\ EltOf(keys[k]) \in Nat /\ EltOf(keys[k]) > 0
<1>1. phase \in Ready /\ size \in Nat \ {0} /\ Len(keys) \in Nat /\ keys[k] # NoKey /\ BucketOf(k) = b
  BY KeysType DEF Searched, Ready, TypeOK, In
<1>2. Element(k) \in mem
  <2>1. mem = Elements(Len(keys) + 1) \cup Closings(size) /\ (Len(keys) + 1) - 1 = Len(keys)
    BY <1>1 DEF MemInv, Searched
  <2> QED
    BY <1>1, <2>1 DEF Elements
<1>3. Element(k).value = k - 1 + ARBITRARY_OFFSET
  BY DEF Element, Value
<1>4. Element(k).value # NULL
  BY <1>1, <1>3, KeysAssumption DEF NULL
<1>5. buckets[b] \in Nat
  BY <1>1 DEF TypeOK
<1> QED
  BY <1>1, <1>2, <1>3, <1>4, <1>5, ElementIs

LEMMA ClosingIn ==
  ASSUME TypeOK, MemInv, phase \in Searched, NEW b \in Buckets, buckets[b] # Null
  PROVE  /\ Closing(b) \in mem /\ Closing(b).at = buckets[b] + Total(b) /\ Closing(b).bytes = PTR
         /\ Closing(b).value = NULL /\ Closing(b).name = NoKey
<1>1. mem = Elements(Len(keys) + 1) \cup Closings(size)
  BY DEF MemInv, Searched
<1>2. b \in 0 .. size - 1
  BY DEF Buckets
<1> QED
  BY <1>1, <1>2 DEF Closings, Closing

\* If a sum had wrapped, the next write would have met an element of the bucket.
LEMMA Unwrapped ==
  ASSUME TypeOK, MemInv, ApartInv, phase \in Searched, NEW b \in Buckets, buckets[b] # Null
  PROVE  \A k \in 1 .. Len(keys) : In(b, k) => Sums(b)[k] = Sums(b)[k - 1] + EltOf(keys[k])
<1> DEFINE Wrapped(k) == In(b, k) /\ Sums(b)[k] # Sums(b)[k - 1] + EltOf(keys[k])
           S == {k \in 1 .. Len(keys) : Wrapped(k)}
<1> SUFFICES ASSUME S # {}
             PROVE  FALSE
  OBVIOUS
<1>1. Len(keys) \in Nat /\ PTR \in Nat \ {0} /\ WORD16 \in Nat \ {0}
  BY KeysType, SizeAssumption
<1>2. S \in SUBSET Nat
  BY <1>1
<1>3. PICK k \in S : \A l \in S : k <= l
  <2> HIDE DEF S
  <2> QED
    BY <1>2, Least
<1>4. /\ k \in 1 .. Len(keys) /\ In(b, k) /\ Sums(b)[k] # Sums(b)[k - 1] + EltOf(keys[k])
      /\ k - 1 \in 0 .. Len(keys) /\ k \in 0 .. Len(keys)
  BY <1>1, <1>3
<1>5. \A l \in 1 .. k - 1 : In(b, l) => Sums(b)[l] = Sums(b)[l - 1] + EltOf(keys[l])
  <2> SUFFICES ASSUME NEW l \in 1 .. k - 1, Wrapped(l)
               PROVE  FALSE
    OBVIOUS
  <2>1. l \in S /\ ~(k <= l)
    BY <1>1, <1>4
  <2> QED
    BY <1>3, <2>1
<1> HIDE DEF S
<1> DEFINE p == Sums(b)[k]
<1>6. /\ \A l \in 0 .. Len(keys) : Sums(b)[l] \in Nat
      /\ p \in Nat /\ Sums(b)[k - 1] \in Nat /\ EltOf(keys[k]) \in Nat
      /\ buckets[b] \in Nat /\ Sums(b)[0] = 0
  BY <1>4, SumsGrow, ElementIn
<1>7. p < Sums(b)[k - 1] + EltOf(keys[k])
  <2> DEFINE x == Sums(b)[k - 1] + EltOf(keys[k])
  <2>1. p = UShort(x) /\ p # x /\ x \in Nat
    BY <1>4, <1>6, SumsGrow
  <2> HIDE DEF p, x
  <2>2. UShort(x) <= x
    BY <1>1, <2>1 DEF UShort
  <2>3. p < x
    BY <1>6, <2>1, <2>2
  <2> QED
    BY <2>3 DEF x
<1> HIDE DEF p
<1>8. \E i \in 1 .. k : In(b, i) /\ Sums(b)[i - 1] <= p /\ p < Sums(b)[i - 1] + EltOf(keys[i])
  <2>1. CASE Sums(b)[k - 1] <= p
    BY <1>1, <1>4, <1>7, <2>1
  <2>2. CASE p < Sums(b)[k - 1]
    <3> DEFINE C == {i \in 1 .. k - 1 : p < Sums(b)[i]}
    <3>1. k - 1 # 0
      BY <1>6, <2>2
    <3>2. C # {} /\ C \in SUBSET Nat
      BY <1>1, <1>4, <2>2, <3>1
    <3>3. PICK i \in C : \A l \in C : i <= l
      <4> HIDE DEF C
      <4> QED
        BY <3>2, Least
    <3>4. i \in 1 .. k - 1 /\ p < Sums(b)[i] /\ i \in 1 .. Len(keys) /\ i - 1 \in 0 .. Len(keys)
      BY <1>1, <1>4, <3>3
    <3>5. Sums(b)[i - 1] <= p
      <4>1. CASE i = 1
        BY <1>6, <4>1
      <4>2. CASE i # 1
        <5>1. i - 1 \in 1 .. k - 1 /\ ~(i <= i - 1)
          BY <1>4, <3>4, <4>2
        <5>2. i - 1 \notin C
          BY <3>3, <5>1
        <5> QED
          BY <1>6, <3>4, <5>1, <5>2
      <4> QED
        BY <4>1, <4>2
    <3>6. In(b, i)
      <4>1. Sums(b)[i] # Sums(b)[i - 1]
        BY <1>6, <3>4, <3>5
      <4> QED
        BY <3>4, <4>1, SumsGrow
    <3>7. i \in 1 .. k
      BY <1>4, <3>4
    <3> QED
      BY <1>5, <3>4, <3>5, <3>6, <3>7
  <2> QED
    BY <1>6, <2>1, <2>2
<1>9. PICK i \in 1 .. k : In(b, i) /\ Sums(b)[i - 1] <= p /\ p < Sums(b)[i - 1] + EltOf(keys[i])
  BY <1>8
<1>10. /\ i \in 1 .. Len(keys) /\ Element(i) \in mem /\ Element(i).at = buckets[b] + Sums(b)[i - 1]
       /\ Element(i).bytes = EltOf(keys[i]) /\ Element(i).value = i - 1 + ARBITRARY_OFFSET
       /\ Element(i).value # NULL /\ Sums(b)[i - 1] \in Nat /\ EltOf(keys[i]) \in Nat
  <2>1. i \in 1 .. Len(keys)
    BY <1>4
  <2> QED
    BY <1>9, <2>1, ElementIn
<1>11. \E f \in mem : f.at = buckets[b] + p /\ f.bytes \in Nat \ {0} /\ f # Element(i)
  <2>1. CASE \E j \in k + 1 .. Len(keys) : In(b, j) /\ Sums(b)[j - 1] = p
    <3>1. PICK j \in k + 1 .. Len(keys) : In(b, j) /\ Sums(b)[j - 1] = p
      BY <2>1
    <3>2. j \in 1 .. Len(keys) /\ i # j
      BY <1>4
    <3>3. /\ Element(j) \in mem /\ Element(j).at = buckets[b] + p
          /\ Element(j).bytes \in Nat \ {0} /\ Element(j).value = j - 1 + ARBITRARY_OFFSET
      BY <3>1, <3>2, ElementIn
    <3>4. Element(j).value # Element(i).value
      BY <1>10, <3>2, <3>3, KeysAssumption
    <3> QED
      BY <3>3, <3>4
  <2>2. CASE Total(b) = p
    <3>1. /\ Closing(b) \in mem /\ Closing(b).at = buckets[b] + p /\ Closing(b).bytes = PTR
          /\ Closing(b).value = NULL
      BY <2>2, ClosingIn
    <3> QED
      BY <1>1, <1>10, <3>1
  <2> QED
    BY <1>4, <2>1, <2>2, NextIs DEF p
<1>12. PICK f \in mem : f.at = buckets[b] + p /\ f.bytes \in Nat \ {0} /\ f # Element(i)
  BY <1>11
<1>13. Apart(Element(i), f)
  BY <1>10, <1>12 DEF ApartInv, Searched, Ready
<1>14. ~(Element(i).at + Element(i).bytes <= f.at)
  BY <1>6, <1>9, <1>10, <1>12
<1>15. ~(f.at + f.bytes <= Element(i).at)
  BY SMTT(30), <1>6, <1>9, <1>10, <1>12
<1> QED
  BY <1>13, <1>14, <1>15 DEF Apart

-----------------------------------------------------------------------------
(* The search.                                                             *)

\* The element a search is at is the one that stands there.
LEMMA CurIs ==
  ASSUME ApartInv, phase \in Ready, \A e \in mem : e.bytes \in Nat \ {0} /\ e.at \in Nat,
         NEW e \in mem, e.at = elt
  PROVE  Cur = e
<1>1. \A f \in mem : f.at = elt => f = e
  BY DEF ApartInv, Apart
<1>2. Cur \in mem /\ Cur.at = elt
  BY DEF Cur
<1> QED
  BY <1>1, <1>2

LEMMA MemType ==
  ASSUME TypeOK, MemInv, phase \in Searched
  PROVE  \A e \in mem : e.bytes \in Nat \ {0} /\ e.at \in Nat
<1>1. phase \in Ready /\ size \in Nat \ {0} /\ Len(keys) \in Nat /\ PTR \in Nat \ {0}
  BY KeysType, SizeAssumption DEF Searched, Ready, TypeOK
<1>2. ASSUME NEW k \in 1 .. Len(keys), keys[k] # NoKey
      PROVE  Element(k).bytes \in Nat \ {0} /\ Element(k).at \in Nat
  <2>1. BucketOf(k) \in Buckets /\ buckets[BucketOf(k)] # Null /\ In(BucketOf(k), k)
    BY <1>1, <1>2, BucketsType DEF MemInv, Searched, In
  <2> QED
    BY <2>1, ElementIn
<1>3. ASSUME NEW b \in Buckets, buckets[b] # Null
      PROVE  Closing(b).bytes \in Nat \ {0} /\ Closing(b).at \in Nat
  <2>1. buckets[b] \in Nat /\ Total(b) \in Nat
    BY <1>1, <1>3, SumsGrow DEF TypeOK
  <2> QED
    BY <1>1, <1>3, <2>1, ClosingIn
<1>4. mem = Elements(Len(keys) + 1) \cup Closings(size) /\ (Len(keys) + 1) - 1 = Len(keys)
  BY <1>1 DEF MemInv, Searched
<1> QED
  BY <1>2, <1>3, <1>4 DEF Elements, Closings, Buckets

\* What the lookups of the cache assume, with the bucket of a name for the pairs
\* of names that meet.
LEMMA HitsAre ==
  ASSUME TypeOK, NEW name \in Names
  PROVE  Table!Hits(keys, name) = {k \in 1 .. Len(keys) : Hit(name, k)}
<1>1. ASSUME NEW k \in 1 .. Len(keys)
      PROVE  k \in Table!Hits(keys, name) <=> Hit(name, k)
  <2>1. CASE keys[k] = NoKey
    <3>1. NoKey # name
      BY SizeAssumption
    <3> QED
      BY <2>1, <3>1 DEF Table!Hits, Hit, In
  <2>2. CASE keys[k] # NoKey
    <3>1. keys[k] \in Names
      BY <2>2, KeysType DEF Keys
    <3>2. /\ k \in Table!Hits(keys, name) <=>
               /\ Lower[keys[k]] = name
               /\ keys[k] = name \/ hash[keys[k]] % size = hash[name] % size
      BY <2>2, <3>1 DEF Table!Hits
    <3> QED
      BY <2>2, <3>2 DEF Hit, In, BucketOf
  <2> QED
    BY <2>1, <2>2
<1>2. Table!Hits(keys, name) \subseteq 1 .. Len(keys)
  BY DEF Table!Hits
<1> QED
  BY <1>1, <1>2

LEMMA FindIs ==
  ASSUME TypeOK, NEW name \in Names
  PROVE  /\ (\A k \in 1 .. Len(keys) : ~Hit(name, k)) => Table!HashFind(keys, name) = NULL
         /\ \A j \in 1 .. Len(keys) :
              Hit(name, j) /\ (\A k \in 1 .. j - 1 : ~Hit(name, k)) =>
                Table!HashFind(keys, name) = j - 1 + ARBITRARY_OFFSET
<1> DEFINE H == Table!Hits(keys, name)
<1>1. H = {k \in 1 .. Len(keys) : Hit(name, k)}
  BY HitsAre
<1>2. Table!HashFind(keys, name) =
        IF H = {} THEN 0 ELSE (CHOOSE k \in H : \A l \in H : k <= l) - 1 + ARBITRARY_OFFSET
  BY DEF Table!HashFind
<1> HIDE DEF H
<1>3. ASSUME \A k \in 1 .. Len(keys) : ~Hit(name, k)
      PROVE  Table!HashFind(keys, name) = NULL
  BY <1>1, <1>2, <1>3 DEF NULL
<1>4. ASSUME NEW j \in 1 .. Len(keys), Hit(name, j), \A k \in 1 .. j - 1 : ~Hit(name, k)
      PROVE  Table!HashFind(keys, name) = j - 1 + ARBITRARY_OFFSET
  <2>1. j \in H /\ \A l \in H : j <= l
    <3>1. ASSUME NEW l \in H
          PROVE  j <= l
      <4>1. l \in 1 .. Len(keys) /\ Hit(name, l)
        BY <1>1
      <4>2. l \notin 1 .. j - 1
        BY <1>4, <4>1
      <4> QED
        BY <4>1, <4>2, KeysType
    <3> QED
      BY <1>1, <1>4, <3>1
  <2>2. \A k \in H : k \in Nat
    BY <1>1, KeysType
  <2>3. \A k \in H : (\A l \in H : k <= l) => k = j
    BY <2>1, <2>2
  <2> DEFINE c == CHOOSE k \in H : \A l \in H : k <= l
  <2>4. c \in H /\ \A l \in H : c <= l
    BY <2>1
  <2>5. c = j
    BY <2>3, <2>4
  <2> QED
    BY <1>2, <2>1, <2>5
<1> QED
  BY <1>3, <1>4

\* Where a search stands: at the NULL, or at the next element of its bucket.
LEMMA WalkAt ==
  ASSUME TypeOK, MemInv, ApartInv, WalkInv, phase = "walk"
  PROVE  \/ Cur.value = NULL /\ \A l \in 1 .. Len(keys) : ~Hit(asked, l)
         \/ \E j \in 1 .. Len(keys) :
              /\ Cur.value = j - 1 + ARBITRARY_OFFSET /\ Cur.value # NULL
              /\ \A l \in 1 .. j - 1 : ~Hit(asked, l)
              /\ IsAsked <=> Hit(asked, j)
              /\ elt + Align(PTR + 2 + Cur.len, PTR)
                   = buckets[hash[asked] % size] + Sums(hash[asked] % size)[j]
<1> DEFINE b == hash[asked] % size
<1>1. /\ phase \in Searched /\ phase \in Ready /\ size \in Nat \ {0} /\ Len(keys) \in Nat
      /\ asked \in Names /\ buckets[b] # Null
  BY KeysType DEF Searched, Ready, TypeOK, WalkInv
<1>2. b \in Buckets
  BY <1>1, BucketsType
<1>3. PICK k \in 0 .. Len(keys) : /\ elt = buckets[b] + Sums(b)[k]
                                  /\ \A l \in 1 .. k : ~Hit(asked, l)
  BY DEF WalkInv
<1>4. \A l \in 1 .. Len(keys) : Hit(asked, l) <=> In(b, l) /\ Lower[keys[l]] = asked
  BY DEF Hit
<1> HIDE DEF b
<1>5. \A e \in mem : e.at = elt => Cur = e
  BY <1>1, MemType, CurIs
<1>6. CASE Total(b) = Sums(b)[k] /\ \A l \in k + 1 .. Len(keys) : ~In(b, l)
  <2>1. Cur = Closing(b) /\ Cur.value = NULL
    BY <1>1, <1>2, <1>3, <1>5, <1>6, ClosingIn
  <2>2. ASSUME NEW l \in 1 .. Len(keys)
        PROVE  ~Hit(asked, l)
    <3>1. l \in 1 .. k \/ l \in k + 1 .. Len(keys)
      BY <1>1
    <3> QED
      BY <1>3, <1>4, <1>6, <3>1
  <2> QED
    BY <2>1, <2>2
<1>7. CASE \E j \in k + 1 .. Len(keys) :
             /\ In(b, j) /\ Sums(b)[j - 1] = Sums(b)[k]
             /\ \A l \in k + 1 .. j - 1 : ~In(b, l)
  <2>1. PICK j \in k + 1 .. Len(keys) :
             /\ In(b, j) /\ Sums(b)[j - 1] = Sums(b)[k]
             /\ \A l \in k + 1 .. j - 1 : ~In(b, l)
    BY <1>7
  <2>2. j \in 1 .. Len(keys) /\ j \in 0 .. Len(keys) /\ keys[j] # NoKey /\ keys[j] \in Names
    BY <1>1, <2>1, KeysType DEF In, Keys
  <2>3. /\ Element(j) \in mem /\ Element(j).at = elt /\ Element(j).value = j - 1 + ARBITRARY_OFFSET
        /\ Element(j).value # NULL /\ buckets[b] \in Nat /\ Sums(b)[j - 1] \in Nat
        /\ EltOf(keys[j]) \in Nat
    BY <1>1, <1>2, <1>3, <2>1, <2>2, ElementIn
  <2>4. Cur = Element(j)
    BY <1>5, <2>3
  <2>5. Sums(b)[j] = Sums(b)[j - 1] + EltOf(keys[j]) /\ Sums(b)[j] < WORD16
    <3>1. Sums(b)[j] = Sums(b)[j - 1] + EltOf(keys[j])
      BY <1>1, <1>2, <2>1, <2>2, Unwrapped
    <3>2. Sums(b)[j] = UShort(Sums(b)[j - 1] + EltOf(keys[j]))
      BY <2>1, <2>2, SumsGrow
    <3>3. Sums(b)[j - 1] + EltOf(keys[j]) \in Nat
      BY <2>3
    <3> QED
      BY <3>1, <3>2, <3>3, UShortIs
  <2>6. Cur.len = LengthOf(keys[j]) /\ Cur.name = Lower[keys[j]]
    <3>1. LengthOf(keys[j]) \in Nat /\ LengthOf(keys[j]) < EltOf(keys[j])
      BY <2>2, KeysType, EltIs
    <3>2. LengthOf(keys[j]) < WORD16
      BY <2>3, <2>5, <3>1, SizeAssumption
    <3>3. UShort(LengthOf(keys[j])) = LengthOf(keys[j])
      BY <3>1, <3>2, UShortIs
    <3> QED
      BY <2>4, <3>3 DEF Element
  <2>7. elt + Align(PTR + 2 + Cur.len, PTR) = buckets[b] + Sums(b)[j]
    <3>1. Align(PTR + 2 + Cur.len, PTR) = EltOf(keys[j])
      BY <2>2, <2>6, KeysType, EltIs
    <3>2. elt = buckets[b] + Sums(b)[j - 1]
      BY <1>3, <2>1
    <3> QED
      BY <2>3, <2>5, <3>1, <3>2
  <2>8. IsAsked <=> Hit(asked, j)
    <3>1. Lower[keys[j]] = asked => LengthOf(keys[j]) = LengthOf(asked)
      BY <1>1, <2>2, KeysAssumption, SizeAssumption DEF LengthOf
    <3> QED
      BY <1>4, <2>1, <2>2, <2>6, <3>1 DEF IsAsked
  <2>9. ASSUME NEW l \in 1 .. j - 1
        PROVE  ~Hit(asked, l)
    <3>1. l \in 1 .. Len(keys) /\ (l \in 1 .. k \/ l \in k + 1 .. j - 1)
      BY <1>1, <2>2
    <3> QED
      BY <1>3, <1>4, <2>1, <3>1
  <2> QED
    BY <2>2, <2>3, <2>4, <2>7, <2>8, <2>9 DEF b
<1> QED
  BY <1>6, <1>7, NextIs

\* The hits of a name, and what the cache assumes of them, stay.
LEMMA HitsStay ==
  ASSUME keys' = keys, hash' = hash, size' = size
  PROVE  /\ \A name, k : Hit(name, k)' = Hit(name, k)
         /\ \A name : Table!HashFind(keys, name)' = Table!HashFind(keys, name)
<1>1. \A name, k : Hit(name, k)' = Hit(name, k)
  BY DEF Hit, In, BucketOf
<1>2. \A name : Table!HashFind(keys, name)' = Table!HashFind(keys, name)
  BY DEF Table!HashFind, Table!Hits
<1> QED
  BY <1>1, <1>2

\* A search begins.
LEMMA FindKeeps ==
  ASSUME TypeOK, MemInv, Find, [Next]_vars
  PROVE  WalkInv' /\ FindExact'
<1>1. /\ phase \in Searched /\ phase \in Ready /\ size \in Nat \ {0} /\ Len(keys) \in Nat
      /\ size' = size /\ buckets' = buckets /\ keys' = keys /\ hash' = hash
  BY ArgsStay, KeysType DEF Find, Searched, Ready, TypeOK
<1>2. PICK name \in Names :
        /\ asked' = name /\ found' = NULL
        /\ elt' = IF buckets[hash[name] % size] = Null THEN elt ELSE buckets[hash[name] % size]
        /\ phase' = IF buckets[hash[name] % size] = Null THEN "answered" ELSE "walk"
  BY DEF Find
<1> DEFINE b == hash[name] % size
<1>3. b \in Buckets /\ \A c : Sums(c)' = Sums(c)
  BY <1>1, BucketsType, LayoutStays
<1>4. CASE buckets[b] = Null
  <2>1. \A k \in 1 .. Len(keys) : ~Hit(name, k)
    BY <1>1, <1>4 DEF MemInv, Searched, Hit, In
  <2>2. Table!HashFind(keys, name) = NULL
    BY <2>1, FindIs
  <2>3. Table!HashFind(keys, name)' = NULL
    BY <1>1, <2>2, HitsStay
  <2>4. FindExact'
    BY <1>2, <2>3 DEF FindExact
  <2> QED
    BY <1>2, <1>4, <2>4 DEF WalkInv
<1>5. CASE buckets[b] # Null
  <2>1. buckets[b] \in Nat /\ Sums(b)[0] = 0 /\ 0 \in 0 .. Len(keys)
    BY <1>1, <1>3, <1>5, SumsGrow DEF TypeOK
  <2>2. elt' = buckets[b] + Sums(b)[0] /\ \A l \in 1 .. 0 : ~Hit(name, l)'
    BY <1>2, <1>5, <2>1
  <2> QED
    BY <1>1, <1>2, <1>3, <1>5, <2>1, <2>2 DEF WalkInv, FindExact
<1> QED
  BY <1>4, <1>5

LEMMA WalkKeeps ==
  ASSUME TypeOK, MemInv, ApartInv, WalkInv, FindExact, [Next]_vars
  PROVE  WalkInv' /\ FindExact'
<1>1. CASE Find
  BY <1>1, FindKeeps
<1>2. CASE Step
  <2>1. /\ phase = "walk" /\ phase' = "walk" /\ Cur.value # NULL /\ ~IsAsked
        /\ elt' = elt + Align(PTR + 2 + Cur.len, PTR)
        /\ size' = size /\ buckets' = buckets /\ asked' = asked /\ found' = found
        /\ keys' = keys /\ hash' = hash
    BY <1>2, ArgsStay DEF Step
  <2>2. PICK j \in 1 .. Len(keys) :
          /\ \A l \in 1 .. j - 1 : ~Hit(asked, l)
          /\ ~Hit(asked, j)
          /\ elt' = buckets[hash[asked] % size] + Sums(hash[asked] % size)[j]
    BY <2>1, WalkAt
  <2>3. j \in 0 .. Len(keys) /\ 1 .. j = (1 .. j - 1) \cup {j}
    BY KeysType
  <2>4. \A l \in 1 .. j : ~Hit(asked, l)
    BY <2>2, <2>3
  <2>5. \A c : Sums(c)' = Sums(c)
    BY <2>1, LayoutStays
  <2>6. \A l : Hit(asked, l)' = Hit(asked, l)
    BY <2>1 DEF Hit, In, BucketOf
  <2> QED
    BY <2>1, <2>2, <2>3, <2>4, <2>5, <2>6 DEF WalkInv, FindExact
<1>3. CASE Answer
  <2>1. /\ phase = "walk" /\ phase' = "answered" /\ (Cur.value = NULL \/ IsAsked)
        /\ found' = Cur.value /\ asked' = asked /\ size' = size /\ keys' = keys /\ hash' = hash
    BY <1>3, ArgsStay DEF Answer
  <2>2. asked \in Names
    BY <2>1 DEF WalkInv
  <2>3. Cur.value = Table!HashFind(keys, asked)
    BY <2>1, <2>2, WalkAt, FindIs
  <2>4. Table!HashFind(keys, asked)' = Table!HashFind(keys, asked)
    BY <2>1 DEF Table!HashFind, Table!Hits
  <2> QED
    BY <2>1, <2>3, <2>4 DEF WalkInv, FindExact
<1>4. CASE UNCHANGED vars
  <2>1. /\ phase' = phase /\ keys' = keys /\ hash' = hash /\ size' = size /\ buckets' = buckets
        /\ asked' = asked /\ found' = found /\ elt' = elt
    BY <1>4 DEF vars, args, search
  <2>2. /\ \A c : Sums(c)' = Sums(c)
        /\ \A l : Hit(asked, l)' = Hit(asked, l)
        /\ Table!HashFind(keys, asked)' = Table!HashFind(keys, asked)
    BY <2>1, LayoutStays DEF Hit, In, BucketOf, Table!HashFind, Table!Hits
  <2> QED
    BY <2>1, <2>2 DEF WalkInv, FindExact
<1>5. CASE phase' \notin {"walk", "answered"}
  BY <1>5 DEF WalkInv, FindExact
<1>6. Find \/ Step \/ Answer \/ UNCHANGED vars \/ phase' \notin {"walk", "answered"}
  BY DEF Next, Goto, TooLong, DivideByZero, Checked, AllocFails, NextSize,
         NoSize, Found, PlaceBucket, Placed, SkipKey, Fill, Clobber, Filled, EndBucket, NoBucket,
         Built, ToArray
<1> QED
  BY <1>1, <1>2, <1>3, <1>4, <1>5, <1>6

-----------------------------------------------------------------------------
(* The theorems.                                                           *)

\* What holds at every step of dvt_stringhash_init and dvt_stringhash_find: how
\* far names are counted, placed and written, and how far a search has come.
THEOREM Invariance == Spec => []IInv
<1>1. Init => IInv
  <2> SUFFICES ASSUME Init
               PROVE  IInv
    OBVIOUS
  <2>1. TypeOK /\ FitInv
    BY InitType
  <2>2. RoomInv /\ MemInv /\ ApartInv /\ WalkInv /\ NothingClobbered /\ FindExact
    BY DEF Init, Ready, RoomInv, MemInv, ApartInv, WalkInv, NothingClobbered, FindExact
  <2> QED
    BY <2>1, <2>2 DEF IInv
<1>2. IInv /\ [Next]_vars => IInv'
  BY TypeKeeps, RoomKeeps, MemKeeps, ApartKeeps, WalkKeeps, NoClobber DEF IInv
<1> QED
  BY <1>1, <1>2, PTL DEF Spec

\* With buckets of at most half the range of a u_short, dvt_stringhash_init
\* writes every element and every closing NULL into bytes of its own, for names,
\* hash functions and cache lines of every size.
THEOREM NothingClobberedHolds == Spec => []NothingClobbered
BY Invariance, PTL DEF IInv

\* Of a table that was built, with buckets of any size, dvt_stringhash_find gives
\* the value the cache expects of nginx's hash.
THEOREM FindExactHolds == Spec => []FindExact
BY Invariance, PTL DEF IInv

\* The check of the name lengths keeps every list with a name, NULL or not, from
\* a division by zero: if dvt_stringhash_init divides by zero, it was given none.
THEOREM OnlyEmptyDivides == Spec => [](phase = "trap" => keys = << >>)
<1> DEFINE OnlyEmpty == phase = "trap" => keys = << >>
<1>1. Init => OnlyEmpty
  BY DEF Init
<1>2. ASSUME IInv, OnlyEmpty, [Next]_vars
      PROVE  OnlyEmpty'
  <2>1. TypeOK /\ keys' = keys
    BY <1>2, ArgsStay DEF IInv
  <2>2. CASE DivideByZero
    <3> SUFFICES ASSUME keys # << >>
                 PROVE  FALSE
      BY <2>1
    <3>1. 1 \in 1 .. Len(keys) /\ keys[1] \in Keys
      BY <2>1, KeysType
    <3>2. EltOf(keys[1]) \in Nat /\ EltOf(keys[1]) >= 2 * PTR
      BY <3>1, EltIs
    <3>3. hinit.bucket_size >= EltOf(keys[1]) + PTR /\ bucket_size \div (2 * PTR) = 0
      BY <2>2, <3>1 DEF DivideByZero, AllShort, EltOf
    <3>4. PTR \in Nat \ {0} /\ hinit.bucket_size \in Nat
      BY <2>1, SizeAssumption DEF TypeOK
    <3>5. bucket_size \in Nat /\ bucket_size >= 2 * PTR
      BY <2>1, <3>2, <3>3, <3>4, BucketSizeIs
    <3> QED
      BY <3>3, <3>4, <3>5
  <2>3. CASE ~DivideByZero
    <3>1. phase' = "trap" => phase = "trap"
      BY <1>2, <2>3
      DEF Next, vars, Goto, TooLong, Checked, AllocFails, NextSize, NoSize, Found, PlaceBucket,
          Placed, SkipKey, Fill, Clobber, Filled, EndBucket, NoBucket, Built, Find, Step, Answer,
          ToArray
    <3> QED
      BY <1>2, <2>1, <3>1
  <2> QED
    BY <2>2, <2>3
<1> QED
  BY <1>1, <1>2, Invariance, PTL DEF Spec

=============================================================================
