----------------------------- MODULE StringHash -----------------------------
(***************************************************************************)
(* dvt_stringhash: a table that is built once, in memory taken in one      *)
(* piece, and then only searched.  The elements of a bucket stand one      *)
(* behind the other, each as long as its name needs, and a NULL value ends *)
(* the bucket.  The sizes are computed in u_short.  The algorithm is that  *)
(* of ngx_hash, which the cache uses: FindExact is what Lookup assumes of  *)
(* it.                                                                     *)
(***************************************************************************)
EXTENDS Integers, Sequences, FiniteSets

CONSTANTS
  Names, Lower, Length,   \* names, ngx_strlow and key.len
  NoKey,                  \* a key whose data is NULL
  Hashes,                 \* hash functions: from Names to Nat
  KeyLists,               \* the names a table may be built from
  BucketSizes, MaxSizes,  \* of hinit
  PTR, CACHELINE,         \* sizeof(void *), ngx_cacheline_size
  WORD16,                 \* 2^16: how many values a u_short has
  MANY, DENSE, LAST,      \* 10000, 100 and 1000: the shortcut for large tables
  UINT32_MAX, ARBITRARY_OFFSET, Capacity

ASSUME SizeAssumption ==
  /\ PTR \in Nat \ {0} /\ CACHELINE \in Nat \ {0} /\ CACHELINE % PTR = 0
  /\ WORD16 \in Nat /\ 2 * CACHELINE <= WORD16
  /\ MANY \in Nat /\ DENSE \in Nat /\ LAST \in 0 .. MANY
  /\ BucketSizes \subseteq {b \in Nat : b >= PTR} /\ MaxSizes \subseteq Nat
  /\ NoKey \notin Names /\ KeyLists \subseteq Seq(Names \cup {NoKey})

\* ngx_strlow keeps the length of a name; no value is NULL.
ASSUME KeysAssumption ==
  /\ Length \in [Names -> Nat] /\ Lower \in [Names -> Names]
  /\ \A name \in Names : Length[Lower[name]] = Length[name]
  /\ Hashes \subseteq [Names -> Nat]
  /\ ARBITRARY_OFFSET \in Nat \ {0}

VARIABLES
  phase,     \* "check", "fit", "place", "fill", "end", "built", "walk", or an end
  keys, hash, hinit,   \* the arguments
  size,      \* number of buckets
  test,      \* per bucket: bytes used
  buckets,   \* per bucket: where it begins, or Null
  free,      \* how much of the memory for elements is given to buckets
  mem,       \* what has been written: elements with their places
  n,         \* position of the loops
  asked, elt, found    \* a search: its name, where it is, its result

args == <<keys, hash, hinit>>
search == <<asked, elt, found>>
vars == <<phase, args, size, test, buckets, free, mem, n, search>>

Null == -1
NULL == 0

Align(x, a) == ((x + a - 1) \div a) * a
UShort(x) == x % WORD16

LengthOf(key) == IF key = NoKey THEN 0 ELSE Length[key]

\* DVT_STRINGHASH_ELT_SIZE
ELT_SIZE(len) == PTR + Align(len + 2, PTR)

\* The values the cache gives its ids, without the offset.
Value_FromZero(k) == k - 1

\* The values the cache gives its ids.
Value(k) == k - 1 + ARBITRARY_OFFSET

bucket_size == hinit.bucket_size - PTR

Init ==
  /\ phase = "check"
  /\ keys \in KeyLists /\ hash \in Hashes
  /\ hinit \in [bucket_size : BucketSizes, max_size : MaxSizes]
  /\ size = 0 /\ test = << >> /\ buckets = << >> /\ free = 0 /\ mem = {}
  /\ n = 1 /\ asked = NoKey /\ elt = 0 /\ found = NULL

Goto(p) ==
  /\ phase' = p
  /\ UNCHANGED <<args, size, test, buckets, free, mem, n, search>>

TooLong ==
  /\ phase = "check"
  /\ \E k \in 1 .. Len(keys) : hinit.bucket_size < ELT_SIZE(LengthOf(keys[k])) + PTR
  /\ Goto("error")

AllShort ==
  \A k \in 1 .. Len(keys) : hinit.bucket_size >= ELT_SIZE(LengthOf(keys[k])) + PTR

\* A bucket too small for two pointers, which only an empty list gets to.
DivideByZero ==
  /\ phase = "check" /\ AllShort
  /\ bucket_size \div (2 * PTR) = 0
  /\ Goto("trap")

start ==
  LET least == Len(keys) \div (bucket_size \div (2 * PTR)) IN
    IF hinit.max_size > MANY /\ keys # << >> /\ hinit.max_size \div Len(keys) < DENSE
    THEN hinit.max_size - LAST
    ELSE IF least = 0 THEN 1 ELSE least

Checked ==
  /\ phase = "check" /\ AllShort
  /\ bucket_size \div (2 * PTR) # 0
  /\ phase' = "fit" /\ size' = start
  /\ UNCHANGED <<args, test, buckets, free, mem, n, search>>

\* No memory for test, or none for the buckets and the elements.
AllocFails ==
  /\ (phase = "check" /\ AllShort) \/ (phase = "place" /\ n = 0)
  /\ Goto("error")

BucketOf(k) == hash[keys[k]] % size

\* What the first k names need of bucket b, above what is there already.
Used(b, first) ==
  LET used[k \in 0 .. Len(keys)] ==
        IF k = 0 THEN first
        ELSE IF keys[k] # NoKey /\ BucketOf(k) = b
             THEN UShort(used[k - 1] + ELT_SIZE(LengthOf(keys[k])))
             ELSE used[k - 1]
  IN used

Fits ==
  \A b \in 0 .. size - 1 : \A k \in 1 .. Len(keys) : Used(b, 0)[k] <= UShort(bucket_size)

NextSize ==
  /\ phase = "fit" /\ size < hinit.max_size /\ ~Fits
  /\ size' = size + 1
  /\ UNCHANGED <<phase, args, test, buckets, free, mem, n, search>>

NoSize == phase = "fit" /\ size >= hinit.max_size /\ Goto("error")

\* The NULL behind the last element is forgotten.
Measure_NoTerminator(b) ==
  LET used == Used(b, 0)[Len(keys)] IN IF used = 0 THEN PTR ELSE UShort(Align(used, CACHELINE))

\* The bytes of a bucket, with the NULL behind its last element; PTR if there
\* is no element.
Measure(b) ==
  LET used == Used(b, PTR)[Len(keys)] IN IF used = PTR THEN PTR ELSE UShort(Align(used, CACHELINE))

Found ==
  /\ phase = "fit" /\ size < hinit.max_size /\ Fits
  /\ test' = [b \in 0 .. size - 1 |-> Measure(b)]
  /\ buckets' = [b \in 0 .. size - 1 |-> Null]
  /\ phase' = "place" /\ n' = 0
  /\ UNCHANGED <<args, size, free, mem, search>>

PlaceBucket ==
  /\ phase = "place" /\ n < size
  /\ IF test[n] = PTR THEN UNCHANGED <<buckets, free>>
     ELSE buckets' = [buckets EXCEPT ![n] = free] /\ free' = free + test[n]
  /\ n' = n + 1
  /\ UNCHANGED <<phase, args, size, test, mem, search>>

Placed ==
  /\ phase = "place" /\ n = size
  /\ test' = [b \in 0 .. size - 1 |-> 0]
  /\ phase' = "fill" /\ n' = 1
  /\ UNCHANGED <<args, size, buckets, free, mem, search>>

\* Bytes that are not written yet, in the memory that was taken.
Unwritten(w) ==
  /\ w.at # Null /\ w.at + w.bytes <= free
  /\ \A e \in mem : w.at + w.bytes <= e.at \/ e.at + e.bytes <= w.at

Place(b) == IF buckets[b] = Null THEN Null ELSE buckets[b] + test[b]

\* The next bytes to be written: an element, or the NULL that ends a bucket.
Writes ==
  IF phase = "fill" /\ n <= Len(keys) /\ keys[n] # NoKey
  THEN {[at |-> Place(BucketOf(n)), bytes |-> ELT_SIZE(LengthOf(keys[n]))]}
  ELSE IF phase = "end" /\ n < size /\ buckets[n] # Null
  THEN {[at |-> Place(n), bytes |-> PTR]}
  ELSE {}

\* A write over bytes in use, outside the memory, or at NULL.
Clobber ==
  /\ \E w \in Writes : ~Unwritten(w)
  /\ Goto("clobbered")

Write(w, value, key) ==
  mem' = mem \cup {[at |-> w.at, bytes |-> w.bytes, value |-> value, len |-> UShort(LengthOf(key)),
                    name |-> IF key = NoKey THEN NoKey ELSE Lower[key]]}

SkipKey ==
  /\ phase = "fill" /\ n <= Len(keys) /\ keys[n] = NoKey
  /\ n' = n + 1
  /\ UNCHANGED <<phase, args, size, test, buckets, free, mem, search>>

Fill ==
  /\ phase = "fill"
  /\ \E w \in Writes :
       /\ Unwritten(w) /\ Write(w, Value(n), keys[n])
       /\ test' = [test EXCEPT ![BucketOf(n)] = UShort(@ + w.bytes)]
  /\ n' = n + 1
  /\ UNCHANGED <<phase, args, size, buckets, free, search>>

Filled ==
  /\ phase = "fill" /\ n > Len(keys)
  /\ phase' = "end" /\ n' = 0
  /\ UNCHANGED <<args, size, test, buckets, free, mem, search>>

EndBucket ==
  /\ phase = "end"
  /\ \E w \in Writes : Unwritten(w) /\ Write(w, NULL, NoKey)
  /\ n' = n + 1
  /\ UNCHANGED <<phase, args, size, test, buckets, free, search>>

NoBucket ==
  /\ phase = "end" /\ n < size /\ buckets[n] = Null
  /\ n' = n + 1
  /\ UNCHANGED <<phase, args, size, test, buckets, free, mem, search>>

Built ==
  /\ phase = "end" /\ n = size
  /\ Goto("built")

\* dvt_stringhash_find, with the hash of the name as the caller wrote it.
Find ==
  /\ phase \in {"built", "answered"}
  /\ \E name \in Names :
       LET b == hash[name] % size IN
         /\ asked' = name /\ found' = NULL
         /\ elt' = IF buckets[b] = Null THEN elt ELSE buckets[b]
         /\ phase' = IF buckets[b] = Null THEN "answered" ELSE "walk"
  /\ UNCHANGED <<args, size, test, buckets, free, mem, n>>

Cur == CHOOSE e \in mem : e.at = elt

IsAsked == Cur.len = LengthOf(asked) /\ Cur.name = asked

Step ==
  /\ phase = "walk" /\ Cur.value # NULL /\ ~IsAsked
  /\ elt' = elt + Align(PTR + 2 + Cur.len, PTR)
  /\ UNCHANGED <<phase, args, size, test, buckets, free, mem, n, asked, found>>

Answer ==
  /\ phase = "walk" /\ (Cur.value = NULL \/ IsAsked)
  /\ found' = Cur.value
  /\ phase' = "answered"
  /\ UNCHANGED <<args, size, test, buckets, free, mem, n, asked, elt>>

\* dvt_stringhash_to_array reads the value of an element before it has one,
\* unless there is no bucket to look into.
ToArray ==
  /\ phase \in {"built", "answered"}
  /\ \E b \in 0 .. size - 1 : buckets[b] # Null
  /\ Goto("undefined")

Next ==
  \/ TooLong \/ DivideByZero \/ Checked \/ AllocFails \/ NextSize \/ NoSize \/ Found
  \/ PlaceBucket \/ Placed \/ SkipKey \/ Fill \/ Clobber \/ Filled
  \/ EndBucket \/ NoBucket \/ Built
  \/ Find \/ Step \/ Answer \/ ToArray

Spec == Init /\ [][Next]_vars

-----------------------------------------------------------------------------
\* The fitting loop adds in u_short and compares afterwards: buckets of at
\* most half its range cannot wrap.  The code does not ask for this.
Narrow == 2 * hinit.bucket_size <= WORD16

\* Every element and every closing NULL gets bytes of its own, inside the
\* memory that was taken: what the fitting loop counted, what the buckets were
\* given and what is written into them agree, in 16 bits and with rounding.
NothingClobbered == Narrow => phase # "clobbered"

Table == INSTANCE Lookup WITH
  Names <- Names \cup {NoKey},
  Lower <- [key \in Names \cup {NoKey} |-> IF key = NoKey THEN NoKey ELSE Lower[key]],
  SameBucket <- {p \in Names \X Names : hash[p[1]] % size = hash[p[2]] % size}

\* A search finds the value of the first name of the bucket that is, in lower
\* case, the name asked for, and nothing if there is none: what the lookups of
\* the cache assume of nginx's table, which has the same algorithm.
FindExact == phase = "answered" => found = Table!HashFind(keys, asked)
=============================================================================
