------------------------ MODULE QueryHandler_proofs ------------------------
(***************************************************************************)
(* For every list of arguments and every answer: the times that are used   *)
(* are those of the last arguments, a served answer has one object per     *)
(* series, each with its own series or none with any, has values exactly   *)
(* if they were asked for, and is JSON wherever the values were.           *)
(***************************************************************************)
EXTENDS QueryHandler, FiniteSetTheorems, TLAPS

Tokens == Series \cup Punctuation

-----------------------------------------------------------------------------
(* The arguments                                                           *)

\* The positions before n of the arguments with the name.
ReadOf(l, n, name) == {k \in 1 .. n - 1 : l[k].name = name}

\* v is what the last of the arguments at ks said.
Said(l, ks, v) == v = IF ks = {} THEN -1 ELSE Signed(l[LastOf(ks)].value)

TimesInv ==
  /\ a \in Nat \ {0}
  /\ Said(args, ReadOf(args, a, "start"), start)
  /\ Said(args, ReadOf(args, a, "stop"), stop)
  /\ Said(args, ReadOf(args, a, "step"), step)

LEMMA LastOfNew ==
  ASSUME NEW n \in Nat, NEW S \in SUBSET (1 .. n - 1)
  PROVE  LastOf(S \cup {n}) = n
<1>1. \A l \in S \cup {n} : l <= n
  OBVIOUS
<1>2. \A m \in S : ~(n <= m)
  OBVIOUS
<1>3. \E m \in S \cup {n} : \A l \in S \cup {n} : l <= m
  BY <1>1
<1>4. LET m == LastOf(S \cup {n}) IN m \in S \cup {n} /\ \A l \in S \cup {n} : l <= m
  BY <1>3, Zenon DEF LastOf
<1> QED
  BY <1>2, <1>4

\* One more argument: it counts if it has the name.
LEMMA OneMoreRead ==
  ASSUME NEW l, NEW n \in Nat \ {0}, NEW name, NEW v, Said(l, ReadOf(l, n, name), v)
  PROVE  /\ l[n].name = name => Said(l, ReadOf(l, n + 1, name), Signed(l[n].value))
         /\ l[n].name # name => Said(l, ReadOf(l, n + 1, name), v)
<1>1. 1 .. (n + 1) - 1 = (1 .. n - 1) \cup {n}
  OBVIOUS
<1>2. CASE l[n].name = name
  <2>1. ReadOf(l, n + 1, name) = ReadOf(l, n, name) \cup {n}
    BY <1>1, <1>2 DEF ReadOf
  <2>2. LastOf(ReadOf(l, n, name) \cup {n}) = n
    BY LastOfNew DEF ReadOf
  <2>3. ReadOf(l, n, name) \cup {n} # {}
    OBVIOUS
  <2> QED
    BY <1>2, <2>1, <2>2, <2>3 DEF Said
<1>3. CASE l[n].name # name
  <2>1. ReadOf(l, n + 1, name) = ReadOf(l, n, name)
    BY <1>1, <1>3 DEF ReadOf
  <2> QED
    BY <1>3, <2>1
<1> QED
  BY <1>2, <1>3

\* Any action that reads an argument without a time in it.
LEMMA OtherRead ==
  ASSUME TimesInv, a' = a + 1, UNCHANGED <<request, times>>,
         args[a].name \notin {"start", "stop", "step"}
  PROVE  TimesInv'
<1>1. args' = args /\ start' = start /\ stop' = stop /\ step' = step
  BY DEF request, times
<1>2. a \in Nat \ {0} /\ a' \in Nat \ {0}
  BY DEF TimesInv
<1>3. \A name \in {"start", "stop", "step"} : \A v :
        Said(args, ReadOf(args, a, name), v) => Said(args, ReadOf(args, a + 1, name), v)
  BY <1>2, OneMoreRead
<1> QED
  BY <1>1, <1>2, <1>3 DEF TimesInv

LEMMA InitTimesInv == Init => TimesInv
<1>1. \A name : ReadOf(args, 1, name) = {}
  BY DEF ReadOf
<1> QED
  BY <1>1 DEF Init, TimesInv, Said

LEMMA NextTimesInv == TimesInv /\ [Next]_vars => TimesInv'
<1> SUFFICES ASSUME TimesInv, [Next]_vars PROVE TimesInv'
  OBVIOUS
<1>1. CASE Number
  <2>1. /\ a' = a + 1 /\ args' = args
        /\ start' = IF args[a].name = "start" THEN Signed(args[a].value) ELSE start
        /\ stop' = IF args[a].name = "stop" THEN Signed(args[a].value) ELSE stop
        /\ step' = IF args[a].name = "step" THEN Signed(args[a].value) ELSE step
    BY <1>1 DEF Number, Arg, request
  <2>2. a \in Nat \ {0} /\ a' \in Nat \ {0}
    BY <2>1 DEF TimesInv
  <2>3. Said(args, ReadOf(args, a + 1, "start"), start')
    BY <2>1, <2>2, OneMoreRead DEF TimesInv
  <2>4. Said(args, ReadOf(args, a + 1, "stop"), stop')
    BY <2>1, <2>2, OneMoreRead DEF TimesInv
  <2>5. Said(args, ReadOf(args, a + 1, "step"), step')
    BY <2>1, <2>2, OneMoreRead DEF TimesInv
  <2> QED
    BY <2>1, <2>2, <2>3, <2>4, <2>5 DEF TimesInv
<1>2. CASE QueryText
  BY <1>2, OtherRead DEF QueryText, Arg
<1>3. CASE Info
  BY <1>3, OtherRead DEF Info, Arg
<1>4. CASE Aggregate
  BY <1>4, OtherRead DEF Aggregate, Arg, parsed, times
<1>5. CASE UNCHANGED <<request, a, parsed>>
  BY <1>5 DEF TimesInv, request, parsed, times
<1>6. CASE \/ Decline \/ Summary \/ Query \/ CopyFails \/ Send \/ NoValue \/ UnknownName \/ EndArgs
           \/ NoAnswer \/ UndefinedLookup \/ Found
           \/ Open \/ ValuesField \/ DivideByZero \/ SimulationCrash \/ Close \/ EndAnswer
           \/ UNCHANGED vars
  <2>1. CASE UNCHANGED vars
    BY <1>5, <2>1 DEF vars, request, parsed, times
  <2>2. CASE ~UNCHANGED vars
    <3>1. UNCHANGED <<request, a, parsed>>
      BY <1>6, <2>2, Zenon
      DEF Decline, Summary, Query, CopyFails, Send, NoValue, UnknownName, EndArgs, NoAnswer,
          UndefinedLookup, Found, Open, ValuesField, DivideByZero, SimulationCrash, Close,
          EndAnswer
    <3> QED
      BY <1>5, <3>1
  <2> QED
    BY <2>1, <2>2
<1> QED
  BY <1>1, <1>2, <1>3, <1>4, <1>6 DEF Next

\* The start, stop and step that are answered are those of the last arguments
\* with these names, whatever their number and order.
THEOREM LastArgumentWinsHolds == Spec => []LastArgumentWins
<1>1. TimesInv => LastArgumentWins
  BY DEF TimesInv, LastArgumentWins, IsLast, ReadAt, Said, ReadOf
<1> QED
  BY <1>1, InitTimesInv, NextTimesInv, PTL DEF Spec

-----------------------------------------------------------------------------
(* The body: its grammar                                                   *)

\* Two tokens that stand next to each other: as JSON has it, or no values, or
\* damaged ones.
Linked(s, t) ==
  \/ t \in Follows(s)
  \/ s = "values" /\ t \in {"damaged", "end_object"}
  \/ s = "damaged" /\ t = "end_object"

\* What a comma may stand between.
Separates(s, t) == (s = "end_object" /\ t = "begin_object") \/ (s \in Series /\ t = "values")

\* The beginning of an answer.
Begun(b) ==
  /\ b \in Seq(Tokens) /\ Len(b) > 0 /\ b[1] = "begin_array"
  /\ \A k \in 1 .. Len(b) - 1 : Linked(b[k], b[k + 1])
  /\ \A k \in 2 .. Len(b) - 1 : b[k] = "comma" => Separates(b[k - 1], b[k + 1])

LEMMA FollowsIs ==
  /\ Follows("begin_array") = {"begin_object", "end_array"}
  /\ Follows("begin_object") = Series \cup {"values", "end_object"}
  /\ \A s \in Series : Follows(s) = {"comma", "end_object"}
  /\ Follows("values") = {"array"} /\ Follows("array") = {"end_object"}
  /\ Follows("end_object") = {"comma", "end_array"}
  /\ Follows("comma") = {"begin_object", "values"}
  /\ \A s : "damaged" \notin Follows(s)
  BY AnswerAssumption DEF Follows, Punctuation

LEMMA Begin == Begun(<<"begin_array">>)
  BY DEF Begun, Tokens, Punctuation

LEMMA Push ==
  ASSUME NEW b, Begun(b), NEW x \in Tokens, Linked(b[Len(b)], x),
         b[Len(b)] = "comma" => Separates(b[Len(b) - 1], x)
  PROVE  Begun(Append(b, x))
<1> DEFINE q == Append(b, x)
<1>1. /\ b \in Seq(Tokens) /\ Len(b) \in Nat \ {0} /\ b[1] = "begin_array"
      /\ \A k \in 1 .. Len(b) - 1 : Linked(b[k], b[k + 1])
      /\ \A k \in 2 .. Len(b) - 1 : b[k] = "comma" => Separates(b[k - 1], b[k + 1])
  BY DEF Begun
<1>2. /\ q \in Seq(Tokens) /\ Len(q) = Len(b) + 1 /\ q[Len(b) + 1] = x
      /\ \A k \in 1 .. Len(b) : q[k] = b[k]
  BY <1>1
<1> HIDE DEF q
<1>3. \A k \in 1 .. Len(q) - 1 : Linked(q[k], q[k + 1])
  <2> TAKE k \in 1 .. Len(q) - 1
  <2>1. CASE k = Len(b)
    BY <1>1, <1>2, <2>1
  <2>2. CASE k # Len(b)
    <3>1. k \in 1 .. Len(b) - 1 /\ k \in 1 .. Len(b) /\ k + 1 \in 1 .. Len(b)
      BY <1>1, <1>2, <2>2
    <3> QED
      BY <1>1, <1>2, <3>1
  <2> QED
    BY <2>1, <2>2
<1>4. \A k \in 2 .. Len(q) - 1 : q[k] = "comma" => Separates(q[k - 1], q[k + 1])
  <2> TAKE k \in 2 .. Len(q) - 1
  <2>1. CASE k = Len(b)
    <3>1. k - 1 \in 1 .. Len(b) /\ k \in 1 .. Len(b)
      BY <1>1, <1>2, <2>1
    <3> QED
      BY <1>1, <1>2, <2>1, <3>1
  <2>2. CASE k # Len(b)
    <3>1. /\ k \in 2 .. Len(b) - 1 /\ k - 1 \in 1 .. Len(b) /\ k \in 1 .. Len(b)
          /\ k + 1 \in 1 .. Len(b)
      BY <1>1, <1>2, <2>2
    <3> QED
      BY <1>1, <1>2, <3>1
  <2> QED
    BY <2>1, <2>2
<1>5. Len(q) > 0 /\ q[1] = "begin_array"
  BY <1>1, <1>2
<1> QED
  BY <1>2, <1>3, <1>4, <1>5 DEF Begun, q

-----------------------------------------------------------------------------
(* The body: its objects                                                   *)

Opens(b) == {k \in 1 .. Len(b) : b[k] = "begin_object"}
Upto(b, k) == Cardinality({l \in Opens(b) : l <= k})

\* Each object has its own series, and no series stands elsewhere.
Shown(b, ans) == \A k \in Opens(b) : k + 1 \in 1 .. Len(b) /\ b[k + 1] = ans[Upto(b, k)]
Paired(b) == \A k \in 1 .. Len(b) : b[k] \in Series => k - 1 \in Opens(b)
Hidden(b) == \A k \in 1 .. Len(b) : b[k] \notin Series

LEMMA OpensFinite ==
  ASSUME NEW b \in Seq(Tokens)
  PROVE  /\ Opens(b) \subseteq 1 .. Len(b) /\ IsFiniteSet(Opens(b))
         /\ Cardinality(Opens(b)) \in Nat
<1>1. Len(b) \in Nat /\ IsFiniteSet(1 .. Len(b))
  BY FS_Interval
<1>2. Opens(b) \subseteq 1 .. Len(b)
  BY DEF Opens
<1> QED
  BY <1>1, <1>2, FS_Subset, FS_CardinalityType

LEMMA PushPlain ==
  ASSUME NEW b \in Seq(Tokens), NEW x \in Tokens \ (Series \cup {"begin_object"})
  PROVE  LET q == Append(b, x) IN
         /\ Opens(q) = Opens(b)
         /\ \A ans : Shown(b, ans) => Shown(q, ans)
         /\ Paired(b) => Paired(q)
         /\ Hidden(b) => Hidden(q)
<1> DEFINE q == Append(b, x)
<1>1. /\ Len(b) \in Nat /\ Len(q) = Len(b) + 1 /\ q[Len(b) + 1] = x
      /\ \A k \in 1 .. Len(b) : q[k] = b[k]
  OBVIOUS
<1> HIDE DEF q
<1>2. \A k \in 1 .. Len(q) : k \in 1 .. Len(b) \/ k = Len(b) + 1
  BY <1>1
<1>3. \A k \in 1 .. Len(b) : k \in 1 .. Len(q)
  BY <1>1
<1>4. Opens(q) = Opens(b)
  BY <1>1, <1>2, <1>3 DEF Opens
<1>5. \A k : Upto(q, k) = Upto(b, k)
  BY <1>4 DEF Upto
<1>6. \A ans : Shown(b, ans) => Shown(q, ans)
  BY <1>1, <1>3, <1>4, <1>5 DEF Shown
<1>7. Paired(b) => Paired(q)
  BY <1>1, <1>2, <1>4 DEF Paired
<1>8. Hidden(b) => Hidden(q)
  BY <1>1, <1>2 DEF Hidden
<1> QED
  BY <1>4, <1>6, <1>7, <1>8 DEF q

\* A new object is counted last.
LEMMA PushBegin ==
  ASSUME NEW b \in Seq(Tokens)
  PROVE  LET q == Append(b, "begin_object")
             n == Len(b) + 1
         IN  /\ Opens(q) = Opens(b) \cup {n}
             /\ Cardinality(Opens(q)) = Cardinality(Opens(b)) + 1
             /\ \A k \in Opens(b) : Upto(q, k) = Upto(b, k)
             /\ Upto(q, n) = Cardinality(Opens(b)) + 1
             /\ Hidden(b) => Hidden(q)
<1> DEFINE q == Append(b, "begin_object")
           n == Len(b) + 1
<1>1. /\ Len(b) \in Nat /\ Len(q) = n /\ q[n] = "begin_object"
      /\ \A k \in 1 .. Len(b) : q[k] = b[k]
  OBVIOUS
<1> HIDE DEF q
<1>2. \A k : k \in 1 .. Len(q) <=> k \in 1 .. Len(b) \/ k = n
  BY <1>1
<1>3. Opens(q) = Opens(b) \cup {n}
  BY <1>1, <1>2 DEF Opens
<1>4. Opens(b) \subseteq 1 .. Len(b) /\ IsFiniteSet(Opens(b)) /\ n \notin Opens(b)
  BY <1>1, OpensFinite
<1>5. Cardinality(Opens(q)) = Cardinality(Opens(b)) + 1
  BY <1>3, <1>4, FS_AddElement
<1>6. \A k \in Opens(b) : {l \in Opens(q) : l <= k} = {l \in Opens(b) : l <= k}
  BY <1>1, <1>3, <1>4
<1>7. {l \in Opens(q) : l <= n} = Opens(q)
  BY <1>1, <1>3, <1>4
<1>8. Hidden(b) => Hidden(q)
  BY <1>1, <1>2, AnswerAssumption DEF Hidden, Punctuation
<1> QED
  BY <1>3, <1>5, <1>6, <1>7, <1>8, Zenon DEF Upto, q

LEMMA PushSeries ==
  ASSUME NEW b \in Seq(Tokens), NEW ans, NEW s \in Series, Shown(b, ans), Paired(b),
         s = ans[Cardinality(Opens(b)) + 1]
  PROVE  LET q == Append(Append(b, "begin_object"), s) IN
         /\ Shown(q, ans) /\ Paired(q)
         /\ Cardinality(Opens(q)) = Cardinality(Opens(b)) + 1
<1> DEFINE p == Append(b, "begin_object")
           q == Append(p, s)
           n == Len(b) + 1
<1>1. /\ Opens(p) = Opens(b) \cup {n}
      /\ Cardinality(Opens(p)) = Cardinality(Opens(b)) + 1
      /\ \A k \in Opens(b) : Upto(p, k) = Upto(b, k)
      /\ Upto(p, n) = Cardinality(Opens(b)) + 1
  BY PushBegin
<1>2. "begin_object" \in Tokens /\ s # "begin_object"
  BY AnswerAssumption DEF Tokens, Punctuation
<1>3. /\ Len(b) \in Nat /\ Len(p) = n /\ p[n] = "begin_object"
      /\ \A k \in 1 .. Len(b) : p[k] = b[k]
  BY <1>2
<1>4. p \in Seq(Tokens) /\ s \in Tokens
  BY <1>2 DEF Tokens
<1> HIDE DEF p
<1>5. Len(q) = n + 1 /\ q[n + 1] = s /\ \A k \in 1 .. n : q[k] = p[k]
  BY <1>3, <1>4
<1> HIDE DEF q
<1>6. \A k : k \in 1 .. Len(q) <=> k \in 1 .. Len(b) \/ k = n \/ k = n + 1
  BY <1>3, <1>5
<1>7. \A k \in 1 .. n : k \in 1 .. Len(p) /\ k \in 1 .. Len(q)
  BY <1>3, <1>6
<1>8. Opens(q) = Opens(p)
  BY <1>2, <1>3, <1>5, <1>6 DEF Opens
<1>9. \A k : Upto(q, k) = Upto(p, k)
  BY <1>8 DEF Upto
<1>10. Opens(b) \subseteq 1 .. Len(b)
  BY DEF Opens
<1>11. Shown(q, ans)
  <2> SUFFICES ASSUME NEW k \in Opens(q)
               PROVE  k + 1 \in 1 .. Len(q) /\ q[k + 1] = ans[Upto(q, k)]
    BY DEF Shown
  <2>1. CASE k = n
    BY <1>1, <1>3, <1>5, <1>9, <2>1
  <2>2. CASE k \in Opens(b)
    <3>1. k + 1 \in 1 .. Len(b) /\ b[k + 1] = ans[Upto(b, k)]
      BY <2>2 DEF Shown
    <3>2. k + 1 \in 1 .. n /\ q[k + 1] = b[k + 1]
      BY <1>3, <1>5, <3>1
    <3> QED
      BY <1>1, <1>7, <1>9, <2>2, <3>1, <3>2
  <2> QED
    BY <1>1, <1>8, <2>1, <2>2
<1>12. Paired(q)
  <2> SUFFICES ASSUME NEW k \in 1 .. Len(q), q[k] \in Series PROVE k - 1 \in Opens(q)
    BY DEF Paired
  <2>1. CASE k \in 1 .. Len(b)
    <3>1. q[k] = b[k]
      BY <1>3, <1>5, <2>1
    <3> QED
      BY <1>1, <1>8, <2>1, <3>1 DEF Paired
  <2>2. CASE k = n
    BY <1>3, <1>5, <2>2, AnswerAssumption DEF Punctuation
  <2>3. CASE k = n + 1
    BY <1>1, <1>3, <1>8, <2>3
  <2> QED
    BY <1>6, <2>1, <2>2, <2>3
<1> QED
  BY <1>1, <1>8, <1>11, <1>12 DEF p, q

-----------------------------------------------------------------------------
(* The inductive invariant of the answer                                   *)

Described(b) ==
  /\ include_series => Shown(b, answer) /\ Paired(b)
  /\ ~include_series => Hidden(b)

Ends(b, tokens) == b[Len(b)] \in tokens

\* The body up to the series at i.
Answering(n) ==
  /\ text \in DOMAIN Answer
  /\ Begun(body) /\ Described(body) /\ Cardinality(Opens(body)) = n

BodyInv ==
  /\ i \in Nat \ {0}
  /\ pc \in {"route", "args", "lookup"} => body = << >> /\ i = 1
  /\ pc = "object" =>
       /\ Answering(i - 1) /\ i <= Len(answer) + 1
       /\ i = 1 => Ends(body, {"begin_array"})
       /\ i > 1 /\ i <= Len(answer) =>
            Len(body) > 1 /\ body[Len(body) - 1] = "end_object" /\ Ends(body, {"comma"})
       /\ i > 1 /\ i > Len(answer) => Ends(body, {"end_object"})
  /\ pc = "field" =>
       /\ Answering(i) /\ i <= Len(answer)
       /\ include_series => Ends(body, Series)
       /\ ~include_series => Ends(body, {"begin_object"})
  /\ pc = "close" =>
       /\ Answering(i) /\ i <= Len(answer)
       /\ Ends(body, Series \cup {"begin_object", "values", "array", "damaged"})

\* What is sent: nothing, or an answer from its beginning to its end.
Finished ==
  \/ body = << >>
  \/ Answering(Len(answer)) /\ Ends(body, {"end_array"})
  \/ text \notin DOMAIN Answer /\ body \in {<<"error">>, <<"begin_array", "end_array">>}

EndInv ==
  /\ pc = "send" => Finished
  /\ Sent => body # << >> /\ Finished

\* The body after one more token that is neither a series nor opens an object.
LEMMA GrowsPlain ==
  ASSUME NEW b, Begun(b), Described(b), NEW x \in Tokens \ (Series \cup {"begin_object"}),
         Linked(b[Len(b)], x), b[Len(b)] = "comma" => Separates(b[Len(b) - 1], x)
  PROVE  LET q == Append(b, x) IN
         /\ Begun(q) /\ Described(q) /\ Cardinality(Opens(q)) = Cardinality(Opens(b))
         /\ Len(q) = Len(b) + 1 /\ q[Len(q)] = x /\ q[Len(q) - 1] = b[Len(b)]
<1> DEFINE q == Append(b, x)
<1>1. b \in Seq(Tokens) /\ Len(b) \in Nat \ {0} /\ x \in Tokens
  BY DEF Begun
<1>2. /\ Opens(q) = Opens(b)
      /\ \A ans : Shown(b, ans) => Shown(q, ans)
      /\ Paired(b) => Paired(q)
      /\ Hidden(b) => Hidden(q)
  BY <1>1, PushPlain
<1>3. Begun(q)
  BY <1>1, Push
<1>4. Len(q) = Len(b) + 1 /\ q[Len(b) + 1] = x /\ q[Len(b)] = b[Len(b)]
  BY <1>1
<1>5. Len(q) - 1 = Len(b)
  BY <1>1, <1>4
<1> HIDE DEF q
<1>6. Described(q)
  BY <1>2 DEF Described
<1> QED
  BY <1>2, <1>3, <1>4, <1>5, <1>6 DEF q

\* The tokens of an action, one after the other.
LEMMA Concatenated ==
  ASSUME NEW S, NEW b \in Seq(S)
  PROVE  /\ b \o << >> = b
         /\ \A x \in S : b \o <<x>> = Append(b, x)
  OBVIOUS

LEMMA PunctuationIsTokens ==
  /\ Punctuation \subseteq Tokens /\ Series \subseteq Tokens
  /\ Punctuation \ {"begin_object"} \subseteq Tokens \ (Series \cup {"begin_object"})
  /\ {"begin_array", "end_array", "begin_object", "end_object", "comma", "values", "array",
      "damaged", "error", "summary"} = Punctuation
  /\ \A s \in Series : s \notin Punctuation
  BY AnswerAssumption DEF Punctuation, Tokens

LEMMA OpenKeeps == BodyInv /\ Open => BodyInv'
<1> SUFFICES ASSUME BodyInv, Open PROVE BodyInv'
  OBVIOUS
<1>1. /\ pc = "object" /\ i <= Len(answer) /\ i \in Nat \ {0}
      /\ i' = i /\ text' = text /\ include_series' = include_series
      /\ pc' = IF RangeGiven THEN "field" ELSE "close"
      /\ body' = body \o <<"begin_object">> \o (IF include_series THEN <<answer[i]>> ELSE << >>)
  BY DEF Open, BodyInv, parsed
<1>2. /\ text \in DOMAIN Answer /\ Begun(body) /\ Described(body)
      /\ Cardinality(Opens(body)) = i - 1
  BY <1>1 DEF BodyInv, Answering
<1>3. answer \in Seq(Series) /\ answer[i] \in Series
  <2>1. answer \in Seq(Series)
    BY <1>2, AnswerAssumption DEF answer
  <2> QED
    BY <1>1, <2>1
<1>4. /\ body \in Seq(Tokens) /\ Len(body) \in Nat \ {0}
      /\ "begin_object" \in Tokens /\ answer[i] \in Tokens
  BY <1>2, <1>3, PunctuationIsTokens DEF Begun
<1>5. /\ Linked(body[Len(body)], "begin_object")
      /\ body[Len(body)] = "comma" => Separates(body[Len(body) - 1], "begin_object")
  <2>1. CASE i = 1
    BY <1>1, <2>1, FollowsIs DEF BodyInv, Ends, Linked
  <2>2. CASE i > 1
    BY <1>1, <2>2, FollowsIs DEF BodyInv, Ends, Linked, Separates
  <2> QED
    BY <1>1, <2>1, <2>2
<1> DEFINE p == Append(body, "begin_object")
<1>6. body \o <<"begin_object">> = p /\ p \in Seq(Tokens)
  BY <1>4
<1>7. Begun(p) /\ Len(p) \in Nat \ {0} /\ p[Len(p)] = "begin_object"
  <2>1. Begun(p)
    BY <1>2, <1>4, <1>5, Push
  <2> QED
    BY <1>4, <2>1
<1>8. (i - 1) + 1 = i
  BY <1>1
<1> HIDE DEF p
<1>9. CASE include_series
  <2>1. body' = Append(p, answer[i])
    BY <1>1, <1>4, <1>6, <1>9, Concatenated
  <2>2. Shown(body, answer) /\ Paired(body)
    BY <1>2, <1>9 DEF Described
  <2>3. Shown(body', answer) /\ Paired(body') /\ Cardinality(Opens(body')) = i
    BY <1>2, <1>3, <1>4, <1>8, <2>1, <2>2, PushSeries DEF p
  <2>4. Begun(body')
    BY <1>3, <1>4, <1>7, <2>1, Push, FollowsIs DEF Linked
  <2>5. body'[Len(body')] = answer[i]
    BY <1>4, <1>6, <1>7, <2>1
  <2>6. Answering(i)'
    BY <1>1, <1>2, <1>9, <2>3, <2>4 DEF Answering, Described, answer
  <2> QED
    BY <1>1, <1>3, <1>9, <2>5, <2>6 DEF BodyInv, Ends, answer
<1>10. CASE ~include_series
  <2>1. body' = p
    BY <1>1, <1>6, <1>10, Concatenated
  <2>2. Hidden(body') /\ Cardinality(Opens(body')) = i
    BY <1>2, <1>4, <1>8, <1>10, <2>1, PushBegin DEF Described, p
  <2>3. Answering(i)'
    BY <1>1, <1>2, <1>7, <1>10, <2>1, <2>2 DEF Answering, Described, answer
  <2> QED
    BY <1>1, <1>7, <1>10, <2>1, <2>3 DEF BodyInv, Ends, answer
<1> QED
  BY <1>9, <1>10

LEMMA ValuesFieldKeeps == BodyInv /\ ValuesField => BodyInv'
<1> SUFFICES ASSUME BodyInv, ValuesField PROVE BodyInv'
  OBVIOUS
<1>1. PICK tokens \in Simulated(answer[i]) :
        body' = body \o (IF include_series THEN <<"comma">> ELSE << >>) \o <<"values">> \o tokens
  BY DEF ValuesField, Values
<1>2. /\ pc = "field" /\ pc' = "close" /\ i \in Nat \ {0} /\ i <= Len(answer)
      /\ i' = i /\ text' = text /\ include_series' = include_series
      /\ text \in DOMAIN Answer /\ Begun(body) /\ Described(body)
      /\ Cardinality(Opens(body)) = i
  BY DEF ValuesField, BodyInv, parsed, Answering
<1>3. /\ body \in Seq(Tokens) /\ Len(body) \in Nat \ {0}
      /\ "comma" \in Tokens /\ "values" \in Tokens
      /\ "comma" \in Tokens \ (Series \cup {"begin_object"})
      /\ "values" \in Tokens \ (Series \cup {"begin_object"})
      /\ {"array", "damaged"} \subseteq Tokens \ (Series \cup {"begin_object"})
  BY <1>2, PunctuationIsTokens DEF Begun
<1>4. PICK p : p = body \o (IF include_series THEN <<"comma">> ELSE << >>)
  OBVIOUS
<1>5. /\ Begun(p) /\ Described(p) /\ Cardinality(Opens(p)) = i
      /\ Linked(p[Len(p)], "values")
      /\ p[Len(p)] = "comma" => Separates(p[Len(p) - 1], "values")
  <2>1. CASE include_series
    <3>1. p = Append(body, "comma")
      BY <1>3, <1>4, <2>1
    <3>2. body[Len(body)] \in Series
      BY <1>2, <2>1 DEF BodyInv, Ends
    <3>3. Linked(body[Len(body)], "comma") /\ body[Len(body)] # "comma"
      BY <3>2, FollowsIs, PunctuationIsTokens DEF Linked
    <3>4. /\ Begun(p) /\ Described(p) /\ Cardinality(Opens(p)) = i
          /\ p[Len(p)] = "comma" /\ p[Len(p) - 1] = body[Len(body)]
      BY <1>2, <1>3, <3>1, <3>3, GrowsPlain
    <3> QED
      BY <3>2, <3>4, FollowsIs DEF Linked, Separates
  <2>2. CASE ~include_series
    <3>1. p = body
      BY <1>3, <1>4, <2>2
    <3>2. body[Len(body)] = "begin_object"
      BY <1>2, <2>2 DEF BodyInv, Ends
    <3> QED
      BY <1>2, <3>1, <3>2, FollowsIs DEF Linked
  <2> QED
    BY <2>1, <2>2
<1>6. PICK q : q = p \o <<"values">>
  OBVIOUS
<1>7. /\ Begun(q) /\ Described(q) /\ Cardinality(Opens(q)) = i /\ q[Len(q)] = "values"
  <2>1. q = Append(p, "values")
    BY <1>3, <1>5, <1>6 DEF Begun
  <2> QED
    BY <1>3, <1>5, <2>1, GrowsPlain
<1>8. (tokens = << >> \/ \E t \in {"array", "damaged"} : tokens = <<t>>) /\ body' = q \o tokens
  BY <1>1, <1>4, <1>6 DEF Simulated
<1>9. /\ Begun(body') /\ Described(body') /\ Cardinality(Opens(body')) = i
      /\ body'[Len(body')] \in {"values", "array", "damaged"}
  <2>1. CASE tokens = << >>
    <3>1. body' = q
      BY <1>7, <1>8, <2>1 DEF Begun
    <3> QED
      BY <1>7, <3>1
  <2>2. ASSUME NEW t \in {"array", "damaged"}, tokens = <<t>>
        PROVE  /\ Begun(body') /\ Described(body') /\ Cardinality(Opens(body')) = i
               /\ body'[Len(body')] = t
    <3>1. body' = Append(q, t)
      BY <1>3, <1>7, <1>8, <2>2 DEF Begun
    <3>2. Linked(q[Len(q)], t) /\ q[Len(q)] # "comma"
      BY <1>7, <2>2, FollowsIs DEF Linked
    <3> QED
      BY <1>3, <1>7, <2>2, <3>1, <3>2, GrowsPlain
  <2> QED
    BY <1>8, <2>1, <2>2
<1>10. Answering(i)'
  BY <1>2, <1>9 DEF Answering, Described, answer
<1> QED
  BY <1>2, <1>9, <1>10 DEF BodyInv, Ends, answer

LEMMA CloseKeeps == BodyInv /\ Close => BodyInv'
<1> SUFFICES ASSUME BodyInv, Close PROVE BodyInv'
  OBVIOUS
<1>1. /\ pc = "close" /\ pc' = "object" /\ i \in Nat \ {0} /\ i <= Len(answer)
      /\ i' = i + 1 /\ text' = text /\ include_series' = include_series
      /\ body' = body \o <<"end_object">> \o (IF i # Len(answer) THEN <<"comma">> ELSE << >>)
      /\ text \in DOMAIN Answer /\ Begun(body) /\ Described(body)
      /\ Cardinality(Opens(body)) = i
  BY DEF Close, BodyInv, parsed, Answering
<1>2. /\ body \in Seq(Tokens) /\ Len(body) \in Nat \ {0}
      /\ "end_object" \in Tokens /\ "comma" \in Tokens
      /\ "end_object" \in Tokens \ (Series \cup {"begin_object"})
      /\ "comma" \in Tokens \ (Series \cup {"begin_object"})
  BY <1>1, PunctuationIsTokens DEF Begun
<1>3. Linked(body[Len(body)], "end_object") /\ body[Len(body)] # "comma"
  <2>1. body[Len(body)] \in Series \cup {"begin_object", "values", "array", "damaged"}
    BY <1>1 DEF BodyInv, Ends
  <2> QED
    BY <2>1, FollowsIs, PunctuationIsTokens DEF Linked
<1>4. PICK p : p = body \o <<"end_object">>
  OBVIOUS
<1>5. p = Append(body, "end_object")
  BY <1>2, <1>4
<1>6. /\ Begun(p) /\ Described(p) /\ Cardinality(Opens(p)) = i
      /\ Len(p) \in Nat /\ Len(p) > 1 /\ p[Len(p)] = "end_object"
  BY <1>1, <1>2, <1>3, <1>5, GrowsPlain
<1>7. Len(answer) \in Nat
  BY <1>1, AnswerAssumption DEF answer
<1>8. i' - 1 = i /\ i' > 1 /\ i' # 1 /\ i' \in Nat \ {0} /\ i' <= Len(answer) + 1
  BY <1>1, <1>7
<1>9. CASE i # Len(answer)
  <2>1. body' = Append(p, "comma")
    BY <1>1, <1>2, <1>4, <1>6, <1>9 DEF Begun
  <2>2. Linked(p[Len(p)], "comma") /\ p[Len(p)] # "comma"
    BY <1>6, FollowsIs DEF Linked
  <2>3. /\ Begun(body') /\ Described(body') /\ Cardinality(Opens(body')) = i
        /\ Len(body') > 1 /\ body'[Len(body')] = "comma" /\ body'[Len(body') - 1] = "end_object"
    BY <1>2, <1>6, <2>1, <2>2, GrowsPlain
  <2>4. Answering(i - 1)'
    BY <1>1, <1>8, <2>3 DEF Answering, Described, answer
  <2>5. i' <= Len(answer)
    BY <1>1, <1>7, <1>9
  <2> QED
    BY <1>1, <1>7, <1>8, <2>3, <2>4, <2>5 DEF BodyInv, Ends, answer
<1>10. CASE i = Len(answer)
  <2>1. body' = p
    BY <1>1, <1>4, <1>6, <1>10 DEF Begun
  <2>2. Answering(i - 1)'
    BY <1>1, <1>6, <1>8, <2>1 DEF Answering, Described, answer
  <2>3. ~(i' <= Len(answer))
    BY <1>1, <1>10
  <2> QED
    BY <1>1, <1>6, <1>8, <2>1, <2>2, <2>3 DEF BodyInv, Ends, answer
<1> QED
  BY <1>9, <1>10

LEMMA FoundKeeps == BodyInv /\ Found => BodyInv'
<1> SUFFICES ASSUME BodyInv, Found PROVE BodyInv'
  OBVIOUS
<1>1. /\ pc' = "object" /\ i = 1 /\ i' = i /\ text \in DOMAIN Answer
      /\ text' = text /\ include_series' = include_series /\ body' = <<"begin_array">>
  BY DEF Found, BodyInv, parsed
<1>2. Begun(body') /\ Ends(body', {"begin_array"})
  BY <1>1, Begin DEF Ends
<1>3. \A k \in 1 .. Len(body') : k = 1 /\ body'[k] = "begin_array" /\ body'[k] \notin Series
  BY <1>1, PunctuationIsTokens
<1>4. Opens(body') = {}
  BY <1>3 DEF Opens
<1>5. Described(body')
  BY <1>3, <1>4 DEF Described, Shown, Paired, Hidden
<1>6. Cardinality(Opens(body')) = i - 1
  BY <1>1, <1>4, FS_EmptySet
<1>7. Answering(i - 1)'
  BY <1>1, <1>2, <1>5, <1>6 DEF Answering, Described, answer
<1>8. Len(answer) \in Nat
  BY <1>1, AnswerAssumption DEF answer
<1> QED
  BY <1>1, <1>2, <1>7, <1>8 DEF BodyInv, Ends, answer

LEMMA InitBodyInv == Init => BodyInv
  BY DEF Init, BodyInv

LEMMA NextBodyInv == BodyInv /\ [Next]_vars => BodyInv'
<1> SUFFICES ASSUME BodyInv, [Next]_vars PROVE BodyInv'
  OBVIOUS
<1>1. CASE Open \/ ValuesField \/ Close \/ Found
  BY <1>1, OpenKeeps, ValuesFieldKeeps, CloseKeeps, FoundKeeps
<1>2. CASE \/ Decline \/ Summary \/ CopyFails \/ Send \/ NoValue \/ UnknownName
           \/ NoAnswer \/ UndefinedLookup \/ DivideByZero \/ SimulationCrash \/ EndAnswer
  <2>1. pc' \in {"send", "end"} /\ i' = i
    BY <1>2, Zenon
    DEF Decline, Summary, CopyFails, Send, NoValue, UnknownName, NoAnswer, UndefinedLookup,
        DivideByZero, SimulationCrash, EndAnswer, Reply
  <2> QED
    BY <2>1 DEF BodyInv
<1>3. CASE Query \/ Number \/ QueryText \/ Info \/ Aggregate \/ EndArgs
  <2>1. /\ pc \in {"route", "args", "lookup"} /\ pc' \in {"route", "args", "lookup"}
        /\ i' = i /\ body' = body
    BY <1>3 DEF Query, Number, QueryText, Info, Aggregate, EndArgs, Reading
  <2> QED
    BY <2>1 DEF BodyInv
<1>4. CASE UNCHANGED vars
  BY <1>4 DEF BodyInv, Answering, Described, Ends, answer, vars, parsed
<1> QED
  BY <1>1, <1>2, <1>3, <1>4 DEF Next

-----------------------------------------------------------------------------
LEMMA NextEndInv == BodyInv /\ EndInv /\ [Next]_vars => EndInv'
<1> SUFFICES ASSUME BodyInv, EndInv, [Next]_vars PROVE EndInv'
  OBVIOUS
<1>1. CASE EndAnswer
  <2>1. /\ pc = "object" /\ pc' = "send" /\ i > Len(answer) /\ i \in Nat \ {0}
        /\ i <= Len(answer) + 1 /\ text' = text /\ include_series' = include_series
        /\ body' = Append(body, "end_array")
        /\ text \in DOMAIN Answer /\ Begun(body) /\ Described(body)
        /\ Cardinality(Opens(body)) = i - 1
    BY <1>1 DEF EndAnswer, BodyInv, parsed, Answering
  <2>2. Len(answer) \in Nat
    BY <2>1, AnswerAssumption DEF answer
  <2>3. body[Len(body)] \in {"begin_array", "end_object"}
    BY <2>1, <2>2 DEF BodyInv, Ends
  <2>4. Linked(body[Len(body)], "end_array") /\ body[Len(body)] # "comma"
    BY <2>3, FollowsIs DEF Linked
  <2>5. "end_array" \in Tokens \ (Series \cup {"begin_object"})
    BY PunctuationIsTokens
  <2>6. /\ Begun(body') /\ Described(body') /\ Cardinality(Opens(body')) = i - 1
        /\ body'[Len(body')] = "end_array"
    BY <2>1, <2>4, <2>5, GrowsPlain
  <2>7. i - 1 = Len(answer)
    BY <2>1, <2>2
  <2>8. Finished'
    BY <2>1, <2>6, <2>7 DEF Finished, Answering, Described, Ends, answer
  <2> QED
    BY <2>1, <2>8 DEF EndInv, Sent
<1>2. CASE Send
  <2>1. /\ pc = "send" /\ pc' = "end" /\ UNCHANGED <<request, a, parsed, i>>
        /\ IF body = << >> THEN status' = "500" ELSE status' = "200" /\ body' = body
    BY <1>2 DEF Send, Reply
  <2>2. CASE body = << >>
    BY <2>1, <2>2 DEF EndInv, Sent
  <2>3. CASE body # << >>
    <3>1. Finished'
      BY <2>1, <2>3 DEF EndInv, Finished, Answering, Described, Ends, answer, parsed
    <3> QED
      BY <2>1, <2>3, <3>1 DEF EndInv, Sent
  <2> QED
    BY <2>2, <2>3
<1>3. CASE UnknownName \/ NoAnswer
  <2>1. pc' = "send" /\ text' = text /\ body' \in {<< >>, <<"error">>}
    BY <1>3 DEF UnknownName, NoAnswer, BodyInv, Reading, parsed
  <2>2. body' # << >> => text' \notin DOMAIN Answer
    BY <1>3, <2>1, TextsAssumption, NoTextAssumption
    DEF UnknownName, NoAnswer, BodyInv, Reading
  <2> QED
    BY <2>1, <2>2 DEF EndInv, Finished, Sent
<1>4. CASE UndefinedLookup
  <2>1. CASE pc' = "send"
    <3>1. text' \notin DOMAIN Answer /\ body' = <<"begin_array", "end_array">>
      BY <1>4, <2>1, TextsAssumption DEF UndefinedLookup, parsed, Reply
    <3> QED
      BY <2>1, <3>1 DEF EndInv, Finished, Sent
  <2>2. CASE pc' # "send"
    BY <1>4, <2>2 DEF UndefinedLookup, Reply, EndInv, Sent
  <2> QED
    BY <2>1, <2>2
<1>5. CASE Decline \/ Summary \/ CopyFails \/ NoValue \/ DivideByZero \/ SimulationCrash
  <2>1. pc' = "end" /\ ~Sent'
    BY <1>5
    DEF Decline, Summary, CopyFails, NoValue, DivideByZero, SimulationCrash, Reply, Sent, request
  <2> QED
    BY <2>1 DEF EndInv
<1>6. CASE \/ Query \/ Number \/ QueryText \/ Info \/ Aggregate \/ EndArgs \/ Found
           \/ Open \/ ValuesField \/ Close
  <2>1. pc' \notin {"send", "end"}
    BY <1>6 DEF Query, Number, QueryText, Info, Aggregate, EndArgs, Found, Open, ValuesField,
                Close, Reading
  <2> QED
    BY <2>1 DEF EndInv, Sent
<1>7. CASE UNCHANGED vars
  BY <1>7
  DEF EndInv, Sent, Finished, Answering, Described, Ends, answer, vars, parsed, request
<1> QED
  BY <1>1, <1>2, <1>3, <1>4, <1>5, <1>6, <1>7 DEF Next

\* The answer under construction is the beginning of an answer, object by
\* object, and what is sent is nothing or an answer with its end.
THEOREM AnswerInvariant == Spec => [](BodyInv /\ EndInv)
<1>1. Init => EndInv
  BY DEF Init, EndInv, Sent
<1> QED
  BY <1>1, InitBodyInv, NextBodyInv, NextEndInv, PTL DEF Spec

\* A served answer has one object per series, and the object at the place of a
\* series describes that series, or no object describes any.
THEOREM OneObjectPerSeriesHolds == Spec => []OneObjectPerSeries
<1>1. EndInv => OneObjectPerSeries
  <2> SUFFICES ASSUME EndInv, Sent, text \in DOMAIN Answer
               PROVE  /\ Cardinality(ObjectsAt) = Len(answer)
                      /\ \A k \in ObjectsAt : include_series => body[k + 1] = answer[OrdinalOf(k)]
                      /\ \A k \in DescribedAt : include_series /\ k - 1 \in ObjectsAt
    BY DEF OneObjectPerSeries
  <2>1. Described(body) /\ Cardinality(Opens(body)) = Len(answer)
    BY DEF EndInv, Finished, Answering
  <2>2. ObjectsAt = Opens(body)
    BY DEF ObjectsAt, Opens
  <2>3. \A k : OrdinalOf(k) = Upto(body, k)
    BY <2>2 DEF OrdinalOf, Upto
  <2>4. \A k \in ObjectsAt : include_series => body[k + 1] = answer[OrdinalOf(k)]
    BY <2>1, <2>2, <2>3 DEF Described, Shown
  <2>5. \A k \in DescribedAt : include_series /\ k - 1 \in ObjectsAt
    BY <2>1, <2>2 DEF Described, Paired, Hidden, DescribedAt
  <2> QED
    BY <2>1, <2>2, <2>4, <2>5
<1> QED
  BY <1>1, AnswerInvariant, PTL

\* A served answer is JSON wherever the simulation had values to give.
THEOREM JSONUnlessNoValuesHolds == Spec => []JSONUnlessNoValues
<1>1. EndInv => JSONUnlessNoValues
  <2> SUFFICES ASSUME EndInv, Sent,
                      \A k \in 1 .. Len(body) - 1 : body[k] = "values" => body[k + 1] = "array"
               PROVE  WellFormed
    BY DEF JSONUnlessNoValues
  <2>1. CASE Answering(Len(answer)) /\ Ends(body, {"end_array"})
    <3>1. /\ Len(body) \in Nat \ {0} /\ body[1] = "begin_array" /\ body[Len(body)] = "end_array"
          /\ \A k \in 1 .. Len(body) - 1 : Linked(body[k], body[k + 1])
          /\ \A k \in 2 .. Len(body) - 1 : body[k] = "comma" => Separates(body[k - 1], body[k + 1])
      BY <2>1 DEF Answering, Begun, Ends
    <3>2. \A k \in 1 .. Len(body) - 1 : body[k + 1] \in Follows(body[k])
      <4> SUFFICES ASSUME NEW k \in 1 .. Len(body) - 1 PROVE body[k + 1] \in Follows(body[k])
        OBVIOUS
      <4>1. body[k] # "damaged"
        <5> SUFFICES ASSUME body[k] = "damaged" PROVE FALSE
          OBVIOUS
        <5>1. k - 1 \in 1 .. Len(body) - 1 /\ (k - 1) + 1 = k
          BY <3>1
        <5>2. Linked(body[k - 1], body[k])
          BY <3>1, <5>1
        <5>3. body[k - 1] = "values"
          BY <5>2, FollowsIs DEF Linked
        <5> QED
          BY <5>1, <5>3
      <4> QED
        BY <3>1, <4>1 DEF Linked
    <3>3. CommasFit
      BY <3>1 DEF CommasFit, Separates
    <3> QED
      BY <3>1, <3>2, <3>3 DEF WellFormed
  <2>2. CASE body = <<"error">>
    BY <2>2 DEF WellFormed, CommasFit
  <2>3. CASE body = <<"begin_array", "end_array">>
    BY <2>3, FollowsIs DEF WellFormed, CommasFit
  <2> QED
    BY <2>1, <2>2, <2>3 DEF EndInv, Finished
<1> QED
  BY <1>1, AnswerInvariant, PTL

-----------------------------------------------------------------------------
(* Values, as they were asked for                                          *)

\* How far the arguments are read: each number had a value, the last one of a
\* name exists, and whatever is answered is answered to all of them.
ReadInv ==
  /\ args \in ArgLists /\ a <= Len(args) + 1
  /\ \A k \in 1 .. a - 1 : args[k].name \in Numbers => "value" \in DOMAIN args[k]
  /\ \A name \in ArgNames :
       ReadOf(args, a, name) # {} => LastOf(ReadOf(args, a, name)) \in ReadOf(args, a, name)
  /\ pc \in {"lookup", "object", "field", "close"} => a = Len(args) + 1
  /\ (pc = "send" \/ Sent) /\ body # << >> => a = Len(args) + 1

Valued(b) == \E k \in 1 .. Len(b) : b[k] = "values"

\* All the objects so far have values, or none has.
ValuesInv ==
  /\ pc = "object" => (Valued(body) <=> RangeGiven /\ i > 1)
  /\ pc = "field" => RangeGiven
  /\ pc = "close" => (Valued(body) <=> RangeGiven)
  /\ (pc = "send" \/ Sent) /\ body # << >> /\ text \in DOMAIN Answer /\ answer # << >> =>
       (Valued(body) <=> RangeGiven)

LEMMA InitReadInv == Init => ReadInv
<1> SUFFICES ASSUME Init PROVE ReadInv
  OBVIOUS
<1>1. args \in ArgLists /\ a = 1 /\ pc = "route" /\ body = << >> /\ Len(args) \in Nat
  BY ArgumentsAssumption DEF Init
<1>2. \A name : ReadOf(args, a, name) = {}
  BY <1>1 DEF ReadOf
<1> QED
  BY <1>1, <1>2 DEF ReadInv, Sent

\* One more argument is read.
LEMMA ReadStep ==
  ASSUME TimesInv, ReadInv, Reading, a' = a + 1, UNCHANGED <<request, pc>>,
         Arg.name \in Numbers => HasValue
  PROVE  ReadInv'
<1>1. /\ args' = args /\ args \in ArgLists /\ a \in Nat \ {0} /\ Len(args) \in Nat
      /\ a <= Len(args) /\ pc = "args" /\ pc' = "args"
  BY ArgumentsAssumption DEF TimesInv, ReadInv, Reading, request
<1>2. 1 .. (a + 1) - 1 = (1 .. a - 1) \cup {a}
  BY <1>1
<1>3. \A k \in 1 .. (a + 1) - 1 : args[k].name \in Numbers => "value" \in DOMAIN args[k]
  BY <1>2 DEF ReadInv, Arg, HasValue
<1>4. ASSUME NEW name \in ArgNames
      PROVE  ReadOf(args, a + 1, name) # {} =>
               LastOf(ReadOf(args, a + 1, name)) \in ReadOf(args, a + 1, name)
  <2>1. CASE args[a].name = name
    <3>1. ReadOf(args, a + 1, name) = ReadOf(args, a, name) \cup {a}
      BY <1>2, <2>1 DEF ReadOf
    <3>2. LastOf(ReadOf(args, a, name) \cup {a}) = a
      BY <1>1, LastOfNew DEF ReadOf
    <3> QED
      BY <3>1, <3>2
  <2>2. CASE args[a].name # name
    <3>1. ReadOf(args, a + 1, name) = ReadOf(args, a, name)
      BY <1>2, <2>2 DEF ReadOf
    <3> QED
      BY <3>1 DEF ReadInv
  <2> QED
    BY <2>1, <2>2
<1>5. a' <= Len(args') + 1
  BY <1>1
<1> QED
  BY <1>1, <1>3, <1>4, <1>5 DEF ReadInv, Sent

LEMMA NextReadInv == TimesInv /\ BodyInv /\ ReadInv /\ [Next]_vars => ReadInv'
<1> SUFFICES ASSUME TimesInv, BodyInv, ReadInv, [Next]_vars PROVE ReadInv'
  OBVIOUS
<1>1. CASE Number \/ QueryText \/ Info \/ Aggregate
  <2>1. Reading /\ a' = a + 1 /\ UNCHANGED <<request, pc>> /\ (Arg.name \in Numbers => HasValue)
    BY <1>1 DEF Number, QueryText, Info, Aggregate, Numbers
  <2> QED
    BY <2>1, ReadStep
<1>2. ASSUME UNCHANGED <<request, a>>,
             pc' \in {"lookup", "object", "field", "close"} => a = Len(args) + 1,
             (pc' = "send" \/ Sent') /\ body' # << >> => a = Len(args) + 1
      PROVE  ReadInv'
  BY <1>2 DEF ReadInv, request
<1>3. CASE EndArgs
  <2>1. /\ UNCHANGED <<request, a>> /\ pc = "args" /\ pc' = "lookup" /\ a > Len(args)
        /\ args \in ArgLists /\ a <= Len(args) + 1 /\ a \in Nat
    BY <1>3 DEF EndArgs, ReadInv, TimesInv
  <2>2. a = Len(args) + 1
    BY <2>1, ArgumentsAssumption
  <2> QED
    BY <1>2, <2>1, <2>2
<1>4. CASE \/ NoAnswer \/ UndefinedLookup \/ Found \/ Open \/ ValuesField \/ DivideByZero
           \/ SimulationCrash \/ Close \/ EndAnswer
  <2>1. UNCHANGED <<request, a>> /\ pc \in {"lookup", "object", "field", "close"}
    BY <1>4, Zenon DEF NoAnswer, UndefinedLookup, Found, Open, ValuesField, DivideByZero,
                       SimulationCrash, Close, EndAnswer
  <2>2. a = Len(args) + 1
    BY <2>1 DEF ReadInv
  <2> QED
    BY <1>2, <2>1, <2>2
<1>5. CASE Send
  <2>1. /\ UNCHANGED <<request, a>> /\ pc = "send" /\ pc' = "end"
        /\ body' # << >> => body # << >>
    BY <1>5 DEF Send, Reply
  <2> QED
    BY <1>2, <2>1 DEF ReadInv
<1>6. CASE Decline \/ Summary \/ CopyFails \/ NoValue
  <2>1. UNCHANGED <<request, a>> /\ pc' = "end" /\ ~Sent'
    BY <1>6 DEF Decline, Summary, CopyFails, NoValue, Reply, Sent, request
  <2> QED
    BY <1>2, <2>1
<1>7. CASE Query
  BY <1>2, <1>7 DEF Query, Sent
<1>8. CASE UnknownName
  <2>1. UNCHANGED <<request, a>> /\ pc' = "send" /\ body' = << >>
    BY <1>8 DEF UnknownName, Reading, BodyInv
  <2> QED
    BY <1>2, <2>1
<1>9. CASE UNCHANGED vars
  BY <1>9 DEF ReadInv, Sent, vars, request
<1> QED
  BY <1>1, <1>3, <1>4, <1>5, <1>6, <1>7, <1>8, <1>9 DEF Next

LEMMA ValuedConcat ==
  ASSUME NEW S, NEW b \in Seq(S), NEW t \in Seq(S)
  PROVE  Valued(b \o t) <=> Valued(b) \/ Valued(t)
<1>1. /\ Len(b) \in Nat /\ Len(t) \in Nat /\ Len(b \o t) = Len(b) + Len(t)
      /\ \A k \in 1 .. Len(b) : (b \o t)[k] = b[k]
      /\ \A k \in 1 .. Len(t) : (b \o t)[Len(b) + k] = t[k]
  OBVIOUS
<1>2. \A k \in 1 .. Len(b \o t) : k \in 1 .. Len(b) \/ k - Len(b) \in 1 .. Len(t)
  BY <1>1
<1>3. \A k \in 1 .. Len(b) : k \in 1 .. Len(b \o t)
  BY <1>1
<1>4. \A k \in 1 .. Len(t) : Len(b) + k \in 1 .. Len(b \o t)
  BY <1>1
<1>5. \A k \in 1 .. Len(b \o t) : k = Len(b) + (k - Len(b))
  BY <1>1
<1> QED
  BY <1>1, <1>2, <1>3, <1>4, <1>5 DEF Valued

\* What the pieces of an object hold.
LEMMA ValuedPieces ==
  /\ ~Valued(<< >>) /\ Valued(<<"values">>)
  /\ \A x \in Tokens \ {"values"} : ~Valued(<<x>>)
  BY DEF Valued

LEMMA ValuedOne ==
  ASSUME NEW b \in Seq(Tokens), NEW x \in Tokens
  PROVE  b \o <<x>> \in Seq(Tokens) /\ (Valued(b \o <<x>>) <=> Valued(b) \/ x = "values")
<1>1. <<x>> \in Seq(Tokens)
  OBVIOUS
<1>2. Valued(b \o <<x>>) <=> Valued(b) \/ Valued(<<x>>)
  BY <1>1, ValuedConcat
<1> QED
  BY <1>1, <1>2, ValuedPieces

LEMMA OpenValues == BodyInv /\ ValuesInv /\ Open => ValuesInv'
<1> SUFFICES ASSUME BodyInv, ValuesInv, Open PROVE ValuesInv'
  OBVIOUS
<1>1. /\ pc = "object" /\ i <= Len(answer) /\ i \in Nat \ {0}
      /\ pc' = IF RangeGiven THEN "field" ELSE "close"
      /\ body' = body \o <<"begin_object">> \o (IF include_series THEN <<answer[i]>> ELSE << >>)
      /\ text \in DOMAIN Answer /\ body \in Seq(Tokens) /\ RangeGiven' = RangeGiven
  BY DEF Open, BodyInv, Answering, Begun, parsed, times, RangeGiven
<1>2. CASE RangeGiven
  BY <1>1, <1>2 DEF ValuesInv, Sent
<1>3. CASE ~RangeGiven
  <2>1. answer[i] \in Tokens \ {"values"} /\ "begin_object" \in Tokens \ {"values"}
    <3>1. answer[i] \in Series
      BY <1>1, AnswerAssumption DEF answer
    <3> QED
      BY <3>1, PunctuationIsTokens, AnswerAssumption DEF Punctuation
  <2>2. PICK s : s = IF include_series THEN <<answer[i]>> ELSE << >>
    OBVIOUS
  <2>3. s \in Seq(Tokens) /\ ~Valued(s)
    BY <2>1, <2>2, ValuedPieces
  <2>4. PICK p : p = body \o <<"begin_object">>
    OBVIOUS
  <2>5. p \in Seq(Tokens) /\ (Valued(p) => Valued(body))
    BY <1>1, <2>1, <2>4, ValuedOne
  <2>6. body' = p \o s
    BY <1>1, <2>2, <2>4
  <2>7. Valued(body') => Valued(body)
    BY <2>3, <2>5, <2>6, ValuedConcat
  <2>8. ~Valued(body)
    BY <1>1, <1>3 DEF ValuesInv
  <2> QED
    BY <1>1, <1>3, <2>7, <2>8 DEF ValuesInv, Sent
<1> QED
  BY <1>2, <1>3

LEMMA FieldValues == BodyInv /\ ValuesInv /\ ValuesField => ValuesInv'
<1> SUFFICES ASSUME BodyInv, ValuesInv, ValuesField PROVE ValuesInv'
  OBVIOUS
<1>1. PICK tokens \in Simulated(answer[i]) :
        body' = body \o (IF include_series THEN <<"comma">> ELSE << >>) \o <<"values">> \o tokens
  BY DEF ValuesField, Values
<1>2. /\ pc = "field" /\ pc' = "close" /\ body \in Seq(Tokens) /\ RangeGiven' = RangeGiven
  BY DEF ValuesField, BodyInv, Answering, Begun, parsed, times, RangeGiven
<1>3. {"comma", "values", "array", "damaged"} \subseteq Tokens
  BY PunctuationIsTokens
<1>4. tokens \in Seq(Tokens)
  <2>1. tokens = << >> \/ \E t \in {"array", "damaged"} : tokens = <<t>>
    BY <1>1 DEF Simulated
  <2>2. CASE tokens = << >>
    BY <2>2
  <2>3. ASSUME NEW t \in {"array", "damaged"}, tokens = <<t>>
        PROVE  tokens \in Seq(Tokens)
    <3>1. t \in Tokens
      BY <1>3
    <3> QED
      BY <2>3, <3>1
  <2> QED
    BY <2>1, <2>2, <2>3
<1>5. PICK p : p = body \o (IF include_series THEN <<"comma">> ELSE << >>)
  OBVIOUS
<1>6. p \in Seq(Tokens)
  BY <1>2, <1>3, <1>5
<1>7. PICK q : q = p \o <<"values">>
  OBVIOUS
<1>8. q \in Seq(Tokens) /\ Valued(q)
  BY <1>3, <1>6, <1>7, ValuedOne
<1>9. Valued(body')
  BY <1>1, <1>4, <1>5, <1>7, <1>8, ValuedConcat
<1>10. RangeGiven
  BY <1>2 DEF ValuesInv
<1> QED
  BY <1>2, <1>9, <1>10 DEF ValuesInv, Sent

LEMMA CloseValues == BodyInv /\ ValuesInv /\ Close => ValuesInv'
<1> SUFFICES ASSUME BodyInv, ValuesInv, Close PROVE ValuesInv'
  OBVIOUS
<1>1. /\ pc = "close" /\ pc' = "object" /\ i \in Nat \ {0} /\ i' = i + 1
      /\ body' = body \o <<"end_object">> \o (IF i # Len(answer) THEN <<"comma">> ELSE << >>)
      /\ body \in Seq(Tokens) /\ RangeGiven' = RangeGiven
  BY DEF Close, BodyInv, Answering, Begun, parsed, times, RangeGiven
<1>2. {"end_object", "comma"} \subseteq Tokens \ {"values"}
  BY PunctuationIsTokens
<1>3. PICK s : s = IF i # Len(answer) THEN <<"comma">> ELSE << >>
  OBVIOUS
<1>4. s \in Seq(Tokens) /\ ~Valued(s)
  BY <1>2, <1>3, ValuedPieces
<1>5. PICK p : p = body \o <<"end_object">>
  OBVIOUS
<1>6. p \in Seq(Tokens) /\ (Valued(p) <=> Valued(body))
  BY <1>1, <1>2, <1>5, ValuedOne
<1>7. Valued(body') <=> Valued(body)
  <2>1. body' = p \o s
    BY <1>1, <1>3, <1>5
  <2> QED
    BY <1>4, <1>6, <2>1, ValuedConcat
<1>8. i' > 1
  BY <1>1
<1> QED
  BY <1>1, <1>7, <1>8 DEF ValuesInv, Sent

LEMMA NextValuesInv == BodyInv /\ ValuesInv /\ [Next]_vars => ValuesInv'
<1> SUFFICES ASSUME BodyInv, ValuesInv, [Next]_vars PROVE ValuesInv'
  OBVIOUS
<1>1. CASE Open \/ ValuesField \/ Close
  BY <1>1, OpenValues, FieldValues, CloseValues
<1>2. CASE Found
  <2>1. pc' = "object" /\ i' = 1 /\ body' = <<"begin_array">>
    BY <1>2 DEF Found, BodyInv
  <2>2. ~Valued(body')
    BY <2>1, PunctuationIsTokens, ValuedPieces
  <2> QED
    BY <2>1, <2>2 DEF ValuesInv, Sent
<1>3. CASE EndAnswer
  <2>1. /\ pc = "object" /\ pc' = "send" /\ i > Len(answer) /\ i \in Nat
        /\ text' = text /\ body' = Append(body, "end_array")
        /\ text \in DOMAIN Answer /\ body \in Seq(Tokens) /\ RangeGiven' = RangeGiven
    BY <1>3 DEF EndAnswer, BodyInv, Answering, Begun, parsed, times, RangeGiven
  <2>2. "end_array" \in Tokens \ {"values"}
    BY PunctuationIsTokens
  <2>3. Valued(body') <=> Valued(body)
    <3>1. body' = body \o <<"end_array">>
      BY <2>1, <2>2, Concatenated
    <3> QED
      BY <2>1, <2>2, <3>1, ValuedOne
  <2>4. answer # << >> => i > 1
    <3>1. answer \in Seq(Series)
      BY <2>1, AnswerAssumption DEF answer
    <3>2. answer # << >> => Len(answer) \in Nat /\ Len(answer) # 0
      BY <3>1
    <3> QED
      BY <2>1, <3>2
  <2> QED
    BY <2>1, <2>3, <2>4 DEF ValuesInv, Sent, answer
<1>4. CASE Send
  <2>1. /\ pc = "send" /\ pc' = "end" /\ text' = text /\ RangeGiven' = RangeGiven
        /\ body' # << >> => body' = body
    BY <1>4 DEF Send, Reply, parsed, times, RangeGiven
  <2> QED
    BY <2>1 DEF ValuesInv, answer
<1>5. CASE NoAnswer \/ UndefinedLookup
  <2>1. pc' \in {"send", "end"} /\ text' \notin DOMAIN Answer
    BY <1>5, TextsAssumption, NoTextAssumption DEF NoAnswer, UndefinedLookup, Reply, parsed
  <2> QED
    BY <2>1 DEF ValuesInv
<1>6. CASE \/ Decline \/ Summary \/ CopyFails \/ NoValue \/ DivideByZero \/ SimulationCrash
  <2>1. pc' = "end" /\ ~Sent'
    BY <1>6 DEF Decline, Summary, CopyFails, NoValue, DivideByZero, SimulationCrash, Reply,
                Sent, request
  <2> QED
    BY <2>1 DEF ValuesInv
<1>7. CASE UnknownName \/ Query \/ Number \/ QueryText \/ Info \/ Aggregate \/ EndArgs
  <2>1. pc' \in {"args", "lookup", "send"} /\ body' = << >>
    BY <1>7 DEF UnknownName, Query, Number, QueryText, Info, Aggregate, EndArgs, Reading, BodyInv
  <2> QED
    BY <2>1 DEF ValuesInv, Sent
<1>8. CASE UNCHANGED vars
  BY <1>8 DEF ValuesInv, Sent, RangeGiven, answer, vars, parsed, times, request
<1> QED
  BY <1>1, <1>2, <1>3, <1>4, <1>5, <1>6, <1>7, <1>8 DEF Next

\* The number of an argument that was read, and what it asks for.
LEMMA Asked ==
  ASSUME TimesInv, ReadInv, a = Len(args) + 1, NEW name \in {"start", "stop", "step"}, NEW v,
         Said(args, ReadOf(args, a, name), v), NEW min \in {0, 1}
  PROVE  v \in Int /\ (v >= min <=> AsksFor(name, min))
<1> DEFINE given == ReadOf(args, a, name)
           w == args[LastOf(given)].value
<1>1. args \in ArgLists /\ Len(args) \in Nat
  BY ArgumentsAssumption DEF ReadInv
<1>2. given = {k \in 1 .. Len(args) : args[k].name = name}
  <2>1. a - 1 = Len(args)
    BY <1>1
  <2> QED
    BY <2>1 DEF ReadOf
<1>3. CASE given = {}
  BY <1>2, <1>3 DEF Said, AsksFor
<1>4. CASE given # {}
  <2>1. LastOf(given) \in given
    BY <1>4 DEF ReadInv, ArgNames, Numbers
  <2>2. /\ LastOf(given) \in 1 .. Len(args) /\ LastOf(given) \in 1 .. a - 1
        /\ args[LastOf(given)].name \in Numbers
    BY <1>1, <1>2, <2>1 DEF Numbers
  <2>3. w \in Nat
    BY <1>1, <2>2, ArgumentsAssumption DEF ReadInv
  <2>4. v = Signed(w)
    BY <1>4 DEF Said
  <2>5. AsksFor(name, min) <=> min <= w /\ w < WORD64 \div 2
    BY <1>2, <1>4 DEF AsksFor
  <2> HIDE DEF w
  <2>6. v \in Int /\ (v >= min <=> min <= w /\ w < WORD64 \div 2)
    <3> DEFINE half == WORD64 \div 2
    <3>1. half \in Nat /\ WORD64 \in Nat /\ half <= WORD64 - 1
      BY WidthAssumption
    <3>2. v = IF w < WORD64
              THEN IF w < half THEN w ELSE w - WORD64
              ELSE IF WORD64 - 1 < half THEN WORD64 - 1 ELSE WORD64 - 1 - WORD64
      BY <2>4 DEF Signed
    <3> HIDE DEF half
    <3>3. v \in Int /\ (v >= min <=> min <= w /\ w < half)
      BY <2>3, <3>1, <3>2
    <3> QED
      BY <3>3 DEF half
  <2> QED
    BY <2>5, <2>6
<1> QED
  BY <1>3, <1>4

\* An answer that has series has values in them exactly if the last start,
\* stop and step of the request are numbers that an int64_t can hold.
THEOREM ValuesAsAskedHolds == Spec => []ValuesAsAsked
<1>1. TimesInv /\ EndInv /\ ReadInv /\ ValuesInv => ValuesAsAsked
  <2> SUFFICES ASSUME TimesInv, EndInv, ReadInv, ValuesInv, Sent, text \in DOMAIN Answer, answer # << >>
               PROVE  Valued(body) <=> AsksFor("start", 0) /\ AsksFor("stop", 1) /\ AsksFor("step", 0)
    BY DEF ValuesAsAsked, Valued
  <2>1. body # << >> /\ a = Len(args) + 1
    BY DEF EndInv, ReadInv
  <2>2. Valued(body) <=> RangeGiven
    BY <2>1 DEF ValuesInv
  <2>3. /\ start >= 0 <=> AsksFor("start", 0)
        /\ stop \in Int /\ (stop >= 1 <=> AsksFor("stop", 1))
        /\ step >= 0 <=> AsksFor("step", 0)
    BY <2>1, Asked DEF TimesInv
  <2>4. stop > 0 <=> stop >= 1
    BY <2>3
  <2> QED
    BY <2>2, <2>3, <2>4 DEF RangeGiven
<1>2. Init => EndInv /\ ValuesInv
  BY DEF Init, EndInv, ValuesInv, Sent
<1>3. Spec => [](TimesInv /\ BodyInv /\ EndInv /\ ReadInv /\ ValuesInv)
  BY <1>2, InitTimesInv, NextTimesInv, InitBodyInv, NextBodyInv, NextEndInv, InitReadInv,
     NextReadInv, NextValuesInv, PTL DEF Spec
<1> QED
  BY <1>1, <1>3, PTL

=============================================================================
