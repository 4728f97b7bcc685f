--------------------------- MODULE SpecText_proofs ---------------------------
(***************************************************************************)
(* For every text and every safety count: the parser keeps its types, does *)
(* not read beyond the NUL, and gives up for the safety count only on a    *)
(* text that is as long as the count.                                      *)
(***************************************************************************)
EXTENDS SpecText, TLAPS

\* The position stays in the buffer, and no token begins after it.
Positions ==
  /\ ~Stopped => pos <= buffer_end
  /\ state \in {"reading_label", "reading_value"} => token_start_pos <= pos

\* Every step the safety count has paid for took a character: the distance
\* covered is at least the number of steps.
Paid == ~Stopped => safety_count + pos >= SAFETY_COUNT + 1

IInv == TypeOK /\ Positions /\ Paid /\ SafetyIsEnough

-----------------------------------------------------------------------------
LEMMA Characters == OPEN # NUL /\ COMMA # NUL
  BY Zenon DEF OPEN, COMMA, NUL

\* What is not the NUL is a character of the text.
LEMMA NotNUL ==
  ASSUME NEW p \in Nat, Char(p) # NUL
  PROVE  p <= Len(text)
  BY DEF Char

\* A quote mark, in either form, lies in the text with all its characters.
LEMMA QuoteInText ==
  ASSUME NEW p \in Nat, AtQuote(p)
  PROVE  /\ QuoteLen(p) \in {1, 3}
         /\ Len(text) \in Nat => p + QuoteLen(p) <= buffer_end
<1>1. CASE Quote(p)
  <2>1. p <= Len(text)
    BY <1>1, NotNUL DEF Quote, NUL
  <2> QED
    BY <1>1, <2>1 DEF QuoteLen, buffer_end
<1>2. CASE ~Quote(p)
  <2>1. UrlQuote(p)
    BY <1>2 DEF AtQuote
  <2>2. Char(p + 2) # NUL /\ p + 2 \in Nat
    BY <2>1 DEF UrlQuote, NUL
  <2>3. p + 2 <= Len(text)
    BY <2>2, NotNUL
  <2> QED
    BY <1>2, <2>3 DEF QuoteLen, buffer_end
<1> QED
  BY <1>1, <1>2

-----------------------------------------------------------------------------
LEMMA InitIInv == Init => IInv
  BY TextsAssumption, SafetyAssumption
  DEF Init, IInv, TypeOK, Positions, Paid, SafetyIsEnough, Stopped, Spans, None, Span, buffer_end

\* A step paid for with one is covered by one character.
LEMMA PaidFor ==
  ASSUME NEW c \in Int, NEW d \in Int, NEW p \in Int, NEW q \in Int, NEW k \in Int,
         d = c - 1, q > p, c + p >= k + 1
  PROVE  d + q >= k + 1
  OBVIOUS

\* The conjuncts of IInv after a checked step that takes at least one
\* character and stays in the buffer.
LEMMA StepKeeps ==
  ASSUME IInv, Checked, TypeOK',
         pos' > pos, pos' <= buffer_end, why' = why,
         state' \in {"reading_label", "reading_value"} => token_start_pos' <= pos'
  PROVE  IInv'
<1>1. /\ pos \in Int /\ pos' \in Int /\ safety_count \in Int /\ safety_count' \in Int
      /\ safety_count' = safety_count - 1 /\ text' = text
  BY DEF IInv, TypeOK, Checked
<1>2. safety_count + pos >= SAFETY_COUNT + 1
  BY DEF IInv, Paid, Checked
<1>3. Positions'
  BY <1>1 DEF Positions, buffer_end
<1>4. Paid'
  <2>1. SAFETY_COUNT \in Int
    BY SafetyAssumption
  <2>2. safety_count' + pos' >= SAFETY_COUNT + 1
    BY <1>1, <1>2, <2>1, PaidFor
  <2> QED
    BY <2>2 DEF Paid
<1>5. SafetyIsEnough'
  BY <1>1 DEF IInv, SafetyIsEnough
<1> QED
  BY <1>3, <1>4, <1>5 DEF IInv

LEMMA NextIInv == IInv /\ [Next]_vars => IInv'
<1> SUFFICES ASSUME IInv, [Next]_vars PROVE IInv'
  OBVIOUS
<1>0. /\ TypeOK /\ Len(text) \in Nat /\ pos \in Nat /\ token_start_pos \in Nat
      /\ safety_count \in Int
  BY DEF IInv, TypeOK
<1>1. CASE Overflow
  <2>1. TypeOK'
    BY <1>0, <1>1 DEF Overflow, TypeOK
  <2>2. pos <= buffer_end /\ safety_count - 1 <= 0
    BY <1>0, <1>1 DEF Overflow, IInv, Positions, buffer_end
  <2>3. SAFETY_COUNT <= Len(text) + 2
    BY <1>0, <1>1, <2>2, SafetyAssumption DEF Overflow, IInv, Paid, buffer_end
  <2> QED
    BY <1>0, <1>1, <2>1, <2>3, SafetyAssumption
    DEF Overflow, IInv, Positions, Paid, SafetyIsEnough, Stopped
<1>2. CASE Unexpected
  <2>1. TypeOK'
    BY <1>0, <1>2 DEF Unexpected, Checked, TypeOK
  <2> QED
    BY <1>0, <1>2, <2>1
    DEF Unexpected, Checked, IInv, Positions, Paid, SafetyIsEnough, Stopped
<1>3. CASE BeginLabel
  <2>0. /\ Checked /\ pos' = pos + 1 /\ token_start_pos' = pos + 1
        /\ state' = "reading_label" /\ UNCHANGED <<key, result, why>>
    BY <1>3, Zenon DEF BeginLabel
  <2>1. TypeOK'
    BY <1>0, <2>0 DEF Checked, TypeOK
  <2>2. Char(pos) # NUL
    BY <1>3, Characters, Zenon DEF BeginLabel
  <2>3. pos <= Len(text)
    BY <1>0, <2>2, NotNUL
  <2> QED
    BY <1>0, <2>0, <2>1, <2>3, StepKeeps DEF buffer_end
<1>4. CASE NameChar
  <2>1. TypeOK'
    BY <1>0, <1>4 DEF NameChar, Checked, TypeOK
  <2>2. Char(pos) # NUL
    BY <1>4 DEF NameChar, NameChars, NUL
  <2>3. pos <= Len(text)
    BY <1>0, <2>2, NotNUL
  <2>4. token_start_pos' <= pos'
    BY <1>0, <1>4 DEF NameChar, IInv, Positions
  <2> QED
    BY <1>0, <1>4, <2>1, <2>3, <2>4, StepKeeps DEF NameChar, buffer_end
<1>5. CASE EndLabel
  <2>1. token_start_pos <= pos
    BY <1>5 DEF EndLabel, IInv, Positions
  <2>2. Span(token_start_pos, pos - token_start_pos) \in Spans
    BY <1>0, <2>1 DEF Span, Spans
  <2>3. TypeOK'
    BY <1>0, <1>5, <2>2 DEF EndLabel, Checked, TypeOK
  <2>4. Char(pos) # NUL
    BY <1>5 DEF EndLabel, NUL
  <2>5. pos <= Len(text)
    BY <1>0, <2>4, NotNUL
  <2> QED
    BY <1>0, <1>5, <2>3, <2>5, StepKeeps DEF EndLabel, buffer_end
<1>6. CASE OpenQuote
  <2>1. QuoteLen(pos) \in {1, 3} /\ pos + QuoteLen(pos) <= buffer_end
    BY <1>0, <1>6, QuoteInText DEF OpenQuote
  <2>2. TypeOK'
    BY <1>0, <1>6, <2>1 DEF OpenQuote, Checked, TypeOK
  <2> QED
    BY <1>0, <1>6, <2>1, <2>2, StepKeeps DEF OpenQuote
<1>7. CASE CloseQuote
  <2>1. QuoteLen(pos) \in {1, 3} /\ pos + QuoteLen(pos) <= buffer_end
    BY <1>0, <1>7, QuoteInText DEF CloseQuote
  <2>2. token_start_pos <= pos
    BY <1>7 DEF CloseQuote, IInv, Positions
  <2>3. Span(token_start_pos, pos - token_start_pos) \in Spans
    BY <1>0, <2>2 DEF Span, Spans
  <2>4. result' \in Seq([key : Spans, value : Spans])
    BY <1>0, <1>7, <2>3 DEF CloseQuote, TypeOK
  <2>5. TypeOK'
    BY <1>0, <1>7, <2>1, <2>4 DEF CloseQuote, Checked, TypeOK
  <2> QED
    BY <1>0, <1>7, <2>1, <2>5, StepKeeps DEF CloseQuote
<1>8. CASE CloseBrace
  <2>0. /\ Checked /\ pos' = pos + 1
        /\ state' = "completed" /\ UNCHANGED <<token_start_pos, key, result, why>>
    BY <1>8, Zenon DEF CloseBrace
  <2>1. TypeOK'
    BY <1>0, <2>0 DEF Checked, TypeOK
  <2> QED
    BY <1>0, <2>0, <2>1
    DEF Checked, IInv, Positions, Paid, SafetyIsEnough, Stopped
<1>9. CASE UNCHANGED vars
  BY <1>9
  DEF vars, IInv, TypeOK, Positions, Paid, SafetyIsEnough, Stopped, buffer_end
<1> QED
  BY <1>1, <1>2, <1>3, <1>4, <1>5, <1>6, <1>7, <1>8, <1>9 DEF Next

-----------------------------------------------------------------------------
(* What has been read so far, in terms of the text alone.                  *)

At(t, p) == IF p <= Len(t) THEN t[p] ELSE NUL
UrlQuoteAt(t, p) == At(t, p) = "%" /\ At(t, p + 1) = "2" /\ At(t, p + 2) = "7"
QuoteAt(t, p) == At(t, p) = "'" \/ UrlQuoteAt(t, p)
QuoteLenAt(t, p) == IF At(t, p) = "'" THEN 1 ELSE 3

\* Characters of names from p up to but not at q.
Run(t, p, q) == \A x \in p .. q - 1 : x <= Len(t) /\ t[x] \in NameChars

\* A label, with the colon behind it.
LabelRead(t, label) ==
  /\ label.from > 1
  /\ Run(t, label.from, After(label)) /\ At(t, After(label)) = ":"

\* Where the value of a label begins, if a quote mark follows the colon.
ValueStart(t, label) == After(label) + 1 + QuoteLenAt(t, After(label) + 1)

\* A label and its value between quote marks.
ElementRead(t, e) ==
  /\ LabelRead(t, e.key) /\ QuoteAt(t, After(e.key) + 1)
  /\ e.value.from = ValueStart(t, e.key)
  /\ Run(t, e.value.from, After(e.value)) /\ QuoteAt(t, After(e.value))

EndOf(t, e) == After(e.value) + QuoteLenAt(t, After(e.value))

\* The comma or the opening brace that element k stands behind, and its place.
Opener(k) == IF k = 1 THEN OPEN ELSE COMMA
Place(t, r, k) == IF k = 1 THEN 2 ELSE EndOf(t, r[k - 1]) + 1

AllRead(t, r) ==
  \A k \in 1 .. Len(r) : /\ ElementRead(t, r[k])
                         /\ r[k].key.from = Place(t, r, k)
                         /\ At(t, r[k].key.from - 1) = Opener(k)

\* p is where the next label stands.
NextPlace(t, r, p) == p = Place(t, r, Len(r) + 1) /\ At(t, p - 1) = Opener(Len(r) + 1)

\* The token that is being read, and the label that waits for its value.
Progress ==
  /\ state = "start" => pos = 1 /\ Len(result) = 0
  /\ state = "reading_label" =>
       /\ token_start_pos > 1 /\ token_start_pos <= pos
       /\ NextPlace(text, result, token_start_pos) /\ Run(text, token_start_pos, pos)
  /\ state = "reading_open_quote" =>
       /\ NextPlace(text, result, key.from) /\ LabelRead(text, key) /\ pos = After(key) + 1
  /\ state = "reading_value" =>
       /\ NextPlace(text, result, key.from) /\ LabelRead(text, key)
       /\ QuoteAt(text, After(key) + 1) /\ token_start_pos = ValueStart(text, key)
       /\ token_start_pos <= pos /\ Run(text, token_start_pos, pos)
  /\ state = "reading_comma_or_end" =>
       Len(result) > 0 /\ pos = EndOf(text, result[Len(result)])
  /\ state = "completed" =>
       /\ Len(result) > 0 /\ pos = EndOf(text, result[Len(result)]) + 1
       /\ At(text, pos - 1) = CLOSE

\* Up to the position, the text is the elements that were read.
ReadInv == state # "error" => AllRead(text, result) /\ Progress

LEMMA CharIsAt ==
  /\ \A p : Char(p) = At(text, p)
  /\ \A p : AtQuote(p) => QuoteAt(text, p)
  /\ \A p : QuoteAt(text, p) => AtQuote(p)
  /\ \A p : QuoteLen(p) = QuoteLenAt(text, p)
  BY DEF Char, At, AtQuote, Quote, UrlQuote, QuoteAt, UrlQuoteAt, QuoteLen, QuoteLenAt

LEMMA EmptyRun == \A t : \A p \in Nat : Run(t, p, p)
  BY DEF Run

LEMMA RunGrows ==
  ASSUME NEW t \in Seq(Alphabet), NEW p \in Nat, NEW q \in Nat \ {0}, Run(t, p, q),
         At(t, q) \in NameChars
  PROVE  Run(t, p, q + 1)
<1>1. q <= Len(t) /\ t[q] \in NameChars
  BY DEF At, NameChars, NUL
<1>2. \A x \in p .. q + 1 - 1 : x \in p .. q - 1 \/ x = q
  OBVIOUS
<1> QED
  BY <1>1, <1>2 DEF Run

\* A span that was read from ts up to p ends at p.
LEMMA SpanEnds ==
  ASSUME NEW ts \in Nat, NEW p \in Nat, ts <= p
  PROVE  LET s == Span(ts, p - ts) IN s \in Spans /\ s.from = ts /\ After(s) = p
  BY DEF Span, Spans, After

LEMMA MemberIsTyped == \A S : \A s \in Seq(S) : \A k \in 1 .. Len(s) : s[k] \in S
  OBVIOUS

LEMMA AfterIsNat ==
  ASSUME NEW s \in Spans
  PROVE  s.from \in Nat /\ After(s) \in Nat
  BY DEF Spans, After

\* One more element in its place.
LEMMA OneMore ==
  ASSUME NEW t, NEW r \in Seq([key : Spans, value : Spans]), AllRead(t, r),
         NEW e \in [key : Spans, value : Spans], ElementRead(t, e), NextPlace(t, r, e.key.from)
  PROVE  /\ AllRead(t, Append(r, e)) /\ Len(Append(r, e)) = Len(r) + 1
         /\ Append(r, e)[Len(r) + 1] = e
<1> DEFINE q == Append(r, e)
           n == Len(r) + 1
<1>1. Len(r) \in Nat /\ Len(q) = n /\ q[n] = e /\ \A k \in 1 .. Len(r) : q[k] = r[k]
  OBVIOUS
<1> HIDE DEF q
<1>2. \A k \in 1 .. n : k = 1 \/ k - 1 \in 1 .. Len(r)
  BY <1>1
<1>3. \A k \in 1 .. n : Place(t, q, k) = Place(t, r, k)
  BY <1>1, <1>2 DEF Place
<1>4. \A k \in 1 .. n : k \in 1 .. Len(r) \/ k = n
  BY <1>1
<1>5. ElementRead(t, q[n]) /\ q[n].key.from = Place(t, r, n) /\ At(t, q[n].key.from - 1) = Opener(n)
  BY <1>1 DEF NextPlace
<1>6. \A k \in 1 .. Len(r) :
        /\ ElementRead(t, q[k]) /\ q[k].key.from = Place(t, r, k)
        /\ At(t, q[k].key.from - 1) = Opener(k)
  BY <1>1 DEF AllRead
<1>7. AllRead(t, q)
  BY <1>1, <1>3, <1>4, <1>5, <1>6 DEF AllRead
<1> QED
  BY <1>1, <1>7 DEF q

LEMMA InitReadInv == Init => ReadInv
<1> SUFFICES ASSUME Init PROVE ReadInv
  OBVIOUS
<1>1. state = "start" /\ pos = 1 /\ Len(result) = 0
  BY DEF Init
<1> QED
  BY <1>1 DEF ReadInv, AllRead, Progress

\* What the invariants say before a step.
LEMMA Before ==
  ASSUME IInv, ReadInv, Checked
  PROVE  /\ text \in Seq(Alphabet) /\ pos \in Nat \ {0} /\ token_start_pos \in Nat
         /\ key \in Spans /\ result \in Seq([key : Spans, value : Spans])
         /\ text' = text /\ state \notin {"completed", "error"}
         /\ AllRead(text, result) /\ Progress
  BY DEF IInv, TypeOK, ReadInv, Checked, Stopped

LEMMA NextReadInv == IInv /\ ReadInv /\ [Next]_vars => ReadInv'
<1> SUFFICES ASSUME IInv, ReadInv, [Next]_vars PROVE ReadInv'
  OBVIOUS
<1>1. CASE Overflow \/ Unexpected
  BY <1>1 DEF Overflow, Unexpected, ReadInv
<1>2. CASE BeginLabel
  <2>1. /\ Checked /\ pos' = pos + 1 /\ token_start_pos' = pos + 1 /\ state' = "reading_label"
        /\ key' = key /\ result' = result
    BY <1>2, Zenon DEF BeginLabel
  <2>2. /\ text \in Seq(Alphabet) /\ pos \in Nat \ {0} /\ Len(result) \in Nat
        /\ text' = text /\ AllRead(text, result) /\ Progress
    BY <2>1, Before
  <2>3. NextPlace(text, result, pos + 1)
    <3>1. CASE state = "start" /\ Char(pos) = OPEN
      <4>1. pos = 1 /\ Len(result) = 0
        BY <2>2, <3>1 DEF Progress
      <4>2. Len(result) + 1 = 1 /\ pos + 1 = 2 /\ (pos + 1) - 1 = pos
        BY <4>1
      <4>3. Place(text, result, Len(result) + 1) = pos + 1
        BY <4>2 DEF Place
      <4>4. Opener(Len(result) + 1) = OPEN
        BY <4>2 DEF Opener
      <4>5. At(text, (pos + 1) - 1) = OPEN
        BY <3>1, <4>2, CharIsAt
      <4> QED
        BY <4>3, <4>4, <4>5, Zenon DEF NextPlace
    <3>2. CASE state = "reading_comma_or_end" /\ Char(pos) = COMMA
      <4>1. Len(result) > 0 /\ pos = EndOf(text, result[Len(result)])
        BY <2>2, <3>2 DEF Progress
      <4>2. Len(result) + 1 # 1 /\ Len(result) + 1 - 1 = Len(result) /\ (pos + 1) - 1 = pos
        BY <2>2, <4>1
      <4>3. Place(text, result, Len(result) + 1) = pos + 1
        BY <4>1, <4>2 DEF Place
      <4>4. Opener(Len(result) + 1) = COMMA
        BY <4>2 DEF Opener
      <4>5. At(text, (pos + 1) - 1) = COMMA
        BY <3>2, <4>2, CharIsAt
      <4> QED
        BY <4>3, <4>4, <4>5, Zenon DEF NextPlace
    <3> QED
      BY <1>2, <3>1, <3>2, Zenon DEF BeginLabel
  <2>4. Run(text, pos + 1, pos + 1) /\ pos + 1 > 1 /\ pos + 1 <= pos + 1
    BY <2>2, EmptyRun
  <2> QED
    BY <2>1, <2>2, <2>3, <2>4 DEF ReadInv, Progress
<1>3. CASE NameChar
  <2>1. /\ Checked /\ state \in {"reading_label", "reading_value"} /\ Char(pos) \in NameChars
        /\ pos' = pos + 1 /\ state' = state /\ token_start_pos' = token_start_pos
        /\ key' = key /\ result' = result
    BY <1>3 DEF NameChar
  <2>2. /\ text \in Seq(Alphabet) /\ pos \in Nat \ {0} /\ token_start_pos \in Nat
        /\ text' = text /\ AllRead(text, result) /\ Progress
    BY <2>1, Before
  <2>3. Run(text, token_start_pos, pos) /\ token_start_pos <= pos
    BY <2>1, <2>2 DEF Progress
  <2>4. Run(text, token_start_pos, pos + 1) /\ token_start_pos <= pos + 1
    BY <2>1, <2>2, <2>3, CharIsAt, RunGrows
  <2> QED
    BY <2>1, <2>2, <2>4 DEF ReadInv, Progress
<1>4. CASE EndLabel
  <2>1. /\ Checked /\ state = "reading_label" /\ Char(pos) = ":"
        /\ key' = Span(token_start_pos, pos - token_start_pos) /\ pos' = pos + 1
        /\ state' = "reading_open_quote" /\ result' = result
    BY <1>4 DEF EndLabel
  <2>2. /\ pos \in Nat \ {0} /\ token_start_pos \in Nat
        /\ text' = text /\ AllRead(text, result) /\ Progress
    BY <2>1, Before
  <2>3. /\ token_start_pos > 1 /\ token_start_pos <= pos
        /\ NextPlace(text, result, token_start_pos) /\ Run(text, token_start_pos, pos)
    BY <2>1, <2>2 DEF Progress
  <2>4. key'.from = token_start_pos /\ After(key') = pos
    BY <2>1, <2>2, <2>3, SpanEnds
  <2>5. LabelRead(text, key')
    BY <2>1, <2>3, <2>4, CharIsAt DEF LabelRead
  <2>6. NextPlace(text, result, key'.from)
    BY <2>3, <2>4
  <2>7. pos' = After(key') + 1
    BY <2>1, <2>4
  <2> QED
    BY <2>1, <2>2, <2>5, <2>6, <2>7 DEF ReadInv, Progress
<1>5. CASE OpenQuote
  <2>1. /\ Checked /\ state = "reading_open_quote" /\ AtQuote(pos)
        /\ pos' = pos + QuoteLen(pos) /\ token_start_pos' = pos + QuoteLen(pos)
        /\ state' = "reading_value" /\ key' = key /\ result' = result
    BY <1>5 DEF OpenQuote
  <2>2. /\ pos \in Nat \ {0} /\ text' = text /\ AllRead(text, result) /\ Progress
    BY <2>1, Before
  <2>3. /\ NextPlace(text, result, key.from) /\ LabelRead(text, key) /\ pos = After(key) + 1
    BY <2>1, <2>2 DEF Progress
  <2>4. PICK v : v = pos + QuoteLen(pos)
    OBVIOUS
  <2>5. v \in Nat /\ v = ValueStart(text, key)
    <3>1. QuoteLen(pos) \in {1, 3}
      BY DEF QuoteLen
    <3> QED
      BY <2>2, <2>3, <2>4, <3>1, CharIsAt DEF ValueStart
  <2>6. Run(text, v, v) /\ v <= v
    BY <2>5, EmptyRun
  <2>7. QuoteAt(text, After(key) + 1)
    BY <2>1, <2>3, CharIsAt
  <2> QED
    BY <2>1, <2>2, <2>3, <2>4, <2>5, <2>6, <2>7 DEF ReadInv, Progress
<1>6. CASE CloseQuote
  <2>0. PICK e : e = [key |-> key, value |-> Span(token_start_pos, pos - token_start_pos)]
    OBVIOUS
  <2>1. /\ Checked /\ state = "reading_value" /\ AtQuote(pos)
        /\ result' = Append(result, e) /\ pos' = pos + QuoteLen(pos)
        /\ state' = "reading_comma_or_end" /\ key' = key
    BY <1>6, <2>0 DEF CloseQuote
  <2>2. /\ pos \in Nat \ {0} /\ token_start_pos \in Nat /\ key \in Spans
        /\ result \in Seq([key : Spans, value : Spans])
        /\ text' = text /\ AllRead(text, result) /\ Progress
    BY <2>1, Before
  <2>3. /\ NextPlace(text, result, key.from) /\ LabelRead(text, key)
        /\ QuoteAt(text, After(key) + 1) /\ token_start_pos = ValueStart(text, key)
        /\ token_start_pos <= pos /\ Run(text, token_start_pos, pos)
    BY <2>1, <2>2 DEF Progress
  <2>4. /\ e \in [key : Spans, value : Spans] /\ e.key = key
        /\ e.value.from = token_start_pos /\ After(e.value) = pos
    BY <2>0, <2>2, <2>3, SpanEnds
  <2>5. QuoteAt(text, pos)
    BY <2>1, CharIsAt
  <2>6. ElementRead(text, e)
    BY <2>3, <2>4, <2>5 DEF ElementRead
  <2>7. /\ AllRead(text, Append(result, e)) /\ Len(Append(result, e)) = Len(result) + 1
        /\ Append(result, e)[Len(result) + 1] = e
    BY <2>2, <2>3, <2>4, <2>6, OneMore
  <2>8. pos' = EndOf(text, e)
    BY <2>1, <2>4, CharIsAt DEF EndOf
  <2>9. Len(result) + 1 > 0
    BY <2>2
  <2>10. Len(result') > 0 /\ pos' = EndOf(text, result'[Len(result')])
    BY <2>1, <2>7, <2>8, <2>9
  <2> QED
    BY <2>1, <2>2, <2>7, <2>10 DEF ReadInv, Progress
<1>7. CASE CloseBrace
  <2>1. /\ Checked /\ state = "reading_comma_or_end" /\ Char(pos) = CLOSE
        /\ pos' = pos + 1 /\ state' = "completed" /\ key' = key /\ result' = result
    BY <1>7 DEF CloseBrace
  <2>2. /\ pos \in Nat \ {0} /\ text' = text /\ AllRead(text, result) /\ Progress
    BY <2>1, Before
  <2>3. Len(result) > 0 /\ pos = EndOf(text, result[Len(result)])
    BY <2>1, <2>2 DEF Progress
  <2>4. pos' - 1 = pos
    BY <2>1, <2>2
  <2> QED
    BY <2>1, <2>2, <2>3, <2>4, CharIsAt DEF ReadInv, Progress
<1>8. CASE UNCHANGED vars
  BY <1>8 DEF vars, ReadInv, Progress
<1> QED
  BY <1>1, <1>2, <1>3, <1>4, <1>5, <1>6, <1>7, <1>8 DEF Next

-----------------------------------------------------------------------------
\* The inductive invariant holds of every reachable state.
THEOREM Invariance == Spec => []IInv
  BY InitIInv, NextIInv, PTL DEF Spec

\* The types of the parser's variables: no span has a negative length.
THEOREM TypeCorrect == Spec => []TypeOK
<1>1. IInv => TypeOK
  BY DEF IInv
<1> QED
  BY <1>1, Invariance, PTL

\* OVERFLOW_CHECK refuses no text that is shorter than its count, whatever
\* the text says: every state takes a character or ends the parse.
THEOREM SafetyIsEnoughHolds == Spec => []SafetyIsEnough
<1>1. IInv => SafetyIsEnough
  BY DEF IInv
<1> QED
  BY <1>1, Invariance, PTL

\* The parser neither moves nor looks beyond the NUL: what it takes after a
\* quote mark, in either form, it has seen to be in the text.
THEOREM InBufferHolds == Spec => []InBuffer
<1>1. IInv => InBuffer
  <2> SUFFICES ASSUME IInv, ~Stopped
               PROVE  LastRead <= buffer_end
    BY DEF InBuffer
  <2>0. pos \in Nat /\ Len(text) \in Nat /\ pos <= buffer_end
    BY DEF IInv, TypeOK, Positions
  <2>1. CASE Char(pos) # "%"
    BY <2>0, <2>1 DEF LastRead, buffer_end
  <2>2. CASE Char(pos) = "%" /\ Char(pos + 1) # "2"
    <3>1. pos <= Len(text)
      BY <2>0, <2>2, NotNUL DEF NUL
    <3> QED
      BY <2>0, <2>2, <3>1 DEF LastRead, buffer_end
  <2>3. CASE Char(pos) = "%" /\ Char(pos + 1) = "2"
    <3>1. pos + 1 <= Len(text)
      BY <2>0, <2>3, NotNUL DEF NUL
    <3> QED
      BY <2>0, <2>3, <3>1 DEF LastRead, buffer_end
  <2> QED
    BY <2>1, <2>2, <2>3
<1> QED
  BY <1>1, Invariance, PTL

\* An accepted set spec is its elements from the opening brace to the closing
\* one, in the order of the text, and nothing is left out between them.
THEOREM SpansExactHolds == Spec => []SpansExact
<1>1. IInv /\ ReadInv => SpansExact
  <2> SUFFICES ASSUME IInv, ReadInv, state = "completed"
               PROVE  /\ Len(result) > 0
                      /\ result[1].key.from = 2
                      /\ \A k \in 1 .. Len(result) : Delimited(k)
                      /\ \A k \in 2 .. Len(result) : result[k].key.from = End(k - 1) + 1
                      /\ Char(End(Len(result))) = CLOSE /\ pos = End(Len(result)) + 1
    BY DEF SpansExact
  <2>1. /\ AllRead(text, result) /\ Len(result) > 0 /\ Len(result) \in Nat
        /\ pos = EndOf(text, result[Len(result)]) + 1 /\ At(text, pos - 1) = CLOSE
        /\ result \in Seq([key : Spans, value : Spans])
    BY DEF ReadInv, Progress, IInv, TypeOK
  <2>2. \A k \in 1 .. Len(result) : End(k) = EndOf(text, result[k])
    BY CharIsAt DEF End, EndOf
  <2>3. \A k \in 1 .. Len(result) : /\ ElementRead(text, result[k])
                                    /\ result[k].key.from = Place(text, result, k)
                                    /\ At(text, result[k].key.from - 1) = Opener(k)
    BY <2>1 DEF AllRead
  <2>4. result[1].key.from = 2
    BY <2>1, <2>3 DEF Place
  <2>5. \A k \in 2 .. Len(result) : result[k].key.from = End(k - 1) + 1
    <3> TAKE k \in 2 .. Len(result)
    <3>1. k \in 1 .. Len(result) /\ k # 1 /\ k - 1 \in 1 .. Len(result)
      BY <2>1
    <3> QED
      BY <2>2, <2>3, <3>1 DEF Place
  <2>6. ASSUME NEW k \in 1 .. Len(result)
        PROVE  Delimited(k)
    <3> DEFINE e == result[k]
    <3>0. result[k] \in [key : Spans, value : Spans]
      BY <2>1, MemberIsTyped, Zenon
    <3>1. e.key \in Spans /\ e.value \in Spans
      BY <3>0
    <3>2. \A span \in Spans : Run(text, span.from, After(span)) => AllNameChars(span)
      BY DEF Run, AllNameChars, After, Spans
    <3>3. /\ LabelRead(text, e.key) /\ QuoteAt(text, After(e.key) + 1)
          /\ e.value.from = ValueStart(text, e.key)
          /\ Run(text, e.value.from, After(e.value)) /\ QuoteAt(text, After(e.value))
      BY <2>3 DEF ElementRead
    <3>4. e.key.from > 1 /\ AllNameChars(e.key) /\ Char(After(e.key)) = ":"
      BY <3>1, <3>2, <3>3, CharIsAt DEF LabelRead
    <3>5. Char(e.key.from - 1) = IF k = 1 THEN OPEN ELSE COMMA
      BY <2>3, CharIsAt DEF Opener
    <3>6. /\ AtQuote(After(e.key) + 1)
          /\ e.value.from = After(e.key) + 1 + QuoteLen(After(e.key) + 1)
      BY <3>3, CharIsAt DEF ValueStart
    <3>7. AllNameChars(e.value) /\ AtQuote(After(e.value))
      BY <3>1, <3>2, <3>3, CharIsAt
    <3> HIDE DEF e
    <3> QED
      BY <3>4, <3>5, <3>6, <3>7 DEF Delimited, e
  <2>7. Char(End(Len(result))) = CLOSE /\ pos = End(Len(result)) + 1
    <3>1. pos \in Nat \ {0} /\ Len(result) \in 1 .. Len(result)
      BY <2>1 DEF IInv, TypeOK
    <3>2. pos = End(Len(result)) + 1
      BY <2>1, <2>2, <3>1
    <3>3. pos - 1 = End(Len(result))
      <4>1. EndOf(text, result[Len(result)]) \in Nat
        <5>0. result[Len(result)] \in [key : Spans, value : Spans]
          BY <2>1, <3>1, MemberIsTyped, Zenon
        <5>1. result[Len(result)].value \in Spans
          BY <5>0
        <5> QED
          BY <5>1, AfterIsNat DEF EndOf, QuoteLenAt
      <4> QED
        BY <2>2, <3>1, <3>2, <4>1
    <3> QED
      BY <2>1, <3>2, <3>3, CharIsAt
  <2> QED
    BY <2>1, <2>4, <2>5, <2>6, <2>7
<1>2. Spec => []ReadInv
  BY Invariance, InitReadInv, NextReadInv, PTL DEF Spec
<1> QED
  BY <1>1, <1>2, Invariance, PTL

=============================================================================
