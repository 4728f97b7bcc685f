------------------------ MODULE ExpositionText_proofs ------------------------
(***************************************************************************)
(* For every text and every safety count: a text that is accepted was read *)
(* to its end and has given one series for each line that begins with a    *)
(* name, metric first, with exactly the names between the punctuation; and *)
(* the parser gives up for the safety count only on a text that is half as *)
(* long as the count.                                                      *)
(***************************************************************************)
EXTENDS ExpositionText, FunctionTheorems, FiniteSetTheorems, TLAPS

States == {"new_line", "whitespace_line", "reading_comment", "reading_metric",
           "after_metric_whitespace", "before_label_whitespace", "reading_label",
           "after_label_whitespace", "before_label_value_whitespace",
           "before_label_value_quote", "reading_label_value",
           "after_label_value_whitespace", "after_identity", "completed", "error"}

Spans == [from : Nat, len : Nat]
Pairs == [key : Spans, value : Spans]

TypeOK ==
  /\ text \in Seq(Alphabet)
  /\ state \in States
  /\ pos \in Nat \ {0} /\ token_start_pos \in Nat
  /\ tmp_token \in Spans
  /\ result \in Seq(Seq(Pairs))
  /\ safety_count \in Int
  /\ why \in {"none", "format", "safety"}

-----------------------------------------------------------------------------
(* What a text says of a series, without the parser's state.               *)

At(t, p) == IF p <= Len(t) THEN t[p] ELSE NUL

\* Names only, and no end of line, from p up to but not at q.
Run(t, p, q) == \A x \in p .. q - 1 : x <= Len(t) /\ t[x] \in Name
Clean(t, p, q) == \A x \in p .. q - 1 : At(t, x) \notin NL

After(span) == span.from + span.len
NameSpan(t, span) == Run(t, span.from, After(span))

\* Where the last value of a series ends.
EndOf(s) == After(s[Len(s)].value)

\* Pair p is a label after the pair before it, and a value between quotes.
PairExact(t, s, p) ==
  /\ s[p].key.from > 0
  /\ At(t, s[p].value.from - 1) = QUOTE /\ At(t, After(s[p].value)) = QUOTE
  /\ After(s[p - 1].value) < s[p].key.from
  /\ After(s[p].key) < s[p].value.from - 1

Exact(t, s) ==
  /\ Len(s) > 0
  /\ s[1].key = Metric /\ s[1].value.from > 0 /\ s[1].value.len > 0
  /\ \A p \in 1 .. Len(s) : NameSpan(t, s[p].key) /\ NameSpan(t, s[p].value)
  /\ \A p \in 2 .. Len(s) : PairExact(t, s, p)
  /\ Clean(t, s[1].value.from, EndOf(s) + 1)

\* All series of r are exact but the last while its metric is being read.
AllExact(t, r, st) ==
  /\ st = "reading_metric" => Len(r) > 0 /\ r[Len(r)] = << >>
  /\ \A k \in 1 .. Len(r) : k < Len(r) \/ st # "reading_metric" => Exact(t, r[k])

\* Where series k begins; one whose metric is being read begins with the token.
FirstOf(r, st, ts, k) ==
  IF st = "reading_metric" /\ k = Len(r) THEN ts ELSE r[k][1].value.from

LineBegin(t, p) == p = 1 \/ t[p - 1] \in NL
IsStart(t, p) == p <= Len(t) /\ t[p] \in Name /\ LineBegin(t, p)

\* The series of r, in order, are those that begin before p.
StartsOf(t, p, r, st, ts) ==
  /\ \A k \in 1 .. Len(r) : /\ FirstOf(r, st, ts, k) \in 1 .. p - 1
                            /\ IsStart(t, FirstOf(r, st, ts, k))
  /\ \A x \in 1 .. p - 1 : IsStart(t, x) => \E k \in 1 .. Len(r) : FirstOf(r, st, ts, k) = x
  /\ \A k, l \in 1 .. Len(r) : k < l => FirstOf(r, st, ts, k) < FirstOf(r, st, ts, l)

-----------------------------------------------------------------------------
(* The inductive invariant.                                                *)

Last == result[Len(result)]

Between == {"after_metric_whitespace", "before_label_whitespace", "after_label_value_whitespace"}
WithKey == {"after_label_whitespace", "before_label_value_whitespace", "before_label_value_quote"}
Inside == Between \cup WithKey \cup {"reading_label", "reading_label_value"}

\* The states entered without taking a character.
Owing == {"reading_label", "before_label_value_quote"}

Positions ==
  /\ ~Stopped => pos <= buffer_end
  /\ state = "completed" => pos = buffer_end

\* Every character pays for two steps, and at most one is owed.
Paid ==
  ~Stopped => safety_count + 2 * pos + (IF state \in Owing THEN 1 ELSE 0) >= SAFETY_COUNT + 2

AtLineStart == ~Stopped => (state = "new_line" <=> LineBegin(text, pos))

StartsInv == state # "error" => StartsOf(text, pos, result, state, token_start_pos)

SeriesInv == state # "error" => AllExact(text, result, state)

\* The token that is being read, up to pos.
TokenInv ==
  state \in {"reading_metric", "reading_label", "reading_label_value"} =>
    /\ 0 < token_start_pos /\ token_start_pos <= pos /\ Run(text, token_start_pos, pos)
    /\ state = "reading_metric" => token_start_pos < pos

\* The place of what was read last in the line of its series.
KeyOK == EndOf(Last) < tmp_token.from /\ NameSpan(text, tmp_token)

LineInv ==
  /\ state \in Inside => Len(result) > 0 /\ Clean(text, Last[1].value.from, pos)
  /\ state \in Between => EndOf(Last) < pos
  /\ state = "reading_label" => EndOf(Last) < token_start_pos
  /\ state \in WithKey => KeyOK /\ After(tmp_token) < pos
  /\ state = "reading_label_value" =>
       KeyOK /\ After(tmp_token) < token_start_pos - 1 /\ At(text, token_start_pos - 1) = QUOTE

IInv == /\ TypeOK /\ Positions /\ Paid /\ SafetyIsEnough /\ AtLineStart
        /\ StartsInv /\ SeriesInv /\ TokenInv /\ LineInv

-----------------------------------------------------------------------------
(* Lemmas about texts and series.                                          *)

\* What is not the NUL is a character of the text.
LEMMA NotNUL ==
  ASSUME NEW t \in Seq(Alphabet), NEW p \in Nat \ {0}, At(t, p) # NUL
  PROVE  p \in 1 .. Len(t) /\ t[p] = At(t, p)
  BY DEF At

\* No character with a meaning is a name, an end of line, or the NUL.
LEMMA Characters ==
  \A c \in {SPACE, OPEN, CLOSE, COMMA, QUOTE} : c # "n" /\ c # "\n" /\ c # NUL
<1>1. SPACE # "n" /\ SPACE # "\n" /\ SPACE # NUL
  BY Zenon DEF SPACE, NUL
<1>2. OPEN # "n" /\ OPEN # "\n" /\ OPEN # NUL
  BY Zenon DEF OPEN, NUL
<1>3. CLOSE # "n" /\ CLOSE # "\n" /\ CLOSE # NUL
  BY Zenon DEF CLOSE, NUL
<1>4. COMMA # "n" /\ COMMA # "\n" /\ COMMA # NUL
  BY Zenon DEF COMMA, NUL
<1>5. QUOTE # "n" /\ QUOTE # "\n" /\ QUOTE # NUL
  BY Zenon DEF QUOTE, NUL
<1> QED
  BY <1>1, <1>2, <1>3, <1>4, <1>5

LEMMA QuoteIsNotNL == QUOTE \notin NL
  BY Characters DEF NL

LEMMA CharIsAt == \A p : Char(p) = At(text, p)
  BY DEF Char, At

\* Names hold no end of line.
LEMMA RunIsClean ==
  ASSUME NEW t \in Seq(Alphabet), NEW p \in Nat, NEW q \in Int, Run(t, p, q)
  PROVE  Clean(t, p, q)
  BY DEF Run, Clean, At, Name, NL

\* One more character.
LEMMA RunGrows ==
  ASSUME NEW t \in Seq(Alphabet), NEW p \in Nat, NEW q \in Nat \ {0}, Run(t, p, q), At(t, q) \in Name
  PROVE  Run(t, p, q + 1)
<1>1. q <= Len(t) /\ t[q] \in Name
  BY NotNUL DEF Name, NUL
<1>2. \A x \in p .. q + 1 - 1 : x \in p .. q - 1 \/ x = q
  OBVIOUS
<1> QED
  BY <1>1, <1>2 DEF Run

LEMMA CleanGrows ==
  ASSUME NEW t \in Seq(Alphabet), NEW p \in Nat, NEW q \in Nat, Clean(t, p, q), At(t, q) \notin NL
  PROVE  Clean(t, p, q + 1)
<1>1. \A x \in p .. q + 1 - 1 : x \in p .. q - 1 \/ x = q
  OBVIOUS
<1> QED
  BY <1>1 DEF Clean

LEMMA EmptyRun ==
  ASSUME NEW t, NEW p \in Nat
  PROVE  Run(t, p, p) /\ Clean(t, p, p)
  BY DEF Run, Clean

\* One more pair, whose value is the token from ts up to p; the last series
\* replaced.
WithToken(r, k, ts, p) == Append(r, [key |-> k, value |-> Span(ts, p - ts)])
LastIs(r, s) == [r EXCEPT ![Len(r)] = s]

\* A series begins with the pair of its metric, a token that ends at p.
LEMMA FirstPair ==
  ASSUME NEW t \in Seq(Alphabet), NEW ts \in Nat, NEW p \in Nat,
         0 < ts, ts < p, Run(t, ts, p), At(t, p) \notin NL
  PROVE  LET s == WithToken(<< >>, Metric, ts, p)
         IN  s \in Seq(Pairs) /\ Exact(t, s) /\ EndOf(s) = p /\ s[1].value.from = ts
<1> DEFINE s == WithToken(<< >>, Metric, ts, p)
<1>1. Metric \in Spans /\ Span(ts, p - ts) \in Spans
  BY DEF Metric, Span, Spans
<1>2. s \in Seq(Pairs) /\ Len(s) = 1 /\ s[1] = [key |-> Metric, value |-> Span(ts, p - ts)]
  BY <1>1 DEF Pairs, WithToken
<1> HIDE DEF s
<1>3. s[1].key = Metric /\ s[1].value = Span(ts, p - ts)
  BY <1>2
<1>4. s[1].value.from = ts /\ s[1].value.len > 0 /\ After(s[1].value) = p
  BY <1>3 DEF Span, After
<1>5. EndOf(s) = p
  BY <1>2, <1>4 DEF EndOf
<1>6. NameSpan(t, s[1].value) /\ NameSpan(t, s[1].key)
  <2>1. NameSpan(t, s[1].value)
    BY <1>4 DEF NameSpan
  <2>2. Metric.from = 0 /\ After(Metric) = 0
    BY DEF Metric, Span, After
  <2> QED
    BY <1>3, <2>1, <2>2, EmptyRun DEF NameSpan
<1>7. Clean(t, ts, p + 1)
  BY RunIsClean, CleanGrows
<1>8. Exact(t, s)
  <2>1. \A i \in 1 .. Len(s) : i = 1
    BY <1>2
  <2>2. \A i \in 2 .. Len(s) : FALSE
    BY <1>2
  <2> QED
    BY <1>2, <1>3, <1>4, <1>5, <1>6, <1>7, <2>1, <2>2 DEF Exact
<1> QED
  BY <1>2, <1>4, <1>5, <1>8 DEF s

\* The places of a series are numbers.
LEMMA SeriesNumbers ==
  ASSUME NEW r \in Seq(Pairs), Len(r) > 0
  PROVE  EndOf(r) \in Nat /\ r[1].value.from \in Nat
<1>1. Len(r) \in 1 .. Len(r) /\ 1 \in 1 .. Len(r)
  OBVIOUS
<1>2. r[1] \in Pairs /\ r[Len(r)] \in Pairs
  BY <1>1
<1>3. r[1].value \in Spans /\ r[Len(r)].value \in Spans
  BY <1>2 DEF Pairs
<1>4. /\ r[1].value.from \in Nat
      /\ r[Len(r)].value.from \in Nat /\ r[Len(r)].value.len \in Nat
  BY <1>3 DEF Spans
<1> QED
  BY <1>4 DEF EndOf, After

\* A label and a value after what has been read make one more exact pair.
LEMMA NextPair ==
  ASSUME NEW t \in Seq(Alphabet), NEW r \in Seq(Pairs), Exact(t, r), NEW k \in Spans,
         NEW ts \in Nat, NEW p \in Nat, ts <= p,
         EndOf(r) < k.from, NameSpan(t, k), After(k) < ts - 1, At(t, ts - 1) = QUOTE,
         Run(t, ts, p), At(t, p) = QUOTE, Clean(t, r[1].value.from, p)
  PROVE  LET s == WithToken(r, k, ts, p)
         IN  s \in Seq(Pairs) /\ Exact(t, s) /\ EndOf(s) = p /\ s[1] = r[1]
<1> DEFINE s == WithToken(r, k, ts, p)
           n == Len(r)
<1>0. n \in Nat /\ n > 0
  BY DEF Exact
<1>1. Span(ts, p - ts) \in Spans
  BY DEF Span, Spans
<1>2. s \in Seq(Pairs) /\ Len(s) = n + 1 /\ s[n + 1] = [key |-> k, value |-> Span(ts, p - ts)]
  BY <1>1 DEF Pairs, WithToken
<1>3. \A i \in 1 .. n : s[i] = r[i]
  BY <1>1 DEF Pairs, WithToken
<1> HIDE DEF s
<1>4. s[n + 1].key = k /\ s[n + 1].value = Span(ts, p - ts)
  BY <1>2
<1>5. s[n + 1].value.from = ts /\ After(s[n + 1].value) = p
  BY <1>4 DEF Span, After
<1>6. EndOf(s) = p
  BY <1>2, <1>5 DEF EndOf
<1>7. EndOf(r) = After(s[n].value) /\ s[n] = r[n] /\ s[1] = r[1]
  BY <1>0, <1>3 DEF EndOf
<1>8. k.from \in Nat /\ EndOf(r) \in Nat /\ r[1].value.from \in Nat
  BY <1>0, SeriesNumbers DEF Spans
<1>9. PairExact(t, s, n + 1)
  <2>1. n + 1 - 1 = n
    BY <1>0
  <2>2. k.from > 0
    BY <1>8
  <2> QED
    BY <1>4, <1>5, <1>7, <2>1, <2>2 DEF PairExact
<1>10. \A i \in 2 .. n : PairExact(t, s, i)
  <2>1. \A i \in 2 .. n : s[i] = r[i] /\ s[i - 1] = r[i - 1]
    BY <1>0, <1>3
  <2> QED
    BY <2>1 DEF Exact, PairExact
<1>11. \A i \in 1 .. n : NameSpan(t, s[i].key) /\ NameSpan(t, s[i].value)
  BY <1>3 DEF Exact
<1>12. NameSpan(t, s[n + 1].key) /\ NameSpan(t, s[n + 1].value)
  BY <1>4, <1>5 DEF NameSpan
<1>13. Clean(t, s[1].value.from, EndOf(s) + 1)
  <2>1. At(t, p) \notin NL
    BY QuoteIsNotNL
  <2> QED
    BY <1>6, <1>7, <1>8, <2>1, CleanGrows
<1>14. Exact(t, s)
  <2>1. s[1].key = Metric /\ s[1].value.from > 0 /\ s[1].value.len > 0
    BY <1>7 DEF Exact
  <2>2. \A i \in 1 .. n + 1 : i \in 1 .. n \/ i = n + 1
    BY <1>0
  <2>3. \A i \in 2 .. n + 1 : i \in 2 .. n \/ i = n + 1
    BY <1>0
  <2>4. \A i \in 1 .. Len(s) : NameSpan(t, s[i].key) /\ NameSpan(t, s[i].value)
    BY <1>2, <1>11, <1>12, <2>2
  <2>5. \A i \in 2 .. Len(s) : PairExact(t, s, i)
    BY <1>2, <1>9, <1>10, <2>3
  <2>6. Len(s) > 0
    BY <1>0, <1>2
  <2> QED
    BY <1>13, <2>1, <2>4, <2>5, <2>6 DEF Exact
<1> QED
  BY <1>2, <1>6, <1>7, <1>14 DEF s

-----------------------------------------------------------------------------
(* Lemmas about series in a text.                                          *)

\* A position where no series begins is passed.
LEMMA StartsPass ==
  ASSUME NEW t \in Seq(Alphabet), NEW p \in Nat \ {0}, ~IsStart(t, p),
         NEW r \in Seq(Seq(Pairs)), NEW o, NEW ts \in Nat, StartsOf(t, p, r, o, ts),
         NEW r2 \in Seq(Seq(Pairs)), NEW o2, NEW ts2 \in Nat, Len(r2) = Len(r),
         \A k \in 1 .. Len(r) : FirstOf(r2, o2, ts2, k) = FirstOf(r, o, ts, k)
  PROVE  StartsOf(t, p + 1, r2, o2, ts2)
<1>1. \A x \in 1 .. p + 1 - 1 : x \in 1 .. p - 1 \/ x = p
  OBVIOUS
<1>2. \A x \in 1 .. p - 1 : x \in 1 .. p + 1 - 1
  OBVIOUS
<1> QED
  BY <1>1, <1>2 DEF StartsOf

\* A series begins.
LEMMA StartsGrow ==
  ASSUME NEW t \in Seq(Alphabet), NEW p \in Nat \ {0}, IsStart(t, p),
         NEW r \in Seq(Seq(Pairs)), NEW ts \in Nat,
         NEW o, o # "reading_metric", StartsOf(t, p, r, o, ts)
  PROVE  StartsOf(t, p + 1, Append(r, << >>), "reading_metric", p)
<1> DEFINE q == Append(r, << >>)
           n == Len(r) + 1
<1>1. n \in Nat /\ Len(q) = n /\ \A k \in 1 .. Len(r) : q[k] = r[k]
  OBVIOUS
<1> HIDE DEF q
<1>2. FirstOf(q, "reading_metric", p, n) = p
  BY <1>1 DEF FirstOf
<1>3. \A k \in 1 .. Len(r) : FirstOf(q, "reading_metric", p, k) = FirstOf(r, o, ts, k)
  BY <1>1 DEF FirstOf
<1>4. \A k \in 1 .. n : k \in 1 .. Len(r) \/ k = n
  BY <1>1
<1>5. /\ \A x \in 1 .. p + 1 - 1 : x \in 1 .. p - 1 \/ x = p
      /\ \A x \in 1 .. p - 1 : x \in 1 .. p + 1 - 1 /\ x < p
      /\ p \in 1 .. p + 1 - 1
  OBVIOUS
<1>6. \A k \in 1 .. n : /\ FirstOf(q, "reading_metric", p, k) \in 1 .. p + 1 - 1
                        /\ IsStart(t, FirstOf(q, "reading_metric", p, k))
  BY <1>2, <1>3, <1>4, <1>5 DEF StartsOf
<1>7. \A x \in 1 .. p + 1 - 1 : IsStart(t, x) => \E k \in 1 .. n : FirstOf(q, "reading_metric", p, k) = x
  <2>1. \A x \in 1 .. p - 1 : IsStart(t, x) => \E k \in 1 .. Len(r) : FirstOf(q, "reading_metric", p, k) = x
    BY <1>3 DEF StartsOf
  <2>2. \A k \in 1 .. Len(r) : k \in 1 .. n
    BY <1>1
  <2>3. n \in 1 .. n
    BY <1>1
  <2> QED
    BY <1>2, <1>5, <2>1, <2>2, <2>3
<1>8. \A k, l \in 1 .. n : k < l => FirstOf(q, "reading_metric", p, k) < FirstOf(q, "reading_metric", p, l)
  <2> SUFFICES ASSUME NEW k \in 1 .. n, NEW l \in 1 .. n, k < l
               PROVE  FirstOf(q, "reading_metric", p, k) < FirstOf(q, "reading_metric", p, l)
    OBVIOUS
  <2>1. k \in 1 .. Len(r)
    BY <1>1
  <2>2. CASE l = n
    BY <1>2, <1>3, <1>5, <2>1, <2>2 DEF StartsOf
  <2>3. CASE l \in 1 .. Len(r)
    BY <1>3, <2>1, <2>3 DEF StartsOf
  <2> QED
    BY <1>4, <2>2, <2>3
<1>9. StartsOf(t, p + 1, q, "reading_metric", p)
  BY <1>1, <1>6, <1>7, <1>8 DEF StartsOf
<1> QED
  BY <1>9 DEF q

\* The last series is replaced by one that begins where it did.
LEMMA LastReplaced ==
  ASSUME NEW t \in Seq(Alphabet), NEW p \in Nat \ {0}, ~IsStart(t, p),
         NEW r \in Seq(Seq(Pairs)), NEW o, NEW ts \in Nat, Len(r) > 0,
         StartsOf(t, p, r, o, ts), AllExact(t, r, o),
         NEW s \in Seq(Pairs), Exact(t, s), s[1].value.from = FirstOf(r, o, ts, Len(r)),
         NEW o2, o2 # "reading_metric", NEW ts2 \in Nat
  PROVE  LET r2 == LastIs(r, s)
         IN  /\ r2 \in Seq(Seq(Pairs)) /\ Len(r2) = Len(r) /\ r2[Len(r)] = s
             /\ StartsOf(t, p + 1, r2, o2, ts2) /\ AllExact(t, r2, o2)
<1> DEFINE r2 == LastIs(r, s)
<1>1. /\ r2 \in Seq(Seq(Pairs)) /\ Len(r2) = Len(r) /\ r2[Len(r)] = s
      /\ \A k \in 1 .. Len(r) : k # Len(r) => r2[k] = r[k]
  BY DEF LastIs
<1> HIDE DEF r2
<1>2. \A k \in 1 .. Len(r) : FirstOf(r2, o2, ts2, k) = FirstOf(r, o, ts, k)
  BY <1>1 DEF FirstOf
<1>3. StartsOf(t, p + 1, r2, o2, ts2)
  BY <1>1, <1>2, StartsPass
<1>4. \A k \in 1 .. Len(r) : k < Len(r) \/ k = Len(r)
  OBVIOUS
<1>5. \A k \in 1 .. Len(r) : Exact(t, r2[k])
  BY <1>1, <1>4 DEF AllExact
<1>6. AllExact(t, r2, o2)
  BY <1>1, <1>5 DEF AllExact
<1> QED
  BY <1>1, <1>3, <1>6 DEF r2

\* A new, empty series is added.
LEMMA OpenAdded ==
  ASSUME NEW t, NEW r \in Seq(Seq(Pairs)), NEW o, o # "reading_metric", AllExact(t, r, o)
  PROVE  Append(r, << >>) \in Seq(Seq(Pairs)) /\ AllExact(t, Append(r, << >>), "reading_metric")
<1>1. /\ Append(r, << >>) \in Seq(Seq(Pairs)) /\ Len(Append(r, << >>)) = Len(r) + 1
      /\ Append(r, << >>)[Len(r) + 1] = << >>
      /\ \A k \in 1 .. Len(r) : Append(r, << >>)[k] = r[k]
      /\ Len(r) \in Nat
  OBVIOUS
<1>2. \A k \in 1 .. Len(r) + 1 : k < Len(r) + 1 => k \in 1 .. Len(r)
  BY <1>1
<1> QED
  BY <1>1, <1>2 DEF AllExact

-----------------------------------------------------------------------------
(* The steps.                                                              *)

LEMMA InitIInv == Init => IInv
<1> SUFFICES ASSUME Init PROVE IInv
  OBVIOUS
<1>1. /\ text \in Seq(Alphabet) /\ state = "new_line" /\ pos = 1 /\ token_start_pos = 0
      /\ result = << >> /\ Len(result) = 0 /\ result \in Seq(Seq(Pairs))
      /\ safety_count = SAFETY_COUNT /\ why = "none" /\ SAFETY_COUNT \in Int
  BY TextsAssumption, SafetyAssumption DEF Init
<1>2. tmp_token \in Spans
  BY DEF Init, Metric, Span, Spans
<1>3. TypeOK
  BY <1>1, <1>2 DEF TypeOK, States
<1>4. StartsOf(text, 1, << >>, "new_line", 0)
  <2>1. Len(<< >>) = 0 /\ 1 .. 0 = {} /\ 1 - 1 = 0
    OBVIOUS
  <2> QED
    BY <2>1 DEF StartsOf
<1>5. AllExact(text, << >>, "new_line")
  <2>1. Len(<< >>) = 0 /\ 1 .. 0 = {}
    OBVIOUS
  <2> QED
    BY <2>1 DEF AllExact
<1>6. Positions /\ Paid /\ SafetyIsEnough /\ AtLineStart
  BY <1>1 DEF Positions, Paid, SafetyIsEnough, AtLineStart, Stopped, buffer_end, Owing, LineBegin
<1>7. StartsInv /\ SeriesInv
  BY <1>1, <1>4, <1>5 DEF StartsInv, SeriesInv
<1>8. TokenInv /\ LineInv
  BY <1>1 DEF TokenInv, LineInv, Inside, Between, WithKey
<1> QED
  BY <1>3, <1>6, <1>7, <1>8 DEF IInv

\* A step that takes a character stays in the buffer and pays for itself.
LEMMA Advanced ==
  ASSUME IInv, Checked, Char(pos) # NUL, pos' = pos + 1, why' = why,
         state' \notin {"completed", "error"}
  PROVE  /\ pos \in 1 .. Len(text) /\ text[pos] = At(text, pos) /\ text' = text
         /\ pos' \in Nat \ {0} /\ safety_count' \in Int
         /\ Positions' /\ Paid' /\ SafetyIsEnough'
<1>1. /\ pos \in Nat \ {0} /\ safety_count \in Int /\ text \in Seq(Alphabet)
      /\ safety_count' = safety_count - 1 /\ text' = text
  BY DEF IInv, TypeOK, Checked
<1>2. pos \in 1 .. Len(text) /\ text[pos] = At(text, pos)
  BY <1>1, NotNUL, CharIsAt
<1>3. Positions'
  BY <1>1, <1>2 DEF Positions, buffer_end, Stopped
<1>4. Paid'
  <2>1. SAFETY_COUNT \in Int
    BY SafetyAssumption
  <2>2. safety_count + 2 * pos + 1 >= SAFETY_COUNT + 2
    BY <1>1, <2>1 DEF IInv, Paid, Checked
  <2>3. safety_count' + 2 * pos' >= SAFETY_COUNT + 2
    BY <1>1, <2>1, <2>2
  <2> QED
    BY <1>1, <2>1, <2>3 DEF Paid
<1>5. SafetyIsEnough'
  BY <1>1 DEF IInv, SafetyIsEnough
<1> QED
  BY <1>1, <1>2, <1>3, <1>4, <1>5

\* Where the next line begins.
LEMMA LineStartKept ==
  ASSUME IInv, text' = text, pos' = pos + 1, pos \in 1 .. Len(text),
         text[pos] = At(text, pos), state' = "new_line" <=> Char(pos) \in NL
  PROVE  AtLineStart'
  BY CharIsAt DEF AtLineStart, LineBegin

\* A series begins only where BeginMetric finds it.
LEMMA NoStart ==
  ASSUME IInv, ~Stopped, pos \in 1 .. Len(text), text[pos] = At(text, pos),
         state # "new_line" \/ Char(pos) \notin Name
  PROVE  ~IsStart(text, pos)
  BY CharIsAt DEF IInv, AtLineStart, IsStart

\* What a step that only skips a character may be: outside a series; within a
\* token; between two pairs, or behind the last; between a label and its value.
Outside == {"new_line", "whitespace_line", "reading_comment", "after_identity"}

MovesOutside(from, c, to) ==
  /\ from \in Outside /\ to \in Outside
  /\ to = "new_line" => c \in NL
  /\ c \in NL => to = "new_line"
  /\ from = "new_line" => c \notin Name

MovesInToken(from, c, to) ==
  /\ from \in {"reading_metric", "reading_label", "reading_label_value"}
  /\ to = from /\ c \in Name

MovesBetween(from, c, to) ==
  from \in Between /\ to \in Between \cup {"after_identity"} /\ c \notin NL \cup Name

MovesWithKey(from, c, to) ==
  /\ from \in {"after_label_whitespace", "before_label_value_whitespace"}
  /\ to \in {"after_label_whitespace", "before_label_value_whitespace"}
  /\ c \notin NL \cup Name

LEMMA Moved ==
  ASSUME NEW mv \in Moves, NEW c, c \in mv[2]
  PROVE  /\ c # NUL
         /\ \/ MovesOutside(mv[1], c, mv[3]) \/ MovesInToken(mv[1], c, mv[3])
            \/ MovesBetween(mv[1], c, mv[3]) \/ MovesWithKey(mv[1], c, mv[3])
<1>1. NUL \notin Alphabet
  BY Characters DEF Alphabet, Name, White, NL, NUL
<1>2. /\ \A x \in White : x \in Alphabet /\ x \notin NL /\ x \notin Name
      /\ \A x \in Name : x \in Alphabet /\ x \notin NL
      /\ \A x \in NL : x \in Alphabet /\ x \notin Name
      /\ \A x \in {"#", OPEN, CLOSE, "=", COMMA} : x \in Alphabet /\ x \notin NL /\ x \notin Name
  <2>1. \A x \in {SPACE, "\t", "#", OPEN, CLOSE, "=", COMMA} : x # "n" /\ x # "m" /\ x # "\n"
    BY Zenon DEF SPACE, OPEN, CLOSE, COMMA
  <2> QED
    BY <2>1 DEF Alphabet, Name, White, NL
<1>3. CASE \/ mv = <<"new_line", NL, "new_line">>
           \/ mv = <<"new_line", White, "whitespace_line">>
           \/ mv = <<"new_line", {"#"}, "reading_comment">>
           \/ mv = <<"whitespace_line", White, "whitespace_line">>
           \/ mv = <<"whitespace_line", NL, "new_line">>
           \/ mv = <<"reading_comment", NL, "new_line">>
           \/ mv = <<"reading_comment", Alphabet \ NL, "reading_comment">>
           \/ mv = <<"after_identity", White, "after_identity">>
           \/ mv = <<"after_identity", NL, "new_line">>
  <2>1. c # NUL
    BY <1>1, <1>2, <1>3
  <2>2. MovesOutside(mv[1], c, mv[3])
    BY <1>2, <1>3 DEF MovesOutside, Outside
  <2> QED
    BY <2>1, <2>2
<1>4. CASE \/ mv = <<"reading_metric", Name, "reading_metric">>
           \/ mv = <<"reading_label", Name, "reading_label">>
           \/ mv = <<"reading_label_value", Name, "reading_label_value">>
  <2>1. c # NUL
    BY <1>1, <1>2, <1>4
  <2>2. MovesInToken(mv[1], c, mv[3])
    BY <1>2, <1>4 DEF MovesInToken
  <2> QED
    BY <2>1, <2>2
<1>5. CASE \/ mv = <<"after_metric_whitespace", White, "after_metric_whitespace">>
           \/ mv = <<"after_metric_whitespace", {OPEN}, "before_label_whitespace">>
           \/ mv = <<"before_label_whitespace", White, "before_label_whitespace">>
           \/ mv = <<"after_label_value_whitespace", {CLOSE}, "after_identity">>
           \/ mv = <<"after_label_value_whitespace", {COMMA}, "before_label_whitespace">>
           \/ mv = <<"after_label_value_whitespace", White, "after_label_value_whitespace">>
  <2>1. c # NUL
    BY <1>1, <1>2, <1>5
  <2>2. MovesBetween(mv[1], c, mv[3])
    BY <1>2, <1>5 DEF MovesBetween, Between
  <2> QED
    BY <2>1, <2>2
<1>6. CASE \/ mv = <<"after_label_whitespace", White, "after_label_whitespace">>
           \/ mv = <<"after_label_whitespace", {"="}, "before_label_value_whitespace">>
           \/ mv = <<"before_label_value_whitespace", White, "before_label_value_whitespace">>
  <2>1. c # NUL
    BY <1>1, <1>2, <1>6
  <2>2. MovesWithKey(mv[1], c, mv[3])
    BY <1>2, <1>6 DEF MovesWithKey
  <2> QED
    BY <2>1, <2>2
<1> QED
  BY <1>3, <1>4, <1>5, <1>6 DEF Moves

\* What the invariant says of a text that has not been refused.
LEMMA Going ==
  ASSUME IInv, Checked
  PROVE  /\ state \notin {"completed", "error"} /\ text' = text
         /\ StartsOf(text, pos, result, state, token_start_pos)
         /\ AllExact(text, result, state)
  BY DEF IInv, Checked, Stopped, StartsInv, SeriesInv

\* The series whose labels are being read.
LEMMA LastSeries ==
  ASSUME IInv, Checked, Len(result) > 0, state # "reading_metric"
  PROVE  /\ Last \in Seq(Pairs) /\ Exact(text, Last)
         /\ EndOf(Last) \in Nat /\ Last[1].value.from \in Nat
<1>1. result \in Seq(Seq(Pairs)) /\ AllExact(text, result, state)
  BY Going DEF IInv, TypeOK
<1>2. Last \in Seq(Pairs) /\ Exact(text, Last)
  BY <1>1 DEF AllExact, Last
<1> QED
  BY <1>2, SeriesNumbers DEF Exact

\* The series are as before, whether one is open or not.
LEMMA SeriesKept ==
  ASSUME IInv, Checked, pos' = pos + 1, ~IsStart(text, pos), result' = result,
         state' = "reading_metric" <=> state = "reading_metric", token_start_pos' \in Nat,
         state = "reading_metric" => token_start_pos' = token_start_pos
  PROVE  StartsInv' /\ SeriesInv'
<1> TypeOK
  BY DEF IInv
<1>1. /\ StartsOf(text, pos, result, state, token_start_pos)
      /\ AllExact(text, result, state) /\ text' = text
  BY Going
<1>2. /\ text \in Seq(Alphabet) /\ pos \in Nat \ {0} /\ result \in Seq(Seq(Pairs))
      /\ token_start_pos \in Nat
  BY DEF TypeOK
<1>3. \A k \in 1 .. Len(result) :
        FirstOf(result, state', token_start_pos', k) = FirstOf(result, state, token_start_pos, k)
  BY DEF FirstOf
<1>4. StartsOf(text, pos + 1, result, state', token_start_pos')
  BY <1>1, <1>2, <1>3, StartsPass
<1>5. AllExact(text, result, state')
  BY <1>1 DEF AllExact
<1> QED
  BY <1>1, <1>2, <1>4, <1>5 DEF StartsInv, SeriesInv

LEMMA SkipKeeps == IInv /\ Skip => IInv'
<1> SUFFICES ASSUME IInv, Skip PROVE IInv'
  OBVIOUS
<1> TypeOK /\ Checked /\ pos' = pos + 1 /\ UNCHANGED <<tokens, result, why>>
  BY DEF IInv, Skip
<1>1. PICK mv \in Moves : mv[1] = state /\ Char(pos) \in mv[2] /\ state' = mv[3]
  BY DEF Skip
<1>2. /\ Char(pos) # NUL
      /\ \/ MovesOutside(state, Char(pos), state') \/ MovesInToken(state, Char(pos), state')
         \/ MovesBetween(state, Char(pos), state') \/ MovesWithKey(state, Char(pos), state')
  BY <1>1, Moved
<1>3. /\ state' \in States /\ state' \notin {"completed", "error"}
      /\ state' = "new_line" => Char(pos) \in NL
      /\ Char(pos) \in NL => state' = "new_line"
      /\ state = "new_line" => Char(pos) \notin Name
      /\ state' = "reading_metric" => state = "reading_metric"
      /\ state = "reading_metric" => state' = "reading_metric"
  BY <1>2 DEF MovesOutside, MovesInToken, MovesBetween, MovesWithKey, Outside, Between, States, Name, NL
<1>4. /\ text' = text /\ pos \in 1 .. Len(text) /\ text[pos] = At(text, pos)
      /\ pos' \in Nat \ {0} /\ safety_count' \in Int
      /\ Positions' /\ Paid' /\ SafetyIsEnough'
  BY <1>2, <1>3, Advanced
<1>5. AtLineStart'
  BY <1>3, <1>4, LineStartKept
<1>6. ~IsStart(text, pos)
  BY <1>3, <1>4, NoStart DEF Checked
<1>7. TypeOK'
  BY <1>3, <1>4 DEF TypeOK, tokens
<1>8. /\ text \in Seq(Alphabet) /\ pos \in Nat \ {0} /\ Char(pos) = At(text, pos)
      /\ token_start_pos \in Nat /\ result' = result
      /\ tmp_token' = tmp_token /\ token_start_pos' = token_start_pos
  BY CharIsAt DEF TypeOK, tokens
<1>9. StartsInv' /\ SeriesInv'
  BY <1>3, <1>6, <1>8, SeriesKept
<1>10. TokenInv'
  <2>1. CASE MovesInToken(state, Char(pos), state')
    <3>1. /\ 0 < token_start_pos /\ token_start_pos <= pos
          /\ Run(text, token_start_pos, pos)
      BY <2>1 DEF MovesInToken, IInv, TokenInv
    <3>2. Run(text, token_start_pos, pos + 1)
      BY <1>8, <2>1, <3>1, RunGrows DEF MovesInToken
    <3> QED
      BY <1>4, <1>8, <3>1, <3>2 DEF TokenInv
  <2>2. CASE ~MovesInToken(state, Char(pos), state')
    <3>1. state' \notin {"reading_metric", "reading_label", "reading_label_value"}
      BY <1>2, <2>2 DEF MovesOutside, MovesBetween, MovesWithKey, Outside, Between
    <3> QED
      BY <3>1 DEF TokenInv
  <2> QED
    BY <2>1, <2>2
<1>11. LineInv'
  <2>1. CASE MovesOutside(state, Char(pos), state')
    <3>1. state' \notin Inside
      BY <2>1 DEF MovesOutside, Outside, Inside, Between, WithKey
    <3> QED
      BY <3>1 DEF LineInv, Inside
  <2>2. CASE state' \in Inside /\ state \in Inside
    <3>1. Len(result) > 0 /\ Clean(text, Last[1].value.from, pos)
      BY <2>2 DEF IInv, LineInv
    <3>2. Char(pos) \notin NL
      BY <1>3, <2>2 DEF Inside, Between, WithKey
    <3>3. EndOf(Last) \in Nat /\ Last[1].value.from \in Nat
      <4>1. state # "reading_metric"
        BY <2>2 DEF Inside, Between, WithKey
      <4> QED
        BY <3>1, <4>1, LastSeries
    <3>4. Clean(text, Last[1].value.from, pos + 1)
      BY <1>8, <3>1, <3>2, <3>3, CleanGrows
    <3>5. /\ state' \in Between => state \in Between
          /\ state' = "reading_label" => state = "reading_label"
          /\ state' \in WithKey => state \in WithKey
          /\ state' = "reading_label_value" => state = "reading_label_value"
      BY <1>2, <2>2 DEF MovesOutside, MovesInToken, MovesBetween, MovesWithKey, Outside, Inside, Between, WithKey
    <3>6. After(tmp_token) \in Int
      BY DEF TypeOK, Spans, After
    <3>7. Last' = Last /\ KeyOK' = KeyOK
      BY <1>4, <1>8 DEF Last, KeyOK
    <3> QED
      BY <1>4, <1>8, <3>1, <3>3, <3>4, <3>5, <3>6, <3>7 DEF IInv, LineInv
  <2>3. CASE MovesInToken(state, Char(pos), state') /\ state = "reading_metric"
    <3>1. state' \notin Inside
      BY <2>3 DEF MovesInToken, Inside, Between, WithKey
    <3> QED
      BY <3>1 DEF LineInv, Inside
  <2>4. CASE MovesBetween(state, Char(pos), state') /\ state' = "after_identity"
    BY <2>4 DEF LineInv, Inside, Between, WithKey
  <2> QED
    BY <1>2, <2>1, <2>2, <2>3, <2>4
    DEF MovesInToken, MovesBetween, MovesWithKey, Inside, Between, WithKey
<1> QED
  BY <1>4, <1>5, <1>7, <1>9, <1>10, <1>11 DEF IInv

LEMMA BeginMetricKeeps == IInv /\ BeginMetric => IInv'
<1> SUFFICES ASSUME IInv, BeginMetric PROVE IInv'
  OBVIOUS
<1> TypeOK /\ Checked
  BY DEF IInv, BeginMetric
<1>1. /\ state = "new_line" /\ Char(pos) \in Name /\ token_start_pos' = pos /\ pos' = pos + 1
      /\ result' = Append(result, << >>) /\ state' = "reading_metric"
      /\ tmp_token' = tmp_token /\ why' = why
  BY DEF BeginMetric
<1>2. Char(pos) # NUL /\ Char(pos) = At(text, pos) /\ Char(pos) \notin NL
  BY <1>1, CharIsAt DEF Name, NUL, NL
<1>3. /\ text' = text /\ pos \in 1 .. Len(text) /\ text[pos] = At(text, pos)
      /\ pos' \in Nat \ {0} /\ safety_count' \in Int
      /\ Positions' /\ Paid' /\ SafetyIsEnough'
  BY <1>1, <1>2, Advanced
<1>4. /\ text \in Seq(Alphabet) /\ pos \in Nat \ {0} /\ result \in Seq(Seq(Pairs))
      /\ token_start_pos \in Nat
  BY DEF TypeOK
<1>5. AtLineStart'
  BY <1>1, <1>2, <1>3, LineStartKept
<1>6. IsStart(text, pos)
  <2>1. LineBegin(text, pos)
    BY <1>1 DEF IInv, AtLineStart, Checked
  <2> QED
    BY <1>1, <1>2, <1>3, <2>1 DEF IsStart
<1>7. StartsInv'
  <2>1. StartsOf(text, pos, result, state, token_start_pos)
    BY Going
  <2>2. StartsOf(text, pos + 1, Append(result, << >>), "reading_metric", pos)
    BY <1>1, <1>4, <1>6, <2>1, StartsGrow
  <2> QED
    BY <1>1, <1>3, <2>2 DEF StartsInv
<1>8. SeriesInv' /\ result' \in Seq(Seq(Pairs))
  <2>1. AllExact(text, result, state)
    BY Going
  <2>2. /\ AllExact(text, Append(result, << >>), "reading_metric")
        /\ Append(result, << >>) \in Seq(Seq(Pairs))
    BY <1>1, <1>4, <2>1, OpenAdded
  <2> QED
    BY <1>1, <1>3, <2>2 DEF SeriesInv
<1>9. TypeOK'
  BY <1>1, <1>3, <1>4, <1>8 DEF TypeOK, States
<1>10. TokenInv'
  <2>1. Run(text, pos, pos + 1)
    BY <1>1, <1>2, <1>4, EmptyRun, RunGrows
  <2> QED
    BY <1>1, <1>3, <1>4, <2>1 DEF TokenInv
<1>11. LineInv'
  BY <1>1 DEF LineInv, Inside, Between, WithKey
<1> QED
  BY <1>3, <1>5, <1>7, <1>8, <1>9, <1>10, <1>11 DEF IInv

LEMMA WithPairIs ==
  ASSUME result \in Seq(Seq(Pairs)), Len(result) > 0, NEW k
  PROVE  WithPair(k, Token) = LastIs(result, WithToken(Last, k, token_start_pos, pos))
  BY DEF WithPair, Last, LastIs, WithToken, Token

LEMMA EndMetricKeeps == IInv /\ EndMetric => IInv'
<1> SUFFICES ASSUME IInv, EndMetric PROVE IInv'
  OBVIOUS
<1> TypeOK /\ Checked
  BY DEF IInv, EndMetric
<1>1. /\ state = "reading_metric" /\ Char(pos) \in {OPEN} \cup White /\ pos' = pos + 1
      /\ result' = WithPair(Metric, Token)
      /\ state' \in {"before_label_whitespace", "after_metric_whitespace"}
      /\ tmp_token' = tmp_token /\ token_start_pos' = token_start_pos /\ why' = why
  BY DEF EndMetric, tokens
<1>2. Char(pos) # NUL /\ Char(pos) = At(text, pos) /\ Char(pos) \notin NL
  BY <1>1, CharIsAt, Characters DEF White, NUL, NL
<1>3. /\ text' = text /\ pos \in 1 .. Len(text) /\ text[pos] = At(text, pos)
      /\ pos' \in Nat \ {0} /\ safety_count' \in Int
      /\ Positions' /\ Paid' /\ SafetyIsEnough'
  BY <1>1, <1>2, Advanced
<1>4. /\ text \in Seq(Alphabet) /\ pos \in Nat \ {0} /\ result \in Seq(Seq(Pairs))
      /\ token_start_pos \in Nat
  BY DEF TypeOK
<1>5. AtLineStart'
  BY <1>1, <1>2, <1>3, LineStartKept
<1>6. ~IsStart(text, pos)
  BY <1>1, <1>3, NoStart DEF Checked
<1>7. /\ 0 < token_start_pos /\ token_start_pos < pos /\ Run(text, token_start_pos, pos)
  BY <1>1 DEF IInv, TokenInv
<1>8. /\ StartsOf(text, pos, result, state, token_start_pos) /\ AllExact(text, result, state)
      /\ Len(result) > 0 /\ Last = << >>
  BY <1>1, Going DEF AllExact, Last
<1>9. PICK s : s = WithToken(<< >>, Metric, token_start_pos, pos)
  OBVIOUS
<1>10. /\ s \in Seq(Pairs) /\ Exact(text, s) /\ EndOf(s) = pos
       /\ s[1].value.from = token_start_pos
  BY <1>2, <1>4, <1>7, <1>9, FirstPair
<1>11. result' = LastIs(result, s)
  BY <1>1, <1>4, <1>8, <1>9, WithPairIs
<1>12. token_start_pos = FirstOf(result, state, token_start_pos, Len(result))
  BY <1>1 DEF FirstOf
<1>13. /\ result' \in Seq(Seq(Pairs)) /\ Len(result') = Len(result) /\ result'[Len(result)] = s
       /\ StartsOf(text, pos + 1, result', state', token_start_pos)
       /\ AllExact(text, result', state')
  <2>1. state' # "reading_metric"
    BY <1>1
  <2>2. /\ LastIs(result, s) \in Seq(Seq(Pairs)) /\ Len(LastIs(result, s)) = Len(result)
        /\ LastIs(result, s)[Len(result)] = s
        /\ StartsOf(text, pos + 1, LastIs(result, s), state', token_start_pos)
        /\ AllExact(text, LastIs(result, s), state')
    BY SMTT(30), <1>4, <1>6, <1>8, <1>10, <1>12, <2>1, LastReplaced
  <2> QED
    BY <1>11, <2>2
<1>14. StartsInv' /\ SeriesInv'
  BY <1>1, <1>3, <1>13 DEF StartsInv, SeriesInv
<1>15. TypeOK'
  BY <1>1, <1>3, <1>13 DEF TypeOK, States
<1>16. TokenInv'
  BY <1>1 DEF TokenInv
<1>17. LineInv'
  <2>1. Last' = s
    BY <1>13 DEF Last
  <2>2. Clean(text, token_start_pos, pos + 1)
    BY <1>2, <1>4, <1>7, RunIsClean, CleanGrows
  <2>3. EndOf(s) < pos'
    BY <1>1, <1>4, <1>10
  <2> QED
    BY <1>1, <1>3, <1>8, <1>10, <1>13, <2>1, <2>2, <2>3 DEF LineInv, WithKey
<1> QED
  BY <1>3, <1>5, <1>14, <1>15, <1>16, <1>17 DEF IInv

LEMMA EndValueKeeps == IInv /\ EndValue => IInv'
<1> SUFFICES ASSUME IInv, EndValue PROVE IInv'
  OBVIOUS
<1> TypeOK /\ Checked
  BY DEF IInv, EndValue
<1>1. /\ state = "reading_label_value" /\ Char(pos) = QUOTE /\ pos' = pos + 1
      /\ result' = WithPair(tmp_token, Token)
      /\ state' = "after_label_value_whitespace"
      /\ tmp_token' = tmp_token /\ token_start_pos' = token_start_pos /\ why' = why
  BY DEF EndValue, tokens
<1>2. Char(pos) # NUL /\ Char(pos) = At(text, pos) /\ Char(pos) \notin NL
  BY <1>1, CharIsAt, Characters DEF NL
<1>3. /\ text' = text /\ pos \in 1 .. Len(text) /\ text[pos] = At(text, pos)
      /\ pos' \in Nat \ {0} /\ safety_count' \in Int
      /\ Positions' /\ Paid' /\ SafetyIsEnough'
  BY <1>1, <1>2, Advanced
<1>4. /\ text \in Seq(Alphabet) /\ pos \in Nat \ {0} /\ result \in Seq(Seq(Pairs))
      /\ token_start_pos \in Nat /\ tmp_token \in Spans
  BY DEF TypeOK
<1>5. AtLineStart'
  BY <1>1, <1>2, <1>3, LineStartKept
<1>6. ~IsStart(text, pos)
  BY <1>1, <1>3, NoStart DEF Checked
<1>7. /\ token_start_pos <= pos /\ Run(text, token_start_pos, pos)
  BY <1>1 DEF IInv, TokenInv
<1>8. /\ Len(result) > 0 /\ Clean(text, Last[1].value.from, pos)
      /\ EndOf(Last) < tmp_token.from /\ NameSpan(text, tmp_token)
      /\ After(tmp_token) < token_start_pos - 1 /\ At(text, token_start_pos - 1) = QUOTE
  BY <1>1 DEF IInv, LineInv, KeyOK, Inside
<1>9. /\ StartsOf(text, pos, result, state, token_start_pos) /\ AllExact(text, result, state)
      /\ Last \in Seq(Pairs) /\ Exact(text, Last)
  BY <1>1, <1>4, <1>8, Going DEF AllExact, Last
<1>10. PICK s : s = WithToken(Last, tmp_token, token_start_pos, pos)
  OBVIOUS
<1>11. s \in Seq(Pairs) /\ Exact(text, s) /\ EndOf(s) = pos /\ s[1] = Last[1]
  BY <1>1, <1>2, <1>4, <1>7, <1>8, <1>9, <1>10, NextPair
<1>12. result' = LastIs(result, s)
  BY <1>1, <1>4, <1>8, <1>10, WithPairIs
<1>13. s[1].value.from = FirstOf(result, state, token_start_pos, Len(result))
  BY <1>1, <1>11 DEF FirstOf, Last
<1>14. /\ result' \in Seq(Seq(Pairs)) /\ Len(result') = Len(result) /\ result'[Len(result)] = s
       /\ StartsOf(text, pos + 1, result', state', token_start_pos)
       /\ AllExact(text, result', state')
  <2>1. state' # "reading_metric"
    BY <1>1
  <2>2. /\ LastIs(result, s) \in Seq(Seq(Pairs)) /\ Len(LastIs(result, s)) = Len(result)
        /\ LastIs(result, s)[Len(result)] = s
        /\ StartsOf(text, pos + 1, LastIs(result, s), state', token_start_pos)
        /\ AllExact(text, LastIs(result, s), state')
    BY SMTT(30), <1>4, <1>6, <1>8, <1>9, <1>11, <1>13, <2>1, LastReplaced
  <2> QED
    BY <1>12, <2>2
<1>15. StartsInv' /\ SeriesInv'
  BY <1>1, <1>3, <1>14 DEF StartsInv, SeriesInv
<1>16. TypeOK'
  BY <1>1, <1>3, <1>14 DEF TypeOK, States
<1>17. TokenInv'
  BY <1>1 DEF TokenInv
<1>18. LineInv'
  <2>1. Last' = s
    BY <1>14 DEF Last
  <2>2. Clean(text, s[1].value.from, pos + 1)
    BY <1>2, <1>4, <1>8, <1>9, <1>11, SeriesNumbers, CleanGrows DEF Exact
  <2>3. EndOf(s) < pos'
    BY <1>1, <1>4, <1>11
  <2> QED
    BY <1>1, <1>3, <1>8, <1>14, <2>1, <2>2, <2>3 DEF LineInv, WithKey
<1> QED
  BY <1>3, <1>5, <1>15, <1>16, <1>17, <1>18 DEF IInv

\* A step that takes no character leaves a line where it is, and owes a check.
LEMMA Waits ==
  ASSUME IInv, Checked, UNCHANGED <<pos, tmp_token, result, why>>, token_start_pos' \in Nat,
         state \in {"before_label_whitespace", "before_label_value_whitespace"}, state' \in Owing
  PROVE  /\ text' = text /\ state' \in States /\ safety_count' \in Int
         /\ Positions' /\ Paid' /\ SafetyIsEnough' /\ AtLineStart' /\ StartsInv' /\ SeriesInv'
<1> TypeOK
  BY DEF IInv
<1>1. /\ text' = text /\ pos' = pos /\ result' = result /\ why' = why
      /\ safety_count' = safety_count - 1 /\ safety_count \in Int /\ pos \in Nat \ {0}
      /\ state \notin {"new_line", "reading_metric", "completed", "error"}
      /\ state' \notin {"new_line", "reading_metric", "completed", "error"}
      /\ state \notin Owing /\ state' \in States
  BY DEF TypeOK, Checked, Owing, States
<1>2. Positions' /\ SafetyIsEnough' /\ AtLineStart'
  BY <1>1 DEF IInv, Positions, SafetyIsEnough, AtLineStart, Stopped, buffer_end
<1>3. Paid'
  BY <1>1, SafetyAssumption DEF IInv, Paid, Stopped
<1>4. \A k : FirstOf(result, state', token_start_pos', k) = FirstOf(result, state, token_start_pos, k)
  BY <1>1 DEF FirstOf
<1>5. StartsOf(text, pos, result, state', token_start_pos')
  BY <1>4, Going DEF StartsOf
<1>6. AllExact(text, result, state')
  BY <1>1, Going DEF AllExact
<1> QED
  BY <1>1, <1>2, <1>3, <1>5, <1>6 DEF StartsInv, SeriesInv

LEMMA BeginLabelKeeps == IInv /\ BeginLabel => IInv'
<1> SUFFICES ASSUME IInv, BeginLabel PROVE IInv'
  OBVIOUS
<1> TypeOK /\ Checked
  BY DEF IInv, BeginLabel
<1>1. /\ state = "before_label_whitespace" /\ token_start_pos' = pos /\ state' = "reading_label"
      /\ UNCHANGED <<pos, tmp_token, result, why>>
  BY DEF BeginLabel
<1>2. pos \in Nat \ {0} /\ text \in Seq(Alphabet)
  BY DEF TypeOK
<1>3. /\ text' = text /\ state' \in States /\ safety_count' \in Int
      /\ Positions' /\ Paid' /\ SafetyIsEnough' /\ AtLineStart' /\ StartsInv' /\ SeriesInv'
  BY <1>1, <1>2, Waits DEF Owing
<1>4. TypeOK'
  BY <1>1, <1>2, <1>3 DEF TypeOK
<1>5. TokenInv'
  BY <1>1, <1>2, <1>3, EmptyRun DEF TokenInv
<1>6. LineInv'
  BY <1>1, <1>3 DEF IInv, LineInv, Inside, Between, WithKey, Last
<1> QED
  BY <1>3, <1>4, <1>5, <1>6 DEF IInv

LEMMA EndWhiteBeforeQuoteKeeps == IInv /\ EndWhiteBeforeQuote => IInv'
<1> SUFFICES ASSUME IInv, EndWhiteBeforeQuote PROVE IInv'
  OBVIOUS
<1> TypeOK /\ Checked
  BY DEF IInv, EndWhiteBeforeQuote
<1>1. /\ state = "before_label_value_whitespace" /\ state' = "before_label_value_quote"
      /\ UNCHANGED <<pos, tmp_token, result, why>> /\ token_start_pos' = token_start_pos
  BY DEF EndWhiteBeforeQuote, tokens
<1>2. /\ text' = text /\ state' \in States /\ safety_count' \in Int
      /\ Positions' /\ Paid' /\ SafetyIsEnough' /\ AtLineStart' /\ StartsInv' /\ SeriesInv'
  BY <1>1, Waits DEF Owing, TypeOK
<1>3. TypeOK' /\ TokenInv'
  BY <1>1, <1>2 DEF TypeOK, TokenInv
<1>4. LineInv'
  BY <1>1, <1>2 DEF IInv, LineInv, KeyOK, Inside, Between, WithKey, Last
<1> QED
  BY <1>2, <1>3, <1>4 DEF IInv

LEMMA EndLabelKeeps == IInv /\ EndLabel => IInv'
<1> SUFFICES ASSUME IInv, EndLabel PROVE IInv'
  OBVIOUS
<1> TypeOK /\ Checked
  BY DEF IInv, EndLabel
<1>1. /\ state = "reading_label" /\ Char(pos) \in {"="} \cup White /\ tmp_token' = Token
      /\ state' \in {"before_label_value_whitespace", "after_label_whitespace"}
      /\ pos' = pos + 1 /\ token_start_pos' = token_start_pos /\ result' = result /\ why' = why
  BY DEF EndLabel
<1>2. Char(pos) # NUL /\ Char(pos) = At(text, pos) /\ Char(pos) \notin NL
  BY <1>1, CharIsAt, Characters DEF White, NUL, NL
<1>3. /\ text' = text /\ pos \in 1 .. Len(text) /\ text[pos] = At(text, pos)
      /\ pos' \in Nat \ {0} /\ safety_count' \in Int
      /\ Positions' /\ Paid' /\ SafetyIsEnough'
  BY <1>1, <1>2, Advanced
<1>4. /\ text \in Seq(Alphabet) /\ pos \in Nat \ {0} /\ result \in Seq(Seq(Pairs))
      /\ token_start_pos \in Nat
  BY DEF TypeOK
<1>5. AtLineStart'
  BY <1>1, <1>2, <1>3, LineStartKept
<1>6. ~IsStart(text, pos)
  BY <1>1, <1>3, NoStart DEF Checked
<1>7. /\ token_start_pos <= pos /\ Run(text, token_start_pos, pos)
  BY <1>1 DEF IInv, TokenInv
<1>8. /\ Len(result) > 0 /\ Clean(text, Last[1].value.from, pos)
      /\ EndOf(Last) < token_start_pos
  BY <1>1 DEF IInv, LineInv, Inside
<1>9. StartsInv' /\ SeriesInv'
  BY <1>1, <1>4, <1>6, SeriesKept
<1>10. /\ tmp_token' \in Spans /\ tmp_token'.from = token_start_pos /\ After(tmp_token') = pos
  BY <1>1, <1>4, <1>7 DEF Token, Span, Spans, After
<1>11. TypeOK'
  BY <1>1, <1>3, <1>4, <1>10 DEF TypeOK, States
<1>12. TokenInv'
  BY <1>1 DEF TokenInv
<1>13. LineInv'
  <2>1. Last[1].value.from \in Nat
    BY <1>1, <1>8, LastSeries
  <2>2. Clean(text, Last[1].value.from, pos + 1)
    BY <1>2, <1>4, <1>8, <2>1, CleanGrows
  <2>3. KeyOK'
    BY <1>1, <1>3, <1>7, <1>8, <1>10 DEF KeyOK, NameSpan, Last
  <2>4. After(tmp_token') < pos'
    BY <1>1, <1>4, <1>10
  <2>5. Last' = Last /\ Len(result') > 0 /\ state' \in WithKey
    BY <1>1, <1>8 DEF Last, WithKey
  <2> QED
    BY <1>1, <1>3, <2>2, <2>3, <2>4, <2>5 DEF LineInv, Between
<1> QED
  BY <1>3, <1>5, <1>9, <1>11, <1>12, <1>13 DEF IInv

LEMMA BeginValueKeeps == IInv /\ BeginValue => IInv'
<1> SUFFICES ASSUME IInv, BeginValue PROVE IInv'
  OBVIOUS
<1> TypeOK /\ Checked
  BY DEF IInv, BeginValue
<1>1. /\ state = "before_label_value_quote" /\ Char(pos) = QUOTE
      /\ token_start_pos' = pos + 1 /\ pos' = pos + 1 /\ state' = "reading_label_value"
      /\ tmp_token' = tmp_token /\ result' = result /\ why' = why
  BY DEF BeginValue
<1>2. Char(pos) # NUL /\ Char(pos) = At(text, pos) /\ Char(pos) \notin NL
  BY <1>1, CharIsAt, Characters DEF NL
<1>3. /\ text' = text /\ pos \in 1 .. Len(text) /\ text[pos] = At(text, pos)
      /\ pos' \in Nat \ {0} /\ safety_count' \in Int
      /\ Positions' /\ Paid' /\ SafetyIsEnough'
  BY <1>1, <1>2, Advanced
<1>4. /\ text \in Seq(Alphabet) /\ pos \in Nat \ {0} /\ result \in Seq(Seq(Pairs))
      /\ token_start_pos \in Nat
  BY DEF TypeOK
<1>5. AtLineStart'
  BY <1>1, <1>2, <1>3, LineStartKept
<1>6. ~IsStart(text, pos)
  BY <1>1, <1>3, NoStart DEF Checked
<1>7. /\ Len(result) > 0 /\ Clean(text, Last[1].value.from, pos)
      /\ KeyOK /\ After(tmp_token) < pos
  BY <1>1 DEF IInv, LineInv, Inside, WithKey
<1>8. StartsInv' /\ SeriesInv'
  BY <1>1, <1>3, <1>4, <1>6, SeriesKept
<1>9. TypeOK'
  BY <1>1, <1>3, <1>4 DEF TypeOK, States
<1>10. TokenInv'
  <2>1. Run(text, pos + 1, pos + 1) /\ pos + 1 > 0 /\ pos + 1 <= pos + 1
    BY <1>4, EmptyRun
  <2> QED
    BY <1>1, <1>3, <2>1 DEF TokenInv
<1>11. LineInv'
  <2>1. Last[1].value.from \in Nat
    BY <1>1, <1>7, LastSeries
  <2>2. Clean(text, Last[1].value.from, pos + 1)
    BY <1>2, <1>4, <1>7, <2>1, CleanGrows
  <2>3. KeyOK' /\ Last' = Last /\ Len(result') > 0
    BY <1>1, <1>3, <1>7 DEF KeyOK, Last
  <2>4. After(tmp_token') < token_start_pos' - 1 /\ At(text, token_start_pos' - 1) = QUOTE
    <3>1. token_start_pos' - 1 = pos
      BY <1>1, <1>4
    <3>2. After(tmp_token') = After(tmp_token)
      BY <1>1
    <3> QED
      BY <1>1, <1>2, <1>7, <3>1, <3>2
  <2> QED
    BY <1>1, <1>3, <2>2, <2>3, <2>4 DEF LineInv, Between, WithKey
<1> QED
  BY <1>3, <1>5, <1>8, <1>9, <1>10, <1>11 DEF IInv

\* The end of the text, in the states that accept it.
LEMMA CompleteKeeps == IInv /\ Complete => IInv'
<1> SUFFICES ASSUME IInv, Complete PROVE IInv'
  OBVIOUS
<1> TypeOK /\ Checked
  BY DEF IInv, Complete
<1>1. /\ state \in {"new_line", "reading_comment", "after_identity"} /\ pos >= buffer_end
      /\ state' = "completed" /\ pos' = pos /\ token_start_pos' = token_start_pos
      /\ tmp_token' = tmp_token /\ result' = result /\ why' = why
      /\ text' = text /\ safety_count' = safety_count - 1
  BY DEF Complete, tokens, Checked
<1>2. TypeOK'
  BY <1>1 DEF TypeOK, States
<1>3. pos = buffer_end
  BY <1>1 DEF Checked, TypeOK, buffer_end
<1>4. Positions' /\ Paid' /\ SafetyIsEnough' /\ AtLineStart'
  BY <1>1, <1>3 DEF IInv, Positions, Paid, SafetyIsEnough, AtLineStart, Stopped, buffer_end
<1>5. \A k : FirstOf(result, state', token_start_pos, k) = FirstOf(result, state, token_start_pos, k)
  BY <1>1 DEF FirstOf
<1>6. StartsInv'
  BY <1>1, <1>5, Going DEF StartsInv, StartsOf
<1>7. SeriesInv'
  BY <1>1, Going DEF SeriesInv, AllExact
<1>8. TokenInv' /\ LineInv'
  BY <1>1 DEF TokenInv, LineInv, Inside, Between, WithKey
<1> QED
  BY <1>2, <1>4, <1>6, <1>7, <1>8 DEF IInv

\* A refused text.
LEMMA RefusalKeeps == IInv /\ (Overflow \/ Unexpected) => IInv'
<1> SUFFICES ASSUME IInv, Overflow \/ Unexpected PROVE IInv'
  OBVIOUS
<1> TypeOK
  BY DEF IInv
<1>1. /\ ~Stopped /\ state' = "error" /\ why' \in {"safety", "format"} /\ text' = text
      /\ UNCHANGED <<pos, token_start_pos, tmp_token, result>> /\ safety_count' = safety_count - 1
  BY DEF Overflow, Unexpected, Checked, tokens
<1>2. TypeOK'
  BY <1>1 DEF TypeOK, States
<1>3. SafetyIsEnough'
  <2>1. CASE Unexpected
    BY <2>1 DEF Unexpected, SafetyIsEnough
  <2>2. CASE Overflow
    <3>1. /\ pos \in Nat /\ Len(text) \in Nat /\ safety_count \in Int /\ SAFETY_COUNT \in Int
      BY SafetyAssumption DEF TypeOK
    <3>2. pos <= Len(text) + 1 /\ safety_count - 1 <= 0
      BY <1>1, <2>2, <3>1 DEF IInv, Positions, Overflow, buffer_end
    <3>3. safety_count + 2 * pos + 1 >= SAFETY_COUNT + 2
      BY <1>1, <3>1 DEF IInv, Paid
    <3>4. ~(2 * Len(text) + 2 < SAFETY_COUNT)
      BY <3>1, <3>2, <3>3
    <3> QED
      BY <1>1, <3>4 DEF SafetyIsEnough
  <2> QED
    BY <2>1, <2>2
<1>4. Positions' /\ Paid' /\ AtLineStart'
  BY <1>1 DEF Positions, Paid, AtLineStart, Stopped
<1>5. StartsInv' /\ SeriesInv' /\ TokenInv' /\ LineInv'
  BY <1>1 DEF StartsInv, SeriesInv, TokenInv, LineInv, Inside, Between, WithKey
<1> QED
  BY <1>2, <1>3, <1>4, <1>5 DEF IInv

LEMMA NextIInv == IInv /\ [Next]_vars => IInv'
<1>1. IInv /\ UNCHANGED vars => IInv'
  <2> SUFFICES ASSUME IInv, UNCHANGED vars PROVE IInv'
    OBVIOUS
  <2>1. /\ text' = text /\ state' = state /\ pos' = pos /\ token_start_pos' = token_start_pos
        /\ tmp_token' = tmp_token /\ result' = result /\ safety_count' = safety_count /\ why' = why
    BY DEF vars
  <2> QED
    BY <2>1 DEF IInv, TypeOK, Positions, Paid, SafetyIsEnough, AtLineStart, StartsInv, SeriesInv,
                TokenInv, LineInv, KeyOK, Last, Stopped, buffer_end
<1> QED
  BY <1>1, RefusalKeeps, CompleteKeeps, SkipKeeps, BeginMetricKeeps, EndMetricKeeps,
     BeginLabelKeeps, EndLabelKeeps, EndWhiteBeforeQuoteKeeps, BeginValueKeeps, EndValueKeeps
  DEF Next

-----------------------------------------------------------------------------
\* What holds of the parser at every visit of a state: how far the safety count
\* has been used up, where lines and series have begun, and that what was read
\* is exactly what the text says.
THEOREM Invariance == Spec => []IInv
  BY InitIInv, NextIInv, PTL DEF Spec

\* OVERFLOW_CHECK refuses no exposition of less than half its count, although
\* two states of the parser take no character.
THEOREM SafetyIsEnoughHolds == Spec => []SafetyIsEnough
<1>1. IInv => SafetyIsEnough
  BY DEF IInv
<1> QED
  BY <1>1, Invariance, PTL

\* Every series handed to dvt_cache_init begins with the pair of its metric,
\* under that name and with a name of its own, whatever its labels are called.
THEOREM MetricFirstHolds == Spec => []MetricFirst
<1>1. IInv => MetricFirst
  <2> SUFFICES ASSUME IInv, state = "completed", NEW k \in 1 .. Len(result)
               PROVE  /\ Len(result[k]) > 0 /\ NamesMetric(result[k][1].key)
                      /\ result[k][1].value.len > 0
    BY DEF MetricFirst
  <2>1. Exact(text, result[k])
    BY DEF IInv, SeriesInv, AllExact
  <2> QED
    BY <2>1 DEF Exact, NamesMetric
<1> QED
  BY <1>1, Invariance, PTL

\* Every label and value of an accepted text is the whole name between its
\* punctuation, in the order of the text and on the line of its metric.
THEOREM SpansExactHolds == Spec => []SpansExact
<1>1. IInv => SpansExact
  <2> SUFFICES ASSUME IInv, state = "completed", NEW k \in 1 .. Len(result)
               PROVE  /\ \A p \in 1 .. Len(result[k]) :
                           NameOnly(result[k][p].key) /\ NameOnly(result[k][p].value)
                      /\ \A p \in 2 .. Len(result[k]) :
                           LET key == result[k][p].key  value == result[k][p].value IN
                             /\ Char(value.from - 1) = QUOTE /\ Char(value.from + value.len) = QUOTE
                             /\ result[k][p - 1].value.from + result[k][p - 1].value.len < key.from
                             /\ key.from + key.len < value.from - 1
                      /\ \A x \in result[k][1].value.from .. LastValue(k).from + LastValue(k).len :
                           Char(x) \notin NL
    BY DEF SpansExact
  <2>1. Exact(text, result[k]) /\ result[k] \in Seq(Pairs)
    BY DEF IInv, SeriesInv, AllExact, TypeOK
  <2>2. ASSUME NEW span \in Spans, NameSpan(text, span)
        PROVE  NameOnly(span)
    <3>1. \A p \in span.from .. After(span) - 1 : p <= Len(text) /\ text[p] \in Name
      BY <2>2 DEF NameSpan, Run
    <3>2. span.from \in Nat /\ span.len \in Nat /\ After(span) = span.from + span.len
      BY DEF Spans, After
    <3> QED
      BY <3>1, <3>2 DEF NameOnly
  <2>3. \A p \in 1 .. Len(result[k]) : NameOnly(result[k][p].key) /\ NameOnly(result[k][p].value)
    <3> TAKE p \in 1 .. Len(result[k])
    <3>1. result[k][p] \in Pairs
      BY <2>1
    <3>2. result[k][p].key \in Spans /\ result[k][p].value \in Spans
      BY <3>1 DEF Pairs
    <3> QED
      BY <2>1, <2>2, <3>2 DEF Exact
  <2>4. \A p \in 2 .. Len(result[k]) :
          LET key == result[k][p].key  value == result[k][p].value IN
            /\ Char(value.from - 1) = QUOTE /\ Char(value.from + value.len) = QUOTE
            /\ result[k][p - 1].value.from + result[k][p - 1].value.len < key.from
            /\ key.from + key.len < value.from - 1
    BY <2>1, CharIsAt DEF Exact, PairExact, After
  <2>5. \A x \in result[k][1].value.from .. LastValue(k).from + LastValue(k).len : Char(x) \notin NL
    <3>1. EndOf(result[k]) = LastValue(k).from + LastValue(k).len
      BY DEF EndOf, After, LastValue
    <3>2. EndOf(result[k]) \in Nat /\ result[k][1].value.from \in Nat
      BY <2>1, SeriesNumbers DEF Exact
    <3>3. Clean(text, result[k][1].value.from, EndOf(result[k]) + 1)
      BY <2>1 DEF Exact
    <3>4. ASSUME NEW x \in result[k][1].value.from .. EndOf(result[k])
          PROVE  At(text, x) \notin NL
      BY <3>2, <3>3 DEF Clean
    <3> QED
      BY <3>1, <3>4, CharIsAt
  <2> QED
    BY <2>3, <2>4, <2>5
<1> QED
  BY <1>1, Invariance, PTL

\* An accepted text has been read to its end, and has given as many series as
\* it has lines that begin with a name, each from its own line.
THEOREM WholeTextReadHolds == Spec => []WholeTextRead
<1>1. IInv => WholeTextRead
  <2> SUFFICES ASSUME IInv, state = "completed"
               PROVE  /\ pos = buffer_end
                      /\ Len(result) = Cardinality(SeriesStarts)
                      /\ {result[k][1].value.from : k \in 1 .. Len(result)} = SeriesStarts
    BY DEF WholeTextRead
  <2>1. pos = buffer_end /\ Len(text) \in Nat /\ Len(result) \in Nat
    BY DEF IInv, Positions, TypeOK
  <2>2. StartsOf(text, pos, result, state, token_start_pos)
    BY DEF IInv, StartsInv
  <2>3. \A k : FirstOf(result, state, token_start_pos, k) = result[k][1].value.from
    BY DEF FirstOf
  <2>4. pos - 1 = Len(text)
    BY <2>1 DEF buffer_end
  <2>5. \A x : x \in SeriesStarts <=> x \in 1 .. Len(text) /\ IsStart(text, x)
    BY <2>1 DEF SeriesStarts, IsStart, LineBegin
  <2>6. /\ \A k \in 1 .. Len(result) : result[k][1].value.from \in SeriesStarts
        /\ \A x \in SeriesStarts : \E k \in 1 .. Len(result) : result[k][1].value.from = x
        /\ \A k, l \in 1 .. Len(result) :
             k < l => result[k][1].value.from < result[l][1].value.from
    BY <2>2, <2>3, <2>4, <2>5 DEF StartsOf
  <2>7. PICK f : f = [k \in 1 .. Len(result) |-> result[k][1].value.from]
    OBVIOUS
  <2>8. f \in Bijection(1 .. Len(result), SeriesStarts)
    <3>1. f \in [1 .. Len(result) -> SeriesStarts]
      BY <2>6, <2>7
    <3>2. \A k \in 1 .. Len(result) : f[k] \in Nat
      BY <3>1 DEF SeriesStarts
    <3>3. \A k, l \in 1 .. Len(result) : k < l => f[k] < f[l]
      BY <2>6, <2>7
    <3>4. \A k, l \in 1 .. Len(result) : f[k] = f[l] => k = l
      BY <2>1, <3>2, <3>3
    <3>5. \A x \in SeriesStarts : \E k \in 1 .. Len(result) : f[k] = x
      BY <2>6, <2>7
    <3> QED
      BY <3>1, <3>4, <3>5, Fun_IsBij
  <2>9. Len(result) = Cardinality(SeriesStarts)
    BY <2>1, <2>8, FS_CountingElements DEF ExistsBijection
  <2>10. {result[k][1].value.from : k \in 1 .. Len(result)} = SeriesStarts
    BY <2>6
  <2> QED
    BY <2>1, <2>9, <2>10
<1> QED
  BY <1>1, Invariance, PTL

=============================================================================
