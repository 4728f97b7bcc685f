------------------------------ MODULE SpecText ------------------------------
(***************************************************************************)
(* dvt_parse_series_spec_text_str: the text of a set spec, such as         *)
(* {scale:'large',group:%27all%27}, to spans of the text, one pair of      *)
(* spans per label.  One step per visit of one of the parser's states,     *)
(* each of which begins with OVERFLOW_CHECK.  Characters matter only up to *)
(* their class; positions count from 1, and the text is followed by the    *)
(* NUL that query_handler writes (strsep and strlen).                      *)
(***************************************************************************)
EXTENDS Integers, Sequences

CONSTANTS
  Texts,        \* the texts to parse, sequences over Alphabet
  SAFETY_COUNT  \* 10000 in the code

OPEN == "{"
CLOSE == "}"
COMMA == ","

\* "n": a letter, underscore, dot or digit other than 2 and 7; "x": any
\* character the parser gives no meaning to.
NameChars == {"n", "2", "7"}
Alphabet == NameChars \cup {OPEN, CLOSE, ":", COMMA, "'", "%", "x"}
NUL == "NUL"

ASSUME TextsAssumption == Texts \subseteq Seq(Alphabet)
ASSUME SafetyAssumption == SAFETY_COUNT \in Nat

VARIABLES
  text,
  state,         \* the label of the code the next step is at
  pos,
  token_start_pos,
  key,           \* current->key, set and waiting for current->value
  result,        \* the finished elements of the array
  safety_count,
  why            \* the error: "none", "format" unexpected character, "safety"

vars == <<text, state, pos, token_start_pos, key, result, safety_count, why>>

Span(from, len) == [from |-> from, len |-> len]
None == Span(0, 0)

buffer_end == Len(text) + 1

Char(p) == IF p <= Len(text) THEN text[p] ELSE NUL

\* A quote mark at p: the character itself or its URL form, with its length.
Quote(p) == Char(p) = "'"

\* The third character is taken without looking at it.
UrlQuote_TwoOfThree(p) == Char(p) = "%" /\ Char(p + 1) = "2"

UrlQuote(p) == Char(p) = "%" /\ Char(p + 1) = "2" /\ Char(p + 2) = "7"
QuoteLen(p) == IF Quote(p) THEN 1 ELSE 3
AtQuote(p) == Quote(p) \/ UrlQuote(p)

Init ==
  /\ text \in Texts
  /\ state = "start" /\ pos = 1
  /\ token_start_pos = 0 /\ key = None /\ result = << >>
  /\ safety_count = SAFETY_COUNT /\ why = "none"

Stopped == state \in {"completed", "error"}

\* OVERFLOW_CHECK passes, and the step counts.
Checked ==
  /\ ~Stopped
  /\ safety_count - 1 > 0 /\ pos <= buffer_end
  /\ safety_count' = safety_count - 1
  /\ UNCHANGED text

\* OVERFLOW_CHECK fails: goto invalid.
Overflow ==
  /\ ~Stopped
  /\ safety_count - 1 <= 0 \/ pos > buffer_end
  /\ state' = "error" /\ why' = "safety"
  /\ safety_count' = safety_count - 1
  /\ UNCHANGED <<text, pos, token_start_pos, key, result>>

\* The comma is taken, the start of the token is not.
BeginLabel_KeepsStart ==
  /\ Checked
  /\ \/ state = "start" /\ Char(pos) = OPEN /\ token_start_pos' = pos + 1
     \/ state = "reading_comma_or_end" /\ Char(pos) = COMMA /\ UNCHANGED token_start_pos
  /\ pos' = pos + 1
  /\ state' = "reading_label"
  /\ UNCHANGED <<key, result, why>>

\* start: '{', or reading_comma_or_end: ','.  A new element is pushed.
BeginLabel ==
  /\ Checked
  /\ \/ state = "start" /\ Char(pos) = OPEN
     \/ state = "reading_comma_or_end" /\ Char(pos) = COMMA
  /\ pos' = pos + 1 /\ token_start_pos' = pos + 1
  /\ state' = "reading_label"
  /\ UNCHANGED <<key, result, why>>

\* The states are left and entered again without moving on.
NameChar_Stuck ==
  /\ Checked
  /\ state \in {"reading_label", "reading_value"} /\ Char(pos) \in NameChars
  /\ UNCHANGED <<pos, state, token_start_pos, key, result, why>>

NameChar ==
  /\ Checked
  /\ state \in {"reading_label", "reading_value"} /\ Char(pos) \in NameChars
  /\ pos' = pos + 1
  /\ UNCHANGED <<state, token_start_pos, key, result, why>>

EndLabel ==
  /\ Checked
  /\ state = "reading_label" /\ Char(pos) = ":"
  /\ key' = Span(token_start_pos, pos - token_start_pos)
  /\ pos' = pos + 1
  /\ state' = "reading_open_quote"
  /\ UNCHANGED <<token_start_pos, result, why>>

OpenQuote ==
  /\ Checked
  /\ state = "reading_open_quote" /\ AtQuote(pos)
  /\ pos' = pos + QuoteLen(pos) /\ token_start_pos' = pos + QuoteLen(pos)
  /\ state' = "reading_value"
  /\ UNCHANGED <<key, result, why>>

\* The length taken after the quote was read, without correcting for it all.
CloseQuote_Long ==
  /\ Checked
  /\ state = "reading_value" /\ AtQuote(pos)
  /\ result' = Append(result, [key   |-> key,
                               value |-> Span(token_start_pos,
                                              pos + (QuoteLen(pos) - 1) - token_start_pos)])
  /\ pos' = pos + QuoteLen(pos)
  /\ state' = "reading_comma_or_end"
  /\ UNCHANGED <<token_start_pos, key, why>>

CloseQuote ==
  /\ Checked
  /\ state = "reading_value" /\ AtQuote(pos)
  /\ result' = Append(result, [key |-> key, value |-> Span(token_start_pos, pos - token_start_pos)])
  /\ pos' = pos + QuoteLen(pos)
  /\ state' = "reading_comma_or_end"
  /\ UNCHANGED <<token_start_pos, key, why>>

CloseBrace ==
  /\ Checked
  /\ state = "reading_comma_or_end" /\ Char(pos) = CLOSE
  /\ pos' = pos + 1
  /\ state' = "completed"
  /\ UNCHANGED <<token_start_pos, key, result, why>>

\* The states that do not know the character.
Unknown ==
  \/ state = "start" /\ Char(pos) # OPEN
  \/ state = "reading_label" /\ Char(pos) \notin NameChars \cup {":"}
  \/ state = "reading_open_quote" /\ ~AtQuote(pos)
  \/ state = "reading_value" /\ Char(pos) \notin NameChars /\ ~AtQuote(pos)
  \/ state = "reading_comma_or_end" /\ Char(pos) \notin {COMMA, CLOSE}

Unexpected ==
  /\ Checked
  /\ Unknown
  /\ state' = "error" /\ why' = "format"
  /\ pos' = IF Char(pos) # "%" \/ state \notin {"reading_open_quote", "reading_value"} THEN pos
            ELSE IF Char(pos + 1) # "2" THEN pos + 1 ELSE pos + 2
  /\ UNCHANGED <<token_start_pos, key, result>>

Next ==
  \/ Overflow \/ Unexpected
  \/ BeginLabel \/ NameChar \/ EndLabel \/ OpenQuote \/ CloseQuote \/ CloseBrace

Spec == Init /\ [][Next]_vars

FairSpec == Spec /\ WF_vars(Next)

\* The last character the next step looks at.
LastRead ==
  IF state \in {"reading_open_quote", "reading_value"} /\ Char(pos) = "%"
  THEN IF Char(pos + 1) = "2" THEN pos + 2 ELSE pos + 1
  ELSE pos

-----------------------------------------------------------------------------
Spans == [from : Nat, len : Nat]

TypeOK ==
  /\ text \in Seq(Alphabet)
  /\ state \in {"start", "reading_label", "reading_open_quote", "reading_value",
                "reading_comma_or_end", "completed", "error"}
  /\ pos \in Nat \ {0} /\ token_start_pos \in Nat
  /\ key \in Spans
  /\ result \in Seq([key : Spans, value : Spans])
  /\ safety_count \in Int
  /\ why \in {"none", "format", "safety"}

\* Up to three characters are looked at and taken after one test of pos: the
\* parser never stands or looks beyond the NUL that ends the text, so that the
\* test of pos in OVERFLOW_CHECK never fails.
InBuffer == ~Stopped => LastRead <= buffer_end

AllNameChars(span) ==
  \A p \in span.from .. span.from + span.len - 1 : p <= Len(text) /\ text[p] \in NameChars

After(span) == span.from + span.len

\* Element k of the result and the punctuation around it.
Delimited(k) ==
  LET e == result[k] IN
    /\ e.key.from > 1
    /\ Char(e.key.from - 1) = IF k = 1 THEN OPEN ELSE COMMA
    /\ AllNameChars(e.key) /\ Char(After(e.key)) = ":"
    /\ AtQuote(After(e.key) + 1)
    /\ e.value.from = After(e.key) + 1 + QuoteLen(After(e.key) + 1)
    /\ AllNameChars(e.value) /\ AtQuote(After(e.value))

End(k) == After(result[k].value) + QuoteLen(After(result[k].value))

\* What is returned is what the text says, from the opening brace to the
\* closing one and nothing left out: label, colon, quote, value, quote, comma.
SpansExact ==
  state = "completed" =>
    /\ Len(result) > 0
    /\ result[1].key.from = 2
    /\ \A k \in 1 .. Len(result) : Delimited(k)
    /\ \A k \in 2 .. Len(result) : result[k].key.from = End(k - 1) + 1
    /\ Char(End(Len(result))) = CLOSE /\ pos = End(Len(result)) + 1

\* Texts shorter than the safety count are never refused because of it.
SafetyIsEnough ==
  Len(text) + 2 < SAFETY_COUNT => why # "safety"

=============================================================================
