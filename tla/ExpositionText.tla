--------------------------- MODULE ExpositionText ---------------------------
(***************************************************************************)
(* parse_exposition_text: the text of an exposition, one series per line,  *)
(* such as  sin{period="4",scale="small"} , comments and blank lines, to   *)
(* the arrays of pairs that dvt_cache_init starts from.  One step per visit*)
(* of one of the parser's states, each of which begins with OVERFLOW_CHECK.*)
(***************************************************************************)
EXTENDS Integers, Sequences, FiniteSets

CONSTANTS
  Texts,        \* the texts to parse, sequences over Alphabet
  SAFETY_COUNT  \* 100000 in the code

SPACE == " "
OPEN == "{"
CLOSE == "}"
COMMA == ","
QUOTE == "\""

\* "n": a letter, digit, underscore or dot; "m": a name of this one character
\* stands for the name metric; "x": any character without meaning.
Name == {"n", "m"}
White == {SPACE, "\t"}
NL == {"\n"}
Alphabet == Name \cup White \cup NL \cup {"#", OPEN, CLOSE, "=", QUOTE, COMMA, "x"}
NUL == "NUL"

ASSUME TextsAssumption == Texts \subseteq Seq(Alphabet)
ASSUME SafetyAssumption == SAFETY_COUNT \in Nat

VARIABLES
  text,
  state,           \* the label of the code the next step is at
  pos,
  token_start_pos,
  tmp_token,       \* the label name that waits for its value
  result,          \* the array of series, the last one may be incomplete
  safety_count,
  why              \* the error: "none", "format" unexpected character, "safety"

vars == <<text, state, pos, token_start_pos, tmp_token, result, safety_count, why>>
tokens == <<token_start_pos, tmp_token>>

Span(from, len) == [from |-> from, len |-> len]

\* The key of a series' first pair is the literal "metric", not part of the text.
Metric == Span(0, 0)

buffer_end == Len(text) + 1
Char(p) == IF p <= Len(text) THEN text[p] ELSE NUL

\* Names are compared by their characters: a label of the text may be spelled
\* metric as well.
NamesMetric(key) == key = Metric \/ (key.len = 1 /\ Char(key.from) = "m")

Init ==
  /\ text \in Texts
  /\ state = "new_line" /\ pos = 1
  /\ token_start_pos = 0 /\ tmp_token = Metric /\ result = << >>
  /\ safety_count = SAFETY_COUNT /\ why = "none"

Stopped == state \in {"completed", "error"}

Checked ==
  /\ ~Stopped
  /\ safety_count - 1 > 0 /\ pos <= buffer_end
  /\ safety_count' = safety_count - 1
  /\ UNCHANGED text

Overflow ==
  /\ ~Stopped
  /\ safety_count - 1 <= 0 \/ pos > buffer_end
  /\ state' = "error" /\ why' = "safety"
  /\ safety_count' = safety_count - 1
  /\ UNCHANGED <<text, pos, tokens, result>>

\* The moves that only skip a character: state, characters, next state.
Moves == {
  <<"new_line", NL, "new_line">>,
  <<"new_line", White, "whitespace_line">>,
  <<"new_line", {"#"}, "reading_comment">>,
  <<"whitespace_line", White, "whitespace_line">>,
  <<"whitespace_line", NL, "new_line">>,
  <<"reading_comment", NL, "new_line">>,
  <<"reading_comment", Alphabet \ NL, "reading_comment">>,
  <<"reading_metric", Name, "reading_metric">>,
  <<"after_metric_whitespace", White, "after_metric_whitespace">>,
  <<"after_metric_whitespace", {OPEN}, "before_label_whitespace">>,
  <<"before_label_whitespace", White, "before_label_whitespace">>,
  <<"reading_label", Name, "reading_label">>,
  <<"after_label_whitespace", White, "after_label_whitespace">>,
  <<"after_label_whitespace", {"="}, "before_label_value_whitespace">>,
  <<"before_label_value_whitespace", White, "before_label_value_whitespace">>,
  <<"reading_label_value", Name, "reading_label_value">>,
  <<"after_label_value_whitespace", {CLOSE}, "after_identity">>,
  <<"after_label_value_whitespace", {COMMA}, "before_label_whitespace">>,
  <<"after_label_value_whitespace", White, "after_label_value_whitespace">>,
  <<"after_identity", White, "after_identity">>,
  <<"after_identity", NL, "new_line">> }

Skip ==
  /\ Checked
  /\ \E mv \in Moves : mv[1] = state /\ Char(pos) \in mv[2] /\ state' = mv[3]
  /\ pos' = pos + 1
  /\ UNCHANGED <<tokens, result, why>>

\* A line starts with a name: a new series.
BeginMetric ==
  /\ Checked
  /\ state = "new_line" /\ Char(pos) \in Name
  /\ token_start_pos' = pos /\ pos' = pos + 1
  /\ result' = Append(result, << >>)
  /\ state' = "reading_metric"
  /\ UNCHANGED <<tmp_token, why>>

\* Every pair takes the place of the one before.
WithPair_Overwrites(key, value) ==
  [result EXCEPT ![Len(result)] = <<[key |-> key, value |-> value]>>]

\* ngx_array_push on the series under construction
WithPair(key, value) ==
  [result EXCEPT ![Len(result)] = Append(@, [key |-> key, value |-> value])]

Token == Span(token_start_pos, pos - token_start_pos)

\* The pair of the metric is only pushed when the brace follows at once.
EndMetric_NotBeforeSpace ==
  /\ Checked
  /\ state = "reading_metric" /\ Char(pos) \in {OPEN} \cup White
  /\ result' = IF Char(pos) = OPEN THEN WithPair(Metric, Token) ELSE result
  /\ state' = IF Char(pos) = OPEN THEN "before_label_whitespace" ELSE "after_metric_whitespace"
  /\ pos' = pos + 1
  /\ UNCHANGED <<tokens, why>>

EndMetric ==
  /\ Checked
  /\ state = "reading_metric" /\ Char(pos) \in {OPEN} \cup White
  /\ result' = WithPair(Metric, Token)
  /\ state' = IF Char(pos) = OPEN THEN "before_label_whitespace" ELSE "after_metric_whitespace"
  /\ pos' = pos + 1
  /\ UNCHANGED <<tokens, why>>

\* The white space before a label has no end.
BeginLabel_Stuck ==
  /\ Checked
  /\ state = "before_label_whitespace" /\ Char(pos) \notin White
  /\ UNCHANGED <<state, token_start_pos, pos, tmp_token, result, why>>

\* The end of the white space before a label; no character is taken.
BeginLabel ==
  /\ Checked
  /\ state = "before_label_whitespace" /\ Char(pos) \notin White
  /\ token_start_pos' = pos
  /\ state' = "reading_label"
  /\ UNCHANGED <<pos, tmp_token, result, why>>

EndLabel ==
  /\ Checked
  /\ state = "reading_label" /\ Char(pos) \in {"="} \cup White
  /\ tmp_token' = Token
  /\ state' = IF Char(pos) = "=" THEN "before_label_value_whitespace" ELSE "after_label_whitespace"
  /\ pos' = pos + 1
  /\ UNCHANGED <<token_start_pos, result, why>>

\* The end of the white space before a quote; no character is taken.
EndWhiteBeforeQuote ==
  /\ Checked
  /\ state = "before_label_value_whitespace" /\ Char(pos) \notin White
  /\ state' = "before_label_value_quote"
  /\ UNCHANGED <<pos, tokens, result, why>>

\* The token begins with the quote mark.
BeginValue_WithQuote ==
  /\ Checked
  /\ state = "before_label_value_quote" /\ Char(pos) = QUOTE
  /\ token_start_pos' = pos /\ pos' = pos + 1
  /\ state' = "reading_label_value"
  /\ UNCHANGED <<tmp_token, result, why>>

BeginValue ==
  /\ Checked
  /\ state = "before_label_value_quote" /\ Char(pos) = QUOTE
  /\ token_start_pos' = pos + 1 /\ pos' = pos + 1
  /\ state' = "reading_label_value"
  /\ UNCHANGED <<tmp_token, result, why>>

EndValue ==
  /\ Checked
  /\ state = "reading_label_value" /\ Char(pos) = QUOTE
  /\ result' = WithPair(tmp_token, Token)
  /\ pos' = pos + 1
  /\ state' = "after_label_value_whitespace"
  /\ UNCHANGED <<tokens, why>>

\* Completed wherever these states are.
Complete_Anywhere ==
  /\ Checked
  /\ state \in {"new_line", "reading_comment", "after_identity"}
  /\ state' = "completed"
  /\ UNCHANGED <<pos, tokens, result, why>>

\* The end of the text, in the states that accept it.
Complete ==
  /\ Checked
  /\ state \in {"new_line", "reading_comment", "after_identity"} /\ pos >= buffer_end
  /\ state' = "completed"
  /\ UNCHANGED <<pos, tokens, result, why>>

CanSkip == \E mv \in Moves : mv[1] = state /\ Char(pos) \in mv[2]

Unknown ==
  /\ ~CanSkip
  /\ \/ state \in {"new_line", "reading_comment", "after_identity"} /\ pos < buffer_end
        /\ ~(state = "new_line" /\ Char(pos) \in Name)
     \/ state \in {"whitespace_line", "after_metric_whitespace", "after_label_whitespace",
                   "after_label_value_whitespace"}
     \/ state = "reading_metric" /\ Char(pos) \notin {OPEN} \cup White
     \/ state = "reading_label" /\ Char(pos) \notin {"="} \cup White
     \/ state \in {"before_label_value_quote", "reading_label_value"} /\ Char(pos) # QUOTE

Unexpected ==
  /\ Checked
  /\ Unknown
  /\ state' = "error" /\ why' = "format"
  /\ UNCHANGED <<pos, tokens, result>>

Next ==
  \/ Overflow \/ Unexpected \/ Complete \/ Skip
  \/ BeginMetric \/ EndMetric \/ BeginLabel \/ EndLabel
  \/ EndWhiteBeforeQuote \/ BeginValue \/ EndValue

Spec == Init /\ [][Next]_vars

FairSpec == Spec /\ WF_vars(Next)

-----------------------------------------------------------------------------
\* The assumption of dvt_cache_init and of metric_label_id: every series that
\* is handed over names its metric before any label, by a name that is not
\* empty.  A label may be spelled metric, too, and then replaces it: SpecCorrect
\* says that the last one counts.
MetricFirst ==
  state = "completed" =>
    \A k \in 1 .. Len(result) :
      Len(result[k]) > 0 /\ NamesMetric(result[k][1].key) /\ result[k][1].value.len > 0

\* Where a line begins with a name.
SeriesStarts ==
  {p \in 1 .. Len(text) : text[p] \in Name /\ (p = 1 \/ text[p - 1] \in NL)}

\* Nothing is lost and nothing made up: an accepted text has been read to its
\* end, and has given a series for each line that begins with a name.
WholeTextRead ==
  state = "completed" =>
    /\ pos = buffer_end
    /\ Len(result) = Cardinality(SeriesStarts)
    /\ {result[k][1].value.from : k \in 1 .. Len(result)} = SeriesStarts

NameOnly(span) ==
  \A p \in span.from .. span.from + span.len - 1 : p <= Len(text) /\ text[p] \in Name

LastValue(k) == result[k][Len(result[k])].value

\* Every label and value is a run of name characters, the values between
\* quotes, all in the order of the text and on the line of their metric.
SpansExact ==
  state = "completed" =>
    \A k \in 1 .. Len(result) :
      /\ \A p \in 1 .. Len(result[k]) : NameOnly(result[k][p].key) /\ NameOnly(result[k][p].value)
      /\ \A p \in 2 .. Len(result[k]) :
           LET key == result[k][p].key  value == result[k][p].value IN
             /\ Char(value.from - 1) = QUOTE /\ Char(value.from + value.len) = QUOTE
             /\ result[k][p - 1].value.from + result[k][p - 1].value.len < key.from
             /\ key.from + key.len < value.from - 1
      /\ \A x \in result[k][1].value.from .. LastValue(k).from + LastValue(k).len : Char(x) \notin NL

\* Two states take no character, so a text may need two checks per character:
\* texts of less than half the safety count are never refused because of it.
SafetyIsEnough == 2 * Len(text) + 2 < SAFETY_COUNT => why # "safety"

=============================================================================
