---------------------------- MODULE QueryHandler ----------------------------
(***************************************************************************)
(* ngx_http_data_vs_time_handler and query_handler: from the arguments of  *)
(* a request to the status and the body of the response.  The body is the  *)
(* sequence of its JSON tokens, white space (the pretty flag) left out.    *)
(* What a set spec selects is a constant here: SpecText, Worker and        *)
(* SeriesSet model how it is found, ModuleConf the cache that could not be *)
(* built, and Worker the series that has an id without a name.             *)
(***************************************************************************)
EXTENDS Words, Sequences, FiniteSets

CONSTANTS
  Uris,         \* "series" (/api/v1/series?), "summary", "other"
  ArgLists,     \* what strsep(&args, "&") cuts the arguments into
  Rejected,     \* texts dvt_parse_series_spec_text answers with NULL
  Undefined,    \* texts that name an unknown label
  Answer,       \* for any other text, the series dvt_cache_get_series_set gives
  Curves,       \* the series dvt_simulate_data has a curve for
  Incomplete,   \* of these, the ones without a label that the curve needs
  ZeroPeriod,   \* the belts of wt_tonnes whose period is zero
  Wide          \* those with printed values of more than 11 characters

\* The value of an argument is what follows its first "="; without one the
\* record has no value.  Names are told apart by their first letters only, so
\* "other" is any name that begins with none of these.
Numbers == {"start", "stop", "step", "epoch"}
ArgNames == Numbers \cup {"query", "info", "aggregate", "other"}

Letters == {"S", "s", "T", "t", "P", "x"}
Series == UNION {{Answer[q][k] : k \in 1 .. Len(Answer[q])} : q \in DOMAIN Answer}

\* What the body is made of besides the series, as the JSON grammar names it.
Punctuation == {"begin_array", "end_array", "begin_object", "end_object", "comma",
                "values", "array", "damaged", "error", "summary"}

ASSUME AnswerAssumption ==
  /\ \A q \in DOMAIN Answer : Answer[q] \in Seq(Series)
  /\ Series \cap Punctuation = {}

\* Only the other texts have an answer.
ASSUME TextsAssumption == DOMAIN Answer \cap (Rejected \cup Undefined) = {}

ASSUME ArgumentsAssumption ==
  \A l \in ArgLists :
    /\ Len(l) \in Nat \ {0}
    /\ \A k \in 1 .. Len(l) :
         /\ l[k].name \in ArgNames
         /\ l[k].name \in Numbers /\ "value" \in DOMAIN l[k] => l[k].value \in Nat

ASSUME CurvesAssumption == Incomplete \cup ZeroPeriod \cup Wide \subseteq Curves

VARIABLES
  uri, args,
  pc,       \* "route", "args", "lookup", "object", "field", "close", "send", "end"
  a,        \* position of the next argument
  start, stop, step,  \* int64_t, -1 until given
  text,     \* series_spec_text, NoText until given
  include_series,
  i,        \* position in the answer, of the loop over the series
  body,     \* tokens pushed so far
  status    \* "none", 200, 500 as a string, "declined", "crash"

vars == <<uri, args, pc, a, start, stop, step, text, include_series, i, body, status>>
request == <<uri, args>>
times == <<start, stop, step>>
parsed == <<times, text, include_series>>

CONSTANT NoText

ASSUME NoTextAssumption == NoText \notin Rejected \cup Undefined \cup DOMAIN Answer

Init ==
  /\ uri \in Uris /\ args \in ArgLists
  /\ pc = "route" /\ a = 1 /\ i = 1
  /\ start = -1 /\ stop = -1 /\ step = -1
  /\ text = NoText /\ include_series = TRUE
  /\ body = << >> /\ status = "none"

Reply(s, b) == pc' = "end" /\ status' = s /\ body' = b

-----------------------------------------------------------------------------
(* ngx_http_data_vs_time_handler                                           *)

Decline ==
  /\ pc = "route" /\ uri = "other"
  /\ Reply("declined", << >>)
  /\ UNCHANGED <<request, a, parsed, i>>

Summary ==
  /\ pc = "route" /\ uri = "summary"
  /\ Reply("200", <<"summary">>)
  /\ UNCHANGED <<request, a, parsed, i>>

Query ==
  /\ pc = "route" /\ uri = "series"
  /\ pc' = "args"
  /\ UNCHANGED <<request, a, parsed, i, body, status>>

\* No memory for the copy of the arguments.
CopyFails ==
  /\ pc = "route" /\ uri = "series"
  /\ Reply("500", << >>)
  /\ UNCHANGED <<request, a, parsed, i>>

\* A request without a body is left as it is.
Send_NotWhenEmpty ==
  /\ pc = "send" /\ body # << >>
  /\ Reply("200", body)
  /\ UNCHANGED <<request, a, parsed, i>>

\* An empty body is an error, any other is sent as JSON.
Send ==
  /\ pc = "send"
  /\ IF body = << >> THEN Reply("500", << >>) ELSE Reply("200", body)
  /\ UNCHANGED <<request, a, parsed, i>>

-----------------------------------------------------------------------------
(* query_handler: the arguments                                            *)

Arg == args[a]
HasValue == "value" \in DOMAIN Arg
Reading == pc = "args" /\ a <= Len(args)

\* strtoull stops at the largest word, and what is beyond the signed half of a
\* word becomes negative.
Signed(v) ==
  LET word == IF v < WORD64 THEN v ELSE WORD64 - 1 IN
    IF word < WORD64 \div 2 THEN word ELSE word - WORD64

\* Only the first start, stop and step count.
Number_FirstWins ==
  /\ Reading /\ Arg.name \in Numbers /\ HasValue
  /\ start' = IF Arg.name = "start" /\ start = -1 THEN Signed(Arg.value) ELSE start
  /\ stop' = IF Arg.name = "stop" /\ stop = -1 THEN Signed(Arg.value) ELSE stop
  /\ step' = IF Arg.name = "step" /\ step = -1 THEN Signed(Arg.value) ELSE step
  /\ a' = a + 1
  /\ UNCHANGED <<request, pc, text, include_series, i, body, status>>

Number ==
  /\ Reading /\ Arg.name \in Numbers /\ HasValue
  /\ start' = IF Arg.name = "start" THEN Signed(Arg.value) ELSE start
  /\ stop' = IF Arg.name = "stop" THEN Signed(Arg.value) ELSE stop
  /\ step' = IF Arg.name = "step" THEN Signed(Arg.value) ELSE step
  /\ a' = a + 1
  /\ UNCHANGED <<request, pc, text, include_series, i, body, status>>

QueryText ==
  /\ Reading /\ Arg.name = "query" /\ HasValue
  /\ text' = Arg.value
  /\ a' = a + 1
  /\ UNCHANGED <<request, pc, times, include_series, i, body, status>>

SeriesLetters == {k \in 1 .. Len(Arg.value) : Arg.value[k] \in {"S", "s"}}

Info ==
  /\ Reading /\ Arg.name = "info" /\ HasValue
  /\ include_series' =
       IF SeriesLetters = {} THEN include_series
       ELSE Arg.value[CHOOSE k \in SeriesLetters : \A l \in SeriesLetters : l <= k] = "S"
  /\ a' = a + 1
  /\ UNCHANGED <<request, pc, times, text, i, body, status>>

\* aggregate is accepted and ignored, with or without a value.
Aggregate ==
  /\ Reading /\ Arg.name = "aggregate"
  /\ a' = a + 1
  /\ UNCHANGED <<request, pc, parsed, i, body, status>>

\* strtoull and strlen of a null pointer.
NoValue ==
  /\ Reading /\ Arg.name \in Numbers \cup {"query", "info"} /\ ~HasValue
  /\ Reply("crash", << >>)
  /\ UNCHANGED <<request, a, parsed, i>>

UnknownName ==
  /\ Reading /\ Arg.name = "other"
  /\ pc' = "send"
  /\ UNCHANGED <<request, a, parsed, i, body, status>>

-----------------------------------------------------------------------------
(* query_handler: the answer                                               *)

EndArgs ==
  /\ pc = "args" /\ a > Len(args)
  /\ pc' = "lookup"
  /\ UNCHANGED <<request, a, parsed, i, body, status>>

NoAnswer ==
  /\ pc = "lookup" /\ text \in {NoText} \cup Rejected
  /\ body' = <<"error">> /\ pc' = "send"
  /\ UNCHANGED <<request, a, parsed, i, status>>

\* The lookup of an unknown label reads out of range: it ends the process, or
\* gives a spec without a match.
UndefinedLookup ==
  /\ pc = "lookup" /\ text \in Undefined
  /\ \/ Reply("crash", << >>)
     \/ pc' = "send" /\ body' = <<"begin_array", "end_array">> /\ UNCHANGED status
  /\ UNCHANGED <<request, a, parsed, i>>

Found ==
  /\ pc = "lookup" /\ text \in DOMAIN Answer
  /\ body' = <<"begin_array">> /\ pc' = "object"
  /\ UNCHANGED <<request, a, parsed, i, status>>

answer == Answer[text]

\* A start that is not the default is taken for one that was given.
RangeGiven_StartNotDefault == start # -1 /\ stop > 0 /\ step >= 0

RangeGiven == start >= 0 /\ stop > 0 /\ step >= 0

\* An object begins, with the series in it if asked for.
Open ==
  /\ pc = "object" /\ i <= Len(answer)
  /\ body' = body \o <<"begin_object">> \o (IF include_series THEN <<answer[i]>> ELSE << >>)
  /\ pc' = IF RangeGiven THEN "field" ELSE "close"
  /\ UNCHANGED <<request, a, parsed, i, status>>

Values(tokens) ==
  body \o (IF include_series THEN <<"comma">> ELSE << >>) \o <<"values">> \o tokens

\* The curve is only looked for if the number of values is within range.
Drawn(c) == c \in Curves /\ ~OutOfRange(Count(start, stop, step))

\* Every time before stop is divided by the period.
PeriodDivides(c) == c \in ZeroPeriod /\ start < stop

\* Where 16 bytes for each of the counted values may not be enough.
MayOverrun(c) ==
  LET range == stop - start IN
    /\ start < stop
    /\ \/ c \in Wide
       \/ range \div step >= INT32 \div 2
       \/ range \div step < 4 /\ range % step # 0

\* A missing label is read out of range, a short buffer is overrun.
UndefinedFor(c) == c \in Incomplete \/ MayOverrun(c)

\* What dvt_simulate_data can return for the series: its null string (also for
\* want of memory); the array, if it is drawn and the loop comes to its end; an
\* array with other data in it, if the behaviour is undefined.
Simulated(c) ==
  {<< >>} \cup
  {tokens \in {<<"array">>, <<"damaged">>} :
     /\ Drawn(c) /\ ~PeriodDivides(c)
     /\ tokens = <<"damaged">> => UndefinedFor(c)}

\* The calls that may end the process.
SimulationEnds(c) == Drawn(c) /\ (PeriodDivides(c) \/ UndefinedFor(c))

\* The comma is written whether or not the series was.
ValuesField_AlwaysComma ==
  /\ pc = "field" /\ step # 0
  /\ \E tokens \in Simulated(answer[i]) : body' = body \o <<"comma", "values">> \o tokens
  /\ pc' = "close"
  /\ UNCHANGED <<request, a, parsed, i, status>>

ValuesField ==
  /\ pc = "field" /\ step # 0
  /\ \E tokens \in Simulated(answer[i]) : body' = Values(tokens)
  /\ pc' = "close"
  /\ UNCHANGED <<request, a, parsed, i, status>>

\* dvt_simulate_data divides by the step.
DivideByZero ==
  /\ pc = "field" /\ step = 0
  /\ Reply("crash", << >>)
  /\ UNCHANGED <<request, a, parsed, i>>

SimulationCrash ==
  /\ pc = "field" /\ step # 0
  /\ SimulationEnds(answer[i])
  /\ Reply("crash", << >>)
  /\ UNCHANGED <<request, a, parsed, i>>

\* The last series is not reached.
Close_StopsEarly ==
  /\ pc = "close"
  /\ body' = body \o <<"end_object">> \o (IF i + 1 < Len(answer) THEN <<"comma">> ELSE << >>)
  /\ i' = IF i + 1 = Len(answer) THEN i + 2 ELSE i + 1
  /\ pc' = "object"
  /\ UNCHANGED <<request, a, parsed, status>>

Close ==
  /\ pc = "close"
  /\ body' = body \o <<"end_object">> \o (IF i # Len(answer) THEN <<"comma">> ELSE << >>)
  /\ i' = i + 1 /\ pc' = "object"
  /\ UNCHANGED <<request, a, parsed, status>>

EndAnswer ==
  /\ pc = "object" /\ i > Len(answer)
  /\ body' = Append(body, "end_array") /\ pc' = "send"
  /\ UNCHANGED <<request, a, parsed, i, status>>

Next ==
  \/ Decline \/ Summary \/ Query \/ CopyFails \/ Send
  \/ Number \/ QueryText \/ Info \/ Aggregate \/ NoValue \/ UnknownName \/ EndArgs
  \/ NoAnswer \/ UndefinedLookup \/ Found
  \/ Open \/ ValuesField \/ DivideByZero \/ SimulationCrash \/ Close \/ EndAnswer

Spec == Init /\ [][Next]_vars

\* The worker runs the handler to its end.
FairSpec == Spec /\ WF_vars(Next)

-----------------------------------------------------------------------------
\* The positions among the arguments read so far that have the name.
ReadAt(name) == {k \in 1 .. a - 1 : args[k].name = name}

LastOf(ks) == CHOOSE k \in ks : \A l \in ks : l <= k

IsLast(name, v, default) ==
  v = IF ReadAt(name) = {} THEN default ELSE Signed(args[LastOf(ReadAt(name))].value)

\* Whatever the order and the repetitions of the arguments, what is answered
\* is what the last start, stop and step said.
LastArgumentWins ==
  pc \in {"lookup", "object", "field", "close"} =>
    IsLast("start", start, -1) /\ IsLast("stop", stop, -1) /\ IsLast("step", step, -1)

\* The last argument with the name is a number that int64_t has, at least min.
AsksFor(name, min) ==
  LET given == {k \in 1 .. Len(args) : args[k].name = name}
      v == args[LastOf(given)].value
  IN given # {} /\ min <= v /\ v < WORD64 \div 2

Sent == pc = "end" /\ status = "200" /\ uri = "series"

\* A client gets values exactly if the last start, stop and step it sent are
\* numbers that fit an int64_t.  It is not told otherwise: a time from 2^63 on
\* counts as not given.
ValuesAsAsked ==
  Sent /\ text \in DOMAIN Answer /\ answer # << >> =>
    ((\E k \in 1 .. Len(body) : body[k] = "values")
      <=> AsksFor("start", 0) /\ AsksFor("stop", 1) /\ AsksFor("step", 0))

ObjectsAt == {k \in 1 .. Len(body) : body[k] = "begin_object"}
DescribedAt == {k \in 1 .. Len(body) : body[k] \in Series}
OrdinalOf(k) == Cardinality({l \in ObjectsAt : l <= k})

\* A served answer has one object per series, in the order of the answer, and
\* every object describes its series or none does: with info=s the client has
\* nothing but the position to pair objects with series.
OneObjectPerSeries ==
  Sent /\ text \in DOMAIN Answer =>
    /\ Cardinality(ObjectsAt) = Len(answer)
    /\ \A k \in ObjectsAt : include_series => body[k + 1] = answer[OrdinalOf(k)]
    /\ \A k \in DescribedAt : include_series /\ k - 1 \in ObjectsAt

\* The tokens that may follow a token in the JSON of an answer.
Follows(t) ==
  CASE t = "begin_array" -> {"begin_object", "end_array"}
    [] t = "begin_object" -> Series \cup {"values", "end_object"}
    [] t \in Series -> {"comma", "end_object"}
    [] t = "values" -> {"array"}
    [] t = "array" -> {"end_object"}
    [] t = "end_object" -> {"comma", "end_array"}
    [] t = "comma" -> {"begin_object", "values"}
    [] OTHER -> {}

\* A comma is followed by what it separates: an object or a field.
CommasFit ==
  \A k \in 2 .. Len(body) - 1 : body[k] = "comma" =>
    \/ body[k - 1] = "end_object" /\ body[k + 1] = "begin_object"
    \/ body[k - 1] \in Series /\ body[k + 1] = "values"

WellFormed ==
  /\ \A k \in 1 .. Len(body) - 1 : body[k + 1] \in Follows(body[k])
  /\ CommasFit
  /\ body # << >> => body[1] \in {"begin_array", "error"} /\ body[Len(body)] \in {"end_array", "error"}

\* A served answer is JSON, unless values were asked for and one of the series
\* has none (no curve, too many or too few values, no memory) or an array that
\* did not fit its buffer.
JSONUnlessNoValues ==
  Sent /\ (\A k \in 1 .. Len(body) - 1 : body[k] = "values" => body[k + 1] = "array") =>
    WellFormed

\* The causes for which the code may have no answer at all.
MayCrash ==
  \/ \E k \in 1 .. Len(args) : args[k].name # "aggregate" /\ "value" \notin DOMAIN args[k]
  \/ text \in Undefined
  \/ RangeGiven /\ step = 0
  \/ RangeGiven /\ \E k \in 1 .. Len(answer) : SimulationEnds(answer[k])

\* Every request is answered: no way through the arguments and the series
\* leaves it without a status, and only these causes end the process.  (Of the
\* allocations, those that the code does not test are taken to succeed.)
Answered ==
  <>(status \in {"200", "500", "declined"} \/ (status = "crash" /\ uri = "series" /\ MayCrash))

-----------------------------------------------------------------------------
\* The Content-Type of every answer is application/json.  The code does not
\* keep this promise.
AlwaysJSON == Sent => WellFormed
=============================================================================
