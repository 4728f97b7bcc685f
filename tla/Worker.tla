------------------------------- MODULE Worker -------------------------------
(***************************************************************************)
(* From start-up to answers: the cache LabelCache builds, and a worker     *)
(* that answers questions with it, one after the other.  The encoding of a *)
(* question is the machine of SpecFromPairs, as at start-up; the selection *)
(* of series is one step (SeriesSet shows that the loops compute it); a    *)
(* question is the list of pairs SpecText finds in the text of a request.  *)
(* A worker that ends is replaced by one with the same cache, which was    *)
(* built before the fork.                                                  *)
(***************************************************************************)
EXTENDS LabelCache

CONSTANT Questions   \* per exposition, the requests clients think of themselves

ASSUME QuestionsAssumption == Questions \in [Expositions -> SUBSET Seq(KeyVals)]

VARIABLES
  asked,    \* the pairs of the last request
  link,     \* the series whose pairs the client took them from, or 0
  answer    \* dvt_cache_get_series_set: positions in all_series

clientVars == <<asked, link, answer>>
workerVars == <<vars, clientVars>>

WorkerInit == Init /\ asked = << >> /\ link = 0 /\ answer = << >>

StartUp == phase \notin {"ready", "conf_error", "undefined"} /\ Next /\ UNCHANGED clientVars

\* What a client sees of a series of an answer.
Described(k) == to_json(label_names, value_names, all_series[k])

\* A request: with pairs of the client's own, or with those of a series that
\* was in the last answer.
Request(pairs, k) ==
  /\ phase = "ready" /\ pc = "idle"
  /\ Call(pairs)
  /\ asked' = pairs /\ link' = k /\ answer' = << >>
  /\ UNCHANGED cacheVars

Ask == phase = "ready" /\ \E q \in Questions[series_collection] : Request(q, 0)

Follow ==
  \E x \in 1 .. Len(answer) :
    /\ Renderable(label_names, value_names, all_series[answer[x]])
    /\ WellFormed(Described(answer[x]))
    /\ Request(PairsOf(Described(answer[x])), answer[x])

EncodeRequest == phase = "ready" /\ Encode /\ UNCHANGED <<cacheVars, clientVars>>

Selected == {k \in 1 .. Len(all_series) : InSet(Result, all_series[k])}

\* The one list of a set of positions that has them in the order of the cache.
InOrder(S) == {a \in [1 .. Cardinality(S) -> S] : \A x, y \in DOMAIN a : x < y => a[x] < a[y]}

\* The first series that matches ends the scan.
Answer_FirstOnly ==
  /\ phase = "ready" /\ pc = "done"
  /\ \E a \in InOrder(Selected) : answer' = SubSeq(a, 1, IF a = << >> THEN 0 ELSE 1)
  /\ pc' = "idle"
  /\ UNCHANGED <<tables, kvps, n, spec, m, cacheVars, asked, link>>

Answer ==
  /\ phase = "ready" /\ pc = "done"
  /\ answer' \in InOrder(Selected)
  /\ pc' = "idle"
  /\ UNCHANGED <<tables, kvps, n, spec, m, cacheVars, asked, link>>

\* The answer shows a series with an id that is no position in its table.
AnswerCrash ==
  /\ phase = "ready" /\ pc = "done"
  /\ \E k \in Selected : ~Renderable(label_names, value_names, all_series[k])
  /\ pc' = "crash"
  /\ UNCHANGED <<tables, kvps, n, spec, m, cacheVars, clientVars>>

\* A cache that could not be built is a pointer to nothing, and nobody noticed.
RequestWithoutCache ==
  /\ phase = "conf_error" /\ pc = "idle"
  /\ asked' \in Questions[series_collection] /\ link' = 0 /\ answer' = << >>
  /\ pc' = "lookup"
  /\ UNCHANGED <<tables, kvps, n, spec, m, cacheVars>>

CrashWithoutCache ==
  /\ phase = "conf_error" /\ pc = "lookup"
  /\ pc' = "crash"
  /\ UNCHANGED <<tables, kvps, n, spec, m, cacheVars, clientVars>>

\* nginx starts another worker.
Respawn ==
  /\ phase \in {"ready", "conf_error"} /\ pc = "crash"
  /\ pc' = "idle"
  /\ UNCHANGED <<tables, kvps, n, spec, m, cacheVars, clientVars>>

Serve ==
  \/ EncodeRequest \/ Answer \/ AnswerCrash
  \/ CrashWithoutCache \/ Respawn

WorkerNext == StartUp \/ Ask \/ Follow \/ RequestWithoutCache \/ Serve

WorkerSpec == WorkerInit /\ [][WorkerNext]_workerVars

\* Start-up and requests once taken on are carried to their end; clients need
\* not ask.
FairWorkerSpec == WorkerSpec /\ WF_workerVars(StartUp) /\ WF_workerVars(Serve)

-----------------------------------------------------------------------------
mode ==
  CASE phase = "ready" -> "serving"
    [] phase = "conf_error" -> "broken"
    [] phase = "undefined" -> "dead"
    [] OTHER -> IF pc = "crash" THEN "dead" ELSE "starting"

turn ==
  IF mode \notin {"serving", "broken"} \/ pc = "idle" THEN "idle"
  ELSE IF pc = "crash" THEN "lost" ELSE "busy"

Promises == INSTANCE Service WITH
  lines <- series_collection, mode <- mode, turn <- turn, asked <- asked, answer <- answer,
  Questions <- Seq(KeyVals)

\* What the ids, the tables, the encoding and the merge compute together is
\* what a client means by its names, for every exposition that has its labels
\* and values in lower case.
ImplementsService == Promises!Spec

\* The text of a series leads back to it: every text in an answer is pairs
\* between braces and commas, although its end is written over what was there
\* before; a client that asks with the pairs it was shown asks for exactly the
\* stored series, and finds it unless it names a label twice.
LinkFindsSeries ==
  phase = "ready" /\ AllLowerCase /\ pc = "idle" =>
    /\ \A x \in 1 .. Len(answer) : WellFormed(Described(answer[x]))
    /\ link # 0 =>
         /\ Result = all_series[link]
         /\ DistinctLabels(Result.kvs) => \E x \in 1 .. Len(answer) : answer[x] = link

\* A label that a line repeats is counted twice.
NoRepetition ==
  \A k \in 1 .. Len(series_collection) :
    \A p, q \in 1 .. Len(series_collection[k]) :
      series_collection[k][p].key = series_collection[k][q].key => p = q

OnEveryLine(label) ==
  \A k \in 1 .. Len(series_collection) :
    \E p \in 1 .. Len(series_collection[k]) : series_collection[k][p].key = label

\* The summary keeps its word: a client that asks for a value it found there
\* gets at least as many series as the count beside it says, and exactly as
\* many, up to 16 bits, if every series has the label.
SummaryCountsAnswer ==
  phase = "ready" /\ AllLowerCase /\ pc = "idle" /\ Len(asked) = 1 /\ NoRepetition =>
    LET p == asked[1] IN
      p.key \in DOMAIN lavs_to_json /\ p.value \in DOMAIN lavs_to_json[p.key] =>
        /\ lavs_to_json[p.key][p.value] <= Len(answer)
        /\ OnEveryLine(p.key) =>
             lavs_to_json[p.key][p.value] = Len(answer) % (UINT16_MAX + 1)

\* Start-up ends, and every request is answered or lost and a worker is there
\* for the next one.  (ImplementsService says which ones may be lost.)
BackForTheNext ==
  (mode = "starting" \/ turn # "idle") ~> (mode # "starting" /\ turn = "idle")
=============================================================================
