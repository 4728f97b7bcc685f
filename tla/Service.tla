------------------------------- MODULE Service -------------------------------
(***************************************************************************)
(* What the module promises to its clients, in names only: no ids, no      *)
(* tables, no order of lookups.  A server starts from the lines of an      *)
(* exposition, each a series with its pairs; a client asks with a list of  *)
(* pairs; the answer lists lines.  Nothing is promised of an exposition    *)
(* with capital letters, not even that it can be served.  Worker           *)
(* implements it.                                                          *)
(***************************************************************************)
EXTENDS Integers, Sequences

CONSTANTS
  Expositions,   \* sequences of series, each a sequence of pairs
  NoExposition,
  Questions,     \* lists of pairs a client may send
  Lower,         \* names in lower case
  MetricName

VARIABLES
  lines,   \* the exposition, or NoExposition
  mode,    \* "starting", "serving", "broken" (no cache), "dead"
  turn,    \* "idle", "busy", "lost"
  asked,   \* the last question
  answer   \* the lines listed for it

vars == <<lines, mode, turn, asked, answer>>

\* What line n says and what a question says, as sets of pairs.
Says(n) == {lines[n][p] : p \in 1 .. Len(lines[n])}
Wanted == {asked[p] : p \in 1 .. Len(asked)}

LabelsOf(pairs) == {q.key : q \in pairs}
AllLabels == UNION {LabelsOf(Says(n)) : n \in 1 .. Len(lines)}

LowerCaseLines ==
  \A n \in 1 .. Len(lines) : \A q \in Says(n) : Lower[q.key] = q.key /\ Lower[q.value] = q.value

Understood == LabelsOf(Wanted) \subseteq AllLabels

\* A line that names no label twice.
Simple(n) == \A p, q \in 1 .. Len(lines[n]) : lines[n][p].key = lines[n][q].key => p = q

\* A question that names the metric at most once: of several the last counts.
OneMetric ==
  \A p, q \in 1 .. Len(asked) :
    asked[p].key = MetricName /\ asked[q].key = MetricName => p = q

\* The answer has every line that says all that is wanted, and only such lines
\* among those that carry the labels wanted, each once and in order; a
\* question with an unknown label gets the empty answer.
Promise(a) ==
  /\ \A x, y \in 1 .. Len(a) : x < y => a[x] < a[y]
  /\ \A x \in 1 .. Len(a) : a[x] \in 1 .. Len(lines)
  /\ IF ~Understood THEN a = << >>
     ELSE \A n \in {l \in 1 .. Len(lines) : Simple(l)} :
            LET listed == \E x \in 1 .. Len(a) : a[x] = n IN
              /\ OneMetric /\ Wanted \subseteq Says(n) => listed
              /\ OneMetric /\ LabelsOf(Wanted) \subseteq LabelsOf(Says(n)) /\ listed
                   => Wanted \subseteq Says(n)

Init ==
  /\ lines \in Expositions \cup {NoExposition}
  /\ mode = "starting" /\ turn = "idle"
  /\ asked = << >> /\ answer = << >>

\* Without an exposition a server never comes up; with one in lower case it
\* does, perhaps without a cache.
Start ==
  /\ mode = "starting"
  /\ mode' \in {"serving", "broken", "dead"}
  /\ lines = NoExposition => mode' = "dead"
  /\ mode' = "dead" => lines = NoExposition \/ ~LowerCaseLines
  /\ UNCHANGED <<lines, turn, asked, answer>>

Ask ==
  /\ mode \in {"serving", "broken"} /\ turn = "idle"
  /\ asked' \in Questions /\ answer' = << >>
  /\ turn' = "busy"
  /\ UNCHANGED <<lines, mode>>

Reply ==
  /\ mode = "serving" /\ turn = "busy"
  /\ LowerCaseLines => Promise(answer')
  /\ turn' = "idle"
  /\ UNCHANGED <<lines, mode, asked>>

\* A question is lost only if it names an unknown label, or by a server
\* without a cache, or with one that has capital letters.
Lose ==
  /\ turn = "busy"
  /\ mode = "broken" \/ ~Understood \/ ~LowerCaseLines
  /\ turn' = "lost"
  /\ UNCHANGED <<lines, mode, asked, answer>>

Recover ==
  /\ turn = "lost" /\ turn' = "idle"
  /\ UNCHANGED <<lines, mode, asked, answer>>

Next == Start \/ Ask \/ Reply \/ Lose \/ Recover

Spec == Init /\ [][Next]_vars
=============================================================================
