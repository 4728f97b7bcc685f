------------------------------ MODULE MCWorker ------------------------------
(***************************************************************************)
(* A worker from start-up on.  Expositions of three kinds:                 *)
(* - Small: the first line has up to two labels besides its metric (which  *)
(*   is "a"), the second up to one; labels may repeat, "metric" may be     *)
(*   given again, one label has a capital letter.  A few questions about   *)
(*   those of one line.                                                    *)
(* - Served: up to three lines, with no, one and two labels in either      *)
(*   order, a line given twice, a repeated label and a second metric; all  *)
(*   questions of up to two pairs, also about what no line has.            *)
(* - Queried: one exposition, all questions of up to three pairs with at   *)
(*   most one unknown label.                                               *)
(***************************************************************************)
EXTENDS Worker

MCNames == {"metric", "zone", "unit", "Unit", "a", "b"}
MCLower == [x \in MCNames |-> IF x = "Unit" THEN "unit" ELSE x]
MCSameBucket == {<<"Unit", "unit">>}

P(key, value) == [key |-> key, value |-> value]

UpTo(pairs, k) == UNION {[1 .. x -> pairs] : x \in 0 .. k}

OtherPairs == [key : {"metric", "zone"}, value : {"a", "b"}] \cup {P("unit", "a"), P("Unit", "a")}

Lines(metrics, k) == {<<P("metric", v)>> \o others : v \in metrics, others \in UpTo(OtherPairs, k)}

Small ==
  {<< >>} \cup {<<c>> : c \in Lines({"a"}, 2)}
    \cup {<<c, d>> : c \in Lines({"a"}, 2), d \in Lines({"a", "b"}, 1)}

Plain == {<<P("metric", "a")>>, <<P("metric", "b"), P("zone", "a")>>,
          <<P("metric", "a"), P("zone", "b"), P("unit", "a")>>,
          <<P("metric", "a"), P("unit", "a"), P("zone", "a")>>}
Odd == {<<P("metric", "a"), P("zone", "b"), P("zone", "a")>>,
        <<P("metric", "a"), P("zone", "a"), P("metric", "b")>>}

Served ==
  {<<c, d>> : c \in Plain, d \in Plain \cup Odd}
    \cup {<<P("metric", "b"), P("zone", "b")>>} \X Plain \X Plain

Queried == <<<<P("metric", "a"), P("zone", "a"), P("unit", "a")>>, <<P("metric", "b"), P("zone", "b")>>>>

MCExpositions == Small \cup Served \cup {Queried}

Understandable == [key : {"metric", "zone", "unit"}, value : {"a", "b"}]

FewQuestions == {<< >>, <<P("unit", "a")>>, <<P("Unit", "a")>>}

ServedQuestions ==
  {<< >>} \cup {<<p>> : p \in Understandable \cup {P("a", "a")}}
    \cup {<<p, q>> : p \in Understandable, q \in Understandable \cup {P("a", "a")}}

QueriedPairs ==
  [key : {"metric"}, value : {"a", "b", "zone"}] \cup [key : {"zone"}, value : {"a", "b"}]
    \cup {P("unit", "a"), P("Unit", "a")}

AtMostOneUnknownLabel(q) == Cardinality({k \in DOMAIN q : q[k].key = "Unit"}) <= 1

MCQuestions ==
  [e \in MCExpositions |->
     IF e = Queried THEN {q \in UpTo(QueriedPairs, 3) : AtMostOneUnknownLabel(q)}
     ELSE IF e \in Served THEN ServedQuestions
     ELSE IF Len(e) = 1 THEN FewQuestions ELSE {}]
=============================================================================
