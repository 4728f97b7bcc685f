--------------------------- MODULE MCQueryHandler ---------------------------
(***************************************************************************)
(* 64-bit words scaled to 32 values and int to 8.  Every list of up to two *)
(* arguments, and the full query before or after one more: an argument     *)
(* given twice, without a value, unknown, or beyond the signed half or the *)
(* whole word.  Of the ranges, some are whole numbers of steps, some not,  *)
(* one wraps and one has a count that is cut to an int within the limit.   *)
(* Of the series, s3 has no curve and s2 long values.                      *)
(***************************************************************************)
EXTENDS QueryHandler

Arg_(name, value) == [name |-> name, value |-> value]

MCRejected == {"bad"}
MCUndefined == {"nolabel"}
MCAnswer == [q \in {"none", "one", "three", "odd"} |->
              CASE q = "none" -> << >>
                [] q = "one" -> <<"s1">>
                [] q = "three" -> <<"s1", "s2", "s3">>
                [] q = "odd" -> <<"no_label", "no_period">>]

Times_ == {Arg_("start", 0), Arg_("start", 12), Arg_("start", 20), Arg_("stop", 10), Arg_("stop", 40),
           Arg_("step", 0), Arg_("step", 1), Arg_("step", 4), Arg_("step", 17), Arg_("epoch", 1)}
Texts_ == {Arg_("query", q) : q \in {"bad", "nolabel", "none", "one", "three", "odd"}}
Infos == {Arg_("info", <<"s">>), Arg_("info", <<"s", "x", "S", "P">>), Arg_("info", << >>)}
Bare == {[name |-> n] : n \in {"start", "query", "info", "aggregate", "other"}}

MCArgs == Times_ \cup Texts_ \cup Infos \cup Bare

Full(q, p) == <<Arg_("start", 0), q, Arg_("stop", 6), Arg_("step", p)>>

MCArgLists ==
  UNION {[1 .. k -> MCArgs] : k \in 1 .. 2}
    \cup {Full(q, p) : q \in Texts_, p \in {1, 2}}
    \cup {Append(Full(q, p), x) : q \in Texts_, p \in {1, 2}, x \in MCArgs}
    \cup {<<x>> \o Full(q, 2) : q \in Texts_, x \in MCArgs}
=============================================================================
