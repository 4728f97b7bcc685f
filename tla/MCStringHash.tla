---------------------------- MODULE MCStringHash ----------------------------
(***************************************************************************)
(* Tables of up to four names of three lengths, one with a capital letter, *)
(* and of names without data; hash functions that spread and that pile up; *)
(* buckets of one, two and three cache lines, one too small for anything,  *)
(* and one too wide for its u_short.                                       *)
(***************************************************************************)
EXTENDS StringHash

MCNames == {"a", "b", "B", "label", "a_long_label"}
MCLower == [x \in MCNames |-> IF x = "B" THEN "b" ELSE x]
MCLength == [x \in MCNames |-> CASE x = "label" -> 54 [] x = "a_long_label" -> 100 [] OTHER -> 1]

MCHashes == {[x \in MCNames |-> 6],
             [x \in MCNames |-> CASE x = "a" -> 1 [] x = "b" -> 2 [] x = "B" -> 4
                                  [] x = "label" -> 3 [] OTHER -> 7]}

MCKeyLists == UNION {[1 .. k -> MCNames \cup {NoKey}] : k \in 0 .. 4}
=============================================================================
