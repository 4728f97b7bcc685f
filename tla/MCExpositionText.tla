-------------------------- MODULE MCExpositionText --------------------------
(***************************************************************************)
(* Expositions rendered from a comment, a blank line and one or two series *)
(* with up to two labels, one of them perhaps spelled metric, with and     *)
(* without white space where it is allowed, and the short ones with one    *)
(* character deleted, replaced or inserted.                                *)
(***************************************************************************)
EXTENDS ExpositionText, SequencesExt

Blank == {<< >>, <<" ">>}
Lead == {<< >>, <<"\n">>, <<" ", "\n">>, <<"#", "x", "\n">>}
Tail_ == {<< >>, <<"\n">>, <<" ">>, <<"\n", "#", "n">>}

LabelTexts ==
  {<<"m", "=", "\"", "n", "\"">>} \cup
  {w \o <<"n">> \o w \o <<"=">> \o w \o <<"\"">> \o v \o <<"\"">> \o w :
     w \in Blank, v \in {<< >>, <<"n", "m">>}}

LineOf(w, ls) ==
  <<"n", "n">> \o w \o <<"{">> \o ls[1]
    \o (IF Len(ls) = 2 THEN <<",">> \o ls[2] ELSE << >>) \o <<"}">>

Lines1 == {LineOf(w, <<l>>) : w \in Blank, l \in LabelTexts}
Lines2 == {LineOf(w, <<l, k>>) : w \in Blank, l \in LabelTexts, k \in LabelTexts}

\* A text, and the number of labels of each of its series.
Documents ==
  {[labels |-> << >>, text |-> a \o b] : a \in Lead, b \in {<< >>, <<"\n">>, <<"#", "n">>}}
    \cup {[labels |-> <<1>>, text |-> a \o l \o b] : a \in Lead, l \in Lines1, b \in Tail_}
    \cup {[labels |-> <<2, 1>>, text |-> a \o l \o <<"\n">> \o k] :
            a \in Lead, l \in Lines2, k \in Lines1}

Edited(t) ==
  {SubSeq(t, 1, k - 1) \o SubSeq(t, k + 1, Len(t)) : k \in 1 .. Len(t)}
    \cup {ReplaceAt(t, k, c) : k \in 1 .. Len(t), c \in Alphabet}
    \cup {InsertAt(t, k, c) : k \in 1 .. Len(t) + 1, c \in Alphabet}

Short == {d \in Documents : Len(d.text) <= 12}

MCTexts == {d.text : d \in Documents} \cup UNION {Edited(d.text) : d \in Short}

\* Every text is accepted or refused in the end, and every rendered exposition
\* within the safety count is accepted, with the white space the format allows,
\* and gives its series with their labels.
AcceptsRendered ==
  <>(/\ Stopped
     /\ why # "safety" =>
          \A d \in Documents : d.text = text =>
            /\ state = "completed"
            /\ [k \in 1 .. Len(result) |-> Len(result[k]) - 1] = d.labels)
=============================================================================
