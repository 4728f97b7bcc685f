----------------------------- MODULE MCSpecText -----------------------------
(***************************************************************************)
(* Texts rendered from lists of one or two pairs, with both forms of the   *)
(* quote mark, and the same texts with one character deleted, replaced or  *)
(* inserted, or with a tail after the closing brace, and all beginnings.   *)
(***************************************************************************)
EXTENDS SpecText, SequencesExt

MCNames == {<< >>, <<"n">>, <<"2", "7">>}
Quotes == {<<"'">>, <<"%", "2", "7">>}

PairTexts ==
  {[pair |-> <<k, v>>, text |-> k \o <<":">> \o q \o v \o p] :
     k \in MCNames, v \in MCNames, q \in Quotes, p \in Quotes}

\* A text, and the list of pairs it was rendered from.
Documents ==
  {[pairs |-> <<d.pair>>, text |-> <<"{">> \o d.text \o <<"}">>] : d \in PairTexts}
    \cup {[pairs |-> <<d.pair, e.pair>>,
           text  |-> <<"{">> \o d.text \o <<",">> \o e.text \o <<"}">>] :
             d \in PairTexts, e \in {f \in PairTexts : f.pair[1] = <<"n">> /\ f.pair[2] # <<"n">>}}

Short == {d \in Documents : Len(d.text) <= 8}

Edited(t) ==
  {SubSeq(t, 1, k - 1) \o SubSeq(t, k + 1, Len(t)) : k \in 1 .. Len(t)}
    \cup {ReplaceAt(t, k, c) : k \in 1 .. Len(t), c \in Alphabet}
    \cup {InsertAt(t, k, c) : k \in 1 .. Len(t) + 1, c \in Alphabet}

Beginnings(t) == {SubSeq(t, 1, k) : k \in 0 .. Len(t)}

MCTexts ==
  UNION {Beginnings(d.text) : d \in Documents} \cup UNION {Edited(d.text) : d \in Short}

Slice(span) == SubSeq(text, span.from, span.from + span.len - 1)

\* Every text is accepted or refused in the end, and every rendered list of
\* pairs within the safety count is accepted, whichever quote marks were used,
\* and read back as the same pairs in the same order.
AcceptsRendered ==
  <>(/\ Stopped
     /\ why # "safety" =>
          \A d \in Documents : d.text = text =>
            /\ state = "completed"
            /\ [k \in 1 .. Len(result) |-> <<Slice(result[k].key), Slice(result[k].value)>>] = d.pairs)
=============================================================================
