------------------------------ MODULE MCBrowse ------------------------------
(***************************************************************************)
(* Small instances of Browse for TLC: categories c1 and c2 with weaknesses *)
(* w1 and w2, in an order in which the second category to be stored may    *)
(* come first; labels and a query such that it matches some rows of either *)
(* kind and not all, by label or by id.                                    *)
(***************************************************************************)
EXTENDS Browse, FiniteSets, TLC

CONSTANTS c1, c2, w1, w2

MCCat == {c1, c2}
MCCwe == {w1, w2}
MCCatOrder == <<c1, c2>>
MCCweOrder == <<w1, w2>>
MCRel == (c1 :> {w1, w2}) @@ (c2 :> {})
MCRelShared == (c1 :> {w1, w2}) @@ (c2 :> {w1})
MCChar == {"a", "A", "b", ".", "?", "|", "\\C"}
MCLower == [c \in MCChar |-> IF c = "A" THEN "a" ELSE c]
MCLabel == (c1 :> <<"b", "a">>) @@ (c2 :> <<"b">>)
           @@ (w1 :> <<"b", "A", "b">>) @@ (w2 :> <<"a", "b">>)
MCIdText == (c1 :> <<"b">>) @@ (c2 :> <<"a", "b">>)

\* The id of c2 and the labels of w1 and w2, so that a count can overflow over
\* the matches of a filter.
MCQuery == {<<"a", "b">>}

\* Every pattern of up to three characters against every text of up to three.
Upto3(S) == UNION {[1 .. n -> S] : n \in 0 .. 3}

ASSUME \A q \in Upto3(MCChar), t \in Upto3({"a", "A", "|"}) :
         /\ Found(q, t) => Meant(q, t)
         /\ Simple(q) /\ Meant(q, t) => Found(q, t)

\* What the code does not have.
ASSUME /\ Meant(<<"a", "b", "?">>, <<"a">>) /\ ~Found(<<"a", "b", "?">>, <<"a">>)
       /\ Meant(<<"a", "|", "b">>, <<"b">>) /\ ~Found(<<"a", "|", "b">>, <<"b">>)
=============================================================================
