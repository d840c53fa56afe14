---------------------------- MODULE MCDetailPane ---------------------------
(***************************************************************************)
(* Three CWEs and a pane at least four characters wide.  c1 has more lines *)
(* than fit, with words that must be split, a double space and a space at  *)
(* the end; c2 has a paragraph of spaces and one that is indented; c3 is   *)
(* indented as wide as the narrow pane and wider than the broad one.       *)
(***************************************************************************)
EXTENDS DetailPane, TLC

CONSTANTS c1, c2, c3

MCCwe == {c1, c2, c3}

S == <<"sp">>
X(n) == [i \in 1 .. n |-> "x"]

Long == S \o X(1) \o S \o X(2) \o S \o X(6) \o S \o S \o X(3) \o S
Blank == S \o S
Indented == S \o S \o X(2) \o S \o X(3) \o S \o X(1)
AsWide == S \o S \o S \o S \o X(2)
Wider == S \o S \o S \o S \o S \o S \o S \o X(1)

MCParagraph == {Long, Blank, Indented, AsWide, Wider}
MCParagraphs ==
  (c1 :> <<Long>>) @@ (c2 :> <<Blank, Indented>>) @@ (c3 :> <<AsWide, Wider>>)
MCPlain == (c1 :> 2) @@ (c2 :> 1) @@ (c3 :> 0)

MCTerm == {[cols |-> 4, rows |-> 3], [cols |-> 7, rows |-> 5]}
=============================================================================
