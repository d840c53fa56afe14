--------------------------- MODULE MCCommandLine ---------------------------
(***************************************************************************)
(* An instance of CommandLine for TLC: every candidate, some prefixes of   *)
(* them that complete to one, two or no candidates, two ids of which one   *)
(* is in the catalogue, and texts with spaces around them.                 *)
(***************************************************************************)
EXTENDS CommandLine

MCWord ==
  {"", "s", "qu", "cwe", "bogus"} \cup
    ({Candidates[i] : i \in DOMAIN Candidates} \ {"cwe "})

MCInput == MCWord \cup {"cwe ", "cwe 7", "cwe 79", "cwe x", " ", "yes "}

StartsWith(s, p) == Len(p) <= Len(s) /\ SubSeq(s, 1, Len(p)) = p

MCPrefix == {p \in MCInput \X MCInput : StartsWith(p[2], p[1])}

MCTrim ==
  [i \in MCInput |-> CASE i = " " -> ""
                       [] i = "yes " -> "yes"
                       [] i = "cwe " -> "cwe"
                       [] OTHER -> i]

MCSearchCwes ==
  [i \in MCInput |->
     IF i \in {"cwe 7", "cwe 79"} THEN <<"cwe 79">> ELSE << >>]

MCFound == {"cwe 79"}
=============================================================================
