----------------------------- MODULE MCAutoSync ----------------------------
(***************************************************************************)
(* Days of two hours, intervals of one to three days: below, in and above  *)
(* the range, words for on and off and a wrong one, and enough time for    *)
(* the longest to pass.                                                    *)
(***************************************************************************)
EXTENDS AutoSync

MCDays == {-1, 1, 4}
MCWords == {"true", "no", "maybe"}
MCTrueWords == {"true"}
MCFalseWords == {"no"}
=============================================================================
