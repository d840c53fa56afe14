---------------------------- MODULE Subsequence ----------------------------
(***************************************************************************)
(* The loops and queries of the program that go through a list in its      *)
(* order and take out of it what passes a test.                            *)
(***************************************************************************)
EXTENDS Integers, Sequences

\* The elements of s that are in A, in the order of s.  This is SelectSeq with
\* a set for the test, so that it can be reasoned about.
Keep(s, A) ==
  LET keep[n \in 0 .. Len(s)] ==
        IF n = 0 THEN << >>
        ELSE IF s[n] \in A THEN Append(keep[n - 1], s[n])
        ELSE keep[n - 1]
  IN keep[Len(s)]
=============================================================================
