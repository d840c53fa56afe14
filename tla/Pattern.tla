------------------------------ MODULE Pattern ------------------------------
(***************************************************************************)
(* The patterns of search and filter: pattern_match() and                  *)
(* find_pattern_match() (src/ui/Layout.cpp).  A text is a sequence of      *)
(* characters; "\C" in a query counts as one of them.                      *)
(***************************************************************************)
EXTENDS Subsequence, SequencesExt

CONSTANTS
  Char,    \* the characters of patterns and labels
  Lower    \* tolower()

ASSUME PatternAssumption == Lower \in [Char -> Char]

\* The two characters that make case count.
CaseMark == "\\C"

\* update_search_matches() and update_filter_matches() take the first \C out
\* of the query; with it case counts.
CaseSensitive(query) == CaseMark \in ToSet(query)
PatternOf(query) ==
  RemoveAt(query, SelectInSeq(query, LAMBDA c : c = CaseMark))

Same(c, d, sensitive) == IF sensitive THEN c = d ELSE Lower[c] = Lower[d]

\* pattern_match(): where a match that begins at start ends, exclusive; 0 if
\* there is none.  "?" is skipped, "|" is a character like others.
PatternEnd(pattern, text, start, sensitive) ==
  LET end[p \in 1 .. Len(pattern) + 1] ==
        [t \in 1 .. Len(text) + 1 |->
          IF p > Len(pattern) THEN t
          ELSE IF pattern[p] = "?" THEN end[p + 1][t]
          ELSE IF t > Len(text) THEN 0
          ELSE IF pattern[p] = "." \/ Same(pattern[p], text[t], sensitive)
                 THEN end[p + 1][t + 1]
          ELSE 0]
  IN end[1][start]

\* find_pattern_match() returns a position.  The empty text has none, not even
\* for the empty pattern.
Found(query, text) ==
  \E start \in DOMAIN text :
    PatternEnd(PatternOf(query), text, start, CaseSensitive(query)) # 0

-----------------------------------------------------------------------------
(* What a query means by the comment of Layout.cpp:20: ". (any char),      *)
(* ? (optional char), | (OR)".                                             *)

\* The character at p of the pattern may stand for what is from t up to u.
Takes(pattern, p, text, t, u, sensitive) ==
  \/ u = t /\ "?" \in {pattern[i] : i \in {p, p + 1} \cap DOMAIN pattern}
  \/ /\ pattern[p] # "?"
     /\ u = t + 1 /\ t \in DOMAIN text
     /\ pattern[p] = "." \/ Same(pattern[p], text[t], sensitive)

\* An alternative is what is between two bars, or a bar and an end.  The query
\* means a text if one of them is somewhere in it.
Meant(query, text) ==
  LET pattern == PatternOf(query)
      bars == {p \in 0 .. Len(pattern) + 1 : p \in DOMAIN pattern => pattern[p] = "|"}
  IN \E l, r \in bars :
       /\ l < r /\ (l + 1 .. r - 1) \cap bars = {}
       /\ \E at \in [l + 1 .. r -> 1 .. Len(text) + 1] :
            /\ at[l + 1] \in DOMAIN text
            /\ \A p \in l + 1 .. r - 1 :
                 Takes(pattern, p, text, at[p], at[p + 1], CaseSensitive(query))

\* A query without the two operators that pattern_match() does not have.
Simple(query) == {"?", "|"} \cap ToSet(query) = {}
=============================================================================
