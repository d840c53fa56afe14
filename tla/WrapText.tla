------------------------------ MODULE WrapText -----------------------------
(***************************************************************************)
(* wrap_text() (src/ui/DetailPane.cpp): a paragraph is cut into lines at   *)
(* most as wide as the pane, with the paragraph's indent before each.      *)
(*                                                                         *)
(* One step per iteration of its loop.  A character is "sp", the space, or *)
(* "x", any other; a line is the pair of the first and last position taken *)
(* from the paragraph, positions counted from 1.  The lines are kept as a  *)
(* set: their order is that of the positions.                              *)
(***************************************************************************)
EXTENDS Integers, Sequences

CONSTANT Paragraph   \* the paragraphs a CWE may have

ASSUME ParagraphAssumption == Paragraph \subseteq Seq({"sp", "x"})

VARIABLES
  input,      \* the argument
  width,      \* the other one
  indent,     \* how many spaces input begins with
  pos,        \* where `remaining` begins
  cuts,       \* the lines pushed so far
  wrapping    \* "no", "loop", "thrown" (std::out_of_range)

wrapVars == <<input, width, indent, pos, cuts, wrapping>>

\* Characters that fit behind the indent.
Room == width - indent

Rest == Len(input) - pos + 1

IsIndent(t, n) ==
  /\ n <= Len(t)
  /\ \A i \in 1 .. n : t[i] = "sp"
  /\ n < Len(t) => t[n + 1] # "sp"

\* The call: the leading spaces are split off.
StartWrap(t, w) ==
  /\ wrapping = "no"
  /\ input' = t
  /\ width' = w
  /\ \E n \in 0 .. Len(t) : IsIndent(t, n) /\ indent' = n /\ pos' = n + 1
  /\ cuts' = {}
  /\ wrapping' = "loop"

\* What remains fits on one line, or nothing does remain: a break took the
\* last space.
LastLine ==
  /\ wrapping = "loop"
  /\ Rest <= Room \/ Rest = 0
  /\ cuts' = IF Rest = 0 THEN cuts ELSE cuts \cup {<<pos, Len(input)>>}
  /\ pos' = Len(input) + 1
  /\ wrapping' = "no"
  /\ UNCHANGED <<input, width, indent>>

\* The spaces a line may end at.  The first character is not one of them.
Spaces == {i \in 1 .. Room : input[pos + i] = "sp"}

\* break_at: the last of them, or the whole room.
IsBreak(b) == IF Spaces = {} THEN b = Room
                             ELSE b \in Spaces /\ \A i \in Spaces : i <= b

\* Mutant of BreakLine: the character at the break is skipped, space or not.
BreakSkipping ==
  /\ wrapping = "loop"
  /\ Rest > Room /\ Room >= 0
  /\ \E b \in 0 .. Room :
       /\ IsBreak(b)
       /\ cuts' = cuts \cup {<<pos, pos + b - 1>>}
       /\ pos' = pos + b + 1
  /\ UNCHANGED <<input, width, indent, wrapping>>

\* Mutant of BreakLine: the space at the break stays on the line.
BreakAfterSpace ==
  /\ wrapping = "loop"
  /\ Rest > Room /\ Room >= 0
  /\ \E b \in 0 .. Room :
       /\ IsBreak(b)
       /\ cuts' = cuts \cup {<<pos, IF input[pos + b] = "sp" THEN pos + b
                                                           ELSE pos + b - 1>>}
       /\ pos' = IF input[pos + b] = "sp" THEN pos + b + 1 ELSE pos + b
  /\ UNCHANGED <<input, width, indent, wrapping>>

\* Mutant of BreakLine: words are not looked for.
BreakAnywhere ==
  /\ wrapping = "loop"
  /\ Rest > Room /\ Room >= 0
  /\ cuts' = cuts \cup {<<pos, pos + Room - 1>>}
  /\ pos' = IF input[pos + Room] = "sp" THEN pos + Room + 1 ELSE pos + Room
  /\ UNCHANGED <<input, width, indent, wrapping>>

\* A line of what remains, up to the break; one space at the break is skipped.
BreakLine ==
  /\ wrapping = "loop"
  /\ Rest > Room /\ Room >= 0
  /\ \E b \in 0 .. Room :
       /\ IsBreak(b)
       /\ cuts' = cuts \cup {<<pos, pos + b - 1>>}
       /\ pos' = IF input[pos + b] = "sp" THEN pos + b + 1 ELSE pos + b
  /\ UNCHANGED <<input, width, indent, wrapping>>

\* Mutant of BreakThrows: break_at does not go below zero.
BreakStays ==
  /\ wrapping = "loop"
  /\ Rest > 0 /\ Room < 0
  /\ cuts' = cuts \cup {<<pos, pos - 1>>}
  /\ UNCHANGED <<input, width, indent, pos, wrapping>>

\* The indent is wider than the pane: break_at is negative, the rest becomes
\* one line and substr() beyond the end throws.
BreakThrows ==
  /\ wrapping = "loop"
  /\ Rest > 0 /\ Room < 0
  /\ cuts' = cuts \cup {<<pos, Len(input)>>}
  /\ wrapping' = "thrown"
  /\ UNCHANGED <<input, width, indent, pos>>

WrapStep == LastLine \/ BreakLine \/ BreakThrows

WrapInit ==
  /\ input = << >>
  /\ width = 0
  /\ indent = 0
  /\ pos = 1
  /\ cuts = {}
  /\ wrapping = "no"

WrapNext == WrapStep \/ (\E t \in Paragraph, w \in Nat : StartWrap(t, w))

WrapSpec == WrapInit /\ [][WrapNext]_wrapVars

-----------------------------------------------------------------------------
(* Properties.                                                             *)

\* The characters of line c.
Places(c) == c[1] .. c[2]

\* "lines of at most `width` characters": indent and text of every line fit
\* into the pane, unless wrap_text() is about to throw.
LinesFit == wrapping # "thrown" => \A c \in cuts : indent + c[2] - c[1] < width

\* Behind the indent every character is on exactly one line, up to where the
\* rest begins: only a space at the end of a line is left out.
NothingLost ==
  wrapping # "thrown" =>
    /\ \A c, d \in cuts : c # d => Places(c) \cap Places(d) = {}
    /\ \A i \in indent + 1 .. pos - 1 :
         \/ \E c \in cuts : i \in Places(c)
         \/ input[i] = "sp" /\ \E c \in cuts : c[2] = i - 1

\* "Breaks at word boundaries": in a text without double spaces a word is cut
\* in two only if it fills a line from its beginning to its end.
WordsWhole ==
  (\A i \in indent + 1 .. Len(input) - 1 : input[i] = "x" \/ input[i + 1] = "x")
    => \A c \in cuts :
         c[2] < Len(input) /\ input[c[2]] = "x" /\ input[c[2] + 1] = "x"
           => /\ indent + c[2] - c[1] = width - 1
              /\ \A i \in Places(c) : input[i] = "x"
=============================================================================
