----------------------------- MODULE DetailPane ----------------------------
(***************************************************************************)
(* The detail pane: the keys that scroll it and the prefix counts they     *)
(* take (src/ui/Layout.cpp), opening and closing a CWE, and the frames     *)
(* RenderDetailPane (src/ui/DetailPane.cpp) draws in between, which wrap   *)
(* the paragraphs and clamp the offset.                                    *)
(*                                                                         *)
(* Several keys may come before the next frame.  int arithmetic wraps at   *)
(* IntMax, 2^31 - 1 in the code.  The tree beside the pane is a focus that *)
(* moves; its own keys are in module Browse.                               *)
(***************************************************************************)
EXTENDS WrapText, FiniteSets

CONSTANTS
  Cwe,           \* the CWEs that can be opened
  Paragraphs,    \* Paragraphs[c]: the wrapped texts of CWE c, in order
  Plain,         \* Plain[c]: its other lines: header, labels, URL
  Term,          \* the sizes the terminal may have: [cols, rows]
  MinTextWidth,  \* 20
  TreeColumns,   \* 42: what the tree takes of the terminal
  Frame,         \* 4: border and padding
  Furniture,     \* 5: rows of border, footer, status bar and margin
  Page,          \* 15: Ctrl+D and Ctrl+U
  Bottom,        \* 9999: where G goes
  IntMax,        \* the largest int
  Digits,        \* the digits typed: 0 .. 9
  MaxKeys        \* bound: keys between two frames

ASSUME DetailAssumption ==
  /\ Paragraphs \in [Cwe -> Seq(Paragraph)]
  /\ Plain \in [Cwe -> Nat]
  /\ Term \subseteq [cols : Nat, rows : Nat]
  /\ {MinTextWidth, TreeColumns, Frame, Furniture, Page, MaxKeys} \subseteq Nat
  /\ IntMax \in Nat \ {0}
  /\ Bottom \in 0 .. IntMax
  /\ Digits \subseteq 0 .. 9
  /\ "none" \notin Cwe

VARIABLES
  term,           \* the terminal
  tree_visible,   \* AppState::tree_visible
  active_cwe,     \* AppState::active_cwe or "none"
  in_detail,      \* mode is Detail; otherwise a list or the command line
  detail_scroll,
  count_pending,
  count_value,
  para,           \* frame being drawn: paragraphs wrapped so far, 0 when none is
  height,         \* and lines pushed so far
  drawn,          \* the last complete frame of the CWE on the screen
  keys,           \* history: keys since that frame
  rising,         \* history: did something since then move the offset up?
  dead            \* the exception has left screen.Loop()

keyVars == <<term, tree_visible, active_cwe, in_detail, detail_scroll,
             count_pending, count_value>>
frameVars == <<para, height, drawn, keys, rising, dead>>
vars == <<wrapVars, keyVars, frameVars>>

Smaller(m, n) == IF m <= n THEN m ELSE n
Larger(m, n) == IF m >= n THEN m ELSE n

\* What an int holds after an operation with result n: two's complement.
AsInt(n) == ((n + IntMax + 1) % (2 * (IntMax + 1))) - IntMax - 1

NoFrame == [scroll |-> 0, height |-> 0, visible |-> 1]

TextWidth ==
  Larger(MinTextWidth,
         term.cols - (IF tree_visible THEN TreeColumns ELSE 0) - Frame)

Visible == Larger(1, term.rows - Furniture)

-----------------------------------------------------------------------------
(* Events between two frames.                                              *)

\* The loop handles an event.  up: may it move the offset up?
Event(up) ==
  /\ para = 0 /\ ~dead
  /\ keys < MaxKeys
  /\ keys' = keys + 1
  /\ rising' = (rising \/ up)
  /\ UNCHANGED <<para, height, dead>>
  /\ UNCHANGED wrapVars

ClearCount == count_pending' = FALSE /\ count_value' = 0
KeepCount == UNCHANGED <<count_pending, count_value>>

\* Mutant of Times: a count is used as it is.
TimesUnchecked == IF count_pending THEN count_value ELSE 1

\* consume_count(): a count that has wrapped to zero or less counts as one.
Times == IF count_pending /\ count_value > 0 THEN count_value ELSE 1

\* count_digit_event() in Detail mode; 0 does not start a count.
Digit ==
  \E d \in Digits :
    /\ in_detail
    /\ Event(FALSE)
    /\ count_pending \/ d # 0
    /\ count_pending' = TRUE
    /\ count_value' = AsInt(AsInt(count_value * 10) + d)
    /\ UNCHANGED <<term, tree_visible, active_cwe, in_detail, detail_scroll,
                   drawn>>

\* A key of Detail mode that ends the count and sets the offset.
ScrollTo(n, up) ==
  /\ in_detail
  /\ Event(up)
  /\ ClearCount
  /\ detail_scroll' = n
  /\ UNCHANGED <<term, tree_visible, active_cwe, in_detail, drawn>>

\* An addition that overflows moves up.
Down == ScrollTo(AsInt(detail_scroll + Times), detail_scroll + Times > IntMax)

Up == ScrollTo(Larger(0, AsInt(detail_scroll - Times)), TRUE)

PageDown == ScrollTo(AsInt(detail_scroll + Page), detail_scroll + Page > IntMax)
PageUp == ScrollTo(Larger(0, AsInt(detail_scroll - Page)), TRUE)

Top == ScrollTo(0, TRUE)

\* G, from an offset that counts have taken beyond 9999, goes up.
ToBottom == ScrollTo(Bottom, detail_scroll > Bottom)

ScrollKey == Digit \/ Down \/ Up \/ PageDown \/ PageUp \/ Top \/ ToBottom

\* o, Enter or l on a weakness of the tree, o or l in the filter.
OpenFromList ==
  /\ ~in_detail
  /\ Event(TRUE)
  /\ \E c \in Cwe : active_cwe' = c
  /\ in_detail' = TRUE
  /\ ClearCount
  /\ detail_scroll' = 0
  /\ drawn' = NoFrame
  /\ UNCHANGED <<term, tree_visible>>

\* :cwe ID from the command line, which has ended the count; the offset stays
\* what it was.
OpenByCommand ==
  /\ ~in_detail
  /\ Event(TRUE)
  /\ \E c \in Cwe : active_cwe' = c
  /\ in_detail' = TRUE
  /\ ClearCount
  /\ drawn' = NoFrame
  /\ UNCHANGED <<term, tree_visible, detail_scroll>>

\* q.
Close ==
  /\ in_detail
  /\ Event(TRUE)
  /\ active_cwe' = "none"
  /\ in_detail' = FALSE
  /\ ClearCount
  /\ detail_scroll' = 0
  /\ drawn' = NoFrame
  /\ UNCHANGED <<term, tree_visible>>

\* Escape, in App::run's handler: neither count nor offset are reset.
EscapeKey ==
  /\ in_detail
  /\ Event(TRUE)
  /\ active_cwe' = "none"
  /\ in_detail' = FALSE
  /\ drawn' = NoFrame
  /\ UNCHANGED <<term, tree_visible, detail_scroll, count_pending, count_value>>

\* h and :, Ctrl+N: the CWE stays open beside the list or the command line; l
\* in the tree comes back to it.
Leave ==
  /\ in_detail
  /\ Event(FALSE)
  /\ in_detail' = FALSE
  /\ ClearCount
  /\ UNCHANGED <<term, tree_visible, active_cwe, detail_scroll, drawn>>

Return ==
  /\ ~in_detail /\ active_cwe # "none"
  /\ Event(FALSE)
  /\ in_detail' = TRUE
  /\ ClearCount
  /\ UNCHANGED <<term, tree_visible, active_cwe, detail_scroll, drawn>>

\* Ctrl+T: showing the tree also moves the focus to it.
ToggleTree ==
  /\ Event(TRUE)
  /\ tree_visible' = ~tree_visible
  /\ in_detail' = (in_detail /\ tree_visible)
  /\ ClearCount
  /\ UNCHANGED <<term, active_cwe, detail_scroll, drawn>>

Resize ==
  /\ Event(TRUE)
  /\ \E t \in Term : term' = t
  /\ UNCHANGED <<tree_visible, active_cwe, in_detail, detail_scroll, drawn>>
  /\ KeepCount

-----------------------------------------------------------------------------
(* A frame.                                                                *)

\* RenderDetailPane with an open CWE: the lines that are not wrapped, then
\* paragraph after paragraph.
StartFrame ==
  /\ para = 0 /\ ~dead
  /\ active_cwe # "none"
  /\ para' = 1
  /\ height' = Plain[active_cwe]
  /\ UNCHANGED <<drawn, keys, rising, dead>>
  /\ UNCHANGED keyVars
  /\ UNCHANGED wrapVars

\* add_wrapped() of the next paragraph.
StartParagraph ==
  /\ para # 0 /\ para <= Len(Paragraphs[active_cwe])
  /\ StartWrap(Paragraphs[active_cwe][para], TextWidth)
  /\ UNCHANGED keyVars
  /\ UNCHANGED frameVars

\* An iteration of wrap_text(); at its end the lines are added.
WrapOn ==
  /\ WrapStep
  /\ IF wrapping' = "no"
       THEN para' = para + 1 /\ height' = height + Cardinality(cuts')
       ELSE UNCHANGED <<para, height>>
  /\ UNCHANGED <<drawn, keys, rising, dead>>
  /\ UNCHANGED keyVars

\* The exception of wrap_text() leaves the event loop; main() ends.
Die ==
  /\ wrapping = "thrown" /\ ~dead
  /\ dead' = TRUE
  /\ UNCHANGED <<para, height, drawn, keys, rising>>
  /\ UNCHANGED keyVars
  /\ UNCHANGED wrapVars

\* The clamp of the offset, lines being the last an offset may name.
Clamp(lines) == Larger(0, Smaller(detail_scroll, lines))

\* The end of RenderDetailPane, with that offset.
FrameWith(scroll) ==
  /\ active_cwe # "none" /\ wrapping = "no"
  /\ para = Len(Paragraphs[active_cwe]) + 1
  /\ detail_scroll' = scroll
  /\ drawn' = [scroll |-> scroll, height |-> height, visible |-> Visible]
  /\ para' = 0 /\ height' = 0 /\ keys' = 0 /\ rising' = FALSE
  /\ UNCHANGED <<term, tree_visible, active_cwe, in_detail, count_pending,
                 count_value, dead>>
  /\ UNCHANGED wrapVars

\* Mutant of EndFrame: the last line may scroll to the top of the pane.
EndFrameLoosely == FrameWith(Clamp(height - 1))

\* Mutant of EndFrame: no lower bound.
EndFrameSigned == FrameWith(Smaller(detail_scroll, Larger(0, height - Visible)))

\* The offset is clamped, the lines from there on are shown.
EndFrame == FrameWith(Clamp(Larger(0, height - Visible)))

\* A frame without a CWE: a fixed text; the offset is not clamped.
EmptyFrame ==
  /\ para = 0 /\ ~dead
  /\ active_cwe = "none"
  /\ keys' = 0 /\ rising' = FALSE
  /\ UNCHANGED <<para, height, drawn, dead>>
  /\ UNCHANGED keyVars
  /\ UNCHANGED wrapVars

-----------------------------------------------------------------------------
Init ==
  /\ WrapInit
  /\ term \in Term
  /\ tree_visible = TRUE
  /\ active_cwe = "none"
  /\ in_detail = FALSE
  /\ detail_scroll = 0
  /\ count_pending = FALSE
  /\ count_value = 0
  /\ para = 0
  /\ height = 0
  /\ drawn = NoFrame
  /\ keys = 0
  /\ rising = FALSE
  /\ dead = FALSE

Drawing == StartFrame \/ StartParagraph \/ WrapOn \/ EndFrame \/ Die

Next ==
  \/ ScrollKey
  \/ OpenFromList \/ OpenByCommand \/ Close \/ EscapeKey \/ Leave \/ Return
  \/ ToggleTree \/ Resize
  \/ Drawing \/ EmptyFrame

Spec == Init /\ [][Next]_vars

\* A frame is drawn by one call on the UI thread, which goes on; when the next
\* one begins is up to the screen.
FairSpec == Spec /\ WF_vars(Drawing)

-----------------------------------------------------------------------------
(* Properties, besides those of WrapText.                                  *)

TypeOK ==
  /\ input \in Seq({"sp", "x"})
  /\ width \in Nat /\ indent \in Nat /\ pos \in Nat \ {0}
  /\ cuts \in SUBSET (Nat \X Nat)
  /\ wrapping \in {"no", "loop", "thrown"}
  /\ term \in Term
  /\ tree_visible \in BOOLEAN /\ in_detail \in BOOLEAN
  /\ active_cwe \in Cwe \cup {"none"}
  /\ detail_scroll \in -IntMax - 1 .. IntMax
  /\ count_value \in -IntMax - 1 .. IntMax
  /\ count_pending \in BOOLEAN
  /\ para \in Nat /\ height \in Nat /\ keys \in 0 .. MaxKeys
  /\ drawn \in [scroll : Nat, height : Nat, visible : Nat \ {0}]
  /\ rising \in BOOLEAN /\ dead \in BOOLEAN

\* G far beyond the end, counts that overflow, a CWE opened at the offset of
\* another one, a terminal that grows: every frame shows a full page, or all
\* lines from the first.
PageIsFull == drawn.scroll = 0 \/ drawn.scroll + drawn.visible <= drawn.height

\* From one frame of a CWE to the next the view goes up only for a key that
\* means up, a change of size or an offset that overflowed: a count that has
\* wrapped around never turns j into k.
StaysDown == para # 0 /\ para' = 0 /\ ~rising => drawn'.scroll >= drawn.scroll
DownNeverUp == [][StaysDown]_vars

\* No paragraph of the open CWE is indented exactly as wide as the pane.
NoFullIndent ==
  active_cwe # "none" =>
    \A i \in DOMAIN Paragraphs[active_cwe] :
      ~IsIndent(Paragraphs[active_cwe][i], TextWidth)

\* A frame that is begun is finished, or the exception of wrap_text() ends the
\* program, unless a paragraph is indented as wide as the pane: then the loop
\* pushes empty lines for ever.
FrameEnds == (para # 0 /\ NoFullIndent) ~> (para = 0 \/ dead)
=============================================================================
