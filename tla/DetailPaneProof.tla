-------------------------- MODULE DetailPaneProof --------------------------
(***************************************************************************)
(* What wrap_text() does to any text at any width, that the detail pane    *)
(* calls it as module WrapText says, and what its frames show.             *)
(***************************************************************************)
EXTENDS DetailPane, SubsequenceProof, FiniteSetTheorems, TLAPS

\* The types, the rest behind the indent and inside the text.
WrapType ==
  /\ input \in Seq({"sp", "x"})
  /\ width \in Nat
  /\ indent \in 0 .. Len(input)
  /\ pos \in indent + 1 .. Len(input) + 1
  /\ cuts \in SUBSET (Nat \X Nat)
  /\ wrapping \in {"no", "loop", "thrown"}

\* The lines lie between the indent and the rest.
CutsBehind ==
  wrapping # "thrown" => \A c \in cuts : indent < c[1] /\ c[2] < pos

\* No two spaces in a row behind the indent: the premise of WordsWhole.
SingleSpaces ==
  \A i \in indent + 1 .. Len(input) - 1 : input[i] = "x" \/ input[i + 1] = "x"

\* The rest begins with a word.
WordAhead ==
  wrapping = "loop" /\ SingleSpaces /\ pos <= Len(input) => input[pos] = "x"

WrapInv ==
  WrapType /\ CutsBehind /\ LinesFit /\ NothingLost /\ WordAhead /\ WordsWhole

-----------------------------------------------------------------------------
\* Before the first call.
LEMMA WrapInitInv == WrapInit => WrapInv
<1> SUFFICES ASSUME WrapInit PROVE WrapInv
  OBVIOUS
<1> USE DEF WrapInit
<1>1. input \in Seq({"sp", "x"}) /\ Len(input) = 0
  OBVIOUS
<1>2. WrapType
  BY <1>1 DEF WrapType
<1>3. CutsBehind /\ LinesFit /\ WordAhead /\ WordsWhole
  BY DEF CutsBehind, LinesFit, WordAhead, WordsWhole
<1>4. NothingLost
  BY DEF NothingLost
<1>5. QED
  BY <1>2, <1>3, <1>4 DEF WrapInv

\* A call.
LEMMA WrapStarts ==
  ASSUME NEW t \in Paragraph, NEW w \in Nat, StartWrap(t, w)
  PROVE  WrapInv'
<1>1. t \in Seq({"sp", "x"})
  BY ParagraphAssumption
<1>2. PICK n \in 0 .. Len(t) : IsIndent(t, n) /\ indent' = n /\ pos' = n + 1
  BY DEF StartWrap
<1>3. input' = t /\ width' = w /\ cuts' = {} /\ wrapping' = "loop"
  BY DEF StartWrap
<1>4. WrapType'
  BY <1>1, <1>2, <1>3 DEF WrapType
<1>5. CutsBehind' /\ LinesFit' /\ WordsWhole'
  BY <1>3 DEF CutsBehind, LinesFit, WordsWhole
<1>6. NothingLost'
  BY <1>2, <1>3 DEF NothingLost
<1>7. WordAhead'
  <2>1. n + 1 <= Len(t) => t[n + 1] # "sp" /\ t[n + 1] \in {"sp", "x"}
    BY <1>1, <1>2 DEF IsIndent
  <2>2. QED
    BY <1>2, <1>3, <2>1 DEF WordAhead
<1>8. QED
  BY <1>4, <1>5, <1>6, <1>7 DEF WrapInv

\* A line from pos to e, after which the rest begins at p: everything up to e
\* is on it, and a place that is skipped is a space.
LEMMA LinePushed ==
  ASSUME WrapInv, wrapping = "loop",
         NEW e \in pos - 1 .. Len(input), NEW p \in e + 1 .. e + 2,
         p <= Len(input) + 1,
         p = e + 2 => input[e + 1] = "sp",
         indent + e - pos < width,
         cuts' = cuts \cup {<<pos, e>>}, pos' = p,
         UNCHANGED <<input, width, indent>>,
         wrapping' \in {"loop", "no"}
  PROVE  WrapType' /\ CutsBehind' /\ LinesFit' /\ NothingLost'
<1> USE DEF WrapInv
<1>1. /\ pos \in Int /\ e \in Int /\ indent \in Int /\ Len(input) \in Nat
      /\ indent < pos /\ pos <= p /\ e < p
  BY DEF WrapType
<1>2. WrapType'
  BY <1>1 DEF WrapType
<1>3. CutsBehind'
  <2> SUFFICES ASSUME NEW c \in cuts' PROVE indent < c[1] /\ c[2] < p
    BY DEF CutsBehind
  <2>1. CASE c \in cuts
    <3>1. c[2] \in Int /\ indent < c[1] /\ c[2] < pos
      BY <2>1 DEF CutsBehind, WrapType
    <3>2. QED
      BY <3>1, <1>1
  <2>2. CASE c = <<pos, e>>
    BY <2>2, <1>1
  <2>3. QED
    BY <2>1, <2>2
<1>4. LinesFit'
  <2> SUFFICES ASSUME NEW c \in cuts' PROVE indent + c[2] - c[1] < width
    BY DEF LinesFit
  <2>1. CASE c \in cuts
    BY <2>1 DEF LinesFit
  <2>2. CASE c = <<pos, e>>
    BY <2>2
  <2>3. QED
    BY <2>1, <2>2
<1>5. \A c, d \in cuts' : c # d => Places(c) \cap Places(d) = {}
  <2>1. ASSUME NEW c \in cuts PROVE Places(c) \cap Places(<<pos, e>>) = {}
    <3>1. c[1] \in Int /\ c[2] \in Int /\ c[2] < pos
      BY <2>1 DEF CutsBehind, WrapType
    <3>2. QED
      BY <3>1, <1>1 DEF Places
  <2>2. \A c, d \in cuts : c # d => Places(c) \cap Places(d) = {}
    BY DEF NothingLost
  <2>3. QED
    BY <2>1, <2>2
<1>6. ASSUME NEW i \in indent + 1 .. p - 1
      PROVE  \/ \E c \in cuts' : i \in Places(c)
             \/ input[i] = "sp" /\ \E c \in cuts' : c[2] = i - 1
  <2>1. CASE i < pos
    <3>1. i \in indent + 1 .. pos - 1
      BY <2>1, <1>1
    <3>2. \/ \E c \in cuts : i \in Places(c)
          \/ input[i] = "sp" /\ \E c \in cuts : c[2] = i - 1
      BY <3>1 DEF NothingLost
    <3>3. QED
      BY <3>2
  <2>2. CASE pos <= i /\ i <= e
    <3>1. i \in Places(<<pos, e>>)
      BY <2>2, <1>1 DEF Places
    <3>2. QED
      BY <3>1
  <2>3. CASE e < i
    <3>1. i = e + 1 /\ p = e + 2
      BY <2>3, <1>1
    <3>2. <<pos, e>>[2] = i - 1 /\ input[i] = "sp"
      BY <3>1, <1>1
    <3>3. QED
      BY <3>2
  <2>4. QED
    BY <2>1, <2>2, <2>3, <1>1
<1>7. NothingLost'
  <2>1. input' = input /\ indent' = indent /\ pos' = p
    OBVIOUS
  <2>2. QED
    BY <2>1, <1>5, <1>6 DEF NothingLost, Places
<1>8. QED
  BY <1>2, <1>3, <1>4, <1>7

\* The last line.
LEMMA LastLineKeeps == WrapInv /\ LastLine => WrapInv'
<1> SUFFICES ASSUME WrapInv, LastLine PROVE WrapInv'
  OBVIOUS
<1> USE DEF WrapInv, LastLine
<1>1. /\ pos \in Int /\ indent \in Int /\ width \in Int /\ Len(input) \in Nat
      /\ indent < pos /\ pos <= Len(input) + 1
  BY DEF WrapType
<1>2. CASE Rest = 0
  <2>1. pos = Len(input) + 1 /\ pos' = pos /\ cuts' = cuts
    BY <1>1, <1>2 DEF Rest
  <2>2. UNCHANGED <<input, width, indent>> /\ wrapping' = "no"
    OBVIOUS
  <2>3. WrapType' /\ CutsBehind' /\ LinesFit' /\ WordAhead'
    BY <2>1, <2>2 DEF WrapType, CutsBehind, LinesFit, WordAhead
  <2>4. NothingLost' /\ WordsWhole'
    BY <2>1, <2>2 DEF NothingLost, WordsWhole, Places
  <2>5. QED
    BY <2>3, <2>4
<1>3. CASE Rest # 0
  <2>1. cuts' = cuts \cup {<<pos, Len(input)>>} /\ pos' = Len(input) + 1
    BY <1>3
  <2>2. indent + Len(input) - pos < width
    BY <1>1, <1>3 DEF Rest, Room
  <2>3. WrapType' /\ CutsBehind' /\ LinesFit' /\ NothingLost'
    BY <1>1, <2>1, <2>2, LinePushed
  <2>4. WordAhead'
    BY DEF WordAhead
  <2>5. WordsWhole'
    <3> SUFFICES ASSUME SingleSpaces, NEW c \in cuts', c[2] < Len(input),
                        input[c[2]] = "x", input[c[2] + 1] = "x"
                 PROVE  /\ indent + c[2] - c[1] = width - 1
                        /\ \A i \in Places(c) : input[i] = "x"
      BY DEF WordsWhole, SingleSpaces, Places
    <3>1. c \in cuts
      BY <2>1, <1>1
    <3>2. QED
      BY <3>1 DEF WordsWhole, SingleSpaces
  <2>6. QED
    BY <2>3, <2>4, <2>5
<1>4. QED
  BY <1>2, <1>3

\* A line that is not the last.
LEMMA BreakLineKeeps == WrapInv /\ BreakLine => WrapInv'
<1> SUFFICES ASSUME WrapInv, BreakLine PROVE WrapInv'
  OBVIOUS
<1> USE DEF WrapInv
<1>1. /\ pos \in Int /\ indent \in Int /\ width \in Int /\ Len(input) \in Nat
      /\ indent < pos /\ 0 <= indent
      /\ wrapping = "loop" /\ wrapping' = wrapping
      /\ UNCHANGED <<input, width, indent>>
      /\ Rest > Room /\ Room >= 0 /\ Room = width - indent
      /\ pos + Room <= Len(input)
  BY DEF WrapType, BreakLine, Rest, Room
<1>2. PICK b \in 0 .. Room :
        /\ IsBreak(b)
        /\ cuts' = cuts \cup {<<pos, pos + b - 1>>}
        /\ pos' = IF input[pos + b] = "sp" THEN pos + b + 1 ELSE pos + b
  BY DEF BreakLine
<1>3. /\ b \in Int /\ 0 <= b /\ b <= Room /\ pos + b <= Len(input)
      /\ pos + b \in 1 .. Len(input)
      /\ input[pos + b] \in {"sp", "x"}
  BY <1>1, <1>2 DEF WrapType
<1>4. WrapType' /\ CutsBehind' /\ LinesFit' /\ NothingLost'
  <2> DEFINE e == pos + b - 1
             p == IF input[pos + b] = "sp" THEN pos + b + 1 ELSE pos + b
  <2>1. /\ e \in pos - 1 .. Len(input) /\ p \in e + 1 .. e + 2
        /\ p <= Len(input) + 1
        /\ p = e + 2 => input[e + 1] = "sp"
        /\ indent + e - pos < width
    <3>1. e + 1 = pos + b
      BY <1>1, <1>3
    <3>2. p = e + 2 => input[e + 1] = "sp"
      BY <3>1, <1>1, <1>3
    <3>3. QED
      BY <3>1, <3>2, <1>1, <1>3
  <2>2. cuts' = cuts \cup {<<pos, e>>} /\ pos' = p
    BY <1>2
  <2> HIDE DEF e, p
  <2>3. QED
    BY <1>1, <2>1, <2>2, LinePushed
<1>5. SingleSpaces => input[pos] = "x"
  BY <1>1 DEF WordAhead
<1>6. b \notin Spaces => b = Room /\ Spaces = {}
  BY <1>2 DEF IsBreak
<1>7. b \in Spaces => input[pos + b] = "sp"
  BY DEF Spaces
<1>8. WordAhead'
  <2> SUFFICES ASSUME SingleSpaces, pos' <= Len(input) PROVE input[pos'] = "x"
    BY <1>1 DEF WordAhead, SingleSpaces
  <2>1. CASE input[pos + b] = "sp"
    <3>1. pos + b \in indent + 1 .. Len(input) - 1 /\ pos' = pos + b + 1
      BY <2>1, <1>1, <1>2, <1>3
    <3>2. QED
      BY <2>1, <3>1 DEF SingleSpaces
  <2>2. CASE input[pos + b] # "sp"
    BY <2>2, <1>2, <1>3
  <2>3. QED
    BY <2>1, <2>2
<1>9. WordsWhole'
  <2> SUFFICES ASSUME SingleSpaces, NEW c \in cuts', c[2] < Len(input),
                      input[c[2]] = "x", input[c[2] + 1] = "x"
               PROVE  /\ indent + c[2] - c[1] = width - 1
                      /\ \A i \in Places(c) : input[i] = "x"
    BY <1>1 DEF WordsWhole, SingleSpaces, Places
  <2>1. CASE c \in cuts
    BY <2>1 DEF WordsWhole, SingleSpaces
  <2>2. CASE c = <<pos, pos + b - 1>>
    <3>1. c[1] = pos /\ c[2] = pos + b - 1 /\ c[2] + 1 = pos + b
      BY <2>2, <1>1, <1>3
    <3>2. input[pos + b] # "sp"
      BY <3>1
    <3>3. b = Room /\ Spaces = {}
      BY <3>2, <1>6, <1>7
    <3>4. ASSUME NEW i \in Places(c) PROVE input[i] = "x"
      <4>1. i \in Int /\ pos <= i /\ i <= pos + b - 1
        BY <3>1, <1>1, <1>3 DEF Places
      <4>2. CASE i = pos
        BY <4>2, <1>5
      <4>3. CASE i # pos
        <5>1. i - pos \in 1 .. Room /\ pos + (i - pos) = i
          BY <4>1, <4>3, <1>1, <1>3
        <5>2. input[i] # "sp"
          BY <5>1, <3>3 DEF Spaces
        <5>3. i \in 1 .. Len(input)
          BY <4>1, <1>1, <1>3
        <5>4. input[i] \in {"sp", "x"}
          BY <5>3 DEF WrapType
        <5>5. QED
          BY <5>2, <5>4
      <4>4. QED
        BY <4>2, <4>3
    <3>5. indent + c[2] - c[1] = width - 1
      BY <3>1, <3>3, <1>1
    <3>6. QED
      BY <3>4, <3>5
  <2>3. QED
    BY <2>1, <2>2, <1>2
<1>10. QED
  BY <1>4, <1>8, <1>9

\* The exception: the lines of a text that throws are shown nowhere.
LEMMA BreakThrowsKeeps == WrapInv /\ BreakThrows => WrapInv'
<1> SUFFICES ASSUME WrapInv, BreakThrows PROVE WrapInv'
  OBVIOUS
<1> USE DEF WrapInv, BreakThrows
<1>1. WrapType'
  BY DEF WrapType
<1>2. CutsBehind' /\ LinesFit' /\ NothingLost' /\ WordAhead'
  BY DEF CutsBehind, LinesFit, NothingLost, WordAhead
<1>3. WordsWhole'
  <2> SUFFICES ASSUME SingleSpaces, NEW c \in cuts', c[2] < Len(input),
                      input[c[2]] = "x", input[c[2] + 1] = "x"
               PROVE  /\ indent + c[2] - c[1] = width - 1
                      /\ \A i \in Places(c) : input[i] = "x"
    BY DEF WordsWhole, SingleSpaces, Places
  <2>1. Len(input) \in Nat
    BY DEF WrapType
  <2>2. c \in cuts
    BY <2>1
  <2>3. QED
    BY <2>2 DEF WordsWhole, SingleSpaces
<1>4. QED
  BY <1>1, <1>2, <1>3

\* Every call, every iteration and every step of something else.
LEMMA WrapNextInv == WrapInv /\ [WrapNext]_wrapVars => WrapInv'
<1> SUFFICES ASSUME WrapInv, [WrapNext]_wrapVars PROVE WrapInv'
  OBVIOUS
<1>1. CASE WrapStep
  BY <1>1, LastLineKeeps, BreakLineKeeps, BreakThrowsKeeps DEF WrapStep
<1>2. CASE \E t \in Paragraph, w \in Nat : StartWrap(t, w)
  BY <1>2, WrapStarts
<1>3. CASE UNCHANGED wrapVars
  BY <1>3 DEF wrapVars, WrapInv, WrapType, CutsBehind, LinesFit, NothingLost,
              WordAhead, WordsWhole, SingleSpaces, Places
<1>4. QED
  BY <1>1, <1>2, <1>3 DEF WrapNext

\* wrap_text() keeps WrapInv at every iteration, for any text and width.
THEOREM WrapInductive == WrapSpec => []WrapInv
  BY WrapInitInv, WrapNextInv, PTL DEF WrapSpec

-----------------------------------------------------------------------------
(* The pane around wrap_text().                                            *)

PaneType ==
  /\ IsFiniteSet(cuts)
  /\ term \in Term
  /\ tree_visible \in BOOLEAN /\ in_detail \in BOOLEAN
  /\ active_cwe \in Cwe \cup {"none"}
  /\ detail_scroll \in -IntMax - 1 .. IntMax
  /\ count_value \in -IntMax - 1 .. IntMax
  /\ count_pending \in BOOLEAN
  /\ para \in Nat /\ height \in Nat /\ keys \in 0 .. MaxKeys
  /\ drawn \in [scroll : Nat, height : Nat, visible : Nat \ {0}]
  /\ rising \in BOOLEAN /\ dead \in BOOLEAN

\* Frames are drawn of an open CWE; wrap_text() runs while one is.
FrameOfCwe ==
  /\ para # 0 => active_cwe # "none"
  /\ wrapping # "no" => para # 0

PaneInv == PaneType /\ FrameOfCwe /\ PageIsFull

\* An int operation gives an int.
LEMMA AsIntIsInt ==
  ASSUME NEW n \in Int
  PROVE  AsInt(n) \in -IntMax - 1 .. IntMax
<1> DEFINE k == 2 * (IntMax + 1)
<1>1. IntMax \in Nat /\ k \in Nat /\ k > 0 /\ k = IntMax + 1 + IntMax + 1
  BY DetailAssumption
<1>2. (n + IntMax + 1) % k \in 0 .. k - 1
  <2> HIDE DEF k
  <2>1. n + IntMax + 1 \in Int
    BY <1>1
  <2>2. QED
    BY <2>1, <1>1
<1>3. AsInt(n) = ((n + IntMax + 1) % k) - IntMax - 1
  BY DEF AsInt
<1> HIDE DEF k
<1>4. QED
  BY <1>1, <1>2, <1>3

\* The offset a key or a frame sets, a count: all in range.
LEMMA Sums ==
  ASSUME PaneType
  PROVE  /\ Times \in 1 .. IntMax
         /\ detail_scroll \in Int /\ count_value \in Int
         /\ TextWidth \in Nat /\ Visible \in Nat \ {0}
         /\ Page \in Nat /\ Bottom \in 0 .. IntMax /\ IntMax \in Nat \ {0}
<1>1. /\ Page \in Nat /\ Bottom \in 0 .. IntMax /\ IntMax \in Nat \ {0}
      /\ MinTextWidth \in Nat /\ TreeColumns \in Nat /\ Frame \in Nat
      /\ Furniture \in Nat
  BY DetailAssumption
<1>2. detail_scroll \in Int /\ count_value \in Int /\ count_value <= IntMax
  BY <1>1 DEF PaneType
<1>3. Times \in 1 .. IntMax
  BY <1>1, <1>2 DEF Times
<1>4. term.cols \in Nat /\ term.rows \in Nat
  BY DetailAssumption DEF PaneType
<1>5. TextWidth \in Nat
  BY <1>1, <1>4 DEF TextWidth, Larger
<1>6. Visible \in Nat \ {0}
  BY <1>1, <1>4 DEF Visible, Larger
<1>7. QED
  BY <1>1, <1>2, <1>3, <1>5, <1>6

\* Before the first frame.
LEMMA PaneInitInv == Init => WrapInit /\ PaneInv
<1> SUFFICES ASSUME Init PROVE WrapInit /\ PaneInv
  OBVIOUS
<1>1. WrapInit
  BY DEF Init
<1>2. IsFiniteSet(cuts)
  BY <1>1, FS_EmptySet DEF WrapInit
<1>3. PaneType
  <2>1. 0 \in -IntMax - 1 .. IntMax /\ 0 \in 0 .. MaxKeys
    BY DetailAssumption
  <2>2. drawn \in [scroll : Nat, height : Nat, visible : Nat \ {0}]
    BY DEF Init, NoFrame
  <2>3. QED
    BY <1>2, <2>1, <2>2 DEF Init, PaneType
<1>4. FrameOfCwe /\ PageIsFull
  BY <1>1 DEF Init, WrapInit, FrameOfCwe, PageIsFull, NoFrame
<1>5. QED
  BY <1>1, <1>3, <1>4 DEF PaneInv

\* An event between two frames, whatever it does to the pane's variables.
LEMMA EventKeeps ==
  ASSUME PaneInv, NEW up \in BOOLEAN, Event(up),
         term' \in Term, tree_visible' \in BOOLEAN, in_detail' \in BOOLEAN,
         active_cwe' \in Cwe \cup {"none"},
         detail_scroll' \in -IntMax - 1 .. IntMax,
         count_value' \in -IntMax - 1 .. IntMax, count_pending' \in BOOLEAN,
         drawn' = drawn \/ drawn' = NoFrame
  PROVE  PaneInv'
<1>1. para = 0 /\ para' = 0 /\ height' = height /\ dead' = dead
  BY DEF Event
<1>2. cuts' = cuts /\ wrapping' = wrapping
  BY DEF Event, wrapVars
<1>3. keys' \in 0 .. MaxKeys
  <2>1. MaxKeys \in Nat
    BY DetailAssumption
  <2>2. keys \in 0 .. MaxKeys /\ keys < MaxKeys /\ keys' = keys + 1
    BY DEF Event, PaneInv, PaneType
  <2>3. QED
    BY <2>1, <2>2
<1>4. rising' \in BOOLEAN
  BY DEF Event
<1>5. drawn' \in [scroll : Nat, height : Nat, visible : Nat \ {0}] /\ PageIsFull'
  <2>1. CASE drawn' = drawn
    BY <2>1 DEF PaneInv, PaneType, PageIsFull
  <2>2. CASE drawn' = NoFrame
    BY <2>2 DEF NoFrame, PageIsFull
  <2>3. QED
    BY <2>1, <2>2
<1>6. PaneType'
  BY <1>1, <1>2, <1>3, <1>4, <1>5 DEF PaneInv, PaneType
<1>7. FrameOfCwe'
  BY <1>1, <1>2 DEF PaneInv, FrameOfCwe
<1>8. QED
  BY <1>5, <1>6, <1>7 DEF PaneInv

\* A key that sets the offset.
LEMMA ScrollToKeeps ==
  ASSUME PaneInv, NEW n \in -IntMax - 1 .. IntMax, NEW up \in BOOLEAN,
         ScrollTo(n, up)
  PROVE  PaneInv'
<1>1. Event(up) /\ detail_scroll' = n /\ count_value' = 0 /\ count_pending' = FALSE
  BY DEF ScrollTo, ClearCount
<1>2. 0 \in -IntMax - 1 .. IntMax
  BY DetailAssumption
<1>3. UNCHANGED <<term, tree_visible, active_cwe, in_detail, drawn>>
  BY DEF ScrollTo
<1>4. QED
  BY <1>1, <1>2, <1>3, EventKeeps DEF PaneInv, PaneType

\* The keys of Detail mode.
LEMMA ScrollKeyKeeps == PaneInv /\ ScrollKey => PaneInv'
<1> SUFFICES ASSUME PaneInv, ScrollKey PROVE PaneInv'
  OBVIOUS
<1>1. /\ Times \in 1 .. IntMax
      /\ detail_scroll \in -IntMax - 1 .. IntMax /\ count_value \in Int
      /\ Page \in Nat /\ Bottom \in 0 .. IntMax /\ IntMax \in Nat \ {0}
  BY Sums DEF PaneInv, PaneType
<1>2. CASE Digit
  <2>1. PICK d \in Digits :
          /\ Event(FALSE)
          /\ count_pending' = TRUE
          /\ count_value' = AsInt(AsInt(count_value * 10) + d)
    BY <1>2 DEF Digit
  <2>2. count_value * 10 \in Int /\ d \in Int
    BY <1>1, DetailAssumption
  <2>3. AsInt(count_value * 10) \in -IntMax - 1 .. IntMax
    BY <2>2, AsIntIsInt
  <2>4. AsInt(count_value * 10) + d \in Int
    BY <2>2, <2>3, <1>1
  <2>5. count_value' \in -IntMax - 1 .. IntMax
    BY <2>1, <2>4, AsIntIsInt
  <2>6. UNCHANGED <<term, tree_visible, active_cwe, in_detail, detail_scroll, drawn>>
    BY <1>2 DEF Digit
  <2>7. QED
    BY <2>1, <2>5, <2>6, EventKeeps DEF PaneInv, PaneType
<1>3. CASE Down
  <2>1. detail_scroll + Times \in Int
    BY <1>1
  <2>2. AsInt(detail_scroll + Times) \in -IntMax - 1 .. IntMax
    BY <2>1, AsIntIsInt
  <2>3. (detail_scroll + Times > IntMax) \in BOOLEAN
    OBVIOUS
  <2>4. QED
    BY <1>3, <2>2, <2>3, ScrollToKeeps DEF Down
<1>4. CASE Up
  <2>1. detail_scroll - Times \in Int
    BY <1>1
  <2>2. AsInt(detail_scroll - Times) \in -IntMax - 1 .. IntMax
    BY <2>1, AsIntIsInt
  <2>3. Larger(0, AsInt(detail_scroll - Times)) \in -IntMax - 1 .. IntMax
    BY <1>1, <2>2 DEF Larger
  <2>4. QED
    BY <1>4, <2>3, ScrollToKeeps DEF Up
<1>5. CASE PageDown
  <2>1. detail_scroll + Page \in Int
    BY <1>1
  <2>2. AsInt(detail_scroll + Page) \in -IntMax - 1 .. IntMax
    BY <2>1, AsIntIsInt
  <2>3. (detail_scroll + Page > IntMax) \in BOOLEAN
    OBVIOUS
  <2>4. QED
    BY <1>5, <2>2, <2>3, ScrollToKeeps DEF PageDown
<1>6. CASE PageUp
  <2>1. detail_scroll - Page \in Int
    BY <1>1
  <2>2. AsInt(detail_scroll - Page) \in -IntMax - 1 .. IntMax
    BY <2>1, AsIntIsInt
  <2>3. Larger(0, AsInt(detail_scroll - Page)) \in -IntMax - 1 .. IntMax
    BY <1>1, <2>2 DEF Larger
  <2>4. QED
    BY <1>6, <2>3, ScrollToKeeps DEF PageUp
<1>7. CASE Top
  <2>1. 0 \in -IntMax - 1 .. IntMax
    BY <1>1
  <2>2. QED
    BY <1>7, <2>1, ScrollToKeeps DEF Top
<1>8. CASE ToBottom
  <2>1. Bottom \in -IntMax - 1 .. IntMax
    BY <1>1
  <2>2. (detail_scroll > Bottom) \in BOOLEAN
    OBVIOUS
  <2>3. QED
    BY <1>8, <2>1, <2>2, ScrollToKeeps DEF ToBottom
<1>9. QED
  BY <1>2, <1>3, <1>4, <1>5, <1>6, <1>7, <1>8 DEF ScrollKey

\* The other events.
LEMMA OtherKeysKeep ==
  PaneInv /\ (OpenFromList \/ OpenByCommand \/ Close \/ EscapeKey \/ Leave
               \/ Return \/ ToggleTree \/ Resize)
    => PaneInv'
<1> SUFFICES ASSUME PaneInv,
                    OpenFromList \/ OpenByCommand \/ Close \/ EscapeKey \/ Leave
                      \/ Return \/ ToggleTree \/ Resize
             PROVE  PaneInv'
  OBVIOUS
<1>1. 0 \in -IntMax - 1 .. IntMax
  BY DetailAssumption
<1> USE DEF ClearCount, KeepCount
<1>2. CASE OpenFromList
  <2>1. Event(TRUE) /\ (drawn' = drawn \/ drawn' = NoFrame)
    BY <1>2 DEF OpenFromList
  <2>2. /\ term' \in Term /\ tree_visible' \in BOOLEAN /\ in_detail' \in BOOLEAN
        /\ active_cwe' \in Cwe \cup {"none"}
        /\ detail_scroll' \in -IntMax - 1 .. IntMax
        /\ count_value' \in -IntMax - 1 .. IntMax /\ count_pending' \in BOOLEAN
    BY <1>1, <1>2 DEF OpenFromList, PaneInv, PaneType
  <2>3. QED
    BY <2>1, <2>2, EventKeeps
<1>3. CASE OpenByCommand
  <2>1. Event(TRUE) /\ (drawn' = drawn \/ drawn' = NoFrame)
    BY <1>3 DEF OpenByCommand
  <2>2. /\ term' \in Term /\ tree_visible' \in BOOLEAN /\ in_detail' \in BOOLEAN
        /\ active_cwe' \in Cwe \cup {"none"}
        /\ detail_scroll' \in -IntMax - 1 .. IntMax
        /\ count_value' \in -IntMax - 1 .. IntMax /\ count_pending' \in BOOLEAN
    BY <1>1, <1>3 DEF OpenByCommand, PaneInv, PaneType
  <2>3. QED
    BY <2>1, <2>2, EventKeeps
<1>4. CASE Close
  <2>1. Event(TRUE) /\ (drawn' = drawn \/ drawn' = NoFrame)
    BY <1>4 DEF Close
  <2>2. /\ term' \in Term /\ tree_visible' \in BOOLEAN /\ in_detail' \in BOOLEAN
        /\ active_cwe' \in Cwe \cup {"none"}
        /\ detail_scroll' \in -IntMax - 1 .. IntMax
        /\ count_value' \in -IntMax - 1 .. IntMax /\ count_pending' \in BOOLEAN
    BY <1>1, <1>4 DEF Close, PaneInv, PaneType
  <2>3. QED
    BY <2>1, <2>2, EventKeeps
<1>5. CASE EscapeKey
  <2>1. Event(TRUE) /\ (drawn' = drawn \/ drawn' = NoFrame)
    BY <1>5 DEF EscapeKey
  <2>2. /\ term' \in Term /\ tree_visible' \in BOOLEAN /\ in_detail' \in BOOLEAN
        /\ active_cwe' \in Cwe \cup {"none"}
        /\ detail_scroll' \in -IntMax - 1 .. IntMax
        /\ count_value' \in -IntMax - 1 .. IntMax /\ count_pending' \in BOOLEAN
    BY <1>1, <1>5 DEF EscapeKey, PaneInv, PaneType
  <2>3. QED
    BY <2>1, <2>2, EventKeeps
<1>6. CASE Leave
  <2>1. Event(FALSE) /\ (drawn' = drawn \/ drawn' = NoFrame)
    BY <1>6 DEF Leave
  <2>2. /\ term' \in Term /\ tree_visible' \in BOOLEAN /\ in_detail' \in BOOLEAN
        /\ active_cwe' \in Cwe \cup {"none"}
        /\ detail_scroll' \in -IntMax - 1 .. IntMax
        /\ count_value' \in -IntMax - 1 .. IntMax /\ count_pending' \in BOOLEAN
    BY <1>1, <1>6 DEF Leave, PaneInv, PaneType
  <2>3. QED
    BY <2>1, <2>2, EventKeeps
<1>7. CASE Return
  <2>1. Event(FALSE) /\ (drawn' = drawn \/ drawn' = NoFrame)
    BY <1>7 DEF Return
  <2>2. /\ term' \in Term /\ tree_visible' \in BOOLEAN /\ in_detail' \in BOOLEAN
        /\ active_cwe' \in Cwe \cup {"none"}
        /\ detail_scroll' \in -IntMax - 1 .. IntMax
        /\ count_value' \in -IntMax - 1 .. IntMax /\ count_pending' \in BOOLEAN
    BY <1>1, <1>7 DEF Return, PaneInv, PaneType
  <2>3. QED
    BY <2>1, <2>2, EventKeeps
<1>8. CASE ToggleTree
  <2>1. Event(TRUE) /\ (drawn' = drawn \/ drawn' = NoFrame)
    BY <1>8 DEF ToggleTree
  <2>2. /\ term' \in Term /\ tree_visible' \in BOOLEAN /\ in_detail' \in BOOLEAN
        /\ active_cwe' \in Cwe \cup {"none"}
        /\ detail_scroll' \in -IntMax - 1 .. IntMax
        /\ count_value' \in -IntMax - 1 .. IntMax /\ count_pending' \in BOOLEAN
    BY <1>1, <1>8 DEF ToggleTree, PaneInv, PaneType
  <2>3. QED
    BY <2>1, <2>2, EventKeeps
<1>9. CASE Resize
  <2>1. Event(TRUE) /\ (drawn' = drawn \/ drawn' = NoFrame)
    BY <1>9 DEF Resize
  <2>2. /\ term' \in Term /\ tree_visible' \in BOOLEAN /\ in_detail' \in BOOLEAN
        /\ active_cwe' \in Cwe \cup {"none"}
        /\ detail_scroll' \in -IntMax - 1 .. IntMax
        /\ count_value' \in -IntMax - 1 .. IntMax /\ count_pending' \in BOOLEAN
    BY <1>1, <1>9 DEF Resize, PaneInv, PaneType
  <2>3. QED
    BY <2>1, <2>2, EventKeeps
<1>10. QED
  BY <1>2, <1>3, <1>4, <1>5, <1>6, <1>7, <1>8, <1>9

\* The steps of a frame but the last.
LEMMA DrawingKeeps ==
  PaneInv /\ WrapType
    /\ (StartFrame \/ StartParagraph \/ WrapOn \/ Die \/ EmptyFrame)
    => PaneInv'
<1> SUFFICES ASSUME PaneInv, WrapType,
                    StartFrame \/ StartParagraph \/ WrapOn \/ Die \/ EmptyFrame
             PROVE  PaneInv'
  OBVIOUS
<1> USE DEF keyVars, wrapVars
<1>1. CASE StartFrame
  <2>1. Plain[active_cwe] \in Nat
    BY <1>1, DetailAssumption DEF StartFrame, PaneInv, PaneType
  <2>2. QED
    BY <1>1, <2>1 DEF StartFrame, PaneInv, PaneType, FrameOfCwe, PageIsFull
<1>2. CASE StartParagraph
  <2>1. IsFiniteSet(cuts')
    BY <1>2, FS_EmptySet DEF StartParagraph, StartWrap
  <2>2. QED
    BY <1>2, <2>1
    DEF StartParagraph, frameVars, PaneInv, PaneType, FrameOfCwe, PageIsFull
<1>3. CASE WrapOn
  <2>1. cuts' = cuts \/ \E c : cuts' = cuts \cup {c}
    BY <1>3 DEF WrapOn, WrapStep, LastLine, BreakLine, BreakThrows
  <2>2. IsFiniteSet(cuts')
    BY <2>1, FS_AddElement DEF PaneInv, PaneType
  <2>3. Cardinality(cuts') \in Nat
    BY <2>2, FS_CardinalityType
  <2>4. /\ para' \in Nat /\ height' \in Nat
    BY <1>3, <2>3 DEF WrapOn, PaneInv, PaneType
  <2>5. UNCHANGED <<keyVars, drawn, keys, rising, dead>>
    BY <1>3 DEF WrapOn
  <2>6. PaneType'
    BY <2>2, <2>4, <2>5 DEF PaneInv, PaneType
  <2>7. FrameOfCwe'
    <3>1. wrapping = "loop"
      BY <1>3 DEF WrapOn, WrapStep, LastLine, BreakLine, BreakThrows
    <3>2. para # 0 /\ para' # 0
      BY <3>1, <1>3 DEF WrapOn, PaneInv, PaneType, FrameOfCwe
    <3>3. QED
      BY <3>2, <2>5 DEF PaneInv, FrameOfCwe
  <2>8. QED
    BY <2>5, <2>6, <2>7 DEF PaneInv, PageIsFull
<1>4. CASE Die
  BY <1>4 DEF Die, PaneInv, PaneType, FrameOfCwe, PageIsFull
<1>5. CASE EmptyFrame
  <2>1. 0 \in 0 .. MaxKeys
    BY DetailAssumption
  <2>2. QED
    BY <1>5, <2>1 DEF EmptyFrame, PaneInv, PaneType, FrameOfCwe, PageIsFull
<1>6. QED
  BY <1>1, <1>2, <1>3, <1>4, <1>5

\* The last step of a frame: the clamped offset leaves no row empty that a
\* line could fill.
LEMMA EndFrameKeeps == PaneInv /\ EndFrame => PaneInv'
<1> SUFFICES ASSUME PaneInv, EndFrame PROVE PaneInv'
  OBVIOUS
<1> DEFINE n == Clamp(Larger(0, height - Visible))
<1>1. /\ Visible \in Nat \ {0} /\ IntMax \in Nat
      /\ detail_scroll \in -IntMax - 1 .. IntMax /\ height \in Nat
  BY Sums DEF PaneInv, PaneType
<1>2. /\ n \in Nat /\ n \in -IntMax - 1 .. IntMax
      /\ n = 0 \/ n + Visible <= height
  <2> HIDE DEF n
  <2>1. Larger(0, height - Visible) \in Nat
    BY <1>1 DEF Larger
  <2>2. n = 0 \/ (n <= Larger(0, height - Visible) /\ n <= detail_scroll /\ n > 0)
    BY <1>1, <2>1 DEF n, Clamp, Larger, Smaller
  <2>3. n \in Int
    BY <1>1, <2>1 DEF n, Clamp, Larger, Smaller
  <2>4. QED
    BY <1>1, <2>2, <2>3 DEF Larger
<1>3. FrameWith(n)
  BY DEF EndFrame
<1> HIDE DEF n
<1>4. /\ detail_scroll' = n
      /\ drawn' = [scroll |-> n, height |-> height, visible |-> Visible]
      /\ para' = 0 /\ height' = 0 /\ keys' = 0 /\ rising' = FALSE
      /\ wrapping = "no"
      /\ UNCHANGED <<term, tree_visible, active_cwe, in_detail, count_pending,
                     count_value, dead, cuts, wrapping>>
  BY <1>3 DEF FrameWith, wrapVars
<1>5. 0 \in 0 .. MaxKeys
  BY DetailAssumption
<1>6. drawn' \in [scroll : Nat, height : Nat, visible : Nat \ {0}]
  BY <1>1, <1>2, <1>4
<1>7. PaneType'
  BY <1>2, <1>4, <1>5, <1>6 DEF PaneInv, PaneType
<1>8. FrameOfCwe' /\ PageIsFull'
  BY <1>1, <1>2, <1>4 DEF FrameOfCwe, PageIsFull
<1>9. QED
  BY <1>7, <1>8 DEF PaneInv

\* To wrap_text() every step of the pane is a call, an iteration or nothing.
LEMMA StepIsWrapStep == PaneInv /\ [Next]_vars => [WrapNext]_wrapVars
<1> SUFFICES ASSUME PaneInv, [Next]_vars PROVE [WrapNext]_wrapVars
  OBVIOUS
<1>1. CASE StartParagraph
  <2>1. /\ active_cwe \in Cwe /\ para \in DOMAIN Paragraphs[active_cwe]
        /\ Paragraphs[active_cwe] \in Seq(Paragraph)
    BY <1>1, DetailAssumption
    DEF StartParagraph, PaneInv, PaneType, FrameOfCwe
  <2>2. Paragraphs[active_cwe][para] \in Paragraph
    BY <2>1
  <2>3. TextWidth \in Nat
    BY Sums DEF PaneInv
  <2>4. QED
    BY <1>1, <2>2, <2>3 DEF StartParagraph, WrapNext
<1>2. CASE WrapOn
  BY <1>2 DEF WrapOn, WrapNext
<1>3. CASE ScrollKey
  BY <1>3 DEF ScrollKey, Digit, Down, Up, PageDown, PageUp, Top, ToBottom,
              ScrollTo, Event
<1>4. CASE OpenFromList \/ OpenByCommand \/ Close \/ EscapeKey \/ Leave \/ Return
            \/ ToggleTree \/ Resize
  BY <1>4 DEF OpenFromList, OpenByCommand, Close, EscapeKey, Leave, Return,
              ToggleTree, Resize, Event
<1>5. CASE StartFrame \/ EndFrame \/ Die \/ EmptyFrame
  BY <1>5 DEF StartFrame, EndFrame, FrameWith, Die, EmptyFrame
<1>6. CASE UNCHANGED vars
  BY <1>6 DEF vars
<1>7. QED
  BY <1>1, <1>2, <1>3, <1>4, <1>5, <1>6 DEF Next, Drawing

\* Every step keeps the pane's part of the invariant.
LEMMA PaneNextInv == PaneInv /\ WrapInv /\ [Next]_vars => PaneInv'
<1> SUFFICES ASSUME PaneInv, WrapInv, [Next]_vars PROVE PaneInv'
  OBVIOUS
<1>1. CASE Next
  BY <1>1, ScrollKeyKeeps, OtherKeysKeep, DrawingKeeps, EndFrameKeeps
  DEF Next, Drawing, WrapInv
<1>2. CASE UNCHANGED vars
  BY <1>2 DEF vars, wrapVars, keyVars, frameVars, PaneInv, PaneType, FrameOfCwe,
              PageIsFull
<1>3. QED
  BY <1>1, <1>2

\* The inductive invariant of the pane and its wrapping.
THEOREM DetailInductive == Spec => [](WrapInv /\ PaneInv)
<1>1. Init => WrapInv /\ PaneInv
  BY PaneInitInv, WrapInitInv
<1>2. WrapInv /\ PaneInv /\ [Next]_vars => (WrapInv /\ PaneInv)'
  BY StepIsWrapStep, WrapNextInv, PaneNextInv
<1>3. QED
  BY <1>1, <1>2, PTL DEF Spec

\* The types: counts and offsets stay ints whatever is typed, and a frame never
\* begins below its first line.
THEOREM DetailTyped == Spec => []TypeOK
<1>1. WrapInv /\ PaneInv => TypeOK
  <2> SUFFICES ASSUME WrapInv, PaneInv PROVE TypeOK
    OBVIOUS
  <2>1. /\ input \in Seq({"sp", "x"}) /\ width \in Nat
        /\ indent \in 0 .. Len(input) /\ pos \in indent + 1 .. Len(input) + 1
        /\ cuts \in SUBSET (Nat \X Nat) /\ wrapping \in {"no", "loop", "thrown"}
    BY DEF WrapInv, WrapType
  <2>2. indent \in Nat /\ pos \in Nat \ {0}
    BY <2>1
  <2>3. QED
    BY <2>1, <2>2 DEF PaneInv, PaneType, TypeOK
<1>2. QED
  BY <1>1, DetailInductive, PTL

\* No line wrap_text() makes is wider than the pane, for any text and size.
THEOREM EveryLineFits == Spec => []LinesFit
<1>1. WrapInv => LinesFit
  BY DEF WrapInv
<1>2. QED
  BY <1>1, DetailInductive, PTL

\* No character of a paragraph is lost or shown twice.
THEOREM TextIsKept == Spec => []NothingLost
<1>1. WrapInv => NothingLost
  BY DEF WrapInv
<1>2. QED
  BY <1>1, DetailInductive, PTL

\* A word is cut only where it fills its whole line.
THEOREM WordsAreKept == Spec => []WordsWhole
<1>1. WrapInv => WordsWhole
  BY DEF WrapInv
<1>2. QED
  BY <1>1, DetailInductive, PTL

\* Whatever offset the keys have left, a frame fills the pane or shows the
\* text from its first line.
THEOREM PagesAreFull == Spec => []PageIsFull
<1>1. PaneInv => PageIsFull
  BY DEF PaneInv
<1>2. QED
  BY <1>1, DetailInductive, PTL
-----------------------------------------------------------------------------
(* The lines of a text are a function of it: whatever else happens, two    *)
(* calls of wrap_text() with the same arguments push as many lines.        *)

\* The locals of a call.
Local == [indent : Nat, pos : Nat, cuts : SUBSET (Nat \X Nat)]

\* Those of the call under way.
Now == [indent |-> indent, pos |-> pos, cuts |-> cuts]

\* What StartWrap, BreakLine and LastLine do to the locals, for arguments t, w.
Begins(t, s) == IsIndent(t, s.indent) /\ s.pos = s.indent + 1 /\ s.cuts = {}

Breaks(t, w, s, b) ==
  LET spaces == {i \in 1 .. w - s.indent : t[s.pos + i] = "sp"}
  IN IF spaces = {} THEN b = w - s.indent
                    ELSE b \in spaces /\ \A i \in spaces : i <= b

Moves(t, w, s, r) ==
  /\ Len(t) - s.pos + 1 > w - s.indent /\ w - s.indent >= 0
  /\ \E b \in 0 .. w - s.indent :
       /\ Breaks(t, w, s, b)
       /\ r.indent = s.indent
       /\ r.pos = IF t[s.pos + b] = "sp" THEN s.pos + b + 1 ELSE s.pos + b
       /\ r.cuts = s.cuts \cup {<<s.pos, s.pos + b - 1>>}

Ends(t, w, s, n) ==
  LET rest == Len(t) - s.pos + 1
  IN /\ rest <= w - s.indent \/ rest = 0
     /\ n = Cardinality(IF rest = 0 THEN s.cuts
                                    ELSE s.cuts \cup {<<s.pos, Len(t)>>})

\* The locals a call can come to: those in every set that has the first ones
\* and is closed under the steps of the loop.
Closed(t, w, S) ==
  /\ \A s \in Local : Begins(t, s) => s \in S
  /\ \A s \in S, r \in Local : Moves(t, w, s, r) => r \in S

Reached(t, w, s) == \A S \in SUBSET Local : Closed(t, w, S) => s \in S

\* The locals that can come to z, likewise.
Backwards(t, w, z, S) ==
  z \in S /\ \A s \in Local, r \in S : Moves(t, w, s, r) => s \in S

Leads(t, w, s, z) == \A S \in SUBSET Local : Backwards(t, w, z, S) => s \in S

\* A call with arguments t, w may push n lines.
Pushes(t, w, n) == \E s \in Local : Reached(t, w, s) /\ Ends(t, w, s, n)

\* Locals are the same when each of them is.
LEMMA SameLocals ==
  ASSUME NEW s \in Local, NEW r \in Local,
         s.indent = r.indent, s.pos = r.pos, s.cuts = r.cuts
  PROVE  s = r
<1>1. /\ s = [indent |-> s.indent, pos |-> s.pos, cuts |-> s.cuts]
      /\ r = [indent |-> r.indent, pos |-> r.pos, cuts |-> r.cuts]
  BY DEF Local
<1>2. QED
  BY <1>1

\* A text has one indent.
LEMMA BeginsOnce ==
  ASSUME NEW t \in Seq({"sp", "x"}), NEW s \in Local, NEW r \in Local,
         Begins(t, s), Begins(t, r)
  PROVE  s = r
<1>1. ASSUME NEW m \in Nat, NEW n \in Nat, m < n, IsIndent(t, m), IsIndent(t, n)
      PROVE  FALSE
  BY <1>1 DEF IsIndent
<1>2. s.indent \in Nat /\ r.indent \in Nat
  BY DEF Local
<1>3. s.indent = r.indent
  BY <1>1, <1>2 DEF Begins
<1>4. QED
  BY <1>3, SameLocals DEF Begins

\* An iteration has one outcome.
LEMMA MovesOnce ==
  ASSUME NEW t \in Seq({"sp", "x"}), NEW w \in Nat, NEW s \in Local,
         NEW r \in Local, NEW q \in Local, Moves(t, w, s, r), Moves(t, w, s, q)
  PROVE  r = q
<1>1. PICK b \in 0 .. w - s.indent :
        /\ Breaks(t, w, s, b)
        /\ r.indent = s.indent
        /\ r.pos = IF t[s.pos + b] = "sp" THEN s.pos + b + 1 ELSE s.pos + b
        /\ r.cuts = s.cuts \cup {<<s.pos, s.pos + b - 1>>}
  BY DEF Moves
<1>2. PICK d \in 0 .. w - s.indent :
        /\ Breaks(t, w, s, d)
        /\ q.indent = s.indent
        /\ q.pos = IF t[s.pos + d] = "sp" THEN s.pos + d + 1 ELSE s.pos + d
        /\ q.cuts = s.cuts \cup {<<s.pos, s.pos + d - 1>>}
  BY DEF Moves
<1>3. b = d
  <2> DEFINE spaces == {i \in 1 .. w - s.indent : t[s.pos + i] = "sp"}
  <2>1. /\ IF spaces = {} THEN b = w - s.indent
                          ELSE b \in spaces /\ \A i \in spaces : i <= b
        /\ IF spaces = {} THEN d = w - s.indent
                          ELSE d \in spaces /\ \A i \in spaces : i <= d
    BY <1>1, <1>2 DEF Breaks
  <2>2. b \in Int /\ d \in Int
    BY DEF Local
  <2> HIDE DEF spaces
  <2>3. CASE spaces = {}
    BY <2>1, <2>3
  <2>4. CASE spaces # {}
    <3>1. b <= d /\ d <= b
      BY <2>1, <2>4
    <3>2. QED
      BY <3>1, <2>2
  <2>5. QED
    BY <2>3, <2>4
<1>4. QED
  BY <1>1, <1>2, <1>3, SameLocals

\* The loop goes on or ends.
LEMMA EndsStops ==
  ASSUME NEW t \in Seq({"sp", "x"}), NEW w \in Nat, NEW s \in Local, NEW r, NEW n,
         Ends(t, w, s, n)
  PROVE  ~Moves(t, w, s, r)
<1>1. Len(t) \in Nat /\ s.pos \in Nat /\ s.indent \in Nat
  BY DEF Local
<1>2. QED
  BY <1>1 DEF Ends, Moves

\* Two calls with the same arguments push as many lines.
LEMMA PushesOnce ==
  ASSUME NEW t \in Seq({"sp", "x"}), NEW w \in Nat, NEW m, NEW n,
         Pushes(t, w, m), Pushes(t, w, n)
  PROVE  m = n
<1>1. PICK y \in Local : Reached(t, w, y) /\ Ends(t, w, y, m)
  BY DEF Pushes
<1>2. PICK z \in Local : Reached(t, w, z) /\ Ends(t, w, z, n)
  BY DEF Pushes
<1> DEFINE Path == {s \in Local : Leads(t, w, s, z)}
           Steps == {s \in Local : \E r \in Path : Moves(t, w, s, r)} \cup {z}
<1>3. z \in Path
  BY DEF Leads, Backwards
<1>4. ASSUME NEW s \in Local, NEW r \in Path, Moves(t, w, s, r)
      PROVE  s \in Path
  <2> SUFFICES ASSUME NEW S \in SUBSET Local, Backwards(t, w, z, S) PROVE s \in S
    BY DEF Leads
  <2>1. r \in S
    BY DEF Leads
  <2>2. QED
    BY <1>4, <2>1 DEF Backwards
<1>5. Path \subseteq Steps
  <2>1. Steps \in SUBSET Local
    OBVIOUS
  <2>2. Steps \subseteq Path
    BY <1>3, <1>4
  <2> HIDE DEF Path
  <2>3. \A s \in Local, r \in Steps : Moves(t, w, s, r) => s \in Steps
    BY <2>2
  <2>4. Backwards(t, w, z, Steps)
    BY <2>3 DEF Backwards
  <2> HIDE DEF Steps
  <2>5. \A s \in Path : s \in Steps
    BY <2>1, <2>4 DEF Path, Leads
  <2>6. QED
    BY <2>5
<1>6. ASSUME NEW s \in Path, NEW r \in Local, Moves(t, w, s, r)
      PROVE  r \in Path
  <2>1. s # z
    BY <1>2, <1>6, EndsStops
  <2>2. PICK q \in Path : Moves(t, w, s, q)
    BY <2>1, <1>5
  <2>3. q = r
    BY <1>6, <2>2, MovesOnce
  <2>4. QED
    BY <2>3
<1>7. ASSUME NEW s \in Local, Begins(t, s) PROVE s \in Path
  <2> DEFINE S == {r \in Local : Leads(t, w, s, r)}
  <2>1. ASSUME NEW r \in Local, Begins(t, r) PROVE r \in S
    <3>1. r = s
      BY <1>7, <2>1, BeginsOnce
    <3>2. QED
      BY <3>1 DEF Leads, Backwards
  <2>2. ASSUME NEW r \in S, NEW q \in Local, Moves(t, w, r, q) PROVE q \in S
    <3> SUFFICES ASSUME NEW C \in SUBSET Local, Backwards(t, w, q, C) PROVE s \in C
      BY DEF Leads
    <3>1. r \in C
      BY <2>2 DEF Backwards
    <3>2. Backwards(t, w, r, C)
      BY <3>1 DEF Backwards
    <3>3. QED
      BY <3>2 DEF Leads
  <2>3. S \in SUBSET Local
    OBVIOUS
  <2>4. Closed(t, w, S)
    <3> HIDE DEF S
    <3>1. QED
      BY <2>1, <2>2 DEF Closed
  <2>5. z \in S
    <3> HIDE DEF S
    <3>1. QED
      BY <1>2, <2>3, <2>4 DEF Reached
  <2>6. QED
    BY <2>5
<1>8. y \in Path
  <2>1. Path \in SUBSET Local
    OBVIOUS
  <2> HIDE DEF Path
  <2>2. Closed(t, w, Path)
    BY <1>6, <1>7 DEF Closed
  <2>3. QED
    BY <1>1, <2>1, <2>2 DEF Reached
<1>9. y = z
  <2>1. \A r : ~Moves(t, w, y, r)
    BY <1>1, EndsStops
  <2>2. QED
    BY <2>1, <1>5, <1>8
<1>10. QED
  BY <1>1, <1>2, <1>9 DEF Ends

-----------------------------------------------------------------------------
(* The height of a frame is a function of the CWE and the width.           *)

\* The lines of CWE c at width w up to paragraph q may be h.
Stacked(c, w, q, h) ==
  \E g \in [0 .. q -> Nat] :
    /\ g[0] = Plain[c] /\ g[q] = h
    /\ \A i \in 1 .. q : \E n \in Nat :
         Pushes(Paragraphs[c][i], w, n) /\ g[i] = g[i - 1] + n

\* Nothing but the lines that are not wrapped.
LEMMA StackedPlain ==
  ASSUME NEW c \in Cwe, NEW w
  PROVE  Stacked(c, w, 0, Plain[c])
<1> DEFINE g == [i \in 0 .. 0 |-> Plain[c]]
<1>1. g \in [0 .. 0 -> Nat] /\ g[0] = Plain[c]
  BY DetailAssumption
<1>2. \A i \in 1 .. 0 : \E n \in Nat :
        Pushes(Paragraphs[c][i], w, n) /\ g[i] = g[i - 1] + n
  OBVIOUS
<1> HIDE DEF g
<1>3. QED
  BY <1>1, <1>2 DEF Stacked

\* One more paragraph.
LEMMA StackedNext ==
  ASSUME NEW c \in Cwe, NEW w, NEW q \in Nat, NEW h \in Nat, NEW n \in Nat,
         Stacked(c, w, q, h), Pushes(Paragraphs[c][q + 1], w, n)
  PROVE  Stacked(c, w, q + 1, h + n)
<1>1. PICK f \in [0 .. q -> Nat] :
        /\ f[0] = Plain[c] /\ f[q] = h
        /\ \A i \in 1 .. q : \E m \in Nat :
             Pushes(Paragraphs[c][i], w, m) /\ f[i] = f[i - 1] + m
  BY DEF Stacked
<1> DEFINE g == [i \in 0 .. q + 1 |-> IF i = q + 1 THEN h + n ELSE f[i]]
<1>2. /\ g \in [0 .. q + 1 -> Nat]
      /\ g[q + 1] = h + n /\ \A i \in 0 .. q : g[i] = f[i]
  OBVIOUS
<1> HIDE DEF g
<1>3. ASSUME NEW i \in 1 .. q + 1
      PROVE  \E m \in Nat : Pushes(Paragraphs[c][i], w, m) /\ g[i] = g[i - 1] + m
  <2>1. CASE i = q + 1
    <3>1. g[i - 1] = h /\ g[i] = h + n
      BY <1>1, <1>2, <2>1
    <3>2. QED
      BY <2>1, <3>1
  <2>2. CASE i # q + 1
    <3>1. i \in 1 .. q /\ i \in 0 .. q /\ i - 1 \in 0 .. q
      BY <2>2
    <3>2. g[i] = f[i] /\ g[i - 1] = f[i - 1]
      BY <1>2, <3>1
    <3>3. QED
      BY <1>1, <3>1, <3>2
  <2>3. QED
    BY <2>1, <2>2
<1>4. g[0] = Plain[c]
  BY <1>1, <1>2
<1>5. QED
  BY <1>2, <1>3, <1>4 DEF Stacked

\* The same CWE at the same width has the same lines.
LEMMA StackedOnce ==
  ASSUME NEW c \in Cwe, NEW w \in Nat, NEW h, NEW k,
         Stacked(c, w, Len(Paragraphs[c]), h), Stacked(c, w, Len(Paragraphs[c]), k)
  PROVE  h = k
<1> DEFINE q == Len(Paragraphs[c])
<1>1. q \in Nat /\ \A i \in 1 .. q : Paragraphs[c][i] \in Seq({"sp", "x"})
  BY DetailAssumption, ParagraphAssumption
<1> HIDE DEF q
<1>2. PICK f \in [0 .. q -> Nat] :
        /\ f[0] = Plain[c] /\ f[q] = h
        /\ \A i \in 1 .. q : \E m \in Nat :
             Pushes(Paragraphs[c][i], w, m) /\ f[i] = f[i - 1] + m
  BY DEF Stacked, q
<1>3. PICK g \in [0 .. q -> Nat] :
        /\ g[0] = Plain[c] /\ g[q] = k
        /\ \A i \in 1 .. q : \E m \in Nat :
             Pushes(Paragraphs[c][i], w, m) /\ g[i] = g[i - 1] + m
  BY DEF Stacked, q
<1> DEFINE Same == {i \in 0 .. q : f[i] = g[i]}
<1>4. 0 \in Same
  BY <1>1, <1>2, <1>3
<1>5. ASSUME NEW i \in 1 .. q, i - 1 \in Same PROVE i \in Same
  <2>1. PICK m \in Nat : Pushes(Paragraphs[c][i], w, m) /\ f[i] = f[i - 1] + m
    BY <1>2
  <2>2. PICK n \in Nat : Pushes(Paragraphs[c][i], w, n) /\ g[i] = g[i - 1] + n
    BY <1>3
  <2>3. m = n
    BY <1>1, <2>1, <2>2, PushesOnce
  <2>4. i \in 0 .. q
    BY <1>1
  <2>5. QED
    BY <1>5, <2>1, <2>2, <2>3, <2>4
<1>6. 0 .. q \subseteq Same
  <2> HIDE DEF Same
  <2>1. QED
    BY <1>1, <1>4, <1>5, UpTo
<1>7. QED
  BY <1>1, <1>2, <1>3, <1>6

\* The call under way is of the next paragraph, at the width of the pane.
CallOfFrame ==
  wrapping = "loop" =>
    /\ para \in DOMAIN Paragraphs[active_cwe]
    /\ input = Paragraphs[active_cwe][para] /\ width = TextWidth
    /\ Reached(input, width, Now)

\* What is pushed so far.
HeightOfFrame ==
  para # 0 => /\ para - 1 <= Len(Paragraphs[active_cwe])
              /\ Stacked(active_cwe, TextWidth, para - 1, height)

\* Unless something has moved the view up since, the last frame is that of the
\* same CWE at the same size, and the offset is not above it.
LastFrame ==
  drawn.scroll # 0 /\ ~rising =>
    /\ active_cwe # "none"
    /\ detail_scroll >= drawn.scroll
    /\ drawn.visible = Visible
    /\ Stacked(active_cwe, TextWidth, Len(Paragraphs[active_cwe]), drawn.height)

\* A closed pane has no frame to keep.
ClosedPane == active_cwe = "none" => drawn.scroll = 0

ScrollInv == CallOfFrame /\ HeightOfFrame /\ LastFrame /\ ClosedPane

\* A call begins at its first locals.
LEMMA CallBegins ==
  ASSUME NEW t \in Seq({"sp", "x"}), NEW w \in Nat, StartWrap(t, w)
  PROVE  Reached(t, w, Now')
<1>1. Now' \in Local /\ Begins(t, Now')
  <2>1. PICK n \in 0 .. Len(t) : IsIndent(t, n) /\ indent' = n /\ pos' = n + 1
    BY DEF StartWrap
  <2>2. cuts' = {} /\ n \in Nat
    BY DEF StartWrap
  <2>3. Now' = [indent |-> n, pos |-> n + 1, cuts |-> {}]
    BY <2>1, <2>2 DEF Now
  <2>4. QED
    BY <2>1, <2>2, <2>3 DEF Local, Begins
<1>2. QED
  BY <1>1 DEF Reached, Closed

\* The locals of the call under way are typed.
LEMMA NowIsLocal == WrapType => Now \in Local
<1> SUFFICES ASSUME WrapType PROVE Now \in Local
  OBVIOUS
<1>1. /\ indent \in Nat /\ pos \in Nat /\ cuts \in SUBSET (Nat \X Nat)
  BY DEF WrapType
<1>2. QED
  BY <1>1 DEF Local, Now

\* An iteration goes on to the next locals.
LEMMA CallMoves ==
  ASSUME WrapType, WrapType', BreakLine, Reached(input, width, Now)
  PROVE  Reached(input, width, Now')
<1>1. Now \in Local /\ Now' \in Local
  <2>1. WrapType' => (Now \in Local)'
    BY NowIsLocal, PTL
  <2>2. QED
    BY <2>1, NowIsLocal
<1>2. Moves(input, width, Now, Now')
  <2>1. /\ Now.indent = indent /\ Now.pos = pos /\ Now.cuts = cuts
        /\ Now'.indent = indent /\ Now'.pos = pos' /\ Now'.cuts = cuts'
    BY DEF Now, BreakLine
  <2>2. PICK b \in 0 .. width - indent :
          /\ IsBreak(b)
          /\ cuts' = cuts \cup {<<pos, pos + b - 1>>}
          /\ pos' = IF input[pos + b] = "sp" THEN pos + b + 1 ELSE pos + b
    BY DEF BreakLine, Room
  <2>3. Breaks(input, width, Now, b)
    BY <2>1, <2>2 DEF IsBreak, Spaces, Room, Breaks
  <2>4. Len(input) - pos + 1 > width - indent /\ width - indent >= 0
    BY DEF BreakLine, Rest, Room
  <2>5. QED
    BY <2>1, <2>2, <2>3, <2>4 DEF Moves
<1>3. QED
  BY <1>1, <1>2 DEF Reached, Closed

\* The last line ends it.
LEMMA CallEnds ==
  ASSUME WrapType, LastLine, Reached(input, width, Now)
  PROVE  Pushes(input, width, Cardinality(cuts'))
<1>1. Now \in Local
  BY NowIsLocal
<1>2. Now.indent = indent /\ Now.pos = pos /\ Now.cuts = cuts
  BY DEF Now
<1>3. Ends(input, width, Now, Cardinality(cuts'))
  BY <1>2 DEF LastLine, Rest, Room, Ends
<1>4. QED
  BY <1>1, <1>3 DEF Pushes

\* An int operation that does not overflow.
LEMMA AsIntExact ==
  ASSUME NEW n \in -IntMax - 1 .. IntMax
  PROVE  AsInt(n) = n
<1> DEFINE k == 2 * (IntMax + 1)
           m == n + IntMax + 1
<1>1. IntMax \in Nat /\ k \in Nat /\ k > 0 /\ m \in 0 .. k - 1
  BY DetailAssumption
<1>2. AsInt(n) = (m % k) - IntMax - 1
  BY DEF AsInt
<1>3. m % k = m
  <2> HIDE DEF m, k
  <2>1. QED
    BY <1>1
<1>4. QED
  BY <1>1, <1>2, <1>3

\* Events leave the call and the frame alone; without one that may move the
\* view up, the CWE and the sizes are the same and the offset is not above.
LEMMA EventScrolls ==
  ASSUME ScrollInv, NEW up \in BOOLEAN, Event(up), rising \in BOOLEAN,
         wrapping = "loop" => para # 0,
         \/ drawn' = NoFrame /\ up
         \/ drawn' = drawn /\ up /\ UNCHANGED active_cwe
         \/ /\ detail_scroll' \in Int /\ detail_scroll \in Int
            /\ drawn \in [scroll : Nat, height : Nat, visible : Nat \ {0}]
            /\ ~up => detail_scroll' >= detail_scroll
            /\ UNCHANGED <<drawn, active_cwe, term, tree_visible>>
  PROVE  ScrollInv'
<1>1. /\ para = 0 /\ para' = 0 /\ wrapping' = wrapping
      /\ rising' = (rising \/ up)
  BY DEF Event, wrapVars
<1>2. CallOfFrame' /\ HeightOfFrame'
  BY <1>1 DEF CallOfFrame, HeightOfFrame
<1>3. ClosedPane'
  BY DEF ScrollInv, ClosedPane, NoFrame
<1>4. LastFrame'
  <2>1. CASE up
    BY <1>1, <2>1 DEF LastFrame
  <2>2. CASE ~up
    <3>1. /\ UNCHANGED <<drawn, active_cwe, term, tree_visible>>
          /\ detail_scroll' >= detail_scroll /\ rising' = rising
          /\ detail_scroll' \in Int /\ detail_scroll \in Int /\ drawn.scroll \in Int
      BY <1>1, <2>2
    <3>2. Visible' = Visible /\ TextWidth' = TextWidth
      BY <3>1 DEF Visible, TextWidth
    <3>3. SUFFICES ASSUME drawn.scroll # 0, ~rising PROVE LastFrame'
      BY <3>1 DEF LastFrame
    <3>4. detail_scroll >= drawn.scroll
      BY <3>3 DEF ScrollInv, LastFrame
    <3>5. detail_scroll' >= drawn.scroll
      BY <3>1, <3>4
    <3>6. QED
      BY <3>1, <3>2, <3>3, <3>5 DEF ScrollInv, LastFrame
  <2>3. QED
    BY <2>1, <2>2
<1>5. QED
  BY <1>2, <1>3, <1>4 DEF ScrollInv

\* Every event.
LEMMA EventsScroll ==
  ASSUME PaneInv, PaneInv', ScrollInv,
         ScrollKey \/ OpenFromList \/ OpenByCommand \/ Close \/ EscapeKey
           \/ Leave \/ Return \/ ToggleTree \/ Resize
  PROVE  ScrollInv'
<1>1. /\ detail_scroll \in -IntMax - 1 .. IntMax
      /\ IntMax \in Nat \ {0} /\ Times \in 1 .. IntMax /\ Page \in Nat
      /\ Bottom \in 0 .. IntMax
      /\ detail_scroll \in Int /\ detail_scroll' \in Int
      /\ rising \in BOOLEAN
      /\ drawn \in [scroll : Nat, height : Nat, visible : Nat \ {0}]
  BY Sums, DetailAssumption DEF PaneInv, PaneType
<1>2. para = 0 => wrapping = "no"
  BY DEF PaneInv, FrameOfCwe
<1>3. ASSUME NEW n, NEW up \in BOOLEAN, ScrollTo(n, up), ~up => n >= detail_scroll
      PROVE  ScrollInv'
  <2>1. /\ Event(up) /\ detail_scroll' = n /\ UNCHANGED <<drawn, active_cwe, term, tree_visible>>
    BY <1>3 DEF ScrollTo
  <2>2. QED
    BY <1>1, <1>2, <1>3, <2>1, EventScrolls
<1>4. CASE Digit
  <2>1. Event(FALSE) /\ UNCHANGED <<drawn, active_cwe, term, tree_visible, detail_scroll>>
    BY <1>4 DEF Digit
  <2>2. detail_scroll' >= detail_scroll
    BY <1>1, <2>1
  <2>3. FALSE \in BOOLEAN
    OBVIOUS
  <2>4. QED
    BY <1>1, <1>2, <2>1, <2>2, <2>3, EventScrolls
<1>5. ASSUME NEW n \in Nat,
             ScrollTo(AsInt(detail_scroll + n), detail_scroll + n > IntMax)
      PROVE  ScrollInv'
  <2> DEFINE up == detail_scroll + n > IntMax
  <2>1. up \in BOOLEAN
    OBVIOUS
  <2>2. ~up => AsInt(detail_scroll + n) >= detail_scroll
    <3>1. ~up => detail_scroll + n \in -IntMax - 1 .. IntMax
      BY <1>1
    <3>2. ~up => AsInt(detail_scroll + n) = detail_scroll + n
      BY <3>1, AsIntExact
    <3>3. QED
      BY <1>1, <3>2
  <2> HIDE DEF up
  <2>3. ScrollTo(AsInt(detail_scroll + n), up)
    BY <1>5 DEF up
  <2>4. QED
    BY <1>3, <2>1, <2>2, <2>3
<1>6. CASE Down
  BY <1>1, <1>5, <1>6 DEF Down
<1>7. CASE PageDown
  BY <1>1, <1>5, <1>7 DEF PageDown
<1>8. CASE Up \/ PageUp \/ Top
  BY <1>3, <1>8 DEF Up, PageUp, Top
<1>9. CASE ToBottom
  <2>1. (detail_scroll > Bottom) \in BOOLEAN
    OBVIOUS
  <2>2. ~(detail_scroll > Bottom) => Bottom >= detail_scroll
    BY <1>1
  <2>3. QED
    BY <1>3, <1>9, <2>1, <2>2 DEF ToBottom
<1>10. CASE OpenFromList \/ OpenByCommand \/ Close \/ EscapeKey
  <2>1. Event(TRUE) /\ drawn' = NoFrame
    BY <1>10 DEF OpenFromList, OpenByCommand, Close, EscapeKey
  <2>2. QED
    BY <1>1, <1>2, <2>1, EventScrolls
<1>11. CASE ToggleTree \/ Resize
  <2>1. Event(TRUE) /\ drawn' = drawn /\ UNCHANGED active_cwe
    BY <1>11 DEF ToggleTree, Resize
  <2>2. QED
    BY <1>1, <1>2, <2>1, EventScrolls
<1>12. CASE Leave \/ Return
  <2>1. Event(FALSE) /\ UNCHANGED <<drawn, active_cwe, term, tree_visible, detail_scroll>>
    BY <1>12 DEF Leave, Return
  <2>2. detail_scroll' >= detail_scroll
    BY <1>1, <2>1
  <2>3. FALSE \in BOOLEAN
    OBVIOUS
  <2>4. QED
    BY <1>1, <1>2, <2>1, <2>2, <2>3, EventScrolls
<1>13. QED
  BY <1>4, <1>6, <1>7, <1>8, <1>9, <1>10, <1>11, <1>12 DEF ScrollKey

\* The steps of a frame but the last.
LEMMA DrawingScrolls ==
  ASSUME PaneInv, WrapType, WrapType', ScrollInv,
         StartFrame \/ StartParagraph \/ WrapOn \/ Die \/ EmptyFrame
  PROVE  ScrollInv'
<1> USE DEF keyVars, frameVars
<1>0. /\ TextWidth \in Nat
      /\ wrapping # "no" => para # 0
      /\ para # 0 => active_cwe # "none"
      /\ active_cwe \in Cwe \cup {"none"} /\ para \in Nat /\ height \in Nat
  BY Sums DEF PaneInv, PaneType, FrameOfCwe
<1>1. CASE StartFrame
  <2>1. para = 0 /\ para' = 1 /\ height' = Plain[active_cwe] /\ active_cwe \in Cwe
        /\ UNCHANGED <<keyVars, wrapVars, drawn, rising>>
    BY <1>0, <1>1 DEF StartFrame
  <2>2. UNCHANGED <<wrapping, TextWidth, Visible>> /\ wrapping = "no"
    BY <1>0, <2>1 DEF wrapVars, TextWidth, Visible
  <2>3. Stacked(active_cwe, TextWidth, 0, Plain[active_cwe])
    BY <2>1, StackedPlain
  <2>4. Len(Paragraphs[active_cwe]) \in Nat
    BY <2>1, DetailAssumption
  <2>5. CallOfFrame' /\ HeightOfFrame'
    BY <2>1, <2>2, <2>3, <2>4 DEF CallOfFrame, HeightOfFrame
  <2>6. LastFrame' /\ ClosedPane'
    BY <2>1, <2>2 DEF ScrollInv, LastFrame, ClosedPane
  <2>7. QED
    BY <2>5, <2>6 DEF ScrollInv
<1>2. CASE StartParagraph
  <2>1. /\ para # 0 /\ para <= Len(Paragraphs[active_cwe]) /\ active_cwe \in Cwe
        /\ StartWrap(Paragraphs[active_cwe][para], TextWidth)
        /\ UNCHANGED <<keyVars, frameVars>>
    BY <1>0, <1>2 DEF StartParagraph
  <2>2. UNCHANGED <<TextWidth, Visible>>
    BY <2>1 DEF TextWidth, Visible
  <2>3. /\ para \in DOMAIN Paragraphs[active_cwe]
        /\ Paragraphs[active_cwe][para] \in Seq({"sp", "x"})
    BY <1>0, <2>1, DetailAssumption, ParagraphAssumption
  <2>4. Reached(Paragraphs[active_cwe][para], TextWidth, Now')
    BY <1>0, <2>1, <2>3, CallBegins
  <2>5. input' = Paragraphs[active_cwe][para] /\ width' = TextWidth
    BY <2>1 DEF StartWrap
  <2>6. CallOfFrame'
    BY <2>1, <2>2, <2>3, <2>4, <2>5 DEF CallOfFrame
  <2>7. HeightOfFrame' /\ LastFrame' /\ ClosedPane'
    BY <2>1, <2>2 DEF ScrollInv, HeightOfFrame, LastFrame, ClosedPane
  <2>8. QED
    BY <2>6, <2>7 DEF ScrollInv
<1>3. CASE WrapOn
  <2>1. WrapStep /\ UNCHANGED <<keyVars, drawn, rising>> /\ wrapping = "loop"
        /\ UNCHANGED <<input, width>>
    BY <1>3 DEF WrapOn, WrapStep, LastLine, BreakLine, BreakThrows
  <2>2. UNCHANGED <<TextWidth, Visible>>
    BY <2>1 DEF TextWidth, Visible
  <2>3. /\ para # 0 /\ active_cwe \in Cwe /\ Len(Paragraphs[active_cwe]) \in Nat
        /\ para \in DOMAIN Paragraphs[active_cwe]
        /\ input = Paragraphs[active_cwe][para] /\ width = TextWidth
        /\ Reached(input, width, Now)
        /\ Stacked(active_cwe, TextWidth, para - 1, height)
    BY <1>0, <2>1, DetailAssumption DEF ScrollInv, CallOfFrame, HeightOfFrame
  <2>4. LastFrame' /\ ClosedPane'
    BY <2>1, <2>2 DEF ScrollInv, LastFrame, ClosedPane
  <2>5. CASE LastLine
    <3>1. wrapping' = "no" /\ para' = para + 1
          /\ height' = height + Cardinality(cuts')
      BY <1>3, <2>5 DEF WrapOn, LastLine
    <3>2. Pushes(input, width, Cardinality(cuts'))
      BY <2>3, <2>5, CallEnds
    <3>3. Cardinality(cuts') \in Nat
      <4>1. cuts' = cuts \/ \E c : cuts' = cuts \cup {c}
        BY <2>5 DEF LastLine
      <4>2. IsFiniteSet(cuts')
        BY <4>1, FS_AddElement DEF PaneInv, PaneType
      <4>3. QED
        BY <4>2, FS_CardinalityType
    <3>4. para - 1 \in Nat /\ (para - 1) + 1 = para /\ para' - 1 = para
      BY <1>0, <2>3, <3>1
    <3>5. Stacked(active_cwe, TextWidth, para, height')
      BY <1>0, <2>3, <3>1, <3>2, <3>3, <3>4, StackedNext
    <3>6. CallOfFrame' /\ HeightOfFrame'
      BY <2>1, <2>2, <2>3, <3>1, <3>4, <3>5 DEF CallOfFrame, HeightOfFrame
    <3>7. QED
      BY <2>4, <3>6 DEF ScrollInv
  <2>6. CASE BreakLine
    <3>1. wrapping' = "loop" /\ UNCHANGED <<para, height>>
      BY <1>3, <2>1, <2>6 DEF WrapOn, BreakLine
    <3>2. Reached(input, width, Now')
      BY <2>3, <2>6, CallMoves
    <3>3. CallOfFrame' /\ HeightOfFrame'
      BY <2>1, <2>2, <2>3, <3>1, <3>2 DEF CallOfFrame, HeightOfFrame, ScrollInv
    <3>4. QED
      BY <2>4, <3>3 DEF ScrollInv
  <2>7. CASE BreakThrows
    <3>1. wrapping' = "thrown" /\ UNCHANGED <<para, height>>
      BY <1>3, <2>7 DEF WrapOn, BreakThrows
    <3>2. CallOfFrame' /\ HeightOfFrame'
      BY <2>1, <2>2, <3>1 DEF CallOfFrame, HeightOfFrame, ScrollInv
    <3>3. QED
      BY <2>4, <3>2 DEF ScrollInv
  <2>8. QED
    BY <2>1, <2>5, <2>6, <2>7 DEF WrapStep
<1>4. CASE Die
  <2>1. UNCHANGED <<keyVars, wrapVars, para, height, drawn, rising>>
    BY <1>4 DEF Die
  <2>2. UNCHANGED <<TextWidth, Visible, Now>>
    BY <2>1 DEF wrapVars, TextWidth, Visible, Now
  <2>3. QED
    BY <2>1, <2>2
    DEF wrapVars, ScrollInv, CallOfFrame, HeightOfFrame, LastFrame, ClosedPane
<1>5. CASE EmptyFrame
  <2>1. UNCHANGED <<keyVars, wrapVars, para, height, drawn>>
        /\ active_cwe = "none" /\ para = 0
    BY <1>5 DEF EmptyFrame
  <2>2. wrapping' = "no" /\ drawn'.scroll = 0
    BY <1>0, <2>1 DEF wrapVars, ScrollInv, ClosedPane
  <2>3. QED
    BY <2>1, <2>2
    DEF ScrollInv, CallOfFrame, HeightOfFrame, LastFrame, ClosedPane
<1>6. QED
  BY <1>1, <1>2, <1>3, <1>4, <1>5

\* The last step of a frame: the lines are as many as they were.
LEMMA EndFrameScrolls ==
  ASSUME PaneInv, ScrollInv, EndFrame
  PROVE  ScrollInv' /\ StaysDown
<1> DEFINE n == Clamp(Larger(0, height - Visible))
<1>1. /\ active_cwe \in Cwe /\ wrapping = "no" /\ wrapping' = "no" /\ para' = 0
      /\ para = Len(Paragraphs[active_cwe]) + 1
      /\ Len(Paragraphs[active_cwe]) \in Nat
      /\ detail_scroll' = n /\ drawn'.scroll = n
      /\ drawn' = [scroll |-> n, height |-> height, visible |-> Visible]
      /\ UNCHANGED <<term, tree_visible, active_cwe>>
  BY DetailAssumption DEF EndFrame, FrameWith, wrapVars, PaneInv, PaneType
<1>2. /\ Visible \in Nat \ {0} /\ detail_scroll \in Int /\ height \in Nat
      /\ TextWidth \in Nat
      /\ drawn.scroll \in Nat /\ drawn.height \in Nat /\ drawn.visible \in Nat
      /\ drawn.scroll = 0 \/ drawn.scroll + drawn.visible <= drawn.height
  BY Sums DEF PaneInv, PaneType, PageIsFull
<1>3. n \in Nat
  BY <1>2 DEF Clamp, Larger, Smaller
<1>4. para # 0 /\ para - 1 = Len(Paragraphs[active_cwe])
  BY <1>1
<1>5. Stacked(active_cwe, TextWidth, Len(Paragraphs[active_cwe]), height)
  BY <1>4 DEF ScrollInv, HeightOfFrame
<1>6. ASSUME ~rising PROVE n >= drawn.scroll
  <2>1. CASE drawn.scroll = 0
    BY <1>3, <2>1
  <2>2. CASE drawn.scroll # 0
    <3>1. /\ detail_scroll >= drawn.scroll /\ drawn.visible = Visible
          /\ Stacked(active_cwe, TextWidth, Len(Paragraphs[active_cwe]), drawn.height)
      BY <1>6, <2>2 DEF ScrollInv, LastFrame
    <3>2. drawn.height = height
      BY <1>1, <1>2, <1>5, <3>1, StackedOnce
    <3>3. drawn.scroll + Visible <= height
      BY <1>2, <2>2, <3>1, <3>2
    <3>4. QED
      BY <1>2, <3>1, <3>3 DEF Clamp, Larger, Smaller
  <2>3. QED
    BY <2>1, <2>2
<1> HIDE DEF n
<1>7. StaysDown
  BY <1>1, <1>6 DEF StaysDown
<1>8. UNCHANGED <<TextWidth, Visible>>
  BY <1>1 DEF TextWidth, Visible
<1>9. LastFrame'
  <2>1. /\ active_cwe' # "none" /\ detail_scroll' >= drawn'.scroll
        /\ drawn'.visible = Visible' /\ drawn'.height = height
    BY <1>1, <1>3, <1>8, DetailAssumption
  <2>2. Stacked(active_cwe', TextWidth', Len(Paragraphs[active_cwe']), drawn'.height)
    BY <1>1, <1>5, <1>8, <2>1
  <2>3. QED
    BY <2>1, <2>2 DEF LastFrame
<1>10. CallOfFrame' /\ HeightOfFrame' /\ ClosedPane'
  <2>1. wrapping' # "loop" /\ para' = 0 /\ active_cwe' # "none"
    BY <1>1, DetailAssumption
  <2>2. QED
    BY <2>1 DEF CallOfFrame, HeightOfFrame, ClosedPane
<1>11. QED
  BY <1>7, <1>9, <1>10 DEF ScrollInv

\* A call under way is of the paragraph being drawn, a height is the sum of the
\* lines, and the last frame can be shown again.
LEMMA ScrollInductive == Spec => []ScrollInv
<1>1. Init => ScrollInv
  BY DEF Init, WrapInit, NoFrame, ScrollInv, CallOfFrame, HeightOfFrame, LastFrame,
         ClosedPane
<1>2. WrapInv /\ WrapInv' /\ PaneInv /\ PaneInv' /\ ScrollInv /\ [Next]_vars
        => ScrollInv'
  <2> SUFFICES ASSUME WrapInv, WrapInv', PaneInv, PaneInv', ScrollInv, [Next]_vars
               PROVE  ScrollInv'
    OBVIOUS
  <2>1. WrapType /\ WrapType'
    BY DEF WrapInv
  <2>2. CASE Next
    BY <2>1, <2>2, EventsScroll, DrawingScrolls, EndFrameScrolls DEF Next, Drawing
  <2>3. CASE UNCHANGED vars
    <3>1. UNCHANGED <<keyVars, wrapVars, para, height, drawn, rising>>
      BY <2>3 DEF vars, frameVars
    <3>2. UNCHANGED <<TextWidth, Visible, Now>>
      BY <3>1 DEF wrapVars, keyVars, TextWidth, Visible, Now
    <3>3. QED
      BY <3>1, <3>2 DEF wrapVars, keyVars, ScrollInv, CallOfFrame, HeightOfFrame,
                        LastFrame, ClosedPane
  <2>4. QED
    BY <2>2, <2>3
<1>3. QED
  BY <1>1, <1>2, DetailInductive, PTL DEF Spec

\* The offset only goes back for a reason: the lines of a CWE are the same from
\* frame to frame, so what the clamp allowed once it allows again.
THEOREM ViewStaysDown == Spec => DownNeverUp
<1>1. PaneInv /\ ScrollInv /\ [Next]_vars => [StaysDown]_vars
  <2> SUFFICES ASSUME PaneInv, ScrollInv, Next PROVE StaysDown
    OBVIOUS
  <2>1. CASE EndFrame
    BY <2>1, EndFrameScrolls
  <2>2. CASE ~EndFrame
    <3>1. para = 0 \/ para' # 0
      BY <2>2 DEF Next, Drawing, ScrollKey, Digit, Down, Up, PageDown, PageUp, Top,
                  ToBottom, ScrollTo, OpenFromList, OpenByCommand, Close,
                  EscapeKey, Leave, Return, ToggleTree, Resize, Event,
                  StartFrame, StartParagraph, frameVars, WrapOn, Die, EmptyFrame,
                  PaneInv, PaneType
    <3>2. QED
      BY <3>1 DEF StaysDown
  <2>3. QED
    BY <2>1, <2>2
<1>2. QED
  BY <1>1, DetailInductive, ScrollInductive, PTL DEF Spec, DownNeverUp

\* The pane uses wrap_text() as module WrapText says: seen through the locals of
\* the call it is a behaviour of WrapSpec.
THEOREM PaneImplementsWrapText == Spec => WrapSpec
<1>1. Init => WrapInit
  BY PaneInitInv
<1>2. PaneInv /\ [Next]_vars => [WrapNext]_wrapVars
  BY StepIsWrapStep
<1>3. QED
  BY <1>1, <1>2, DetailInductive, PTL DEF Spec, WrapSpec

-----------------------------------------------------------------------------
(* Every step of a frame leads closer to its end: what FrameEnds says with *)
(* fairness, less the fairness.                                            *)

\* The spaces that were split off are the whole indent.
IndentInv == wrapping # "no" => IsIndent(input, indent)

\* Unless a paragraph is indented as wide as the pane, a step of a frame ends
\* it, dies, goes on to the next paragraph, begins to wrap it, throws, or
\* leaves less of it to wrap.
Advances ==
  para # 0 /\ NoFullIndent =>
    \/ para' = 0 \/ dead' \/ para' > para
    \/ /\ para' = para
       /\ \/ wrapping = "no" /\ wrapping' = "loop"
          \/ wrapping = "loop" /\ wrapping' = "thrown"
          \/ wrapping = "loop" /\ wrapping' = "loop" /\ 0 <= Rest' /\ Rest' < Rest

\* wrap_text() does not touch the indent.
LEMMA IndentKept ==
  ASSUME PaneInv, IndentInv, [Next]_vars
  PROVE  IndentInv'
<1>1. [WrapNext]_wrapVars
  BY StepIsWrapStep
<1>2. CASE WrapStep
  BY <1>2 DEF WrapStep, LastLine, BreakLine, BreakThrows, IndentInv
<1>3. CASE \E t \in Paragraph, w \in Nat : StartWrap(t, w)
  BY <1>3 DEF StartWrap, IndentInv
<1>4. CASE UNCHANGED wrapVars
  BY <1>4 DEF wrapVars, IndentInv
<1>5. QED
  BY <1>1, <1>2, <1>3, <1>4 DEF WrapNext

\* While there is room for a character behind the indent, a line takes some.
LEMMA BreakLineAdvances ==
  ASSUME WrapInv, WrapInv', BreakLine, Room # 0
  PROVE  0 <= Rest' /\ Rest' < Rest
<1>1. /\ Len(input) \in Nat /\ pos \in Int /\ indent \in Int /\ width \in Int
      /\ pos' \in Int /\ pos' <= Len(input) + 1 /\ input' = input
  <2>1. input \in Seq({"sp", "x"}) /\ width \in Nat
        /\ indent \in 0 .. Len(input) /\ pos \in indent + 1 .. Len(input) + 1
    BY DEF WrapInv, WrapType
  <2>2. input' = input /\ indent' = indent
    BY DEF BreakLine
  <2>3. pos' \in indent' + 1 .. Len(input') + 1
    BY DEF WrapInv, WrapType
  <2>4. QED
    BY <2>1, <2>2, <2>3
<1>2. PICK b \in 0 .. Room :
        /\ IsBreak(b)
        /\ pos' = IF input[pos + b] = "sp" THEN pos + b + 1 ELSE pos + b
  BY DEF BreakLine
<1>3. Room \in Int /\ Room >= 0
  BY <1>1 DEF BreakLine, Room
<1>4. b \in Int /\ b > 0
  BY <1>2, <1>3 DEF IsBreak, Spaces
<1>5. pos' > pos
  BY <1>1, <1>2, <1>4
<1>6. QED
  BY <1>1, <1>5 DEF Rest

\* A frame never goes back: with a step taken whenever one can be, it ends.
THEOREM FrameAdvances == Spec => [][Advances]_vars
<1>1. Init => IndentInv
  BY DEF Init, WrapInit, IndentInv
<1>2. WrapInv /\ WrapInv' /\ PaneInv /\ PaneInv' /\ ScrollInv /\ IndentInv
        /\ [Next]_vars => [Advances]_vars
  <2> SUFFICES ASSUME WrapInv, WrapInv', PaneInv, ScrollInv, IndentInv, Next,
                      para # 0, NoFullIndent
               PROVE  Advances
    BY DEF Advances
  <2>1. para \in Nat
    BY DEF PaneInv, PaneType
  <2>2. CASE StartParagraph
    BY <2>2 DEF StartParagraph, StartWrap, frameVars, Advances
  <2>3. CASE WrapOn
    <3>1. CASE LastLine
      BY <2>1, <2>3, <3>1 DEF WrapOn, LastLine, Advances
    <3>2. CASE BreakThrows
      BY <2>3, <3>2 DEF WrapOn, BreakThrows, Advances
    <3>3. CASE BreakLine
      <4>1. wrapping = "loop" /\ wrapping' = "loop" /\ para' = para
        BY <2>3, <3>3 DEF WrapOn, BreakLine
      <4>2. /\ para \in DOMAIN Paragraphs[active_cwe] /\ active_cwe # "none"
            /\ input = Paragraphs[active_cwe][para] /\ width = TextWidth
        BY <4>1 DEF ScrollInv, CallOfFrame, PaneInv, FrameOfCwe
      <4>3. ~IsIndent(input, width)
        BY <4>2 DEF NoFullIndent
      <4>4. IsIndent(input, indent)
        BY <4>1 DEF IndentInv
      <4>5. Room # 0
        <5>1. width \in Int /\ indent \in Int
          BY DEF WrapInv, WrapType
        <5>2. QED
          BY <4>3, <4>4, <5>1 DEF Room
      <4>6. QED
        BY <3>3, <4>1, <4>5, BreakLineAdvances DEF Advances
    <3>4. QED
      BY <2>3, <3>1, <3>2, <3>3 DEF WrapOn, WrapStep
  <2>4. CASE EndFrame
    BY <2>4 DEF EndFrame, FrameWith, Advances
  <2>5. CASE Die
    BY <2>5 DEF Die, Advances
  <2>6. CASE ~(StartParagraph \/ WrapOn \/ EndFrame \/ Die)
    <3>1. para = 0
      BY <2>6 DEF Next, Drawing, ScrollKey, Digit, Down, Up, PageDown, PageUp, Top,
                  ToBottom, ScrollTo, OpenFromList, OpenByCommand, Close,
                  EscapeKey, Leave, Return, ToggleTree, Resize, Event,
                  StartFrame, EmptyFrame
    <3>2. QED
      BY <3>1
  <2>7. QED
    BY <2>2, <2>3, <2>4, <2>5, <2>6
<1>3. PaneInv /\ IndentInv /\ [Next]_vars => IndentInv'
  BY IndentKept
<1>4. QED
  BY <1>1, <1>2, <1>3, DetailInductive, ScrollInductive, PTL DEF Spec
=============================================================================
