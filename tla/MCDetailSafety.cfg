\* Keys, counts that overflow, resizing and frames.  The program may end.
SPECIFICATION FairSpec
CONSTANTS
  c1 = c1
  c2 = c2
  c3 = c3
  Cwe <- MCCwe
  Paragraph <- MCParagraph
  Paragraphs <- MCParagraphs
  Plain <- MCPlain
  Term <- MCTerm
  MinTextWidth = 4
  TreeColumns = 2
  Frame = 1
  Furniture = 1
  Page = 3
  Bottom = 25
  IntMax = 31
  Digits = {0, 3}
  MaxKeys = 3
INVARIANTS
  TypeOK
  LinesFit
  NothingLost
  WordsWhole
  PageIsFull
PROPERTIES
  DownNeverUp
  FrameEnds
CHECK_DEADLOCK FALSE
