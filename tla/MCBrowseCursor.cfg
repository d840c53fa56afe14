\* A search, a collapse and the n key.
SPECIFICATION Spec
CONSTANTS
  c1 = c1
  c2 = c2
  w1 = w1
  w2 = w2
  Cat <- MCCat
  Cwe <- MCCwe
  CatOrder <- MCCatOrder
  CweOrder <- MCCweOrder
  Rel <- MCRelShared
  Query <- MCQuery
  Label <- MCLabel
  IdText <- MCIdText
  Char <- MCChar
  Lower <- MCLower
  IntMax = 99
  Digits = {1}
INVARIANT
  CursorOnARow
