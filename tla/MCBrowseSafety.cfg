\* Every key over a catalogue that a sync is filling.
SPECIFICATION Spec
CONSTANTS
  c1 = c1
  c2 = c2
  w1 = w1
  w2 = w2
  Cat <- MCCat
  Cwe <- MCCwe
  CatOrder <- MCCatOrder
  CweOrder <- MCCweOrder
  Rel <- MCRel
  Query <- MCQuery
  Label <- MCLabel
  IdText <- MCIdText
  Char <- MCChar
  Lower <- MCLower
  IntMax = 4
  Digits = {4, 5}
INVARIANTS
  TypeOK
  DetailHasCwe
  RowsShowTree
  CurrentMatchIsAMatch
  FilterIsShown
  CountOnlyInLists
PROPERTIES
  FoundIsMeant
  RowsAreKept
