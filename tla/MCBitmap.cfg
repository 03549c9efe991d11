SPECIFICATION IterSpec
CONSTANTS
  b1 = b1
  b2 = b2
  b3 = b3
  It = b1
  NWORDS = 2
  WORDSZ = 2
  Idx <- SomeBits
  MaxIndex = 2
SYMMETRY Alike
INVARIANTS
  CurValid
  QueriesAgree
  TakesAll
PROPERTIES
  ImplementsBitSet
  TakesInOrder
