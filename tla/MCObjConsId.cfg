SPECIFICATION Spec
CONSTANT Programs <- MCPrograms
INVARIANTS
  LayoutAsDocumented
  SizesFit
  GlobalsConstrained
  FindsPointers
  FindsUntraceableOffsets
CHECK_DEADLOCK FALSE
