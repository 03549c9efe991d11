SPECIFICATION Spec
CONSTANT Programs <- MCPrograms
INVARIANTS
  NoAbort
  NodesConsistent
  MeansTheProgram
CHECK_DEADLOCK FALSE
