SPECIFICATION Spec
CONSTANTS
  DomainSize <- PowerOfTwo
  Inputs <- InRange
INVARIANTS
  TablesExact
CHECK_DEADLOCK FALSE
