SPECIFICATION WSpec
CONSTANTS
  Val = {1, 2, 3, 4}
  Key = {0, 1}
INVARIANTS
  IndexInverse
  HeapOrder
PROPERTY
  ImplementsQueue
