SPECIFICATION Spec
CONSTANTS
  Node <- MC_Node
  i2p = 1
  ObjSz <- MC_ObjSz
  FuncNode <- MC_FuncNode
  ExtNode = {}
  NonPtrVal = {}
  Site = {"s1", "s2"}
  NoSite = NoSite
  ExtEffect <- MC_ExtEffect
  OldSz <- MC_OldSz
  Inputs <- MC_Inputs
INVARIANTS
  KeepsSolution
  ReadyToSolve
CHECK_DEADLOCK FALSE
