SPECIFICATION FairSpec
CONSTANTS
  i2p = 1
  Node <- MC_Node
  ObjSz <- MC_ObjSz
  FuncNode = {}
  ExtNode = {}
  NonPtrVal = {}
  Site = {}
  NoSite = NoSite
  ExtEffect <- MC_ExtEffect
  Inputs <- MC_Inputs
  lcd_sz = 1
  lcd_period = 4
  time_period = 4
  mem_period = 6
INVARIANTS
  NoAbort
  LcdComplete
PROPERTIES
  OnlyGrows
  LcdMergesCycles
  Terminates
  ImplementsAndersen
CHECK_DEADLOCK FALSE
