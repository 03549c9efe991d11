SPECIFICATION Spec
CONSTANTS
  i2p = 1
  Node <- MC_Node
  ObjSz <- MC_ObjSz
  FuncNode = {}
  ExtNode = {}
  NonPtrVal = {}
  Site = {}
  NoSite = NoSite
  ExtEffect <- MC_ExtEffect
  Inputs <- MC_Empty
  lcd_sz = 1
  lcd_period = 4
  time_period = 4
  mem_period = 6
INVARIANT
  Complete
CHECK_DEADLOCK FALSE
