SPECIFICATION Spec
CONSTANTS
  i2p = 1
  Node <- MC_Node
  ObjSz <- MC_ObjSz
  FuncNode <- MC_FuncNode
  ExtNode <- MC_ExtNode
  NonPtrVal <- MC_NonPtrVal
  c1 = c1  c2 = c2  c3 = c3
  Site = {c1, c2, c3}
  NoSite = NoSite
  ExtEffect <- MC_ExtEffect
  Inputs <- MC_Inputs
  lcd_sz = 1
  lcd_period = 4
  time_period = 1024
  mem_period = 10000
INVARIANTS
  ListsCurrent
  CallsKept
  Sound
CHECK_DEADLOCK FALSE
