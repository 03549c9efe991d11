SPECIFICATION RSpec
CONSTANTS
  i2p = 1
  Node <- MC_Node
  ObjSz <- MC_ObjSz
  FuncNode = {6}
  ExtNode = {}
  NonPtrVal = {}
  Site = {}
  NoSite = NoSite
  ExtEffect <- MC_ExtEffect
  ArgObj = {8}
  Offsets = {0, 1}
  Inputs <- MC_Inputs
  lcd_sz = 1
  lcd_period = 4
  time_period = 4
  mem_period = 6
INVARIANTS
  RightAnswers
  ClassesAreSets
PROPERTIES
  CleanupKeeps
CHECK_DEADLOCK FALSE
