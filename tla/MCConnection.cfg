SPECIFICATION Spec
CONSTANTS
  MaxQueue = 2
CHECK_DEADLOCK FALSE
INVARIANTS
  ToldOnce
  NoLinkLeft
PROPERTIES
  EndIsTold
  CloseEndsThreads
