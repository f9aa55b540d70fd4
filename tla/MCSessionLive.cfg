SPECIFICATION FairSpec
CONSTANTS
  tablet = tablet
  nobody = nobody
  Conns <- MCConns
  Paired <- MCConns
  NoConn <- MCNoConn
  NoTouch = FALSE
  NoAudio = FALSE
CHECK_DEADLOCK FALSE
PROPERTIES
  EndedSessionEnds
  ClosedMonitorEndsSession
