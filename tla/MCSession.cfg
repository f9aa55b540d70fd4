SPECIFICATION Spec
CONSTANTS
  tablet = tablet
  stranger = stranger
  nobody = nobody
  Conns <- MCConns
  Paired <- MCPaired
  NoConn <- MCNoConn
  NoTouch = FALSE
  NoAudio = FALSE
CHECK_DEADLOCK FALSE
INVARIANTS
  IdleIsClean
  ControlNamesTheSession
  MonitorOutlivesItsUsers
PROPERTIES
  ImplementsService
