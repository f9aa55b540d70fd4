--------------------------- MODULE MCSessionLive ---------------------------
(* One connection that comes back again and again is enough for the        *)
(* properties that follow a single session to its end.                     *)
EXTENDS Session

CONSTANTS tablet, nobody

MCConns  == {tablet}
MCNoConn == nobody
=============================================================================
