----------------------------- MODULE MCSession -----------------------------
(* One tablet that knows the code and one peer that does not. *)
EXTENDS Session

CONSTANTS tablet, stranger, nobody

MCConns  == {tablet, stranger}
MCPaired == {tablet}
MCNoConn == nobody
=============================================================================
