------------------------------ MODULE Service ------------------------------
(***************************************************************************)
(* What the server promises, seen from outside: at any time it serves one  *)
(* paired tablet or none, and a session shows at most one virtual monitor, *)
(* which exists only while the session does.  Session and Screen implement *)
(* this specification.                                                     *)
(***************************************************************************)
CONSTANTS
  Conns,      \* tablets that may connect
  NoConn,
  Paired      \* those that know the pairing code

VARIABLES
  serving,    \* the tablet being served
  monitor     \* of this session: "none" yet, "shown", "gone" (KWin closed
              \* it), "over" (the session no longer holds it)

svars == <<serving, monitor>>

Init == serving = NoConn /\ monitor = "none"

Admit(c) ==
  /\ serving = NoConn /\ c \in Paired
  /\ serving' = c /\ monitor' = "none"

(* KWin may take it away before the server has noticed that it is there.   *)
Show ==
  /\ serving # NoConn /\ monitor = "none"
  /\ monitor' \in {"shown", "gone"} /\ UNCHANGED serving

Vanish ==
  /\ monitor = "shown"
  /\ monitor' = "gone" /\ UNCHANGED serving

(* The session gives its monitor up, or will not have one. *)
Finish ==
  /\ serving # NoConn /\ monitor # "over"
  /\ monitor' = "over" /\ UNCHANGED serving

Leave ==
  /\ serving # NoConn
  /\ serving' = NoConn /\ monitor' = "none"

Next == (\E c \in Conns : Admit(c)) \/ Show \/ Vanish \/ Finish \/ Leave

Spec == Init /\ [][Next]_svars
=============================================================================
