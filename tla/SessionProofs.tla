--------------------------- MODULE SessionProofs ---------------------------
(* Proofs about the session life cycle, for any set of connections and     *)
(* either setting of --no-touch and --no-audio.                            *)
EXTENDS Session, TLAPS

(* The phases in which parts may exist, and those that only a tablet with  *)
(* the pairing code reaches.                                               *)
Busy == {"start", "unwind", "check", "drain", "write", "read", "teardown",
         "drop", "exited"}
LetIn == {"hello", "connected", "refresh"} \cup (Busy \ {"exited"})

PhaseInv ==
  /\ main \notin {"accept", "exited"} => cur \in Conns
  /\ main \in LetIn => cur \in Paired
  /\ held # {} => main \in Busy
  /\ \A c \in Conns : inbox[c] = "authOk" => c \in Paired

ControlInv ==
  /\ sock # NoConn => sock = cur /\ main \in Registered /\ sock \in Paired
  /\ status # "waiting" => (status = cur /\ main \in Registered) \/ main = "exited"
  /\ main = "accept" => shown = [conn |-> FALSE, status |-> "waiting"]

ResourceInv ==
  /\ wanted \cap {"encoder", "pen", "touch"} # {} => "monitor" \in wanted
  /\ MonitorOutlivesItsUsers
  /\ monClosed => "monitor" \in held
  /\ main = "exited" => "monitor" \notin held

IInv == TypeOK /\ PhaseInv /\ ControlInv /\ ResourceInv

LEMMA InitGood == Init => IInv
<1> SUFFICES ASSUME Init PROVE IInv
  OBVIOUS
<1>1. TypeOK
  <2>1. backlog \in Seq(Conns)
    BY DEF Init
  <2>2. inbox \in [Conns -> Message \cup {Nothing}]
    BY DEF Init
  <2>. QED BY <2>1, <2>2 DEF Init, TypeOK, Phase, Display
<1>2. PhaseInv /\ ControlInv /\ ResourceInv
  BY DEF Init, Nothing, Registered, PhaseInv, ControlInv, ResourceInv, LetIn, Busy,
         MonitorOutlivesItsUsers
<1> QED BY <1>1, <1>2 DEF IInv

(* Steps of tablets, of KWin and of the tray. *)
LEMMA OutsideStep ==
  ASSUME IInv, TabletStep \/ TrayStep \/ CloseMonitor
  PROVE  IInv'
<1> USE DEF IInv
<1>1. ASSUME NEW c \in Conns, Connect(c) PROVE IInv'
  <2>1. backlog' \in Seq(Conns)
    BY <1>1 DEF Connect, TypeOK
  <2>2. TypeOK'
    BY <1>1, <2>1 DEF Connect, control, tray, resources, TypeOK
  <2>3. PhaseInv' /\ ControlInv' /\ ResourceInv'
    BY <1>1 DEF Connect, control, tray, resources, TypeOK, Nothing, PhaseInv,
                ControlInv, ResourceInv, MonitorOutlivesItsUsers
  <2>. QED BY <2>2, <2>3
<1>2. ASSUME NEW c \in Conns, NEW m \in Message, Send(c, m) PROVE IInv'
  BY <1>2 DEF Send, network, control, tray, resources, TypeOK, PhaseInv,
              ControlInv, ResourceInv, MonitorOutlivesItsUsers
<1>3. ASSUME NEW c \in Conns, Close(c) PROVE IInv'
  BY <1>3 DEF Close, control, tray, resources, TypeOK, PhaseInv, ControlInv,
              ResourceInv, MonitorOutlivesItsUsers
<1>4. CASE Stall
  BY <1>4 DEF Stall, control, tray, resources, TypeOK, PhaseInv, ControlInv,
              ResourceInv, MonitorOutlivesItsUsers
<1>5. CASE TrayDisconnect
  BY <1>5 DEF TrayDisconnect, network, resources, TypeOK, PhaseInv, ControlInv,
              ResourceInv, MonitorOutlivesItsUsers
<1>6. CASE TrayQuit
  BY <1>6 DEF TrayQuit, network, resources, TypeOK, PhaseInv, ControlInv,
              ResourceInv, MonitorOutlivesItsUsers
<1>7. CASE TrayShutdown
  BY <1>7 DEF TrayShutdown, control, resources, TypeOK, PhaseInv, ControlInv,
              ResourceInv, MonitorOutlivesItsUsers
<1>8. CASE Exit
  <2>1. TypeOK'
    <3>1. backlog' \in Seq(Conns)
      BY <1>8 DEF Exit
    <3>. QED BY <1>8, <3>1 DEF Exit, tray, TypeOK, Phase
  <2>2. PhaseInv' /\ ControlInv' /\ ResourceInv'
    BY <1>8 DEF Exit, tray, PhaseInv, LetIn, Busy, ControlInv, ResourceInv,
                MonitorOutlivesItsUsers
  <2>. QED BY <2>1, <2>2
<1>9. CASE CloseMonitor
  BY <1>9 DEF CloseMonitor, network, control, tray, TypeOK, PhaseInv,
              ControlInv, ResourceInv, MonitorOutlivesItsUsers
<1>. QED BY <1>1, <1>2, <1>3, <1>4, <1>5, <1>6, <1>7, <1>8, <1>9
         DEF TabletStep, TrayStep

(* Steps of the main thread before a session exists. *)
LEMMA AdmissionStep ==
  ASSUME IInv, Accept \/ Peek \/ Auth \/ ReadHello \/ Connected \/ RefreshConnected
  PROVE  IInv'
<1> USE DEF IInv, Goto, Consume, Phase, LetIn, Busy
<1>1. CASE Accept
  <2>1. cur' \in Conns /\ backlog' \in Seq(Conns)
    BY <1>1 DEF Accept, TypeOK
  <2>. QED
    BY <1>1, <2>1 DEF Accept, control, tray, resources, TypeOK, PhaseInv,
                      ControlInv, ResourceInv, MonitorOutlivesItsUsers, Registered
<1>2. CASE Peek
  <2>1. TypeOK'
    BY <1>2 DEF Peek, control, tray, resources, TypeOK, PhaseInv
  <2>2. PhaseInv' /\ ControlInv' /\ ResourceInv'
    BY <1>2 DEF Peek, control, tray, resources, TypeOK, Nothing, PhaseInv,
                ControlInv, ResourceInv, MonitorOutlivesItsUsers, Registered
  <2>. QED BY <2>1, <2>2
<1>3. CASE Auth
  <2>1. TypeOK'
    BY <1>3 DEF Auth, Verdict, network, control, tray, resources, TypeOK, PhaseInv
  <2>2. PhaseInv' /\ ControlInv' /\ ResourceInv'
    BY <1>3 DEF Auth, Verdict, HasMessage, network, control, tray, resources, TypeOK, Nothing,
                PhaseInv, ControlInv, ResourceInv, MonitorOutlivesItsUsers,
                Registered
  <2>. QED BY <2>1, <2>2
<1>4. CASE ReadHello
  BY <1>4 DEF ReadHello, Plan, Part, network, control, tray, TypeOK, PhaseInv,
              ControlInv, ResourceInv, MonitorOutlivesItsUsers, Registered
<1>5. CASE Connected
  BY <1>5 DEF Connected, network, tray, resources, TypeOK, PhaseInv,
              ControlInv, ResourceInv, MonitorOutlivesItsUsers, Registered
<1>6. CASE RefreshConnected
  BY <1>6 DEF RefreshConnected, Refresh, Display, network, tray, resources,
              TypeOK, PhaseInv, ControlInv, ResourceInv,
              MonitorOutlivesItsUsers, Registered
<1>. QED BY <1>1, <1>2, <1>3, <1>4, <1>5, <1>6

(* Steps that create or drop a part. *)
LEMMA ResourceStep ==
  ASSUME IInv, NEW p \in Part,
         Acquire(p) \/ AcquireFails(p) \/ DropPart(p) \/ UnwindPart(p)
  PROVE  IInv'
<1> USE DEF IInv, Goto, Phase, LetIn, Busy
<1>1. CASE Acquire(p)
  <2>1. p \in {"encoder", "pen", "touch"} => "monitor" \in held
    BY <1>1 DEF Acquire, NextPart, Missing, acquireRank, ResourceInv
  <2>2. ResourceInv'
    BY <1>1, <2>1 DEF Acquire, ResourceInv, MonitorOutlivesItsUsers
  <2>3. TypeOK' /\ PhaseInv' /\ ControlInv'
    BY <1>1 DEF Acquire, network, control, tray, TypeOK, PhaseInv, ControlInv
  <2>. QED BY <2>2, <2>3
<1>2. CASE AcquireFails(p)
  <2>1. ResourceInv'
    BY <1>2 DEF AcquireFails, ResourceInv, MonitorOutlivesItsUsers
  <2>2. TypeOK' /\ PhaseInv' /\ ControlInv'
    BY <1>2 DEF AcquireFails, network, control, tray, TypeOK, PhaseInv,
                ControlInv, Registered
  <2>. QED BY <2>1, <2>2
<1>3. CASE DropPart(p)
  <2>1. p = "monitor" => held \cap {"encoder", "pen", "touch"} = {}
    BY <1>3 DEF DropPart, dropRank
  <2>2. ResourceInv'
    BY <1>3, <2>1 DEF DropPart, ResourceInv, MonitorOutlivesItsUsers
  <2>3. TypeOK' /\ PhaseInv' /\ ControlInv'
    BY <1>3 DEF DropPart, network, control, tray, TypeOK, PhaseInv, ControlInv
  <2>. QED BY <2>2, <2>3
<1>4. CASE UnwindPart(p)
  <2>1. p = "monitor" => held \cap {"encoder", "pen", "touch"} = {}
    BY <1>4 DEF UnwindPart, acquireRank
  <2>2. ResourceInv'
    BY <1>4, <2>1 DEF UnwindPart, ResourceInv, MonitorOutlivesItsUsers
  <2>3. TypeOK' /\ PhaseInv' /\ ControlInv'
    BY <1>4 DEF UnwindPart, network, control, tray, TypeOK, PhaseInv, ControlInv
  <2>. QED BY <2>2, <2>3
<1>. QED BY <1>1, <1>2, <1>3, <1>4

(* The event loop and the end of a session. *)
LEMMA LoopStep ==
  ASSUME IInv, \/ Started \/ Check \/ DrainSome \/ DrainEmpty \/ Write
               \/ ReadInput \/ Teardown \/ Dropped \/ Cleared \/ RefreshIdle
  PROVE  IInv'
<1> USE DEF IInv, Goto, Consume, Phase, LetIn, Busy, Registered
<1>1. CASE Started \/ Check \/ DrainSome \/ DrainEmpty \/ Write
  BY <1>1 DEF Started, Check, DrainSome, DrainEmpty, Write, network, control,
              tray, resources, TypeOK, PhaseInv, ControlInv, ResourceInv,
              MonitorOutlivesItsUsers
<1>2. CASE ReadInput
  BY <1>2 DEF ReadInput, network, control, tray, resources, TypeOK, PhaseInv,
              ControlInv, ResourceInv, MonitorOutlivesItsUsers
<1>3. CASE Teardown
  BY <1>3 DEF Teardown, control, tray, resources, TypeOK, PhaseInv,
              ControlInv, ResourceInv, MonitorOutlivesItsUsers
<1>4. CASE Dropped
  BY <1>4 DEF Dropped, network, control, tray, resources, TypeOK, PhaseInv,
              ControlInv, ResourceInv, MonitorOutlivesItsUsers
<1>5. CASE Cleared
  BY <1>5 DEF Cleared, ClearedSock, IdleStatus, tray, TypeOK, PhaseInv, ControlInv, ResourceInv,
              MonitorOutlivesItsUsers
<1>6. CASE RefreshIdle
  BY <1>6 DEF RefreshIdle, Refresh, Display, network, tray, resources, TypeOK,
              PhaseInv, ControlInv, ResourceInv, MonitorOutlivesItsUsers
<1>. QED BY <1>1, <1>2, <1>3, <1>4, <1>5, <1>6

LEMMA Inductive == IInv /\ [Next]_vars => IInv'
<1> SUFFICES ASSUME IInv, [Next]_vars PROVE IInv'
  OBVIOUS
<1>1. CASE MainStep
  BY <1>1, AdmissionStep, ResourceStep, LoopStep DEF MainStep
<1>2. CASE TabletStep \/ TrayStep \/ CloseMonitor
  BY <1>2, OutsideStep
<1>3. CASE UNCHANGED vars
  BY <1>3 DEF vars, IInv, TypeOK, PhaseInv, ControlInv, ResourceInv,
              MonitorOutlivesItsUsers
<1>. QED BY <1>1, <1>2, <1>3 DEF Next

-----------------------------------------------------------------------------

(* Every variable of the server keeps its type. *)
THEOREM SessionTypeCorrect == Spec => []TypeOK
<1>. QED BY InitGood, Inductive, PTL DEF Spec, IInv

(* A server that waits for a tablet holds nothing of an earlier session.   *)
THEOREM SessionIdleIsClean == Spec => []IdleIsClean
<1>1. IInv => IdleIsClean
  BY DEF IInv, PhaseInv, ControlInv, ResourceInv, IdleIsClean, Registered, Busy
<1>. QED BY <1>1, InitGood, Inductive, PTL DEF Spec

(* The tray's handle is the socket of the session being served, or none. *)
THEOREM SessionControlNamesTheSession == Spec => []ControlNamesTheSession
<1>1. IInv => ControlNamesTheSession
  BY DEF IInv, ControlInv, ControlNamesTheSession
<1>. QED BY <1>1, InitGood, Inductive, PTL DEF Spec

(* No part of a session exists for a tablet without the pairing code. *)
THEOREM SessionOnlyPaired == Spec => []OnlyPaired
<1>1. IInv => OnlyPaired
  BY DEF IInv, PhaseInv, ControlInv, OnlyPaired, LetIn
<1>. QED BY <1>1, InitGood, Inductive, PTL DEF Spec

(* The virtual monitor outlives the encoder and the devices mapped onto it. *)
THEOREM SessionMonitorOutlives == Spec => []MonitorOutlivesItsUsers
<1>1. IInv => MonitorOutlivesItsUsers
  BY DEF IInv, ResourceInv
<1>. QED BY <1>1, InitGood, Inductive, PTL DEF Spec

-----------------------------------------------------------------------------

(* A click of the tray that took the handle of the session ends it: once   *)
(* the control no longer has the socket, the tray is about to shut it, or  *)
(* it is shut.                                                             *)
ClickNotLost ==
  main \in Registered \ {"clear"} /\ sock = NoConn => taken = cur \/ cur \in shut

LEMMA ClickKept == IInv /\ ClickNotLost /\ [Next]_vars => ClickNotLost'
<1> SUFFICES ASSUME IInv, ClickNotLost, [Next]_vars PROVE ClickNotLost'
  OBVIOUS
<1>0. main \in Registered => cur \in Conns /\ cur # NoConn
  BY NoConnAssumption DEF IInv, PhaseInv, Registered
<1>1. CASE TabletStep
  <2>1. UNCHANGED <<main, cur, sock, taken>> /\ (cur \in shut => cur \in shut')
    BY <1>1 DEF TabletStep, Connect, Send, Close, Stall, network, control, tray
  <2>. QED BY <2>1 DEF ClickNotLost
<1>2. CASE TrayStep
  <2>1. CASE TrayDisconnect \/ TrayQuit
    <3>1. /\ taken = NoConn /\ taken' = sock
          /\ UNCHANGED <<main, cur, shut>>
      BY <2>1 DEF TrayDisconnect, TrayQuit, network
    <3>2. sock # NoConn => sock = cur
      BY DEF IInv, ControlInv
    <3>. QED BY <1>0, <3>1, <3>2 DEF ClickNotLost
  <2>2. CASE TrayShutdown
    BY <2>2 DEF TrayShutdown, control, ClickNotLost
  <2>3. CASE Exit
    BY <2>3 DEF Exit, ClickNotLost, Registered
  <2>. QED BY <1>2, <2>1, <2>2, <2>3 DEF TrayStep
<1>3. CASE CloseMonitor
  BY <1>3 DEF CloseMonitor, network, control, tray, ClickNotLost
<1>4. CASE Accept \/ Peek \/ Auth \/ ReadHello \/ Dropped \/ Cleared \/ RefreshIdle
  <2>1. main' \notin Registered \ {"clear"}
    BY <1>4 DEF Accept, Peek, Auth, Verdict, ReadHello, Dropped, Cleared, RefreshIdle,
       Refresh, Goto, Registered
  <2>. QED BY <2>1 DEF ClickNotLost
<1>5. CASE Connected
  <2>1. main = "connected" /\ sock' = cur
    BY <1>5 DEF Connected
  <2>2. cur # NoConn
    BY <2>1, NoConnAssumption DEF IInv, PhaseInv
  <2>. QED BY <2>1, <2>2 DEF ClickNotLost
<1>6. CASE RefreshConnected \/ Started \/ Check \/ DrainSome \/ DrainEmpty \/ Write
           \/ ReadInput \/ Teardown
           \/ \E p \in Part : Acquire(p) \/ AcquireFails(p) \/ DropPart(p) \/ UnwindPart(p)
  <2>1. /\ main \in Registered \ {"clear"} /\ UNCHANGED <<cur, sock, taken>>
        /\ shut \subseteq shut'
    BY <1>6 DEF RefreshConnected, Refresh, Started, Check, DrainSome, DrainEmpty, Write,
       ReadInput, Teardown, Acquire, AcquireFails, DropPart, UnwindPart, Registered,
       Phase, network, control, tray
  <2>. QED BY <2>1 DEF ClickNotLost
<1>7. CASE UNCHANGED vars
  BY <1>7 DEF vars, ClickNotLost
<1>. QED BY <1>1, <1>2, <1>3, <1>4, <1>5, <1>6, <1>7 DEF Next, MainStep

(* No click of the tray on a session that is being set up or served is     *)
(* ever lost: its socket is in the control, in the tray's hand, or shut.   *)
THEOREM SessionClickNotLost == Spec => []ClickNotLost
<1>1. Init => ClickNotLost
  BY DEF Init, ClickNotLost, Registered
<1>. QED BY <1>1, InitGood, Inductive, ClickKept, PTL DEF Spec

-----------------------------------------------------------------------------
(* Session implements Service.  A step is seen from outside only if it     *)
(* changes the phase, the connection, the parts held or monClosed.         *)

view == <<main, cur, held, monClosed>>

LEMMA ViewFacts ==
  ASSUME IInv
  PROVE  /\ main \notin Serving => servingNow = NoConn /\ monitorNow = "none"
         /\ main \in Serving => servingNow = cur /\ cur \in Paired /\ cur # NoConn
         /\ "monitor" \in held => main \in Serving
BY NoConnAssumption, PairedAssumption
   DEF IInv, PhaseInv, ResourceInv, LetIn, Busy, Serving, servingNow, monitorNow

LEMMA UnseenStep ==
  ASSUME UNCHANGED view
  PROVE  UNCHANGED <<servingNow, monitorNow>>
BY DEF view, servingNow, monitorNow

(* Nothing is seen of what happens between two sessions. *)
LEMMA IdleStep ==
  ASSUME IInv, IInv', main \notin Serving, main' \notin Serving
  PROVE  UNCHANGED <<servingNow, monitorNow>>
<1>1. (main \notin Serving => servingNow = NoConn /\ monitorNow = "none")'
  BY ViewFacts DEF IInv, TypeOK, PhaseInv, ControlInv, ResourceInv, LetIn, Busy,
     Serving, servingNow, monitorNow
<1>. QED BY <1>1, ViewFacts

(* However a session ends, it leaves. *)
LEMMA LeaveStep ==
  ASSUME IInv, IInv', main \in Serving, main' \notin Serving
  PROVE  Promise!Leave
<1>1. servingNow' = NoConn /\ monitorNow' = "none"
  BY DEF IInv, PhaseInv, ResourceInv, LetIn, Busy, Serving, servingNow, monitorNow
<1>. QED BY <1>1, ViewFacts DEF Promise!Leave

(* Within a session the connection stays, and a change of the parts or the *)
(* phase is seen in the monitor only.                                      *)
LEMMA SessionStep ==
  ASSUME IInv, IInv', main \in Serving, main' \in Serving, cur' = cur,
         \/ held' = held /\ monClosed' = monClosed
            /\ (main' = main \/ main \notin {"unwind", "drop"})
         \/ \E p \in Part : /\ held' = held \cup {p} /\ main = "start" /\ main' = main
                            /\ UNCHANGED monClosed
         \/ \E p \in Part : /\ held' = held \ {p} /\ main \in {"unwind", "drop"}
                            /\ main' = main
                            /\ (p = "monitor" \/ UNCHANGED monClosed)
         \/ held' = held \ {"route"} /\ UNCHANGED <<main, monClosed>>
         \/ held' = held /\ main' = main /\ "monitor" \in held /\ ~monClosed
  PROVE  Promise!Next \/ UNCHANGED <<servingNow, monitorNow>>
<1>1. servingNow = cur /\ servingNow' = cur /\ cur # NoConn
  BY ViewFacts DEF servingNow
<1>2. \/ monitorNow' = monitorNow
      \/ monitorNow = "none" /\ monitorNow' \in {"shown", "gone"}
      \/ monitorNow = "shown" /\ monitorNow' = "gone"
      \/ monitorNow # "over" /\ monitorNow' = "over"
  BY DEF monitorNow, IInv, ResourceInv
<1>. QED BY <1>1, <1>2
         DEF Promise!Next, Promise!Show, Promise!Vanish, Promise!Finish

LEMMA StepRefines ==
  ASSUME IInv, IInv', [Next]_vars
  PROVE  Promise!Next \/ UNCHANGED <<servingNow, monitorNow>>
<1>1. CASE TabletStep \/ TrayDisconnect \/ TrayQuit \/ TrayShutdown \/ UNCHANGED vars
  <2>1. UNCHANGED view
    BY <1>1 DEF TabletStep, Connect, Send, Close, Stall, TrayDisconnect, TrayQuit,
       TrayShutdown, vars, view, resources
  <2>. QED BY <2>1, UnseenStep
<1>2. CASE Exit
  <2>1. main' \notin Serving
    BY <1>2 DEF Exit, Serving
  <2>. QED BY <2>1, IdleStep, LeaveStep DEF Promise!Next
<1>3. CASE CloseMonitor
  <2>1. main \in Serving
    BY <1>3, ViewFacts DEF CloseMonitor
  <2>. QED BY <1>3, <2>1, SessionStep DEF CloseMonitor
<1>4. CASE Accept \/ Peek \/ Auth \/ ReadHello \/ Cleared \/ RefreshIdle
  <2>1. main \notin Serving /\ main' \notin Serving
    BY <1>4 DEF Accept, Peek, Auth, Verdict, ReadHello, Cleared, RefreshIdle, Refresh,
       Goto, Serving
  <2>. QED BY <2>1, IdleStep
<1>5. CASE Connected
  <2>1. main = "connected" /\ main' = "refresh" /\ cur' = cur /\ held' = held
    BY <1>5 DEF Connected, Goto, resources
  <2>2. cur \in Paired /\ held = {} /\ cur \in Conns
    BY <2>1, PairedAssumption DEF IInv, PhaseInv, LetIn, Busy
  <2>3. servingNow = NoConn /\ servingNow' = cur /\ monitorNow' = "none"
    BY <2>1, <2>2 DEF servingNow, monitorNow, Serving
  <2>. QED BY <2>2, <2>3 DEF Promise!Next, Promise!Admit
<1>6. CASE RefreshConnected \/ Dropped
  <2>1. main \in Serving /\ cur' = cur /\ held' = held /\ monClosed' = monClosed
    BY <1>6 DEF RefreshConnected, Refresh, Dropped, Goto, Serving, resources
  <2>2. main' = "clear" \/ (main = "refresh" /\ main' = "start")
    BY <1>6 DEF RefreshConnected, Refresh, Dropped, Goto
  <2>3. CASE main' = "clear"
    BY <2>1, <2>3, LeaveStep DEF Promise!Next, Serving
  <2>4. CASE main = "refresh" /\ main' = "start"
    BY <2>1, <2>4, SessionStep DEF Serving
  <2>. QED BY <2>2, <2>3, <2>4
<1>7. ASSUME NEW p \in Part,
             Acquire(p) \/ AcquireFails(p) \/ DropPart(p) \/ UnwindPart(p)
      PROVE  Promise!Next \/ UNCHANGED <<servingNow, monitorNow>>
  <2>1. main \in Serving /\ main' \in Serving /\ cur' = cur
    BY <1>7 DEF Acquire, AcquireFails, DropPart, UnwindPart, Goto, Serving
  <2>2. \/ held' = held /\ monClosed' = monClosed /\ main = "start"
        \/ held' = held \cup {p} /\ main = "start" /\ main' = main /\ UNCHANGED monClosed
        \/ held' = held \ {p} /\ main \in {"unwind", "drop"} /\ main' = main
           /\ (p = "monitor" \/ UNCHANGED monClosed)
        \/ held' = held \ {"route"} /\ UNCHANGED <<main, monClosed>>
    BY <1>7 DEF Acquire, AcquireFails, DropPart, UnwindPart, Goto, IInv, TypeOK
  <2>. QED BY <2>1, <2>2, SessionStep
<1>8. CASE Started \/ Check \/ DrainSome \/ DrainEmpty \/ Write \/ ReadInput \/ Teardown
  <2>1. /\ main \in Serving /\ main' \in Serving /\ cur' = cur
        /\ main \notin {"unwind", "drop"}
        /\ held' = held /\ monClosed' = monClosed
    BY <1>8 DEF Started, Check, DrainSome, DrainEmpty, Write, ReadInput, Teardown, Goto,
       Serving, resources
  <2>. QED BY <2>1, SessionStep
<1>. QED BY <1>1, <1>2, <1>3, <1>4, <1>5, <1>6, <1>7, <1>8
         DEF Next, MainStep, TrayStep

(* The server serves one paired tablet at a time or none, and the monitor  *)
(* it shows exists only while the session does.                            *)
THEOREM SessionImplementsService == Spec => ImplementsService
<1>1. Init => Promise!Init
  BY DEF Init, Promise!Init, servingNow, monitorNow, Serving
<1>2. IInv /\ IInv' /\ [Next]_vars => [Promise!Next]_<<servingNow, monitorNow>>
  BY StepRefines
<1>. QED BY <1>1, <1>2, InitGood, Inductive, PTL
         DEF Spec, ImplementsService, Promise!Spec, Promise!svars
=============================================================================
