------------------------------ MODULE Session ------------------------------
(***************************************************************************)
(* The life of the server process: the accept loop of main(), one          *)
(* handle_client after the other on the main thread, the SessionControl    *)
(* record it shares with the tray, and the tray's Disconnect and Quit.     *)
(*                                                                         *)
(* Tablets connect, send, stall and go away as they like.  What a session  *)
(* acquires (the virtual monitor, its encoder, the input devices, the      *)
(* audio route and its capture) is the set `held'; it grows and shrinks    *)
(* one part at a time, in the order of the code.                           *)
(***************************************************************************)
EXTENDS Integers, Sequences

CONSTANTS
  Conns,      \* TCP connections, a closed one may come back as a new one
  NoConn,
  Paired,     \* the connections of tablets that know the pairing code
  NoTouch,    \* --no-touch
  NoAudio     \* --no-audio

ASSUME NoConnAssumption == NoConn \notin Conns
ASSUME PairedAssumption == Paired \subseteq Conns
ASSUME FlagAssumption   == NoTouch \in BOOLEAN /\ NoAudio \in BOOLEAN

VARIABLES
  main,       \* where the main thread is
  cur,        \* the connection it serves
  backlog,    \* connections the kernel holds for accept()
  up,         \* connections whose tablet has not closed them
  shut,       \* connections the server has shut down or closed
  inbox,      \* the next complete message of a connection
  full,       \* the tablet does not read and the send buffer of cur is full
  sock,       \* SessionInner.sock
  status,     \* SessionInner.status: "waiting" or the connection it names
  shown,      \* what the tray displays since its last refresh
  taken,      \* a socket disconnect() has taken and not yet shut down
  quitting,   \* Quit was clicked, process::exit is next
  wanted,     \* what this session asks for
  held,       \* what the process has created
  monClosed   \* KWin closed the virtual output (is_closed)

vars == <<main, cur, backlog, up, shut, inbox, full, sock, status, shown,
          taken, quitting, wanted, held, monClosed>>

Part == {"monitor", "encoder", "pen", "touch", "touchpad", "route", "capture"}

(* Creation order of start_screen and handle_client, and the order of the  *)
(* drops at the end of handle_client and inside struct Screen.             *)
acquireRank == [monitor |-> 1, encoder |-> 2, pen |-> 3, touch |-> 4,
                touchpad |-> 5, route |-> 6, capture |-> 7]
dropRankMonitorFirst ==            \* mutant: struct Screen with _vo on top
  [route |-> 1, capture |-> 2, monitor |-> 3, encoder |-> 4,
   pen |-> 5, touch |-> 6, touchpad |-> 7]
dropRank    == [route |-> 1, capture |-> 2, encoder |-> 3, pen |-> 4,
                touch |-> 5, monitor |-> 6, touchpad |-> 7]

Nothing  == "nothing"
Hello    == {"helloScreen", "helloPad", "helloOther"}
Message  == {"probe", "tlsProbe", "authOk", "authBad", "helloBad",
             "input", "badFrame"} \cup Hello
Phase    == {"accept", "peek", "auth", "hello", "connected", "refresh", "start",
             "unwind", "check", "drain", "write", "read", "teardown", "drop",
             "clear", "refreshIdle", "exited"}
Display  == [conn : BOOLEAN, status : Conns \cup {"waiting"}]

(* The phases in which the connection may be registered with the control. *)
Registered == Phase \ {"accept", "peek", "auth", "hello", "connected",
                       "refreshIdle", "exited"}

TypeOK ==
  /\ main      \in Phase
  /\ cur       \in Conns \cup {NoConn}
  /\ backlog   \in Seq(Conns)
  /\ up        \subseteq Conns
  /\ shut      \subseteq Conns
  /\ inbox     \in [Conns -> Message \cup {Nothing}]
  /\ full      \in BOOLEAN
  /\ sock      \in Conns \cup {NoConn}
  /\ status    \in Conns \cup {"waiting"}
  /\ shown     \in Display
  /\ taken     \in Conns \cup {NoConn}
  /\ quitting  \in BOOLEAN
  /\ wanted    \subseteq Part
  /\ held      \subseteq Part
  /\ monClosed \in BOOLEAN

Init ==
  /\ main = "accept" /\ cur = NoConn /\ backlog = <<>>
  /\ up = {} /\ shut = {} /\ inbox = [c \in Conns |-> Nothing] /\ full = FALSE
  /\ sock = NoConn /\ status = "waiting"
  /\ shown = [conn |-> FALSE, status |-> "waiting"]
  /\ taken = NoConn /\ quitting = FALSE
  /\ wanted = {} /\ held = {} /\ monClosed = FALSE

control   == <<sock, status, shown>>
tray      == <<taken, quitting>>
network   == <<backlog, up, shut, full>>
resources == <<wanted, held, monClosed>>

-----------------------------------------------------------------------------
(* The tablets. *)

Queued(c) == \E i \in DOMAIN backlog : backlog[i] = c

Connect(c) ==
  /\ main # "exited"
  /\ c \notin up /\ c \notin {cur, taken} /\ ~Queued(c)
  /\ backlog' = Append(backlog, c)
  /\ up' = up \cup {c} /\ shut' = shut \ {c}
  /\ inbox' = [inbox EXCEPT ![c] = Nothing]
  /\ UNCHANGED <<main, cur, full, control, tray, resources>>

Send(c, m) ==
  /\ c \in up \ shut /\ inbox[c] = Nothing
  /\ m = "authOk" => c \in Paired
  /\ inbox' = [inbox EXCEPT ![c] = m]
  /\ UNCHANGED <<main, cur, network, control, tray, resources>>

(* The tablet stops reading (its app is stuck, the network is gone), or    *)
(* starts again.                                                           *)
Stall ==
  /\ cur # NoConn /\ cur \in up \ shut
  /\ full' = ~full
  /\ UNCHANGED <<main, cur, backlog, up, shut, inbox, control, tray, resources>>

Close(c) ==
  /\ c \in up
  /\ up' = up \ {c}
  /\ UNCHANGED <<main, cur, backlog, shut, inbox, full, control, tray, resources>>

(* KWin removes the virtual output. *)
CloseMonitor ==
  /\ "monitor" \in held /\ ~monClosed
  /\ monClosed' = TRUE
  /\ UNCHANGED <<main, cur, network, inbox, control, tray, wanted, held>>

-----------------------------------------------------------------------------
(* The tray thread.  It sees what the last refresh showed it. *)

TrayDisconnect ==
  /\ main # "exited" /\ shown.conn /\ ~quitting /\ taken = NoConn
  /\ taken' = sock
  /\ sock'  = NoConn
  /\ UNCHANGED <<main, cur, network, inbox, status, shown, quitting, resources>>

TrayQuit ==
  /\ main # "exited" /\ ~quitting /\ taken = NoConn
  /\ taken' = sock
  /\ sock'  = NoConn
  /\ quitting' = TRUE
  /\ UNCHANGED <<main, cur, network, inbox, status, shown, resources>>

(* Mutant of TrayShutdown: the taken handle is only dropped, which closes  *)
(* nothing while handle_client has its own.                                *)
TrayShutdownDrop ==
  /\ main # "exited" /\ taken # NoConn
  /\ taken' = NoConn
  /\ UNCHANGED <<main, cur, network, inbox, control, quitting, resources>>

(* sock.shutdown(Both), after the lock is released. *)
TrayShutdown ==
  /\ main # "exited" /\ taken # NoConn
  /\ shut' = shut \cup {taken}
  /\ taken' = NoConn
  /\ UNCHANGED <<main, cur, backlog, up, inbox, full, control, quitting, resources>>

(* process::exit(0): no destructor runs, but the kernel closes every file. *)
(* PipeWire's modules are not files of this process.                       *)
Exit ==
  /\ main # "exited" /\ quitting /\ taken = NoConn
  /\ main' = "exited" /\ cur' = NoConn /\ backlog' = <<>>
  /\ shut' = Conns /\ sock' = NoConn
  /\ held' = held \cap {"route"} /\ wanted' = {} /\ monClosed' = FALSE
  /\ UNCHANGED <<up, inbox, full, status, shown, tray>>

-----------------------------------------------------------------------------
(* The main thread. *)

Goto(next) == main' = next
HasMessage == inbox[cur] # Nothing
AtEnd == ~HasMessage /\ (cur \notin up \/ cur \in shut)
Consume    == inbox' = [inbox EXCEPT ![cur] = Nothing]

Accept ==
  /\ main = "accept" /\ backlog # <<>>
  /\ cur' = Head(backlog) /\ backlog' = Tail(backlog)
  /\ full' = FALSE
  /\ Goto("peek")
  /\ UNCHANGED <<up, shut, inbox, control, tray, resources>>

(* The first byte decides: 0x16 is a TLS ClientHello and stays in the      *)
(* socket, anything else (a "probe") is handled in plaintext and shut.     *)
Peek ==
  /\ main = "peek"
  /\ \/ HasMessage /\ inbox[cur] # "probe"
        /\ Goto("auth") /\ UNCHANGED <<inbox, shut>>
     \/ HasMessage /\ inbox[cur] = "probe"
        /\ Goto("clear") /\ Consume /\ shut' = shut \cup {cur}
     \/ AtEnd /\ Goto("clear") /\ UNCHANGED <<inbox, shut>>
  /\ UNCHANGED <<cur, backlog, up, full, control, tray, resources>>

(* TLS and server_handshake: a wrong code or a message out of turn fails,  *)
(* a probe over TLS is answered and ends the connection; the challenge and *)
(* the verdict may find the tablet gone.                                   *)
VerdictLax == IF inbox[cur] \in {"authOk", "authBad"}    \* mutant: any MAC will do
              THEN "hello" ELSE "clear"
Verdict    == IF inbox[cur] = "authOk" THEN "hello" ELSE "clear"

Auth ==
  /\ main = "auth"
  /\ \/ HasMessage /\ Consume
        /\ Goto(Verdict)
     \/ (AtEnd \/ cur \notin up) /\ Goto("clear") /\ UNCHANGED inbox
  /\ UNCHANGED <<cur, network, control, tray, resources>>

(* What each mode asks for; no mode but the two has a plan. *)
Plan(m, audio) ==
  (IF m = "helloScreen"
   THEN {"monitor", "encoder", "pen"} \cup (IF NoTouch THEN {} ELSE {"touch"})
   ELSE {"touchpad"})
  \cup (IF audio /\ ~NoAudio THEN {"route", "capture"} ELSE {})

(* HELLO.  The mode is looked at only after the control knows the session: *)
(* `wanted' is then empty for an unknown one.                              *)
ReadHello ==
  /\ main = "hello"
  /\ \/ /\ HasMessage /\ Consume
        /\ IF inbox[cur] \in Hello
           THEN /\ Goto("connected")
                /\ IF inbox[cur] = "helloOther" THEN wanted' = {}
                   ELSE \E audio \in BOOLEAN : wanted' = Plan(inbox[cur], audio)
           ELSE Goto("clear") /\ UNCHANGED wanted
     \/ AtEnd /\ Goto("clear") /\ UNCHANGED <<inbox, wanted>>
  /\ UNCHANGED <<cur, network, control, tray, held, monClosed>>

(* SessionControl::connected, under the lock. *)
Connected ==
  /\ main = "connected"
  /\ sock' = cur /\ status' = cur
  /\ Goto("refresh")
  /\ UNCHANGED <<cur, network, inbox, shown, tray, resources>>

(* SessionControl::refresh, outside the lock: the tray renders what it     *)
(* finds by then.                                                          *)
Refresh(from, next) ==
  /\ main = from
  /\ shown' = [conn |-> sock # NoConn, status |-> status]
  /\ Goto(next)
  /\ UNCHANGED <<network, inbox, sock, status, tray, resources>>

RefreshConnected ==
  /\ Refresh("refresh", IF wanted = {} THEN "clear" ELSE "start")
  /\ UNCHANGED cur

Missing   == wanted \ held
NextPart(p) == p \in Missing /\ \A q \in Missing : acquireRank[p] <= acquireRank[q]

Acquire(p) ==
  /\ main = "start" /\ NextPart(p)
  /\ held' = held \cup {p}
  /\ UNCHANGED <<main, cur, network, inbox, control, tray, wanted, monClosed>>

(* Any creation may fail.  Without audio the session goes on; a missing    *)
(* monitor, encoder or input device ends it.                               *)
AcquireFails(p) ==
  /\ main = "start" /\ NextPart(p)
  /\ IF p \in {"route", "capture"}
     THEN /\ wanted' = wanted \ {"route", "capture"}
          /\ held' = held \ {"route"}
          /\ UNCHANGED main
     ELSE /\ Goto("unwind")
          /\ UNCHANGED <<wanted, held>>
  /\ UNCHANGED <<cur, network, inbox, control, tray, monClosed>>

(* The event loop. *)
Started ==
  /\ main = "start" /\ Missing = {}
  /\ Goto("check")
  /\ UNCHANGED <<cur, network, inbox, control, tray, resources>>

CheckNothing ==                    \* mutant: is_closed is never asked
  /\ main = "check"
  /\ Goto("drain")
  /\ UNCHANGED <<cur, network, inbox, control, tray, resources>>

Check ==
  /\ main = "check"
  /\ Goto(IF "monitor" \in held /\ monClosed THEN "teardown" ELSE "drain")
  /\ UNCHANGED <<cur, network, inbox, control, tray, resources>>

(* rx.try_recv: the producers have queued something, or they have not. *)
DrainSome ==
  /\ main = "drain"
  /\ Goto("write")
  /\ UNCHANGED <<cur, network, inbox, control, tray, resources>>

DrainEmpty ==
  /\ main = "drain"
  /\ Goto("read")
  /\ UNCHANGED <<cur, network, inbox, control, tray, resources>>

(* write_all blocks while the buffer is full, and fails once the tablet    *)
(* has gone or the tray has shut the socket.                               *)
Write ==
  /\ main = "write"
  /\ \/ ~full /\ cur \notin shut /\ Goto("drain")
     \/ (cur \in shut \/ cur \notin up) /\ Goto("teardown")
  /\ UNCHANGED <<cur, network, inbox, control, tray, resources>>

(* The 3 ms read, and dispatch of what it brought.  An input event may     *)
(* fail in uinput, a malformed frame always fails, a message that is not   *)
(* expected here is logged and ignored.                                    *)
ReadInput ==
  /\ main = "read"
  /\ \/ /\ HasMessage /\ Consume
        /\ \/ inbox[cur] # "badFrame" /\ Goto("check")
           \/ inbox[cur] \in {"badFrame", "input"} /\ Goto("teardown")
     \/ AtEnd /\ Goto("teardown") /\ UNCHANGED inbox
     \/ ~HasMessage /\ ~AtEnd /\ Goto("check") /\ UNCHANGED inbox
  /\ UNCHANGED <<cur, network, control, tray, resources>>

(* Fingers and pen are lifted, then raw.shutdown(Both). *)
Teardown ==
  /\ main = "teardown"
  /\ shut' = shut \cup {cur}
  /\ Goto("drop")
  /\ UNCHANGED <<cur, backlog, up, full, inbox, control, tray, resources>>

DropPart(p) ==
  /\ main = "drop"
  /\ p \in held /\ \A q \in held : dropRank[p] <= dropRank[q]
  /\ held' = held \ {p}
  /\ monClosed' = (monClosed /\ p # "monitor")
  /\ UNCHANGED <<main, cur, network, inbox, control, tray, wanted>>

(* An error inside start_screen drops its locals, the newest first. *)
UnwindPart(p) ==
  /\ main = "unwind"
  /\ p \in held /\ \A q \in held : acquireRank[q] <= acquireRank[p]
  /\ held' = held \ {p}
  /\ monClosed' = (monClosed /\ p # "monitor")
  /\ UNCHANGED <<main, cur, network, inbox, control, tray, wanted>>

Dropped ==
  /\ main \in {"drop", "unwind"} /\ held = {}
  /\ Goto("clear")
  /\ UNCHANGED <<cur, network, inbox, control, tray, resources>>

IdleStatus      == "waiting"
ClearedSockKept == sock            \* mutant: cleared() leaves the socket
ClearedSock     == NoConn

(* handle_client has returned and closed its handles of the socket;        *)
(* SessionControl::cleared drops the last one, unless the tray has it.     *)
Cleared ==
  /\ main = "clear"
  /\ sock' = ClearedSock /\ status' = IdleStatus /\ wanted' = {}
  /\ shut' = IF taken = cur THEN shut ELSE shut \cup {cur}
  /\ Goto("refreshIdle")
  /\ UNCHANGED <<cur, backlog, up, full, inbox, shown, tray, held, monClosed>>

RefreshIdleForgotten ==            \* mutant: cleared() without refresh()
  /\ main = "refreshIdle" /\ Goto("accept") /\ cur' = NoConn
  /\ UNCHANGED <<network, inbox, control, tray, resources>>

RefreshIdle ==
  /\ Refresh("refreshIdle", "accept")
  /\ cur' = NoConn

-----------------------------------------------------------------------------

MainStep ==
  \/ Accept \/ Peek \/ Auth \/ ReadHello \/ Connected \/ RefreshConnected
  \/ \E p \in Part : Acquire(p) \/ AcquireFails(p)
  \/ Started \/ Check \/ DrainSome \/ DrainEmpty \/ Write \/ ReadInput
  \/ Teardown \/ (\E p \in Part : DropPart(p) \/ UnwindPart(p)) \/ Dropped
  \/ Cleared \/ RefreshIdle

TabletStep ==
  \/ \E c \in Conns : Connect(c) \/ Close(c) \/ \E m \in Message : Send(c, m)
  \/ Stall

TrayStep == TrayDisconnect \/ TrayQuit \/ TrayShutdown \/ Exit

Next == MainStep \/ TabletStep \/ TrayStep \/ CloseMonitor

(* VirtualOutput::create sleeps in blocking_dispatch until KWin answers.    *)
AtKwin == main = "start" /\ NextPart("monitor")

(* The main thread runs whenever it can, and the tray finishes what was    *)
(* clicked.  try_recv finds the queue empty now and then: the producers    *)
(* are no faster than the link for ever.  Tablets owe nothing, nor does    *)
(* KWin: where the main thread waits for its answer it may wait for good.  *)
Fairness ==
  /\ WF_vars(~AtKwin /\ MainStep)
  /\ SF_vars(DrainEmpty)
  /\ WF_vars(TrayShutdown) /\ WF_vars(Exit)

Spec     == Init /\ [][Next]_vars
FairSpec == Spec /\ Fairness

-----------------------------------------------------------------------------

(* Between two sessions nothing of the last one is left: no monitor,       *)
(* device or audio route exists, the control holds no socket and the tray  *)
(* shows no tablet.                                                        *)
IdleIsClean ==
  main = "accept" =>
    /\ held = {} /\ sock = NoConn /\ ~monClosed
    /\ status = "waiting" /\ shown = [conn |-> FALSE, status |-> "waiting"]

(* The socket the tray would close is always the one being served, and     *)
(* only once its tablet has been let in: a click never reaches an earlier  *)
(* or a later session.                                                     *)
ControlNamesTheSession ==
  /\ sock # NoConn => sock = cur /\ main \in Registered
  /\ status # "waiting" => status = cur \/ main = "exited"

(* Nothing is created and nothing is registered for a tablet that has not  *)
(* shown the pairing code.                                                 *)
OnlyPaired ==
  /\ held # {} /\ main # "exited" => cur \in Paired
  /\ sock # NoConn => sock \in Paired

(* The virtual monitor outlives the encoder that captures it and the       *)
(* devices mapped onto it, on every way out of a session ("Dropped last    *)
(* so the encoder is already stopped").                                    *)
MonitorOutlivesItsUsers ==
  held \cap {"encoder", "pen", "touch"} # {} => "monitor" \in held

(* Seen from outside: one paired tablet at a time is served, and its       *)
(* session shows one monitor at most, as long as it lasts.                 *)
Serving == {"refresh", "start", "unwind", "check", "drain", "write", "read",
            "teardown", "drop"}
servingNow == IF main \in Serving THEN cur ELSE NoConn
monitorNow ==
  IF "monitor" \in held THEN IF monClosed THEN "gone" ELSE "shown"
  ELSE IF main \in {"unwind", "drop"} THEN "over" ELSE "none"

Promise == INSTANCE Service WITH serving <- servingNow, monitor <- monitorNow

ImplementsService == Promise!Spec

(* "Force the active session's socket closed (unblocks its read loop)":    *)
(* after a click on Disconnect, or once the tablet has closed its          *)
(* connection, the session ends, from every phase but one: a start that    *)
(* waits for KWin to make the monitor ends only after KWin has answered.   *)
Ended(c) == taken = c \/ c \in shut \/ c \notin up
EndedSessionEnds ==
  \A c \in Conns : (cur = c /\ Ended(c)) ~> (cur # c \/ AtKwin)

(* When KWin takes the monitor away the session ends too, unless it is     *)
(* stuck in a write to a tablet that does not read.                        *)
ClosedMonitorEndsSession ==
  monClosed ~> ("monitor" \notin held \/ (main = "write" /\ full))
=============================================================================
