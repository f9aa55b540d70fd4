----------------------------- MODULE Connection -----------------------------
(***************************************************************************)
(* The tablet's connection to the server (Connection.kt): the reader       *)
(* thread connects, pairs, says HELLO, starts the writer thread and then   *)
(* reads; the UI thread queues messages.  Any of the three may close the   *)
(* connection, at any moment, also before there is a socket to close.      *)
(*                                                                         *)
(* The server answers when it likes, or hangs up, or does neither: it may  *)
(* be serving another tablet.  `socket' is the field, which the reader     *)
(* sets only after the TLS handshake; `link' is the connection itself.     *)
(***************************************************************************)
EXTENDS Integers, Sequences

CONSTANT MaxQueue     \* bound: messages waiting in outQueue

ASSUME QueueAssumption == MaxQueue \in Nat \ {0}

VARIABLES
  at,       \* where each thread is
  closed,   \* the AtomicBoolean
  socket,   \* socket # null
  link,     \* "none", "open", "closed"
  queue,    \* outQueue: "msg", or "end" for the empty array
  peer,     \* the server: "quiet", "frame": one has arrived, "gone"
  full,     \* the send buffer is full
  early,    \* history: close found no socket
  told      \* history: calls of onClosed

vars == <<at, closed, socket, link, queue, peer, full, early, told>>

Thread == {"ui", "reader", "writer"}

CloseSteps == {"cas", "socket", "offer", "tell"}
Places ==
  [ui     |-> {"idle", "send"} \cup CloseSteps,
   reader |-> {"connect", "publish", "challenge", "reply", "hello", "spawn",
               "loop", "read", "caught", "finally", "done"} \cup CloseSteps,
   writer |-> {"none", "check", "take", "write", "poll", "flush", "caught",
               "done"} \cup CloseSteps]

TypeOK ==
  /\ DOMAIN at = Thread /\ \A th \in Thread : at[th] \in Places[th]
  /\ closed \in BOOLEAN /\ socket \in BOOLEAN
  /\ link \in {"none", "open", "closed"}
  /\ queue \in Seq({"msg", "end"}) /\ Len(queue) <= MaxQueue + 1
  /\ peer \in {"quiet", "frame", "gone"} /\ full \in BOOLEAN
  /\ early \in BOOLEAN /\ told \in 0 .. 3

(* start() has been called. *)
Init ==
  /\ at = [ui |-> "idle", reader |-> "connect", writer |-> "none"]
  /\ closed = FALSE /\ socket = FALSE /\ link = "none" /\ queue = <<>>
  /\ peer = "quiet" /\ full = FALSE
  /\ early = FALSE /\ told = 0

Goto(th, place) == at' = [at EXCEPT ![th] = place]
Step(th, from, to) == at[th] = from /\ Goto(th, to)

network == <<peer, full>>
history == <<early, told>>

-----------------------------------------------------------------------------
(* The server and the network. *)

Server ==
  /\ \/ peer = "quiet" /\ peer' \in {"frame", "gone"} /\ UNCHANGED full
     \/ full' = ~full /\ UNCHANGED peer
  /\ UNCHANGED <<at, closed, socket, link, queue, history>>

-----------------------------------------------------------------------------
(* close(), on the thread th: only the first one gets past the             *)
(* compareAndSet.  A caller then goes on where `After' says.               *)

After == [ui |-> "idle", reader |-> "finally", writer |-> "done"]

CloseCasTwice(th) ==               \* mutant: the flag is set, not compared
  /\ Step(th, "cas", "socket") /\ closed' = TRUE
  /\ UNCHANGED <<socket, link, queue, network, history>>

CloseCas(th) ==
  /\ Step(th, "cas", IF closed THEN After[th] ELSE "socket")
  /\ closed' = TRUE
  /\ UNCHANGED <<socket, link, queue, network, history>>

CloseSocket(th) ==
  /\ Step(th, "socket", "offer")
  /\ link' = IF socket THEN "closed" ELSE link
  /\ early' = (early \/ ~socket)
  /\ UNCHANGED <<closed, socket, queue, network, told>>

CloseOfferNothing(th) ==           \* mutant: the writer is not woken
  /\ Step(th, "offer", "tell")
  /\ UNCHANGED <<closed, socket, link, queue, network, history>>

CloseOffer(th) ==
  /\ Step(th, "offer", "tell")
  /\ queue' = Append(queue, "end")
  /\ UNCHANGED <<closed, socket, link, network, history>>

CloseTell(th) ==
  /\ Step(th, "tell", After[th])
  /\ told' = told + 1
  /\ UNCHANGED <<closed, socket, link, queue, network, early>>

Close(th) == CloseCas(th) \/ CloseSocket(th) \/ CloseOffer(th) \/ CloseTell(th)

-----------------------------------------------------------------------------
(* The UI thread: send() looks at the flag first and queues afterwards;    *)
(* the activity closes when it goes away or finds no decoder.              *)

UiSend ==
  \/ /\ at["ui"] = "idle" /\ ~closed /\ Goto("ui", "send")
     /\ UNCHANGED <<closed, socket, link, queue, network, history>>
  \/ /\ Len(queue) < MaxQueue /\ Step("ui", "send", "idle")
     /\ queue' = Append(queue, "msg")
     /\ UNCHANGED <<closed, socket, link, network, history>>

UiClose ==
  /\ Step("ui", "idle", "cas")
  /\ UNCHANGED <<closed, socket, link, queue, network, history>>

-----------------------------------------------------------------------------
(* The reader thread. *)

Broken == link = "closed" \/ peer = "gone"

(* A blocking read of one frame: it goes on to `next', is refused (wrong   *)
(* type, wrong MAC, malformed), or the connection is at its end.           *)
Receive(from, next) ==
  \/ /\ peer = "frame" /\ link # "closed" /\ peer' = "quiet"
     /\ Step("reader", from, next) \/ Step("reader", from, "caught")
  \/ Broken /\ Step("reader", from, "caught") /\ UNCHANGED peer

(* TCP and TLS.  A handshake that fails closes its socket by itself. *)
Connect ==
  /\ Receive("connect", "publish")
  /\ link' = IF at'["reader"] = "publish" THEN "open" ELSE "none"
  /\ UNCHANGED <<closed, socket, queue, full, history>>

Publish ==
  /\ Step("reader", "publish", "challenge")
  /\ socket' = TRUE
  /\ UNCHANGED <<closed, link, queue, network, history>>

(* AUTH_CHALLENGE is answered, AUTH_OK is awaited, frames are handed to    *)
(* the activity.                                                           *)
Read ==
  /\ \/ Receive("challenge", "reply")
     \/ Receive("reply", "hello")
     \/ Receive("read", "loop")
  /\ UNCHANGED <<closed, socket, link, queue, full, history>>

(* A write succeeds while the connection is open here, even when the       *)
(* server has gone, and may fail then.                                     *)
WriteHello ==
  /\ \/ link = "open" /\ Step("reader", "hello", "spawn")
     \/ Broken /\ Step("reader", "hello", "caught")
  /\ UNCHANGED <<closed, socket, link, queue, network, history>>

Spawn ==
  /\ at["reader"] = "spawn"
  /\ at' = [at EXCEPT !["reader"] = "loop", !["writer"] = "check"]
  /\ UNCHANGED <<closed, socket, link, queue, network, history>>

Loop ==
  /\ Step("reader", "loop", IF closed THEN "finally" ELSE "read")
  /\ UNCHANGED <<closed, socket, link, queue, network, history>>

CaughtQuietly(th) ==               \* mutant: an exception closes nothing
  /\ Step(th, "caught", After[th])
  /\ UNCHANGED <<closed, socket, link, queue, network, history>>

(* catch, on the reader and on the writer. *)
Caught(th) ==
  /\ Step(th, "caught", IF closed THEN After[th] ELSE "cas")
  /\ UNCHANGED <<closed, socket, link, queue, network, history>>

FinallyNothing ==                  \* mutant: no finally
  /\ Step("reader", "finally", "done")
  /\ UNCHANGED <<closed, socket, link, queue, network, history>>

Finally ==
  /\ Step("reader", "finally", "done")
  /\ link' = IF socket THEN "closed" ELSE link
  /\ UNCHANGED <<closed, socket, queue, network, history>>

-----------------------------------------------------------------------------
(* The writer thread. *)

WriterCheck ==
  /\ Step("writer", "check", IF closed THEN "done" ELSE "take")
  /\ UNCHANGED <<closed, socket, link, queue, network, history>>

(* take() waits for a message, poll() does not. *)
WriterTake ==
  /\ queue # <<>>
  /\ \/ Step("writer", "take", IF Head(queue) = "end" THEN "done" ELSE "write")
     \/ Step("writer", "poll", IF Head(queue) = "end" THEN "flush" ELSE "write")
  /\ queue' = Tail(queue)
  /\ UNCHANGED <<closed, socket, link, network, history>>

WriterPollEmpty ==
  /\ queue = <<>> /\ Step("writer", "poll", "flush")
  /\ UNCHANGED <<closed, socket, link, queue, network, history>>

WriterWrite ==
  /\ \/ /\ link = "open" /\ ~full
        /\ Step("writer", "write", "poll") \/ Step("writer", "flush", "check")
     \/ /\ Broken
        /\ Step("writer", "write", "caught") \/ Step("writer", "flush", "caught")
  /\ UNCHANGED <<closed, socket, link, queue, network, history>>

-----------------------------------------------------------------------------

UiStep     == UiSend \/ UiClose \/ Close("ui")
ReaderStep == Connect \/ Publish \/ Read \/ WriteHello \/ Spawn \/ Loop
              \/ Caught("reader") \/ Finally \/ Close("reader")
WriterStep == WriterCheck \/ WriterTake \/ WriterPollEmpty \/ WriterWrite
              \/ Caught("writer") \/ Close("writer")

Next == Server \/ UiStep \/ ReaderStep \/ WriterStep

(* Each thread runs when it can; nothing is assumed of the server, nor     *)
(* that the user sends or closes.                                          *)
Spec == /\ Init /\ [][Next]_vars
        /\ WF_vars(ReaderStep) /\ WF_vars(WriterStep) /\ WF_vars(Close("ui"))

-----------------------------------------------------------------------------

(* The activity is told of the end once, however many threads find out at  *)
(* the same time: it shows one message and finishes.                       *)
ToldOnce == told <= 1

(* No connection is left open behind the threads, also when close came     *)
(* before there was a socket to close.                                     *)
NoLinkLeft == at["reader"] = "done" => link # "open"

(* When the connection ends, for whatever reason, the activity is told.    *)
EndIsTold == at["reader"] = "done" ~> told > 0

(* A close ends both threads.  The exception is one that comes before the  *)
(* handshake is over: the reader then waits for the server as long as it   *)
(* takes, since the socket it waits on was not there to be closed.         *)
Ended   == at["reader"] = "done" /\ at["writer"] \in {"none", "done"}
Waiting == /\ early /\ peer = "quiet"
           /\ at["reader"] \in {"connect", "challenge", "reply"}

CloseEndsThreads == <>[]Waiting \/ (told > 0 ~> Ended)
=============================================================================
