-------------------------- MODULE ConnectionProofs --------------------------
(* Safety of the tablet's connection, for every bound on its queue.        *)
EXTENDS Connection, TLAPS

(* The threads between the compareAndSet and the end of close().           *)
Closing == {"socket", "offer", "tell"}

(* One thread gets into close(), once, and it is the one that tells.       *)
CloseInv ==
  /\ ~closed => told = 0 /\ \A th \in Thread : at[th] \notin Closing
  /\ told > 0 => \A th \in Thread : at[th] \notin Closing
  /\ \A th, u \in Thread : at[th] \in Closing /\ at[u] \in Closing => th = u
  /\ ToldOnce

(* The empty array is what may exceed the bound of the messages. *)
QueueInv ==
  Len(queue) > MaxQueue => told > 0 \/ \E th \in Thread : at[th] = "tell"

(* An open connection is in the field, or about to be stored there. *)
LinkInv ==
  /\ link = "open" => socket \/ at["reader"] = "publish"
  /\ NoLinkLeft

(* There is no writer before the reader has started it. *)
Before   == {"connect", "publish", "challenge", "reply", "hello", "spawn"}
SpawnInv == at["reader"] \in Before => at["writer"] = "none"

IInv == TypeOK /\ CloseInv /\ QueueInv /\ LinkInv /\ SpawnInv

-----------------------------------------------------------------------------

LEMMA InitGood == Init => IInv
<1> SUFFICES ASSUME Init PROVE IInv
  OBVIOUS
<1>1. /\ DOMAIN at = Thread
      /\ \A th \in Thread : at[th] \in Places[th] /\ at[th] \notin Closing
      /\ at["reader"] = "connect" /\ at["writer"] = "none"
  <2>1. at = [ui |-> "idle", reader |-> "connect", writer |-> "none"]
    BY DEF Init
  <2>2. /\ "idle" \in Places["ui"] /\ "connect" \in Places["reader"]
        /\ "none" \in Places["writer"]
    BY DEF Places
  <2>3. DOMAIN at = Thread
    BY <2>1 DEF Thread
  <2>4. \A th \in Thread : at[th] \in Places[th]
    BY <2>1, <2>2 DEF Thread
  <2>5. \A th \in Thread : at[th] \in {"idle", "connect", "none"}
    BY <2>1 DEF Thread
  <2>6. at["reader"] = "connect" /\ at["writer"] = "none"
    BY <2>1
  <2> QED BY <2>3, <2>4, <2>5, <2>6 DEF Closing
<1>2. queue \in Seq({"msg", "end"}) /\ Len(queue) = 0
  BY DEF Init
<1>3. /\ closed = FALSE /\ socket = FALSE /\ link = "none" /\ peer = "quiet"
      /\ full = FALSE /\ early = FALSE /\ told = 0
  BY DEF Init
<1>4. TypeOK
  <2>1. Len(queue) <= MaxQueue + 1
    BY <1>2, QueueAssumption
  <2>2. DOMAIN at = Thread /\ \A th \in Thread : at[th] \in Places[th]
    BY <1>1
  <2>3. /\ closed \in BOOLEAN /\ socket \in BOOLEAN /\ full \in BOOLEAN
        /\ early \in BOOLEAN /\ link \in {"none", "open", "closed"}
        /\ peer \in {"quiet", "frame", "gone"}
    BY <1>3
  <2>4. told \in 0 .. 3
    BY <1>3
  <2> QED BY <1>2, <2>1, <2>2, <2>3, <2>4 DEF TypeOK
<1>5. CloseInv /\ QueueInv /\ LinkInv /\ SpawnInv
  BY <1>1, <1>2, <1>3, QueueAssumption
     DEF CloseInv, QueueInv, LinkInv, SpawnInv, ToldOnce, NoLinkLeft
<1> QED BY <1>4, <1>5 DEF IInv

(* Where close() may start and end. *)
LEMMA CloseFacts ==
  ASSUME NEW th \in Thread
  PROVE  /\ CloseSteps \subseteq Places[th]
         /\ After[th] \in Places[th] \ Closing
         /\ After[th] \notin Before /\ "none" \notin CloseSteps
         /\ CloseSteps \cap Before = {}
         /\ th = "reader" => After[th] # "done"
BY DEF CloseSteps, Places, After, Thread, Closing, Before

LEMMA GotoFacts ==
  ASSUME TypeOK, NEW th \in Thread, NEW place \in Places[th], Goto(th, place)
  PROVE  /\ DOMAIN at' = Thread
         /\ \A u \in Thread : at'[u] \in Places[u]
         /\ at'[th] = place
         /\ \A u \in Thread : u # th => at'[u] = at[u]
BY DEF TypeOK, Goto

(* A thread that moves outside close() disturbs nothing but, perhaps, the  *)
(* connection and the queue.                                               *)
LEMMA OutsideClose ==
  ASSUME IInv, NEW th \in Thread, NEW place \in Places[th] \ Closing,
         Goto(th, place), at[th] \notin Closing,
         peer' \in {"quiet", "frame", "gone"}, full' \in BOOLEAN,
         queue' \in Seq({"msg", "end"}),
         Len(queue') <= MaxQueue \/ Len(queue') <= Len(queue),
         socket' \in BOOLEAN, link' \in {"none", "open", "closed"}, LinkInv',
         SpawnInv', UNCHANGED <<closed, early, told>>
  PROVE  IInv'
<1>1. /\ DOMAIN at' = Thread
      /\ \A u \in Thread : at'[u] \in Places[u]
      /\ at'[th] = place
      /\ \A u \in Thread : u # th => at'[u] = at[u]
  BY GotoFacts DEF IInv
<1>2. Len(queue) \in Nat /\ Len(queue') \in Nat
  BY DEF IInv, TypeOK
<1>3. TypeOK'
  BY <1>1, <1>2, QueueAssumption DEF IInv, TypeOK
<1>4. CloseInv'
  BY <1>1 DEF IInv, CloseInv, ToldOnce
<1>5. QueueInv'
  BY <1>1, <1>2, QueueAssumption DEF IInv, QueueInv, Closing
<1> QED
  BY <1>3, <1>4, <1>5 DEF IInv

(* Nor does close() start a writer, or take the reader back. *)
LEMMA CloseKeepsSpawn ==
  ASSUME IInv, NEW th \in Thread, NEW place \in Places[th], Goto(th, place),
         at[th] \in CloseSteps, place \in CloseSteps \cup {After[th]}
  PROVE  SpawnInv'
<1>1. /\ "reader" \in Thread /\ "writer" \in Thread
      /\ at'[th] = place /\ \A u \in Thread : u # th => at'[u] = at[u]
  BY GotoFacts DEF IInv, Thread
<1> QED BY <1>1, CloseFacts DEF IInv, SpawnInv

(* close() itself, on any thread. *)
LEMMA CloseStep ==
  ASSUME IInv, NEW th \in Thread, Close(th)
  PROVE  IInv'
<1> USE CloseFacts DEF IInv
<1>0. Len(queue) \in Nat /\ told \in Nat /\ "reader" \in Thread
  BY DEF TypeOK, Thread
<1>1. CASE CloseCas(th)
  <2> DEFINE place == IF closed THEN After[th] ELSE "socket"
  <2>1. place \in Places[th] /\ Goto(th, place) /\ at[th] = "cas"
    BY <1>1 DEF CloseCas, Step, CloseSteps
  <2>2. /\ DOMAIN at' = Thread
        /\ \A u \in Thread : at'[u] \in Places[u]
        /\ at'[th] = place
        /\ \A u \in Thread : u # th => at'[u] = at[u]
    BY <2>1, GotoFacts
  <2>3. TypeOK'
    BY <1>1, <2>2 DEF CloseCas, TypeOK, network, history
  <2>4. CloseInv'
    BY <1>1, <2>1, <2>2 DEF CloseCas, CloseInv, ToldOnce, history, Closing
  <2>5. QueueInv'
    BY <1>1, <2>1, <2>2 DEF CloseCas, QueueInv, history
  <2>6. LinkInv'
    BY <1>0, <1>1, <2>1, <2>2 DEF CloseCas, LinkInv, NoLinkLeft
  <2>7. SpawnInv'
    BY <2>1, CloseKeepsSpawn DEF CloseSteps
  <2> QED BY <2>3, <2>4, <2>5, <2>6, <2>7
<1>2. CASE CloseSocket(th)
  <2>1. "offer" \in Places[th] /\ Goto(th, "offer") /\ at[th] = "socket"
    BY <1>2 DEF CloseSocket, Step, CloseSteps
  <2>2. /\ DOMAIN at' = Thread
        /\ \A u \in Thread : at'[u] \in Places[u]
        /\ at'[th] = "offer"
        /\ \A u \in Thread : u # th => at'[u] = at[u]
    BY <2>1, GotoFacts
  <2>3. TypeOK'
    BY <1>2, <2>2 DEF CloseSocket, TypeOK, network
  <2>4. CloseInv'
    BY <1>2, <2>1, <2>2 DEF CloseSocket, CloseInv, ToldOnce, Closing
  <2>5. QueueInv'
    BY <1>2, <2>1, <2>2 DEF CloseSocket, QueueInv
  <2>6. LinkInv'
    BY <1>0, <1>2, <2>1, <2>2 DEF CloseSocket, LinkInv, NoLinkLeft, TypeOK
  <2>7. SpawnInv'
    BY <2>1, CloseKeepsSpawn DEF CloseSteps
  <2> QED BY <2>3, <2>4, <2>5, <2>6, <2>7
<1>3. CASE CloseOffer(th)
  <2>1. "tell" \in Places[th] /\ Goto(th, "tell") /\ at[th] = "offer"
    BY <1>3 DEF CloseOffer, Step, CloseSteps
  <2>2. /\ DOMAIN at' = Thread
        /\ \A u \in Thread : at'[u] \in Places[u]
        /\ at'[th] = "tell"
        /\ \A u \in Thread : u # th => at'[u] = at[u]
    BY <2>1, GotoFacts
  <2>3. Len(queue) <= MaxQueue
    BY <1>0, <2>1, QueueAssumption DEF QueueInv, CloseInv, Closing
  <2>4. queue' \in Seq({"msg", "end"}) /\ Len(queue') = Len(queue) + 1
    BY <1>3 DEF CloseOffer, TypeOK
  <2>5. TypeOK'
    BY <1>0, <1>3, <2>2, <2>3, <2>4, QueueAssumption
       DEF CloseOffer, TypeOK, network, history
  <2>6. CloseInv'
    BY <1>3, <2>1, <2>2 DEF CloseOffer, CloseInv, ToldOnce, history, Closing
  <2>7. QueueInv'
    BY <2>2 DEF QueueInv
  <2>8. LinkInv'
    BY <1>0, <1>3, <2>1, <2>2 DEF CloseOffer, LinkInv, NoLinkLeft
  <2>9. SpawnInv'
    BY <2>1, CloseKeepsSpawn DEF CloseSteps
  <2> QED BY <2>5, <2>6, <2>7, <2>8, <2>9
<1>4. CASE CloseTell(th)
  <2>1. After[th] \in Places[th] \ Closing /\ Goto(th, After[th]) /\ at[th] = "tell"
    BY <1>4 DEF CloseTell, Step
  <2>2. /\ DOMAIN at' = Thread
        /\ \A u \in Thread : at'[u] \in Places[u]
        /\ at'[th] = After[th]
        /\ \A u \in Thread : u # th => at'[u] = at[u]
    BY <2>1, GotoFacts
  <2>3. told = 0 /\ closed /\ \A u \in Thread : at'[u] \notin Closing
    BY <1>0, <2>1, <2>2 DEF CloseInv, Closing, ToldOnce, TypeOK
  <2>4. told' = 1
    BY <1>4, <2>3 DEF CloseTell
  <2>5. TypeOK'
    BY <1>4, <2>2, <2>4 DEF CloseTell, TypeOK, network
  <2>6. CloseInv'
    BY <1>4, <2>3, <2>4 DEF CloseTell, CloseInv, ToldOnce
  <2>7. QueueInv'
    BY <2>4 DEF QueueInv
  <2>8. LinkInv'
    BY <1>0, <1>4, <2>1, <2>2 DEF CloseTell, LinkInv, NoLinkLeft
  <2>9. SpawnInv'
    BY <2>1, CloseKeepsSpawn DEF CloseSteps
  <2> QED BY <2>5, <2>6, <2>7, <2>8, <2>9
<1> QED
  BY <1>1, <1>2, <1>3, <1>4 DEF Close

-----------------------------------------------------------------------------

LEMMA UiAndServer ==
  ASSUME IInv, Server \/ UiSend \/ UiClose
  PROVE  IInv'
<1>0. /\ "ui" \in Thread /\ "reader" \in Thread /\ "writer" \in Thread
      /\ {"idle", "send", "cas"} \subseteq Places["ui"] \ Closing
      /\ {"idle", "send", "cas"} \cap Closing = {}
  BY DEF Thread, Places, CloseSteps, Closing
<1>1. CASE Server
  <2>1. /\ UNCHANGED <<at, closed, socket, link, queue, early, told>>
        /\ peer' \in {"quiet", "frame", "gone"} /\ full' \in BOOLEAN
    BY <1>1 DEF Server, history, IInv, TypeOK
  <2> QED
    BY <2>1 DEF IInv, TypeOK, CloseInv, QueueInv, LinkInv, SpawnInv, ToldOnce,
               NoLinkLeft
<1>2. ASSUME UNCHANGED <<closed, socket, link, network, history>>,
             NEW place \in {"idle", "send", "cas"}, Goto("ui", place),
             at["ui"] \in {"idle", "send"},
             queue' \in Seq({"msg", "end"}),
             Len(queue') <= MaxQueue \/ Len(queue') <= Len(queue)
      PROVE  IInv'
  <2>1. at'["reader"] = at["reader"] /\ at'["writer"] = at["writer"]
    BY <1>0, <1>2, GotoFacts DEF IInv
  <2>2. LinkInv' /\ SpawnInv'
    BY <1>2, <2>1 DEF IInv, LinkInv, SpawnInv, NoLinkLeft
  <2>3. /\ peer' \in {"quiet", "frame", "gone"} /\ full' \in BOOLEAN
        /\ socket' \in BOOLEAN /\ link' \in {"none", "open", "closed"}
        /\ UNCHANGED <<closed, early, told>>
    BY <1>2 DEF IInv, TypeOK, network, history
  <2> QED BY <1>0, <1>2, <2>2, <2>3, OutsideClose
<1>3. CASE UiSend
  <2>1. CASE at["ui"] = "idle" /\ ~closed /\ Goto("ui", "send")
             /\ UNCHANGED <<closed, socket, link, queue, network, history>>
    <3>1. Len(queue') <= Len(queue) /\ queue' \in Seq({"msg", "end"})
      BY <2>1 DEF IInv, TypeOK
    <3> QED BY <1>2, <2>1, <3>1
  <2>2. CASE /\ Len(queue) < MaxQueue /\ Step("ui", "send", "idle")
             /\ queue' = Append(queue, "msg")
             /\ UNCHANGED <<closed, socket, link, network, history>>
    <3>1. Len(queue') <= MaxQueue /\ queue' \in Seq({"msg", "end"})
      BY <2>2, QueueAssumption DEF IInv, TypeOK
    <3> QED BY <1>2, <2>2, <3>1 DEF Step
  <2> QED BY <1>3, <2>1, <2>2 DEF UiSend
<1>4. CASE UiClose
  <2>1. Len(queue') <= Len(queue) /\ queue' \in Seq({"msg", "end"})
    BY <1>4 DEF UiClose, IInv, TypeOK
  <2> QED BY <1>2, <1>4, <2>1 DEF UiClose, Step
<1> QED BY <1>1, <1>3, <1>4

LEMMA ReaderAlone ==
  ASSUME IInv,
         \/ Connect \/ Publish \/ Read \/ WriteHello \/ Loop
         \/ Caught("reader") \/ Finally
  PROVE  IInv'
<1> DEFINE Free == {"connect", "publish", "challenge", "reply", "hello", "spawn",
                    "loop", "read", "caught", "finally"}
<1>0. /\ "reader" \in Thread /\ "writer" \in Thread /\ After["reader"] = "finally"
      /\ Free \cup {"cas", "done"} \subseteq Places["reader"] \ Closing
      /\ Free \cap Closing = {}
  BY DEF Thread, Places, CloseSteps, Closing, After
<1>1. ASSUME NEW place \in Free \cup {"cas", "done"}, Goto("reader", place),
             at["reader"] \in Free,
             UNCHANGED <<closed, queue, full, history>>,
             peer' \in {"quiet", "frame", "gone"},
             socket' \in BOOLEAN, link' \in {"none", "open", "closed"},
             link' = "open" => place # "done" /\ (socket' \/ place = "publish"),
             place \in Before => at["reader"] \in Before
      PROVE  IInv'
  <2>1. at'["reader"] = place /\ at'["writer"] = at["writer"]
    BY <1>0, <1>1, GotoFacts DEF IInv
  <2>2. LinkInv' /\ SpawnInv'
    BY <1>1, <2>1 DEF IInv, LinkInv, SpawnInv, NoLinkLeft
  <2>3. /\ full' \in BOOLEAN /\ UNCHANGED <<closed, early, told>>
        /\ queue' \in Seq({"msg", "end"}) /\ Len(queue') <= Len(queue)
    BY <1>1 DEF IInv, TypeOK, history
  <2> QED BY <1>0, <1>1, <2>2, <2>3, OutsideClose
<1>2. /\ peer \in {"quiet", "frame", "gone"} /\ socket \in BOOLEAN
      /\ link \in {"none", "open", "closed"}
      /\ link = "open" => socket \/ at["reader"] = "publish"
  BY DEF IInv, TypeOK, LinkInv
<1>3. CASE Connect
  <2>1. PICK place \in {"publish", "caught"} :
              Goto("reader", place) /\ at["reader"] = "connect"
    BY <1>3 DEF Connect, Receive, Step
  <2>2. at'["reader"] = place
    BY <1>0, <2>1, GotoFacts DEF IInv
  <2>3. link' = IF place = "publish" THEN "open" ELSE "none"
    BY <1>3, <2>2 DEF Connect
  <2>4. peer' \in {"quiet", "frame", "gone"}
        /\ UNCHANGED <<closed, socket, queue, full, history>>
    BY <1>2, <1>3 DEF Connect, Receive
  <2> QED BY <1>1, <1>2, <2>1, <2>3, <2>4 DEF Before
<1>4. CASE Publish
  BY <1>1, <1>2, <1>4 DEF Publish, Step, network, Before
<1>5. CASE Read
  <2>1. PICK place \in {"reply", "hello", "loop", "caught"} :
              /\ Goto("reader", place) /\ at["reader"] \in {"challenge", "reply", "read"}
              /\ place \in {"reply", "hello"} => at["reader"] # "read"
    BY <1>5 DEF Read, Receive, Step
  <2>2. peer' \in {"quiet", "frame", "gone"}
        /\ UNCHANGED <<closed, socket, link, queue, full, history>>
    BY <1>2, <1>5 DEF Read, Receive
  <2> QED BY <1>1, <1>2, <2>1, <2>2 DEF Before
<1>6. CASE WriteHello
  BY <1>1, <1>2, <1>6 DEF WriteHello, Step, network, Before
<1>7. CASE Loop
  BY <1>1, <1>2, <1>7 DEF Loop, Step, network, Before
<1>8. CASE Caught("reader")
  BY <1>0, <1>1, <1>2, <1>8 DEF Caught, Step, network, Before
<1>9. CASE Finally
  BY <1>1, <1>2, <1>9 DEF Finally, Step, network, Before
<1> QED BY <1>3, <1>4, <1>5, <1>6, <1>7, <1>8, <1>9

(* The one step that moves two threads. *)
LEMMA SpawnStep ==
  ASSUME IInv, Spawn
  PROVE  IInv'
<1>1. /\ DOMAIN at' = Thread /\ at["reader"] = "spawn" /\ at["writer"] = "none"
      /\ at'["reader"] = "loop" /\ at'["writer"] = "check"
      /\ at'["ui"] = at["ui"]
      /\ UNCHANGED <<closed, socket, link, queue, network, history>>
  BY DEF Spawn, IInv, TypeOK, SpawnInv, Thread, Before
<1>2. \A th \in Thread : at'[th] \in Places[th]
  BY <1>1 DEF IInv, TypeOK, Thread, Places
<1>3. \A th \in Thread : at'[th] = at[th] \/ {at[th], at'[th]} \cap Closing = {}
  BY <1>1 DEF Thread, Closing
<1>4. TypeOK' /\ QueueInv'
  BY <1>1, <1>2, <1>3 DEF IInv, TypeOK, QueueInv, network, history, Closing
<1>5. CloseInv'
  BY <1>1, <1>3 DEF IInv, CloseInv, ToldOnce, history
<1>6. LinkInv' /\ SpawnInv'
  BY <1>1 DEF IInv, LinkInv, SpawnInv, NoLinkLeft, Before
<1> QED BY <1>4, <1>5, <1>6 DEF IInv

LEMMA WriterAlone ==
  ASSUME IInv,
         WriterCheck \/ WriterTake \/ WriterPollEmpty \/ WriterWrite \/ Caught("writer")
  PROVE  IInv'
<1> DEFINE Free == {"check", "take", "write", "poll", "flush", "caught"}
<1>0. /\ "reader" \in Thread /\ "writer" \in Thread /\ After["writer"] = "done"
      /\ Free \cup {"cas", "done"} \subseteq Places["writer"] \ Closing
      /\ Free \cap Closing = {}
  BY DEF Thread, Places, CloseSteps, Closing, After
<1>1. ASSUME NEW place \in Free \cup {"cas", "done"}, Goto("writer", place),
             at["writer"] \in Free,
             UNCHANGED <<closed, socket, link, network, history>>,
             queue' \in Seq({"msg", "end"}), Len(queue') <= Len(queue)
      PROVE  IInv'
  <2>1. at'["reader"] = at["reader"]
    BY <1>0, <1>1, GotoFacts DEF IInv
  <2>2. LinkInv' /\ SpawnInv'
    BY <1>1, <2>1 DEF IInv, LinkInv, SpawnInv, NoLinkLeft
  <2>3. /\ peer' \in {"quiet", "frame", "gone"} /\ full' \in BOOLEAN
        /\ socket' \in BOOLEAN /\ link' \in {"none", "open", "closed"}
        /\ UNCHANGED <<closed, early, told>>
    BY <1>1 DEF IInv, TypeOK, network, history
  <2> QED BY <1>0, <1>1, <2>2, <2>3, OutsideClose
<1>2. queue \in Seq({"msg", "end"}) /\ Len(queue) <= Len(queue)
  BY DEF IInv, TypeOK
<1>3. CASE WriterCheck
  BY <1>1, <1>2, <1>3 DEF WriterCheck, Step
<1>4. CASE WriterTake
  <2>1. queue' \in Seq({"msg", "end"}) /\ Len(queue') <= Len(queue)
    BY <1>2, <1>4 DEF WriterTake
  <2>2. PICK place \in {"done", "write", "flush"} :
              Goto("writer", place) /\ at["writer"] \in {"take", "poll"}
    BY <1>4 DEF WriterTake, Step
  <2> QED BY <1>1, <1>4, <2>1, <2>2 DEF WriterTake
<1>5. CASE WriterPollEmpty
  BY <1>1, <1>2, <1>5 DEF WriterPollEmpty, Step
<1>6. CASE WriterWrite
  <2>1. PICK place \in {"poll", "check", "caught"} :
              Goto("writer", place) /\ at["writer"] \in {"write", "flush"}
    BY <1>6 DEF WriterWrite, Step
  <2> QED BY <1>1, <1>2, <1>6, <2>1 DEF WriterWrite
<1>7. CASE Caught("writer")
  BY <1>0, <1>1, <1>2, <1>7 DEF Caught, Step
<1> QED BY <1>3, <1>4, <1>5, <1>6, <1>7

-----------------------------------------------------------------------------

LEMMA InvariantKept == IInv /\ [Next]_vars => IInv'
<1> SUFFICES ASSUME IInv, [Next]_vars PROVE IInv'
  OBVIOUS
<1>1. CASE Next
  <2>1. "ui" \in Thread /\ "reader" \in Thread /\ "writer" \in Thread
    BY DEF Thread
  <2> QED
    BY <1>1, <2>1, CloseStep, UiAndServer, ReaderAlone, SpawnStep, WriterAlone
       DEF Next, UiStep, ReaderStep, WriterStep
<1>2. CASE UNCHANGED vars
  BY <1>2 DEF vars, IInv, TypeOK, CloseInv, QueueInv, LinkInv, SpawnInv, ToldOnce,
             NoLinkLeft
<1> QED BY <1>1, <1>2

LEMMA Inductive == Spec => []IInv
BY InitGood, InvariantKept, PTL DEF Spec

(* The threads stay at the places of their code, and the queue never holds *)
(* more than its messages and one empty array.                             *)
THEOREM ConnectionTypeCorrect == Spec => []TypeOK
BY Inductive, PTL DEF IInv

(* The activity is told of the end at most once, whichever threads call    *)
(* close() and when.                                                       *)
THEOREM ConnectionToldOnce == Spec => []ToldOnce
BY Inductive, PTL DEF IInv, CloseInv

(* The reader leaves no open connection behind. *)
THEOREM ConnectionNoLinkLeft == Spec => []NoLinkLeft
BY Inductive, PTL DEF IInv, LinkInv

-----------------------------------------------------------------------------
(* What a close leaves behind it.                                          *)

HasEnd  == \E i \in DOMAIN queue : queue[i] = "end"
Offered == told > 0 \/ \E th \in Thread : at[th] = "tell"
Past    == Offered \/ \E th \in Thread : at[th] = "offer"    \* the socket's turn

(* Both threads end only behind a close; a close that is past a step has   *)
(* done it; the empty array is there only because a close offered it, and  *)
(* only a writer that looks at the flag again may have taken it.           *)
ToldInv ==
  /\ closed => told > 0 \/ \E th \in Thread : at[th] \in Closing
  /\ at["reader"] \in {"finally", "done"} => closed
  /\ at["writer"] = "done" => closed
  /\ HasEnd => Offered
  /\ at["writer"] = "take" /\ Offered => HasEnd
  /\ at["reader"] \in {"connect", "publish"} => ~socket /\ link # "closed"
  /\ Past => early \/ link = "closed"

LEMMA EndInQueue ==
  ASSUME TypeOK
  PROVE  /\ \A m \in {"msg", "end"} :
              queue' = Append(queue, m) => (HasEnd' <=> HasEnd \/ m = "end")
         /\ queue # <<>> /\ queue' = Tail(queue) =>
              /\ HasEnd' => HasEnd
              /\ Head(queue) = "end" => HasEnd
<1>1. queue \in Seq({"msg", "end"})
  BY DEF TypeOK
<1>2. ASSUME NEW m \in {"msg", "end"}, queue' = Append(queue, m)
      PROVE  HasEnd' <=> HasEnd \/ m = "end"
  <2>1. /\ DOMAIN queue' = 1 .. Len(queue) + 1 /\ queue'[Len(queue) + 1] = m
        /\ DOMAIN queue = 1 .. Len(queue) /\ Len(queue) \in Nat
        /\ \A i \in 1 .. Len(queue) : queue'[i] = queue[i]
    BY <1>1, <1>2
  <2> QED BY <2>1 DEF HasEnd
<1>3. ASSUME queue # <<>>, queue' = Tail(queue)
      PROVE  (HasEnd' => HasEnd) /\ (Head(queue) = "end" => HasEnd)
  <2>1. /\ DOMAIN queue' = 1 .. Len(queue) - 1 /\ Len(queue) \in Nat \ {0}
        /\ DOMAIN queue = 1 .. Len(queue) /\ Head(queue) = queue[1]
        /\ \A i \in 1 .. Len(queue) - 1 : queue'[i] = queue[i + 1]
    BY <1>1, <1>3
  <2> QED BY <2>1 DEF HasEnd
<1> QED BY <1>2, <1>3

(* A thread that moves outside close().                                    *)
LEMMA ToldOutside ==
  ASSUME IInv, ToldInv, NEW th \in Thread, NEW place \in Places[th] \ Closing,
         Goto(th, place), at[th] \notin Closing, UNCHANGED <<closed, early, told>>,
         th = "reader" /\ place \in {"finally", "done"} => closed,
         th = "writer" /\ place = "done" => closed,
         th = "writer" /\ place = "take" => ~closed,
         HasEnd' => HasEnd,
         th # "writer" => (HasEnd => HasEnd'),
         th = "reader" /\ place \in {"connect", "publish"} =>
           ~socket' /\ link' # "closed",
         th # "reader" => UNCHANGED <<socket, link>>,
         at["reader"] \notin {"connect", "publish"} /\ link = "closed" =>
           link' = "closed"
  PROVE  ToldInv'
<1>1. /\ at'[th] = place /\ \A u \in Thread : u # th => at'[u] = at[u]
      /\ "reader" \in Thread /\ "writer" \in Thread
  BY GotoFacts DEF IInv, Thread
<1>2. /\ (\E u \in Thread : at'[u] \in Closing) <=> (\E u \in Thread : at[u] \in Closing)
      /\ Offered' <=> Offered
      /\ Past' <=> Past
  BY <1>1 DEF Offered, Past, Closing
<1>3. (closed => told > 0 \/ \E u \in Thread : at[u] \in Closing)'
  BY <1>2 DEF ToldInv
<1>4. (at["reader"] \in {"finally", "done"} => closed)'
      /\ (at["writer"] = "done" => closed)'
  BY <1>1 DEF ToldInv
<1>5. (HasEnd => Offered)'
  BY <1>2 DEF ToldInv
<1>6. (at["writer"] = "take" /\ Offered => HasEnd)'
  <2>1. Offered => closed
    BY DEF IInv, CloseInv, Offered, Closing, TypeOK
  <2> QED BY <1>1, <1>2, <2>1 DEF ToldInv
<1>7. (at["reader"] \in {"connect", "publish"} => ~socket /\ link # "closed")'
  BY <1>1 DEF ToldInv
<1>8. (Past => early \/ link = "closed")'
  BY <1>2 DEF ToldInv
<1> QED BY <1>3, <1>4, <1>5, <1>6, <1>7, <1>8 DEF ToldInv

(* close() itself: each of its steps leaves what the next ones rely on.    *)
LEMMA ToldClose ==
  ASSUME IInv, ToldInv, NEW th \in Thread, Close(th)
  PROVE  ToldInv'
<1>0. TypeOK /\ CloseInv /\ told \in Nat /\ "reader" \in Thread /\ "writer" \in Thread
  BY DEF IInv, TypeOK, Thread
<1>1. CASE CloseCas(th)
  <2> DEFINE place == IF closed THEN After[th] ELSE "socket"
  <2>1. /\ Goto(th, place) /\ at[th] = "cas" /\ closed' = TRUE
        /\ UNCHANGED <<queue, told, early, socket, link>>
    BY <1>1 DEF CloseCas, Step, history
  <2>2. place \in Places[th] /\ place \notin Before \cup {"offer", "tell", "take"}
    BY CloseFacts DEF Closing, CloseSteps, After, Thread, Before
  <2>3. at'[th] = place /\ \A u \in Thread : u # th => at'[u] = at[u]
    BY <1>0, <2>1, <2>2, GotoFacts
  <2>4. (Offered' <=> Offered) /\ (Past' <=> Past) /\ (HasEnd' <=> HasEnd)
    BY <2>1, <2>2, <2>3 DEF Offered, Past, HasEnd
  <2>5. told' > 0 \/ \E u \in Thread : at'[u] \in Closing
    <3>1. CASE ~closed
      <4>1. at'[th] \in Closing
        BY <2>3, <3>1 DEF Closing
      <4> QED BY <4>1
    <3>2. CASE closed
      <4>1. told > 0 \/ \E u \in Thread : u # th /\ at[u] \in Closing
        BY <2>1, <3>2 DEF ToldInv, Closing
      <4> QED BY <2>1, <2>3, <4>1
    <3> QED BY <3>1, <3>2
  <2>6. at'["writer"] = "take" => at["writer"] = "take"
    BY <1>0, <2>2, <2>3
  <2>7. at'["reader"] \in {"connect", "publish"} => at["reader"] \in {"connect", "publish"}
    BY <1>0, <2>2, <2>3 DEF Before
  <2> QED BY <2>1, <2>4, <2>5, <2>6, <2>7 DEF ToldInv
<1>2. CASE CloseSocket(th)
  <2>1. /\ Goto(th, "offer") /\ at[th] = "socket"
        /\ link' = (IF socket THEN "closed" ELSE link) /\ early' = (early \/ ~socket)
        /\ UNCHANGED <<closed, socket, queue, told>>
    BY <1>2 DEF CloseSocket, Step
  <2>2. at'[th] = "offer" /\ \A u \in Thread : u # th => at'[u] = at[u]
    BY <1>0, <2>1, CloseFacts, GotoFacts DEF CloseSteps
  <2>3. closed
    BY <1>0, <2>1 DEF CloseInv, Closing
  <2>4. (Offered' <=> Offered) /\ (HasEnd' <=> HasEnd)
    BY <2>1, <2>2 DEF Offered, HasEnd
  <2>5. early' \/ link' = "closed"
    BY <2>1
  <2>6. told' > 0 \/ \E u \in Thread : at'[u] \in Closing
    BY <2>2 DEF Closing
  <2>7. (at["reader"] \in {"connect", "publish"} => ~socket /\ link # "closed")'
    BY <1>0, <2>1, <2>2 DEF ToldInv
  <2>8. at'["writer"] = "take" => at["writer"] = "take"
    BY <1>0, <2>2
  <2> QED BY <2>1, <2>3, <2>4, <2>5, <2>6, <2>7, <2>8 DEF ToldInv
<1>3. CASE CloseOffer(th)
  <2>1. /\ Goto(th, "tell") /\ at[th] = "offer" /\ queue' = Append(queue, "end")
        /\ UNCHANGED <<closed, socket, link, early, told>>
    BY <1>3 DEF CloseOffer, Step, history
  <2>2. at'[th] = "tell" /\ \A u \in Thread : u # th => at'[u] = at[u]
    BY <1>0, <2>1, CloseFacts, GotoFacts DEF CloseSteps
  <2>3. closed /\ Past
    BY <1>0, <2>1 DEF CloseInv, Closing, Past
  <2>4. HasEnd' /\ Offered'
    BY <1>0, <2>1, <2>2, EndInQueue DEF Offered
  <2>5. told' > 0 \/ \E u \in Thread : at'[u] \in Closing
    BY <2>2 DEF Closing
  <2>6. (at["reader"] \in {"connect", "publish"} => ~socket /\ link # "closed")'
    BY <1>0, <2>1, <2>2 DEF ToldInv
  <2> QED BY <2>1, <2>3, <2>4, <2>5, <2>6 DEF ToldInv
<1>4. CASE CloseTell(th)
  <2>1. /\ Goto(th, After[th]) /\ at[th] = "tell" /\ told' = told + 1
        /\ UNCHANGED <<closed, socket, link, early, queue>>
    BY <1>4 DEF CloseTell, Step
  <2>2. After[th] \in Places[th] /\ After[th] \notin Before \cup {"take"}
    BY CloseFacts DEF After, Thread
  <2>3. at'[th] = After[th] /\ \A u \in Thread : u # th => at'[u] = at[u]
    BY <1>0, <2>1, <2>2, GotoFacts
  <2>4. closed /\ Offered /\ Past /\ told' > 0
    BY <1>0, <2>1 DEF CloseInv, Closing, Past, Offered
  <2>5. HasEnd' <=> HasEnd
    BY <2>1 DEF HasEnd
  <2>6. (at["reader"] \in {"connect", "publish"} => ~socket /\ link # "closed")'
    BY <1>0, <2>1, <2>2, <2>3 DEF ToldInv, Before
  <2>7. at'["writer"] = "take" => at["writer"] = "take"
    BY <1>0, <2>2, <2>3
  <2> QED BY <2>1, <2>4, <2>5, <2>6, <2>7 DEF ToldInv, Offered
<1> QED BY <1>1, <1>2, <1>3, <1>4 DEF Close

LEMMA ToldUi ==
  ASSUME IInv, ToldInv, Server \/ UiSend \/ UiClose
  PROVE  ToldInv'
<1>0. /\ TypeOK /\ "ui" \in Thread
      /\ {"idle", "send", "cas"} \subseteq Places["ui"] \ Closing
  BY DEF IInv, Thread, Places, CloseSteps, Closing
<1>1. CASE Server
  BY <1>1 DEF Server, history, ToldInv, HasEnd, Offered, Past
<1>2. CASE UiSend \/ UiClose
  <2>1. PICK place \in {"idle", "send", "cas"} :
              Goto("ui", place) /\ at["ui"] \in {"idle", "send"}
    BY <1>2 DEF UiSend, UiClose, Step
  <2>2. /\ UNCHANGED <<closed, early, told, socket, link>>
        /\ queue' = queue \/ queue' = Append(queue, "msg")
    BY <1>2 DEF UiSend, UiClose, history
  <2>3. HasEnd' <=> HasEnd
    BY <1>0, <2>2, EndInQueue DEF HasEnd
  <2> QED BY <1>0, <2>1, <2>2, <2>3, ToldOutside DEF Closing
<1> QED BY <1>1, <1>2

LEMMA ToldReader ==
  ASSUME IInv, ToldInv,
         \/ Connect \/ Publish \/ Read \/ WriteHello \/ Loop
         \/ Caught("reader") \/ Finally
  PROVE  ToldInv'
<1> DEFINE Free == {"connect", "publish", "challenge", "reply", "hello",
                    "loop", "read", "caught", "finally"}
<1>0. /\ "reader" \in Thread /\ After["reader"] = "finally"
      /\ Free \cup {"cas", "done", "spawn"} \subseteq Places["reader"] \ Closing
      /\ Free \cap Closing = {}
  BY DEF Thread, Places, CloseSteps, Closing, After
<1>1. ASSUME NEW place \in Free \cup {"cas", "done", "spawn"}, Goto("reader", place),
             at["reader"] \in Free, UNCHANGED <<closed, queue, history>>,
             place \in {"finally", "done"} => closed,
             place \in {"connect", "publish"} => ~socket' /\ link' # "closed",
             at["reader"] \notin {"connect", "publish"} /\ link = "closed" =>
               link' = "closed"
      PROVE  ToldInv'
  <2>1. UNCHANGED <<closed, early, told>> /\ (HasEnd' <=> HasEnd)
    BY <1>1 DEF history, HasEnd
  <2> QED BY <1>0, <1>1, <2>1, ToldOutside
<1>2. CASE Connect
  <2>1. PICK place \in {"publish", "caught"} :
              Goto("reader", place) /\ at["reader"] = "connect"
    BY <1>2 DEF Connect, Receive, Step
  <2>2. at'["reader"] = place
    BY <1>0, <2>1, GotoFacts DEF IInv
  <2>3. link' \in {"open", "none"} /\ UNCHANGED <<closed, socket, queue, history>>
    BY <1>2 DEF Connect
  <2>4. ~socket
    BY <2>1 DEF ToldInv
  <2> QED BY <1>1, <2>1, <2>3, <2>4
<1>3. CASE Publish
  BY <1>1, <1>3 DEF Publish, Step
<1>4. CASE Read \/ WriteHello
  <2>1. PICK place \in {"reply", "hello", "loop", "spawn", "caught"} :
              /\ Goto("reader", place)
              /\ at["reader"] \in {"challenge", "reply", "read", "hello"}
    BY <1>4 DEF Read, WriteHello, Receive, Step
  <2>2. UNCHANGED <<closed, socket, link, queue, history>>
    BY <1>4 DEF Read, WriteHello
  <2> QED BY <1>1, <2>1, <2>2
<1>5. CASE Loop
  BY <1>1, <1>5 DEF Loop, Step
<1>6. CASE Caught("reader")
  BY <1>0, <1>1, <1>6 DEF Caught, Step
<1>7. CASE Finally
  <2>1. closed
    BY <1>7 DEF Finally, Step, ToldInv
  <2> QED BY <1>1, <1>7, <2>1 DEF Finally, Step
<1> QED BY <1>2, <1>3, <1>4, <1>5, <1>6, <1>7

LEMMA ToldSpawn ==
  ASSUME IInv, ToldInv, Spawn
  PROVE  ToldInv'
<1>1. /\ at["reader"] = "spawn" /\ at["writer"] = "none"
      /\ at'["reader"] = "loop" /\ at'["writer"] = "check" /\ at'["ui"] = at["ui"]
      /\ UNCHANGED <<closed, socket, link, queue, told, early>>
  BY DEF Spawn, IInv, TypeOK, SpawnInv, Thread, Before, history
<1>2. \A th \in Thread : at'[th] = at[th] \/ {at[th], at'[th]} \cap Closing = {}
  BY <1>1 DEF Thread, Closing
<1>3. /\ Offered' <=> Offered
      /\ Past' <=> Past
      /\ HasEnd' <=> HasEnd
  BY <1>1, <1>2 DEF Offered, Past, HasEnd, Closing
<1>4. (closed => told > 0 \/ \E th \in Thread : at[th] \in Closing)'
  BY <1>1, <1>2 DEF ToldInv
<1> QED BY <1>1, <1>3, <1>4 DEF ToldInv

LEMMA ToldWriter ==
  ASSUME IInv, ToldInv,
         WriterCheck \/ WriterTake \/ WriterPollEmpty \/ WriterWrite \/ Caught("writer")
  PROVE  ToldInv'
<1> DEFINE Free == {"check", "take", "write", "poll", "flush", "caught"}
<1>0. /\ TypeOK /\ "writer" \in Thread /\ After["writer"] = "done"
      /\ Free \cup {"cas", "done"} \subseteq Places["writer"] \ Closing
      /\ Free \cap Closing = {}
  BY DEF IInv, Thread, Places, CloseSteps, Closing, After
<1>1. ASSUME NEW place \in Free \cup {"cas", "done"}, Goto("writer", place),
             at["writer"] \in Free, UNCHANGED <<closed, socket, link, history>>,
             place = "done" => closed, place = "take" => ~closed, HasEnd' => HasEnd
      PROVE  ToldInv'
  <2>1. UNCHANGED <<closed, early, told, socket, link>>
    BY <1>1 DEF history
  <2> QED BY <1>0, <1>1, <2>1, ToldOutside
<1>2. CASE WriterCheck
  BY <1>1, <1>2 DEF WriterCheck, Step, HasEnd
<1>3. CASE WriterTake
  <2>1. /\ HasEnd' => HasEnd
        /\ Head(queue) = "end" => HasEnd
    BY <1>0, <1>3, EndInQueue DEF WriterTake
  <2>2. HasEnd => closed
    BY <1>0 DEF ToldInv, IInv, CloseInv, Offered, Closing, TypeOK
  <2>3. PICK place \in {"done", "write", "flush"} :
              /\ Goto("writer", place) /\ at["writer"] \in {"take", "poll"}
              /\ place = "done" => Head(queue) = "end"
    BY <1>3 DEF WriterTake, Step
  <2> QED BY <1>1, <1>3, <2>1, <2>2, <2>3 DEF WriterTake
<1>4. CASE WriterPollEmpty
  BY <1>1, <1>4 DEF WriterPollEmpty, Step, HasEnd
<1>5. CASE WriterWrite
  <2>1. PICK place \in {"poll", "check", "caught"} :
              Goto("writer", place) /\ at["writer"] \in {"write", "flush"}
    BY <1>5 DEF WriterWrite, Step
  <2>2. UNCHANGED <<closed, socket, link, history>> /\ (HasEnd' => HasEnd)
    BY <1>5 DEF WriterWrite, HasEnd
  <2> QED BY <1>1, <2>1, <2>2
<1>6. CASE Caught("writer")
  BY <1>0, <1>1, <1>6 DEF Caught, Step, HasEnd
<1> QED BY <1>2, <1>3, <1>4, <1>5, <1>6

LEMMA ToldKept == IInv /\ ToldInv /\ [Next]_vars => ToldInv'
<1> SUFFICES ASSUME IInv, ToldInv, [Next]_vars PROVE ToldInv'
  OBVIOUS
<1>1. CASE Next
  <2>1. "ui" \in Thread /\ "reader" \in Thread /\ "writer" \in Thread
    BY DEF Thread
  <2> QED
    BY <1>1, <2>1, ToldClose, ToldUi, ToldReader, ToldSpawn, ToldWriter
       DEF Next, UiStep, ReaderStep, WriterStep
<1>2. CASE UNCHANGED vars
  BY <1>2 DEF vars, ToldInv, HasEnd, Offered, Past
<1> QED BY <1>1, <1>2

(* Nothing waits for a close that has come and gone.                       *)
CloseReachesAll ==
  /\ at["reader"] = "done" \/ at["writer"] = "done" => closed
  /\ closed /\ (\A th \in Thread : at[th] \notin Closing) =>
       /\ told = 1
       /\ at["writer"] = "take" => HasEnd
       /\ link = "open" => early

(* A thread ends only behind a close, and once no thread is inside close() *)
(* the activity has been told, a writer that waits for a message has the   *)
(* empty array before it, and the connection is closed, unless the close   *)
(* found no socket: whatever the three threads were doing.                 *)
THEOREM ConnectionCloseReachesAll == Spec => []CloseReachesAll
<1>1. Init => ToldInv
  <2> SUFFICES ASSUME Init PROVE ToldInv
    OBVIOUS
  <2>1. \A th \in Thread : at[th] \in {"idle", "connect", "none"}
    BY DEF Init, Thread
  <2>2. at["reader"] = "connect" /\ at["writer"] = "none"
    BY DEF Init
  <2>3. closed = FALSE /\ socket = FALSE /\ link = "none" /\ told = 0 /\ ~HasEnd
    BY DEF Init, HasEnd
  <2> QED BY <2>1, <2>2, <2>3 DEF ToldInv, Offered, Past, Closing
<1>2. IInv /\ ToldInv => CloseReachesAll
  <2> SUFFICES ASSUME IInv, ToldInv, closed, \A th \in Thread : at[th] \notin Closing
               PROVE  /\ told = 1
                      /\ at["writer"] = "take" => HasEnd
                      /\ link = "open" => early
    BY DEF CloseReachesAll, ToldInv
  <2>1. told = 1
    BY DEF ToldInv, IInv, CloseInv, ToldOnce, TypeOK
  <2> QED BY <2>1 DEF ToldInv, Offered, Past
<1> QED BY <1>1, <1>2, InitGood, InvariantKept, ToldKept, PTL DEF Spec
=============================================================================
