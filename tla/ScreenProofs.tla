---------------------------- MODULE ScreenProofs ----------------------------
(* Proofs about the second-screen part of a session, for every number of   *)
(* attempts, polls and compositor events: the safety of the start and of   *)
(* both ways out, and that it implements Service.                          *)
EXTENDS Screen, SequenceTheorems, TLAPS

Early  == {"name", "scale", "mode", "add", "switch", "launch", "poll"}
Late   == {"mapPen", "mapTouch", "serve"}
Ending == {"teardown", "unwind"}

(* What the main thread holds where. *)
HeldInv ==
  /\ held \subseteq Part /\ main \in Place
  /\ main \in {"idle", "wait"} => held = {}
  /\ main \in Early => held = {"vo"}
  /\ main = "pen"   => held = {"vo", "encoder"}
  /\ main = "touch" => held = {"vo", "encoder", "pen"} /\ WithTouch = TRUE
  /\ main \in Late   => "vo" \in held
  /\ main \in Ending => "vo" \in held
  /\ "touch" \in held => WithTouch = TRUE

(* One pipeline plays from the launch to the end of its encoder. *)
PipeInv ==
  pipes = IF main = "poll" \/ "encoder" \in held THEN 1 ELSE 0

(* As long as nothing was warned about, and under a name that is ours      *)
(* alone, each step of kde.rs has done what it is for or failed silently.  *)
Scaled  == Place \ {"idle", "wait", "name", "scale", "teardown", "unwind"}
Moded   == Scaled \ {"mode", "add", "switch"}
Dealt   == conf \cup silent
QuietInv ==
  warned = FALSE /\ named = "ours" =>
    /\ main \in Scaled => "scale" \in Dealt
    /\ main \in Moded  => "mode" \in Dealt
    /\ main \in {"mapTouch", "serve"} => "pen" \in Dealt
    /\ main = "serve" /\ WithTouch = TRUE => "touch" \in Dealt

FlagInv ==
  /\ warned \in BOOLEAN /\ named \in Naming /\ stale \in BOOLEAN
  /\ silent \subseteq Wish

IInv == HeldInv /\ PipeInv /\ FlagInv /\ QuietInv

LEMMA InitGood == Init => IInv
BY DEF Init, IInv, HeldInv, PipeInv, FlagInv, QuietInv, Place, Part, Early, Late,
       Ending, Scaled, Moded, Naming

LEMMA WithTouchFact == WithTouch \in BOOLEAN
BY BoundsAssumption

LEMMA HeldStep == IInv /\ [Next]_vars => HeldInv'
<1> SUFFICES ASSUME IInv, [Next]_vars PROVE HeldInv'
  OBVIOUS
<1> USE DEF IInv, HeldInv, Place, Part, Early, Late, Ending, Goto
<1>1. CASE Ask
  BY <1>1 DEF Ask
<1>2. CASE AwaitNode
  BY <1>2 DEF AwaitNode, Verdict
<1>3. CASE NameFound \/ NameMissing
  BY <1>3 DEF NameFound, NameMissing, Found, Retry, GiveUp
<1>4. CASE SetScale \/ QueryMode
  BY <1>4 DEF SetScale, QueryMode
<1>5. CASE ChangeMode("add", "listed", "switch") \/ ChangeMode("switch", "mode", "launch")
  BY <1>5 DEF ChangeMode
<1>6. CASE Launch \/ PipelineAnswers \/ PipelineTimesOut
  BY <1>6 DEF Launch, PipelineAnswers, PipelineTimesOut, AttemptFails, media
<1>7. CASE AddPen \/ AddTouch
  BY <1>7, WithTouchFact DEF AddPen, AddTouch, AddDevice
<1>8. ASSUME NEW d \in {"pen", "touch"},
             DeviceMapped(d) \/ DeviceSkipped(d) \/ DeviceMissing(d)
      PROVE  HeldInv'
  BY <1>8 DEF DeviceMapped, DeviceSkipped, DeviceMissing, Found, Retry, GiveUp,
               MapPlace, MapNext
<1>9. CASE SeeClosed \/ EndSession
  BY <1>9 DEF SeeClosed, EndSession
<1>10. ASSUME NEW p \in Part, DropPart(p) PROVE HeldInv'
  <2>1. Order \in {Unwind, Rank}
    BY DEF Order
  <2>2. Order["vo"] = 4 /\ \A q \in Part \ {"vo"} : Order[q] \in 1 .. 3
    BY <2>1 DEF Unwind, Rank
  <2>3. p = "vo" => held = {"vo"}
    <3>1. \A q \in held : Order[p] <= Order[q]
      BY <1>10 DEF DropPart
    <3>2. p = "vo" => \A q \in held : q = "vo"
      BY <2>2, <3>1
    <3>. QED BY <1>10, <3>2 DEF DropPart
  <2>. QED BY <1>10, <2>3 DEF DropPart
<1>11. CASE DispatchThread \/ Kwin \/ Tick \/ UNCHANGED vars
  BY <1>11 DEF DispatchThread, Kwin, KwinCreates, KwinRefuses, KwinCloses, KwinOther,
               KwinDies, KwinReleases, KwinClearsStale, client, Tick, vars
<1>. QED BY <1>1, <1>2, <1>3, <1>4, <1>5, <1>6, <1>7, <1>8, <1>9, <1>10, <1>11
            DEF Next, MainStep

LEMMA PipeStep == IInv /\ [Next]_vars => PipeInv'
<1> SUFFICES ASSUME IInv, [Next]_vars PROVE PipeInv'
  OBVIOUS
<1> USE DEF IInv, HeldInv, PipeInv, Early, Late, Ending, Goto, media
<1>1. CASE Ask
  BY <1>1 DEF Ask
<1>2. CASE AwaitNode
  BY <1>2 DEF AwaitNode, Verdict
<1>3. CASE NameFound \/ NameMissing
  BY <1>3 DEF NameFound, NameMissing, Found, Retry, GiveUp
<1>4. CASE SetScale \/ QueryMode
  BY <1>4 DEF SetScale, QueryMode
<1>5. CASE ChangeMode("add", "listed", "switch") \/ ChangeMode("switch", "mode", "launch")
  BY <1>5 DEF ChangeMode
<1>6. CASE Launch \/ PipelineAnswers \/ PipelineTimesOut
  BY <1>6 DEF Launch, PipelineAnswers, PipelineTimesOut, AttemptFails, StopPipe
<1>7. CASE AddPen \/ AddTouch
  BY <1>7 DEF AddPen, AddTouch, AddDevice
<1>8. ASSUME NEW d \in {"pen", "touch"},
             DeviceMapped(d) \/ DeviceSkipped(d) \/ DeviceMissing(d)
      PROVE  PipeInv'
  BY <1>8 DEF DeviceMapped, DeviceSkipped, DeviceMissing, Found, Retry, GiveUp,
               MapPlace, MapNext
<1>9. CASE SeeClosed \/ EndSession
  BY <1>9 DEF SeeClosed, EndSession
<1>10. ASSUME NEW p \in Part, DropPart(p) PROVE PipeInv'
  BY <1>10 DEF DropPart, StopPipe
<1>11. CASE DispatchThread \/ Kwin \/ Tick \/ UNCHANGED vars
  BY <1>11 DEF DispatchThread, Kwin, KwinCreates, KwinRefuses, KwinCloses, KwinOther,
               KwinDies, KwinReleases, KwinClearsStale, client, Tick, vars
<1>. QED BY <1>1, <1>2, <1>3, <1>4, <1>5, <1>6, <1>7, <1>8, <1>9, <1>10, <1>11
            DEF Next, MainStep

LEMMA FlagStep == IInv /\ [Next]_vars => FlagInv'
<1> SUFFICES ASSUME IInv, [Next]_vars PROVE FlagInv'
  OBVIOUS
<1> USE DEF IInv, FlagInv, Naming, desktop
<1>1. CASE Ask \/ AwaitNode
  BY <1>1 DEF Ask, AwaitNode
<1>2. CASE NameFound \/ NameMissing
  BY <1>2 DEF NameFound, NameMissing, Found, Retry, GiveUp
<1>3. CASE SetScale \/ ChangeMode("add", "listed", "switch")
           \/ ChangeMode("switch", "mode", "launch")
  <2>1. /\ UNCHANGED <<named, stale>>
        /\ \E o \in Outcome, x \in Setting : Configure(x, o)
    BY <1>3 DEF SetScale, ChangeMode, Setting, Wish
  <2>2. PICK o \in Outcome, x \in Setting :
          /\ silent' = silent \/ silent' = silent \cup ({x} \cap Wish)
          /\ warned' = (warned \/ ~Kscreen(o))
    BY <2>1 DEF Configure
  <2>. QED BY <2>1, <2>2
<1>4. CASE QueryMode
  BY <1>4 DEF QueryMode
<1>5. CASE Launch \/ PipelineAnswers \/ PipelineTimesOut \/ AddPen \/ AddTouch
  BY <1>5 DEF Launch, PipelineAnswers, PipelineTimesOut, AddPen, AddTouch, AddDevice
<1>6. ASSUME NEW d \in {"pen", "touch"},
             DeviceMapped(d) \/ DeviceSkipped(d) \/ DeviceMissing(d)
      PROVE  FlagInv'
  BY <1>6 DEF Wish, DeviceMapped, DeviceSkipped, DeviceMissing, Found, Retry, GiveUp
<1>7. CASE SeeClosed \/ EndSession \/ \E p \in Part : DropPart(p)
  BY <1>7 DEF SeeClosed, EndSession, DropPart
<1>8. CASE DispatchThread \/ Kwin \/ Tick \/ UNCHANGED vars
  BY <1>8 DEF DispatchThread, Kwin, KwinCreates, KwinRefuses, KwinCloses, KwinOther,
              KwinDies, KwinReleases, KwinClearsStale, client, Tick, vars
<1>. QED BY <1>1, <1>2, <1>3, <1>4, <1>5, <1>6, <1>7, <1>8 DEF Next, MainStep

(* A call that is not warned about has made the setting of the one output  *)
(* that has the name, or has failed silently.                              *)
LEMMA ConfigureFacts ==
  ASSUME FlagInv, NEW x \in Setting, NEW o \in Outcome, Configure(x, o)
  PROVE  /\ Dealt \subseteq Dealt'
         /\ warned' = FALSE => warned = FALSE /\ Kscreen(o)
         /\ warned' = FALSE /\ named = "ours" /\ x \in Wish => x \in Dealt'
<1>1. warned' = FALSE => warned = FALSE /\ Kscreen(o)
  BY DEF Configure, FlagInv
<1>2. conf \subseteq conf' /\ silent \subseteq silent'
  BY DEF Configure, Made, FlagInv, Naming
<1>3. named = "ours" /\ x \in Wish /\ Kscreen(o) => x \in conf' \/ x \in silent'
  BY DEF Configure, Made, Kscreen
<1>. QED BY <1>1, <1>2, <1>3 DEF Dealt

LEMMA QuietStep == IInv /\ [Next]_vars => QuietInv'
<1> SUFFICES ASSUME IInv, [Next]_vars PROVE QuietInv'
  OBVIOUS
<1> USE DEF IInv, FlagInv, QuietInv, Dealt, Place, Scaled, Moded, Goto, desktop
<1>1. CASE Ask
  BY <1>1 DEF Ask
<1>2. CASE AwaitNode
  BY <1>2 DEF AwaitNode, Verdict
<1>3. CASE NameFound \/ NameMissing
  BY <1>3 DEF NameFound, NameMissing, Found, Retry, GiveUp
<1>4. CASE SetScale
  <2>1. PICK o \in Outcome : Configure("scale", o)
    BY <1>4 DEF SetScale
  <2>2. /\ warned' = FALSE => warned = FALSE
        /\ warned' = FALSE /\ named = "ours" => "scale" \in Dealt'
    <3>1. FlagInv /\ "scale" \in Setting /\ "scale" \in Wish
      BY DEF Setting, Wish
    <3>. HIDE DEF IInv, FlagInv, QuietInv, Dealt
    <3>. QED BY <2>1, <3>1, ConfigureFacts
  <2>3. main = "scale" /\ main' = "mode" /\ named' = named
    BY <1>4 DEF SetScale
  <2>. QED BY <2>2, <2>3
<1>5. CASE QueryMode
  <2>1. /\ main = "mode" /\ UNCHANGED desktop
        /\ main' \in {"launch", "switch", "add"}
        /\ main' = "launch" /\ named = "ours" => "mode" \in conf
    BY <1>5 DEF QueryMode, Outputs
  <2>2. "scale" \in Dealt' <=> "scale" \in Dealt
    BY <2>1
  <2>. QED BY <2>1, <2>2
<1>6. CASE ChangeMode("add", "listed", "switch") \/ ChangeMode("switch", "mode", "launch")
  <2>1. PICK o \in Outcome, step \in {"add", "switch"}, x \in Setting :
          /\ main = step /\ named' = named /\ Configure(x, o)
          /\ step = "switch" => x = "mode"
          /\ main' = IF Kscreen(o) /\ step = "add" THEN "switch" ELSE "launch"
    BY <1>6 DEF ChangeMode, Setting, Wish
  <2>2. /\ warned' = FALSE => warned = FALSE /\ Kscreen(o)
        /\ Dealt \subseteq Dealt'
        /\ warned' = FALSE /\ named = "ours" /\ step = "switch" => "mode" \in Dealt'
    <3>1. FlagInv /\ "mode" \in Wish
      BY DEF Wish
    <3>. HIDE DEF IInv, FlagInv, QuietInv, Dealt
    <3>. QED BY <2>1, <3>1, ConfigureFacts
  <2>. QED BY <2>1, <2>2
<1>7. CASE Launch \/ PipelineAnswers \/ PipelineTimesOut
  BY <1>7 DEF Launch, PipelineAnswers, PipelineTimesOut, AttemptFails
<1>8. CASE AddPen \/ AddTouch
  BY <1>8 DEF AddPen, AddTouch, AddDevice
<1>9. ASSUME NEW d \in {"pen", "touch"},
             DeviceMapped(d) \/ DeviceSkipped(d) \/ DeviceMissing(d)
      PROVE  QuietInv'
  BY <1>9, WithTouchFact
     DEF Made, Naming, DeviceMapped, DeviceSkipped, DeviceMissing, Found, Retry, GiveUp,
         MapPlace, MapNext
<1>10. CASE SeeClosed \/ EndSession
  BY <1>10 DEF SeeClosed, EndSession
<1>11. ASSUME NEW p \in Part, DropPart(p) PROVE QuietInv'
  BY <1>11 DEF DropPart
<1>12. CASE DispatchThread \/ Kwin \/ Tick \/ UNCHANGED vars
  BY <1>12 DEF DispatchThread, Kwin, KwinCreates, KwinRefuses, KwinCloses, KwinOther,
               KwinDies, KwinReleases, KwinClearsStale, client, Tick, vars
<1>. QED BY <1>1, <1>2, <1>3, <1>4, <1>5, <1>6, <1>7, <1>8, <1>9, <1>10, <1>11, <1>12
            DEF Next, MainStep

LEMMA Inductive == IInv /\ [Next]_vars => IInv'
BY HeldStep, PipeStep, FlagStep, QuietStep DEF IInv

-----------------------------------------------------------------------------
(* KWin's side and the reader of its events.  The types of what KwinInv    *)
(* speaks of, and the counters of the start.                               *)

WaylandTypes ==
  /\ shared \subseteq Event /\ thread \in {"none", "running", "ended"}
  /\ kwin \in {"none", "asked", "shown", "gone"} /\ events \in Seq(Event)
  /\ lost \in BOOLEAN

WalkTypes ==
  /\ late \in BOOLEAN /\ tries \in 0 .. MaxTries - 1
  /\ others \in 0 .. MaxOther /\ conf \subseteq Setting
  /\ left \in 0 .. Attempts
  /\ main \in {"launch", "poll"} => left # 0

Arrives(e) == \E i \in DOMAIN events : events[i] = e
Sent(e)    == e \in shared \/ Arrives(e)

(* A monitor that is held has a thread that reads its events, unless there *)
(* will be no more of them or the last one has been read.                  *)
ThreadInv ==
  "vo" \in held => /\ "created" \in shared
                   /\ thread = "running" \/ IsClosed \/ (lost /\ events = <<>>)

(* KWin's side of the stream is gone because it has said so, as long as    *)
(* somebody wants it and the connection is there.                          *)
KwinInv ==
  /\ kwin \in {"none", "asked"} => ~Sent("created") /\ ~Sent("failed") /\ ~Sent("closed")
  /\ Sent("created") => ~Sent("failed")
  /\ Wanted /\ kwin = "gone" /\ ~lost => Sent("failed") \/ Sent("closed")

WInv == WaylandTypes /\ WalkTypes /\ ThreadInv /\ KwinInv

LEMMA WorldInit == Init => WInv
<1> SUFFICES ASSUME Init PROVE WInv
  OBVIOUS
<1>1. /\ held = {} /\ shared = {} /\ thread = "none" /\ kwin = "none"
      /\ lost = FALSE /\ late = FALSE /\ left = 0 /\ tries = 0 /\ others = 0
      /\ conf = {} /\ main = "idle"
  BY DEF Init
<1>2. events \in Seq(Event) /\ DOMAIN events = {}
  BY DEF Init
<1>3. WaylandTypes
  BY <1>1, <1>2, Zenon DEF WaylandTypes
<1>4. WalkTypes
  <2>1. tries \in 0 .. MaxTries - 1 /\ others \in 0 .. MaxOther /\ left \in 0 .. Attempts
    BY <1>1, BoundsAssumption
  <2>. QED BY <1>1, <2>1 DEF WalkTypes
<1>5. ThreadInv /\ KwinInv
  BY <1>1, <1>2 DEF ThreadInv, KwinInv, Sent, Arrives
<1>. QED BY <1>3, <1>4, <1>5 DEF WInv

(* A batch moves events from the wire to the record and leaves nothing     *)
(* out but those about something else.                                     *)
LEMMA DispatchFacts ==
  ASSUME WaylandTypes, Dispatch
  PROVE  /\ events' \in Seq(Event) /\ shared \subseteq shared' /\ shared' \subseteq Event
         /\ \A e \in Event \ {"other"} :
              (e \in shared' \/ \E i \in DOMAIN events' : events'[i] = e) <=> Sent(e)
<1>1. PICK n \in 1 .. Len(events) :
        /\ events' = SubSeq(events, n + 1, Len(events))
        /\ shared' = shared \cup ({events[i] : i \in 1 .. n} \ {"other"})
  BY DEF Dispatch
<1>2. /\ events \in Seq(Event) /\ Len(events) \in Nat /\ n \in Nat
      /\ DOMAIN events = 1 .. Len(events) /\ n <= Len(events) /\ 1 <= n
  BY <1>1, LenProperties DEF WaylandTypes
<1>3. /\ events' \in Seq(Event) /\ Len(events') = Len(events) - n
      /\ DOMAIN events' = 1 .. Len(events) - n
      /\ \A i \in 1 .. Len(events) - n : events'[i] = events[n + i]
  <2>1. /\ n + 1 \in Int /\ Len(events) \in Int
        /\ \A i \in n + 1 .. Len(events) : events[i] \in Event
    <3>1. ASSUME NEW i \in n + 1 .. Len(events) PROVE events[i] \in Event
      <4>1. i \in 1 .. Len(events)
        BY <1>2
      <4>. QED BY <1>2, <4>1, ElementOfSeq
    <3>. QED BY <1>2, <3>1
  <2>2. /\ events' \in Seq(Event)
        /\ Len(events') = IF n + 1 <= Len(events) THEN Len(events) - (n + 1) + 1 ELSE 0
        /\ \A i \in 1 .. Len(events) - (n + 1) + 1 : events'[i] = events[n + 1 + i - 1]
    BY <1>1, <2>1, SubSeqProperties
  <2>3. Len(events) - (n + 1) + 1 = Len(events) - n
        /\ \A i \in 1 .. Len(events) - n : n + 1 + i - 1 = n + i
    BY <1>2
  <2>4. DOMAIN events' = 1 .. Len(events')
    BY <2>2, LenProperties
  <2>5. Len(events') = Len(events) - n
    <3>1. Len(events') = IF n + 1 <= Len(events) THEN Len(events) - (n + 1) + 1 ELSE 0
      BY <2>2
    <3>2. CASE n + 1 <= Len(events)
      <4>1. Len(events') = Len(events) - (n + 1) + 1
        BY <3>1, <3>2
      <4>. QED BY <2>3, <4>1
    <3>3. CASE ~(n + 1 <= Len(events))
      <4>1. Len(events') = 0
        BY <3>1, <3>3
      <4>2. ASSUME NEW k \in Nat, n <= k, ~(n + 1 <= k) PROVE k - n = 0
        BY <1>2, <4>2
      <4>3. Len(events) - n = 0
        BY <1>2, <3>3, <4>2
      <4>. QED BY <4>1, <4>3
    <3>. QED BY <3>2, <3>3
  <2>. QED BY <2>2, <2>3, <2>4, <2>5
<1>4. ASSUME NEW i \in 1 .. n PROVE events[i] \in Event
  <2>1. i \in 1 .. Len(events)
    BY <1>2
  <2>. QED BY <1>2, <2>1, ElementOfSeq
<1>5. shared \subseteq shared' /\ shared' \subseteq Event
  BY <1>1, <1>4 DEF WaylandTypes
<1>6. ASSUME NEW e \in Event \ {"other"}
      PROVE  (e \in shared' \/ \E i \in DOMAIN events' : events'[i] = e) <=> Sent(e)
  <2>1. ASSUME NEW i \in DOMAIN events', events'[i] = e PROVE Arrives(e)
    <3>1. n + i \in DOMAIN events /\ events[n + i] = e
      BY <1>2, <1>3, <2>1
    <3>. QED BY <3>1 DEF Arrives
  <2>2. ASSUME NEW i \in DOMAIN events, events[i] = e
        PROVE  e \in shared' \/ \E j \in DOMAIN events' : events'[j] = e
    <3>1. CASE i <= n
      BY <1>1, <1>2, <2>2, <3>1
    <3>2. CASE i > n
      <4>1. i - n \in DOMAIN events' /\ events'[i - n] = e
        BY <1>2, <1>3, <2>2, <3>2
      <4>. QED BY <4>1
    <3>. QED BY <1>2, <3>1, <3>2
  <2>3. e \in shared' => Sent(e)
    BY <1>1, <1>2 DEF Sent, Arrives
  <2>. QED BY <1>5, <2>1, <2>2, <2>3 DEF Sent, Arrives
<1>. QED BY <1>3, <1>5, <1>6

(* One more event is on its way. *)
LEMMA TellFacts ==
  ASSUME WaylandTypes, NEW e \in Event, Tell(e)
  PROVE  /\ events' \in Seq(Event) /\ events' # <<>>
         /\ \A x \in Event : (\E i \in DOMAIN events' : events'[i] = x) <=> x = e \/ Arrives(x)
<1>1. events \in Seq(Event) /\ events' = Append(events, e)
  BY DEF WaylandTypes, Tell
<1>2. /\ events' \in Seq(Event) /\ Len(events') = Len(events) + 1 /\ Len(events) \in Nat
      /\ DOMAIN events = 1 .. Len(events) /\ DOMAIN events' = 1 .. Len(events) + 1
      /\ events'[Len(events) + 1] = e
      /\ \A i \in 1 .. Len(events) : events'[i] = events[i]
  BY <1>1, AppendProperties, LenProperties
<1>3. ASSUME NEW x \in Event
      PROVE  (\E i \in DOMAIN events' : events'[i] = x) <=> x = e \/ Arrives(x)
  <2>1. (\E i \in DOMAIN events' : events'[i] = x) => x = e \/ Arrives(x)
    BY <1>2 DEF Arrives
  <2>2. x = e => \E i \in DOMAIN events' : events'[i] = x
    BY <1>2
  <2>3. Arrives(x) => \E i \in DOMAIN events' : events'[i] = x
    BY <1>2 DEF Arrives
  <2>. QED BY <2>1, <2>2, <2>3
<1>4. events' # <<>>
  BY <1>2, EmptySeq
<1>. QED BY <1>2, <1>3, <1>4

(* What the main thread does between two waits says nothing of KWin.       *)
LEMMA WorldKept ==
  ASSUME WInv, UNCHANGED wayland, "vo" \in held' => "vo" \in held,
         main' # "wait"
  PROVE  WaylandTypes' /\ ThreadInv' /\ KwinInv'
<1>1. WaylandTypes'
  BY DEF wayland, WInv, WaylandTypes
<1>2. Wanted' => Wanted
  BY DEF Wanted
<1>3. \A e : Sent(e)' = Sent(e)
  BY DEF wayland, Sent, Arrives
<1>4. KwinInv'
  BY <1>2, <1>3 DEF wayland, WInv, KwinInv
<1>5. ThreadInv'
  BY DEF wayland, WInv, ThreadInv, IsClosed
<1>. QED BY <1>1, <1>4, <1>5

LEMMA TriesFacts ==
  ASSUME WInv
  PROVE  /\ 0 \in 0 .. MaxTries - 1 /\ Attempts \in 0 .. Attempts /\ Attempts # 0
         /\ tries + 1 < MaxTries => tries + 1 \in 0 .. MaxTries - 1
BY BoundsAssumption DEF WInv, WalkTypes

LEMMA StartWalk ==
  ASSUME IInv, WInv,
         \/ NameFound \/ NameMissing \/ SetScale \/ QueryMode
         \/ ChangeMode("add", "listed", "switch") \/ ChangeMode("switch", "mode", "launch")
         \/ DeviceMapped("pen") \/ DeviceMapped("touch")
         \/ DeviceSkipped("pen") \/ DeviceSkipped("touch")
         \/ DeviceMissing("pen") \/ DeviceMissing("touch")
  PROVE  WalkTypes' /\ UNCHANGED wayland /\ held' = held /\ main' # "wait"
<1> DEFINE Moves ==
      /\ UNCHANGED <<wayland, held, late>> /\ main' \notin {"wait", "poll"}
      /\ tries' \in {tries, 0} \/ (tries + 1 < MaxTries /\ tries' = tries + 1)
      /\ conf' \subseteq conf \cup Setting
      /\ left' = Attempts \/ (left' = left /\ main' # "launch")
<1>1. Moves
  <2> USE DEF Setting, Wish, Goto, media, desktop
  <2>1. CASE NameFound \/ NameMissing
    BY <2>1 DEF NameFound, NameMissing, Found, Retry, GiveUp
  <2>2. CASE SetScale \/ QueryMode
    BY <2>2 DEF SetScale, QueryMode, Configure, Made
  <2>3. CASE ChangeMode("add", "listed", "switch") \/ ChangeMode("switch", "mode", "launch")
    BY <2>3 DEF ChangeMode, Configure, Made
  <2>4. ASSUME NEW d \in {"pen", "touch"},
               DeviceMapped(d) \/ DeviceSkipped(d) \/ DeviceMissing(d)
        PROVE  Moves
    BY <2>4 DEF Made, DeviceMapped, DeviceSkipped, DeviceMissing, Found, Retry, GiveUp,
                 MapPlace, MapNext
  <2>. QED BY <2>1, <2>2, <2>3, <2>4
<1>2. tries' \in 0 .. MaxTries - 1
  BY <1>1, TriesFacts DEF WInv, WalkTypes
<1>3. left' \in 0 .. Attempts /\ (main' \in {"launch", "poll"} => left' # 0)
  BY <1>1, TriesFacts DEF WInv, WalkTypes
<1>4. /\ conf' \subseteq Setting /\ late' \in BOOLEAN /\ others' = others
      /\ UNCHANGED wayland /\ held' = held /\ main' # "wait"
  BY <1>1 DEF WInv, WalkTypes, wayland
<1>. QED BY <1>2, <1>3, <1>4 DEF WInv, WalkTypes

LEMMA AttemptStep ==
  ASSUME WInv, main \in {"launch", "poll"}, AttemptFails
  PROVE  left' \in 0 .. Attempts /\ (main' \in {"launch", "poll"} => left' # 0) /\ main' # "wait"
<1>1. left \in 1 .. Attempts
  BY BoundsAssumption DEF WInv, WalkTypes
<1>. QED BY <1>1, BoundsAssumption DEF AttemptFails, Goto

LEMMA EncoderWalk ==
  ASSUME IInv, WInv,
         \/ Launch \/ PipelineAnswers \/ PipelineTimesOut \/ AddPen \/ AddTouch
         \/ SeeClosed \/ EndSession \/ \E p \in Part : DropPart(p)
  PROVE  /\ WalkTypes' /\ UNCHANGED wayland /\ main' # "wait"
         /\ "vo" \in held' => "vo" \in held
<1>1. CASE Launch \/ PipelineAnswers \/ PipelineTimesOut
  <2>1. /\ UNCHANGED <<wayland, tries, desktop>> /\ main \in {"launch", "poll"}
        /\ late' = FALSE \/ late' = late
        /\ held' = held \/ held' = held \cup {"encoder"}
        /\ AttemptFails \/ (left' = left /\ main' \in {"poll", "pen"})
    BY <1>1 DEF Launch, PipelineAnswers, PipelineTimesOut, Goto, media
  <2>2. left' \in 0 .. Attempts /\ (main' \in {"launch", "poll"} => left' # 0) /\ main' # "wait"
    BY <2>1, AttemptStep DEF WInv, WalkTypes
  <2>3. others' = others /\ conf' = conf /\ late' \in BOOLEAN
    BY <2>1 DEF wayland, desktop, WInv, WalkTypes
  <2>. QED BY <2>1, <2>2, <2>3 DEF WInv, WalkTypes
<1>2. CASE AddPen \/ AddTouch \/ SeeClosed \/ EndSession
  <2>1. /\ UNCHANGED <<wayland, late, media, tries, desktop>>
        /\ main' \notin {"wait", "launch", "poll"}
        /\ held' = held \/ held' = held \cup {"pen"} \/ held' = held \cup {"touch"}
    BY <1>2 DEF AddPen, AddTouch, AddDevice, SeeClosed, EndSession, Goto
  <2>. QED BY <2>1 DEF wayland, media, desktop, WInv, WalkTypes
<1>3. ASSUME NEW p \in Part, DropPart(p)
      PROVE  /\ WalkTypes' /\ UNCHANGED wayland /\ main' # "wait"
             /\ "vo" \in held' => "vo" \in held
  <2>1. /\ UNCHANGED <<wayland, late, left, tries, desktop>>
        /\ main' \notin {"wait", "launch", "poll"} /\ held' = held \ {p}
    BY <1>3 DEF DropPart, Goto
  <2>. QED BY <2>1 DEF wayland, desktop, WInv, WalkTypes
<1>. QED BY <1>1, <1>2, <1>3

LEMMA AskStep ==
  ASSUME IInv, WInv, Ask
  PROVE  WInv'
<1>1. /\ kwin' = "asked" /\ shared' = {} /\ thread' = "none" /\ events' = <<>>
      /\ lost' = FALSE /\ others' = 0 /\ late' = FALSE /\ tries' = 0
      /\ conf' \subseteq conf /\ main' = "wait" /\ left' = left
      /\ held = {} /\ held' = {}
  BY DEF Ask, Goto, media, IInv, HeldInv
<1>2. events' \in Seq(Event) /\ DOMAIN events' = {}
  BY <1>1
<1>3. WaylandTypes'
  BY <1>1, <1>2, Zenon DEF WaylandTypes
<1>4. WalkTypes'
  <2>1. tries' \in 0 .. MaxTries - 1 /\ others' \in 0 .. MaxOther
    BY <1>1, BoundsAssumption
  <2>. QED BY <1>1, <2>1 DEF WInv, WalkTypes
<1>5. ThreadInv' /\ KwinInv'
  BY <1>1, <1>2 DEF ThreadInv, KwinInv, Sent, Arrives
<1>. QED BY <1>3, <1>4, <1>5 DEF WInv

(* A batch tells nothing that KWin has not sent.                           *)
LEMMA ReadStep ==
  ASSUME WInv, Dispatch, UNCHANGED <<kwin, lost>>, Wanted' => Wanted
  PROVE  /\ KwinInv' /\ shared \subseteq shared' /\ shared' \subseteq Event
         /\ events' \in Seq(Event)
<1>1. WaylandTypes
  BY DEF WInv
<1>2. /\ events' \in Seq(Event) /\ shared \subseteq shared' /\ shared' \subseteq Event
      /\ \A e \in {"created", "failed", "closed"} :
           (e \in shared' \/ \E i \in DOMAIN events' : events'[i] = e) <=> Sent(e)
  BY <1>1, DispatchFacts DEF Event
<1>3. /\ Sent("created")' <=> Sent("created")
      /\ Sent("failed")' <=> Sent("failed")
      /\ Sent("closed")' <=> Sent("closed")
  BY <1>2 DEF Sent, Arrives
<1>4. KwinInv'
  BY <1>3 DEF WInv, KwinInv
<1>. QED BY <1>2, <1>4

LEMMA AwaitStep ==
  ASSUME IInv, WInv, AwaitNode
  PROVE  WInv'
<1>1. /\ main = "wait" /\ held = {}
      /\ UNCHANGED <<late, left, pipes, tries, desktop, kwin, lost, others>>
  BY DEF AwaitNode, media, IInv, HeldInv
<1>2. CASE Dispatch
  <2>1. main' \in {"name", "idle", "wait"}
    BY <1>1, <1>2 DEF AwaitNode, Verdict, Goto
  <2>2. /\ main' = "name" => "created" \in shared' /\ thread' = "running"
        /\ main' # "name" => held' = {}
        /\ thread' \in {thread, "running"}
    BY <1>1, <1>2 DEF AwaitNode, Verdict, Goto
  <2>3. /\ KwinInv' /\ shared \subseteq shared' /\ shared' \subseteq Event
        /\ events' \in Seq(Event)
    BY <1>1, <1>2, ReadStep DEF Wanted
  <2>4. WaylandTypes'
    BY <1>1, <2>2, <2>3 DEF WInv, WaylandTypes
  <2>5. WalkTypes'
    BY <1>1, <2>1 DEF desktop, WInv, WalkTypes
  <2>6. ThreadInv'
    BY <2>2 DEF ThreadInv
  <2>. QED BY <2>3, <2>4, <2>5, <2>6 DEF WInv
<1>3. CASE lost /\ events = <<>> /\ Goto("idle") /\ UNCHANGED <<events, shared, held, thread>>
  <2>1. WaylandTypes' /\ WalkTypes'
    BY <1>1, <1>3 DEF Goto, desktop, WInv, WaylandTypes, WalkTypes
  <2>2. ThreadInv' /\ KwinInv'
    BY <1>1, <1>3 DEF Goto, Wanted, WInv, ThreadInv, KwinInv, Sent, Arrives
  <2>. QED BY <2>1, <2>2 DEF WInv
<1>. QED BY <1>2, <1>3 DEF AwaitNode

LEMMA ThreadStep ==
  ASSUME WInv, DispatchThread
  PROVE  WInv'
<1>1. UNCHANGED <<main, held, late, left, pipes, tries, desktop, kwin, lost, others>>
  BY DEF DispatchThread, media
<1>2. WalkTypes'
  BY <1>1 DEF desktop, WInv, WalkTypes
<1>3. CASE Dispatch /\ thread' = IF "closed" \in shared' THEN "ended" ELSE "running"
  <2>1. /\ KwinInv' /\ shared \subseteq shared' /\ shared' \subseteq Event
        /\ events' \in Seq(Event)
    BY <1>1, <1>3, ReadStep DEF Wanted
  <2>2. WaylandTypes'
    BY <1>1, <1>3, <2>1 DEF WInv, WaylandTypes
  <2>3. ThreadInv'
    BY <1>1, <1>3, <2>1 DEF WInv, ThreadInv, IsClosed
  <2>. QED BY <1>2, <2>1, <2>2, <2>3 DEF WInv
<1>4. CASE lost /\ events = <<>> /\ thread' = "ended" /\ UNCHANGED <<events, shared>>
  <2>1. WaylandTypes' /\ ThreadInv' /\ KwinInv'
    BY <1>1, <1>4 DEF WInv, WaylandTypes, ThreadInv, KwinInv, Wanted, Sent, Arrives
  <2>. QED BY <1>2, <2>1 DEF WInv
<1>. QED BY <1>3, <1>4 DEF DispatchThread

LEMMA KwinStep ==
  ASSUME WInv, Kwin
  PROVE  WInv'
<1>1. UNCHANGED <<main, held, shared, thread, late, left, tries, conf>>
  BY DEF Kwin, KwinCreates, KwinRefuses, KwinCloses, KwinOther, KwinDies, KwinReleases,
         KwinClearsStale, wayland, client, media, desktop
<1>2. WalkTypes'
  <2>1. others' = others \/ (others < MaxOther /\ others' = others + 1)
    BY DEF Kwin, KwinCreates, KwinRefuses, KwinCloses, KwinOther, KwinDies, KwinReleases,
           KwinClearsStale, wayland
  <2>2. others' \in 0 .. MaxOther
    BY <2>1, BoundsAssumption DEF WInv, WalkTypes
  <2>. QED BY <1>1, <2>2 DEF WInv, WalkTypes
<1>3. ASSUME NEW e \in Event, Tell(e), ~lost, lost' = lost,
             \/ e = "created" /\ kwin = "asked" /\ kwin' = "shown"
             \/ e = "failed"  /\ kwin = "asked" /\ kwin' = "gone"
             \/ e = "closed"  /\ kwin = "shown" /\ kwin' = "gone"
             \/ e = "other"   /\ kwin' = kwin
      PROVE  WaylandTypes' /\ ThreadInv' /\ KwinInv'
  <2>1. /\ events' \in Seq(Event)
        /\ \A x \in {"created", "failed", "closed"} :
             (\E i \in DOMAIN events' : events'[i] = x) <=> x = e \/ Arrives(x)
    BY <1>3, TellFacts DEF WInv, Event
  <2>2. WaylandTypes'
    BY <1>1, <1>3, <2>1 DEF WInv, WaylandTypes
  <2>3. \A x \in {"created", "failed", "closed"} : Sent(x)' <=> x = e \/ Sent(x)
    BY <1>1, <2>1 DEF Sent, Arrives
  <2>4. /\ Sent("created")' <=> e = "created" \/ Sent("created")
        /\ Sent("failed")' <=> e = "failed" \/ Sent("failed")
        /\ Sent("closed")' <=> e = "closed" \/ Sent("closed")
    BY <2>3
  <2>5. Wanted' <=> Wanted
    BY <1>1 DEF Wanted
  <2>6. KwinInv'
    BY <1>3, <2>4, <2>5 DEF WInv, KwinInv
  <2>7. ThreadInv'
    BY <1>1, <1>3 DEF WInv, ThreadInv, IsClosed
  <2>. QED BY <2>2, <2>6, <2>7
<1>4. CASE KwinCreates \/ KwinRefuses \/ KwinCloses \/ KwinOther
  BY <1>2, <1>3, <1>4 DEF KwinCreates, KwinRefuses, KwinCloses, KwinOther, Event, WInv
<1>5. CASE KwinDies
  <2>1. /\ ~lost /\ lost' = TRUE /\ kwin' = "gone" /\ events' = events
    BY <1>5 DEF KwinDies
  <2>2. WaylandTypes' /\ ThreadInv' /\ KwinInv'
    BY <1>1, <2>1 DEF WInv, WaylandTypes, ThreadInv, KwinInv, IsClosed, Sent, Arrives
  <2>. QED BY <1>2, <2>2 DEF WInv
<1>6. CASE KwinReleases
  <2>1. ~Wanted /\ kwin' = "gone" /\ UNCHANGED <<events, lost>>
    BY <1>6 DEF KwinReleases
  <2>2. WaylandTypes' /\ ThreadInv' /\ KwinInv'
    BY <1>1, <2>1 DEF WInv, WaylandTypes, ThreadInv, KwinInv, Wanted, Sent, Arrives
  <2>. QED BY <1>2, <2>2 DEF WInv
<1>7. CASE KwinClearsStale
  <2>1. UNCHANGED <<kwin, events, lost>>
    BY <1>7 DEF KwinClearsStale, wayland
  <2>2. WaylandTypes' /\ ThreadInv' /\ KwinInv'
    BY <1>1, <2>1 DEF WInv, WaylandTypes, ThreadInv, KwinInv, Wanted, IsClosed, Sent, Arrives
  <2>. QED BY <1>2, <2>2 DEF WInv
<1>. QED BY <1>4, <1>5, <1>6, <1>7 DEF Kwin

LEMMA WorldInductive == IInv /\ WInv /\ [Next]_vars => WInv'
<1> SUFFICES ASSUME IInv, WInv, [Next]_vars PROVE WInv'
  OBVIOUS
<1>1. ASSUME \/ NameFound \/ NameMissing \/ SetScale \/ QueryMode
             \/ ChangeMode("add", "listed", "switch") \/ ChangeMode("switch", "mode", "launch")
             \/ DeviceMapped("pen") \/ DeviceMapped("touch")
             \/ DeviceSkipped("pen") \/ DeviceSkipped("touch")
         \/ DeviceSkipped("pen") \/ DeviceSkipped("touch")
             \/ DeviceMissing("pen") \/ DeviceMissing("touch")
      PROVE  WInv'
  BY <1>1, StartWalk, WorldKept DEF WInv
<1>2. ASSUME \/ Launch \/ PipelineAnswers \/ PipelineTimesOut \/ AddPen \/ AddTouch
             \/ SeeClosed \/ EndSession \/ \E p \in Part : DropPart(p)
      PROVE  WInv'
  BY <1>2, EncoderWalk, WorldKept DEF WInv
<1>3. CASE Tick \/ UNCHANGED vars
  <2>1. UNCHANGED <<main, held, left, tries, conf, shared, thread, kwin, events, lost, others>>
        /\ (late' = TRUE \/ late' = late)
    BY <1>3 DEF Tick, vars, media, desktop, wayland
  <2>2. WaylandTypes' /\ WalkTypes'
    BY <2>1 DEF WInv, WaylandTypes, WalkTypes
  <2>3. ThreadInv' /\ KwinInv'
    BY <2>1 DEF WInv, ThreadInv, KwinInv, IsClosed, Wanted, Sent, Arrives
  <2>. QED BY <2>2, <2>3 DEF WInv
<1>. QED BY <1>1, <1>2, <1>3, AskStep, AwaitStep, ThreadStep, KwinStep DEF Next, MainStep

-----------------------------------------------------------------------------
(* What Service sees of a step: the phase, the monitor held, KWin's side.  *)
LEMMA StepRefines ==
  ASSUME IInv, IInv', [Next]_vars
  PROVE  Promise!Next \/ UNCHANGED <<servingNow, monitorNow>>
<1> USE DEF Goto, servingNow, monitorNow
<1>1. CASE Ask
  <2>1. servingNow = 0 /\ servingNow' = 1 /\ monitorNow' = "none"
    BY <1>1 DEF Ask, IInv, HeldInv
  <2>. QED BY <2>1 DEF Promise!Next, Promise!Admit
<1>2. CASE AwaitNode
  <2>1. /\ main = "wait" /\ held = {} /\ kwin' = kwin
        /\ \/ main' = "name" /\ held' = {"vo"}
           \/ main' \in {"idle", "wait"} /\ held' = {}
    BY <1>2 DEF AwaitNode, Verdict, IInv, HeldInv
  <2>2. servingNow = 1 /\ monitorNow = "none"
    BY <2>1
  <2>3. CASE main' = "name" /\ held' = {"vo"}
    <3>1. servingNow' = 1 /\ monitorNow' \in {"shown", "gone"}
      BY <2>3
    <3>. QED BY <2>2, <3>1 DEF Promise!Next, Promise!Show
  <2>4. CASE main' = "idle" /\ held' = {}
    <3>1. servingNow' = 0 /\ monitorNow' = "none"
      BY <2>4
    <3>. QED BY <2>2, <3>1 DEF Promise!Next, Promise!Leave
  <2>5. CASE main' = "wait" /\ held' = {}
    BY <2>1, <2>5
  <2>. QED BY <2>1, <2>3, <2>4, <2>5
<1>3. ASSUME NEW p \in Part, DropPart(p)
      PROVE  Promise!Next \/ UNCHANGED <<servingNow, monitorNow>>
  <2>1. main # "idle" /\ "vo" \in held /\ kwin' = kwin /\ held' = held \ {p}
    BY <1>3 DEF DropPart, wayland, IInv, HeldInv, Ending
  <2>2. CASE p = "vo"
    <3>1. "vo" \notin held' /\ held' \subseteq Part
      BY <2>1, <2>2 DEF IInv, HeldInv
    <3>2. main' = "idle"
      <4>1. main' \in {"idle", "teardown", "unwind"}
        BY <1>3 DEF DropPart
      <4>. QED BY <3>1, <4>1 DEF IInv, HeldInv, Ending
    <3>3. servingNow = 1 /\ servingNow' = 0 /\ monitorNow' = "none"
      BY <2>1, <3>1, <3>2
    <3>. QED BY <3>3 DEF Promise!Next, Promise!Leave
  <2>3. CASE p # "vo"
    <3>1. main' # "idle" /\ "vo" \in held'
      BY <1>3, <2>1, <2>3 DEF DropPart
    <3>. QED BY <2>1, <3>1
  <2>. QED BY <2>2, <2>3
<1>4. CASE Kwin
  <2>1. /\ UNCHANGED <<main, held>>
        /\ kwin' = kwin \/ "vo" \notin held \/ kwin # "gone"
    BY <1>4 DEF Kwin, KwinCreates, KwinRefuses, KwinCloses, KwinOther, KwinDies,
                KwinReleases, KwinClearsStale, wayland, client, Wanted
  <2>2. CASE monitorNow' = monitorNow
    BY <2>1, <2>2
  <2>3. CASE monitorNow' # monitorNow
    <3>1. monitorNow = "shown" /\ monitorNow' = "gone" /\ servingNow' = servingNow
      BY <2>1, <2>3
    <3>. QED BY <3>1 DEF Promise!Next, Promise!Vanish
  <2>. QED BY <2>2, <2>3
<1>5. CASE \/ NameFound \/ NameMissing \/ SetScale \/ QueryMode
           \/ ChangeMode("add", "listed", "switch") \/ ChangeMode("switch", "mode", "launch")
           \/ Launch \/ PipelineAnswers \/ PipelineTimesOut \/ AddPen \/ AddTouch
           \/ DeviceMapped("pen") \/ DeviceMapped("touch")
         \/ DeviceSkipped("pen") \/ DeviceSkipped("touch")
           \/ DeviceMissing("pen") \/ DeviceMissing("touch")
           \/ SeeClosed \/ EndSession
  <2>1. main # "idle" /\ main' # "idle" /\ kwin' = kwin
        /\ (held' = held \/ \E p \in {"encoder", "pen", "touch"} : held' = held \cup {p})
    BY <1>5 DEF NameFound, NameMissing, Found, Retry, GiveUp, SetScale, QueryMode,
       ChangeMode, Launch, PipelineAnswers, PipelineTimesOut, AttemptFails, AddPen,
       AddTouch, AddDevice, DeviceMapped, DeviceSkipped, DeviceMissing, MapPlace, MapNext,
       SeeClosed, EndSession, wayland
  <2>. QED BY <2>1
<1>6. CASE DispatchThread \/ Tick \/ UNCHANGED vars
  BY <1>6 DEF DispatchThread, Tick, wayland, vars
<1>. QED BY <1>1, <1>2, <1>3, <1>4, <1>5, <1>6 DEF Next, MainStep

(* At most one pipeline plays, and only while its monitor is held.         *)
THEOREM ScreenOnePipeline == Spec => []OnePipeline
<1>1. IInv => OnePipeline
  BY DEF IInv, HeldInv, PipeInv, OnePipeline, Place, Early, Late, Ending
<1>. QED BY <1>1, InitGood, Inductive, PTL DEF Spec

(* A start without a warning, of a monitor that has its name for itself,   *)
(* has made every setting, those excepted that failed in a way kde.rs and  *)
(* start_screen cannot see, for any number of polls and in any session.    *)
THEOREM ScreenQuietMeansConfigured == Spec => []QuietMeansConfigured
<1>1. IInv => QuietMeansConfigured
  BY DEF IInv, HeldInv, QuietInv, FlagInv, QuietMeansConfigured, Dealt, Place, Scaled, Moded
<1>. QED BY <1>1, InitGood, Inductive, PTL DEF Spec

(* One monitor at most comes of a session, held until the session ends.    *)
THEOREM ScreenImplementsService == Spec => ImplementsService
<1>1. Init => Promise!Init
  BY DEF Init, Promise!Init, servingNow, monitorNow
<1>2. IInv /\ IInv' /\ [Next]_vars => [Promise!Next]_<<servingNow, monitorNow>>
  BY StepRefines
<1>. QED BY <1>1, <1>2, InitGood, Inductive, PTL
         DEF Spec, ImplementsService, Promise!Spec, Promise!svars

(* Every variable keeps its type: no attempt beyond the last is made, no   *)
(* loop of kde.rs polls once more than it should.                          *)
THEOREM ScreenTypeCorrect == Spec => []TypeOK
<1>1. IInv /\ WInv => TypeOK
  <2> SUFFICES ASSUME IInv, WInv PROVE TypeOK
    OBVIOUS
  <2>1. pipes \in 0 .. Attempts
    BY BoundsAssumption DEF IInv, PipeInv
  <2>. QED BY <2>1, Zenon
       DEF IInv, HeldInv, FlagInv, WInv, WaylandTypes, WalkTypes, TypeOK
<1>. QED BY <1>1, InitGood, Inductive, WorldInit, WorldInductive, PTL DEF Spec

(* A session that has lost its monitor knows, or its dispatch thread runs  *)
(* and has the event still to read: nobody but the end of the Wayland      *)
(* connection takes a `closed' away, in the middle of the start either.    *)
MonitorLossNoticed ==
  "vo" \in held /\ kwin = "gone" /\ ~lost =>
    IsClosed \/ (thread = "running" /\ Arrives("closed"))

(* The safety half of ClosedEndsSession, for any number of events.         *)
THEOREM ScreenMonitorLossNoticed == Spec => []MonitorLossNoticed
<1>1. WInv => MonitorLossNoticed
  BY DEF WInv, ThreadInv, KwinInv, MonitorLossNoticed, Wanted, IsClosed, Sent
<1>. QED BY <1>1, InitGood, Inductive, WorldInit, WorldInductive, PTL DEF Spec
=============================================================================
