------------------------------- MODULE Screen -------------------------------
(***************************************************************************)
(* The second-screen part of a session, from the request for a virtual     *)
(* monitor to its release: start_screen of main.rs, VirtualOutput of       *)
(* wayland.rs with its dispatch thread, the calls of kde.rs and            *)
(* Encoder::start of video.rs with its two attempts.  Session treats each  *)
(* part as one step; here are the waits in between, and KWin, which        *)
(* answers when and as it likes, closes the monitor or dies.               *)
(*                                                                         *)
(* A deadline is one bit, `late': it passes at any moment after the wait   *)
(* it belongs to has begun.                                                *)
(***************************************************************************)
EXTENDS Integers, Sequences

CONSTANTS
  Attempts,   \* conversions Encoder::start tries: 2 for "auto", else 1
  WithTouch,  \* ~ --no-touch
  MaxTries,   \* polls of kde.rs (20 for the name, 40 for a device)
  MaxOther    \* bound: events of the compositor that are about something else

ASSUME BoundsAssumption ==
  Attempts \in Nat \ {0} /\ WithTouch \in BOOLEAN /\ MaxTries \in Nat \ {0} /\ MaxOther \in Nat

VARIABLES
  main,       \* where the main thread is
  held,       \* what it has created: "vo", "encoder", "pen", "touch"
  shared,     \* struct Shared: which of created, failed, closed has arrived
  thread,     \* the dispatch thread: "none", "running", "ended"
  late,       \* the deadline of the current wait has passed
  left,       \* attempts of Encoder::start still to make
  pipes,      \* pipelines that have been told to play and not to stop
  tries,      \* polls made by the current loop of kde.rs
  stale,      \* KWin still shows an earlier session's output of our name
  named,      \* what bears output_name: see Naming
  conf,       \* KWin's settings of our monitor that are as asked for: see Setting
  silent,     \* those of Wish whose step failed without a word the code knows
  warned,     \* a warning of kde.rs has been logged in this session
  kwin,       \* its side of the stream: "none", "asked", "shown", "gone"
  events,     \* KWin's events on their way
  lost,       \* the Wayland connection is gone
  others      \* events of the bound used up

vars == <<main, held, shared, thread, late, left, pipes, tries,
          stale, named, conf, silent, warned, kwin, events, lost, others>>

Part  == {"vo", "encoder", "pen", "touch"}
Event == {"created", "failed", "closed", "other"}
Place == {"idle", "wait", "name", "scale", "mode", "add", "switch", "launch", "poll",
          "pen", "touch", "mapPen", "mapTouch", "serve", "teardown", "unwind"}
Wish    == {"scale", "mode", "pen", "touch"}
Setting == Wish \cup {"listed"}            \* the mode is one of the output's
Naming  == {"wrong", "ours", "shared"}     \* "shared": a stale output has it too

TypeOK ==
  /\ main \in Place /\ held \subseteq Part
  /\ shared \subseteq Event /\ thread \in {"none", "running", "ended"}
  /\ late \in BOOLEAN /\ left \in 0 .. Attempts /\ pipes \in 0 .. Attempts
  /\ tries \in 0 .. MaxTries - 1
  /\ stale \in BOOLEAN /\ named \in Naming /\ warned \in BOOLEAN
  /\ conf \subseteq Setting /\ silent \subseteq Wish
  /\ kwin \in {"none", "asked", "shown", "gone"} /\ events \in Seq(Event)
  /\ lost \in BOOLEAN /\ others \in 0 .. MaxOther

Init ==
  /\ main = "idle" /\ held = {} /\ shared = {} /\ thread = "none" /\ late = FALSE
  /\ left = 0 /\ pipes = 0 /\ tries = 0
  /\ stale = FALSE /\ named = "wrong" /\ conf = {} /\ silent = {} /\ warned = FALSE
  /\ kwin = "none" /\ events = <<>> /\ lost = FALSE /\ others = 0

wayland == <<shared, thread, kwin, events, lost, others>>
media   == <<left, pipes>>
desktop == <<stale, named, conf, silent, warned>>
Goto(place) == main' = place

-----------------------------------------------------------------------------
(* VirtualOutput::create. *)

(* A tablet says HELLO: connect, bind the screencast protocol and ask for  *)
(* the stream.  (A size below 64 or no such protocol ends the session      *)
(* before it asks for anything.)  VirtualOutput::drop has not waited for    *)
(* KWin, so the last session's output may be there still.                  *)
Ask ==
  /\ main = "idle"
  /\ stale' = (stale \/ kwin \in {"asked", "shown"})
  /\ kwin' = "asked" /\ shared' = {} /\ thread' = "none" /\ events' = <<>>
  /\ lost' = FALSE /\ others' = 0 /\ late' = FALSE /\ tries' = 0
  /\ named' = "wrong" /\ silent' = {} /\ warned' = FALSE
  /\ conf' \in SUBSET (conf \ {"pen", "touch"})     \* what KWin remembers of it
  /\ "mode" \in conf' => "listed" \in conf'
  /\ Goto("wait")
  /\ UNCHANGED <<held, media>>

(* blocking_dispatch: sleeps until there is an event, hands out a batch.   *)
Dispatch ==
  \E n \in 1 .. Len(events) :
    /\ events' = SubSeq(events, n + 1, Len(events))
    /\ shared' = shared \cup ({events[i] : i \in 1 .. n} \ {"other"})

(* What create makes of a batch, in the order of its tests. *)
Verdict(arrived) ==
  IF "created" \in arrived THEN "name"
  ELSE IF arrived # {} \/ late THEN "idle" ELSE "wait"

(* An error drops the connection, and KWin the stream with it. *)
AwaitNode ==
  /\ main = "wait"
  /\ \/ /\ Dispatch /\ Goto(Verdict(shared'))
        /\ IF main' = "name" THEN held' = {"vo"} /\ thread' = "running"
           ELSE UNCHANGED <<held, thread>>
     \/ /\ lost /\ events = <<>> /\ Goto("idle")
        /\ UNCHANGED <<events, shared, held, thread>>
  /\ UNCHANGED <<late, media, tries, desktop, kwin, lost, others>>

(* The dispatch thread ends when it has seen `closed', and when the        *)
(* connection is lost: then without setting it.                            *)
DispatchThreadOnce ==              \* mutant: one batch, not a loop
  /\ thread = "running" /\ Dispatch /\ thread' = "ended"
  /\ UNCHANGED <<main, held, late, media, tries, desktop, kwin, lost, others>>

DispatchThread ==
  /\ thread = "running"
  /\ \/ /\ Dispatch
        /\ thread' = IF "closed" \in shared' THEN "ended" ELSE "running"
     \/ lost /\ events = <<>> /\ thread' = "ended" /\ UNCHANGED <<events, shared>>
  /\ UNCHANGED <<main, held, late, media, tries, desktop, kwin, lost, others>>

IsClosed == "closed" \in shared

-----------------------------------------------------------------------------
(* kde.rs.  Every failure here is logged and the session goes on.          *)

(* A poll succeeds when KWin has got that far, which is up to KWin.        *)
GiveUp(from, next) == main = from /\ Goto(next) /\ tries' = 0 /\ warned' = TRUE

RetryForever(from, next) ==        \* mutant: polls until it finds
  /\ main = from
  /\ tries' = (tries + 1) % MaxTries /\ UNCHANGED <<main, warned>>

Retry(from, next) ==
  /\ main = from
  /\ IF tries + 1 < MaxTries THEN tries' = tries + 1 /\ UNCHANGED <<main, warned>>
     ELSE GiveUp(from, next)

Found(from, next) == main = from /\ Goto(next) /\ tries' = 0 /\ UNCHANGED warned

(* resolve_output_name: finds the output, or assumes the prefixed name.    *)
(* (--name is not the name of another monitor.)                            *)
NameFound ==
  /\ Found("name", "scale") /\ named' = IF stale THEN "shared" ELSE "ours"
  /\ UNCHANGED <<held, wayland, late, media, stale, conf, silent>>

NameMissing ==
  /\ Retry("name", "scale") /\ named' \in IF main' = "name" THEN {named} ELSE Naming
  /\ UNCHANGED <<held, wayland, late, media, stale, conf, silent>>

(* kscreen: an error shows in the exit status, in what is said, "Unable"   *)
(* or "rror", or not at all.                                               *)
Outcome == {"done", "status", "text", "unsaid"}
KscreenStatus(o) == o # "status"   \* mutant: the exit status alone counts
Kscreen(o)       == o \in {"done", "unsaid"}

(* What a setting made under output_name does to our monitor. *)
Made(setting) ==
  CASE named = "ours"   -> {conf \cup {setting}}
    [] named = "shared" -> {conf, conf \cup {setting}}
    [] OTHER            -> {conf}

Configure(setting, o) ==
  /\ conf'   \in IF o = "done" THEN Made(setting) ELSE {conf}
  /\ silent' = IF o = "unsaid" THEN silent \cup ({setting} \cap Wish) ELSE silent
  /\ warned' = (warned \/ ~Kscreen(o))

SetScale ==
  /\ main = "scale" /\ Goto("mode")
  /\ \E o \in Outcome : (o = "done" => named # "wrong") /\ Configure("scale", o)
  /\ UNCHANGED <<held, wayland, late, media, tries, stale, named>>

(* outputs(): what KWin has under our name, or nothing, when kscreen-doctor *)
(* or its JSON is no good, or the name is wrong.                           *)
Outputs ==
  {{}} \cup CASE named = "ours"   -> {conf}
              [] named = "shared" -> SUBSET {"listed", "mode"}
              [] OTHER            -> {}

(* set_output_mode asks first what the output has. *)
QueryMode ==
  /\ main = "mode"
  /\ \E known \in Outputs :
       /\ IF "mode" \in known THEN Goto("launch") /\ left' = Attempts
          ELSE Goto(IF "listed" \in known THEN "switch" ELSE "add") /\ UNCHANGED left
  /\ UNCHANGED <<held, wayland, late, pipes, tries, desktop>>

(* addCustomMode, then mode, of a mode that is listed; a known error of    *)
(* the first skips the second.                                             *)
ChangeMode(step, result, next) ==
  /\ main = step
  /\ \E o \in Outcome :
       /\ o = "done" => named # "wrong"
       /\ o = "done" /\ step = "switch" /\ named = "ours" => "listed" \in conf
       /\ Configure(result, o)
       /\ Goto(IF Kscreen(o) THEN next ELSE "launch")
       /\ left' = Attempts
  /\ UNCHANGED <<held, wayland, late, pipes, tries, stale, named>>

(* map_device_to_output for the pen and then the touchscreen; KWin takes   *)
(* whatever name it is given.                                              *)
MapNext(d)  == IF d = "pen" /\ WithTouch THEN "mapTouch" ELSE "serve"
MapPlace(d) == IF d = "pen" THEN "mapPen" ELSE "mapTouch"

DeviceMapped(d) ==
  /\ Found(MapPlace(d), MapNext(d))
  /\ conf' \in Made(d)
  /\ UNCHANGED <<held, wayland, late, media, stale, named, silent>>

(* event_node finds no node: `flatten' drops the device, and nobody says so. *)
DeviceSkipped(d) ==
  /\ Found(MapPlace(d), MapNext(d))
  /\ silent' = silent \cup {d}
  /\ UNCHANGED <<held, wayland, late, media, stale, named, conf>>

(* Not there yet, or busctl cannot be run. *)
DeviceMissing(d) ==
  /\ Retry(MapPlace(d), MapNext(d)) \/ GiveUp(MapPlace(d), MapNext(d))
  /\ UNCHANGED <<held, wayland, late, media, stale, named, conf, silent>>

-----------------------------------------------------------------------------
(* Encoder::start. *)

(* An attempt that fails after set_state(Playing) sets its pipeline to     *)
(* Null; one that fails before or in it has nothing playing.               *)
AttemptFails ==
  /\ left' = left - 1
  /\ Goto(IF left = 1 THEN "unwind" ELSE "launch")

Launch ==
  /\ main = "launch"
  /\ \/ pipes' = pipes + 1 /\ late' = FALSE /\ Goto("poll") /\ UNCHANGED left
     \/ AttemptFails /\ UNCHANGED <<pipes, late>>
  /\ UNCHANGED <<held, wayland, tries, desktop>>

KeepPipe == UNCHANGED pipes        \* mutant: the attempt is just given up
StopPipe == pipes' = pipes - 1

(* What the 100 ms loop finds: PLAYING, or an error on the bus or of the   *)
(* state change.                                                           *)
PipelineAnswers ==
  /\ main = "poll"
  /\ \/ Goto("pen") /\ held' = held \cup {"encoder"} /\ UNCHANGED media
     \/ AttemptFails /\ StopPipe /\ UNCHANGED held
  /\ UNCHANGED <<wayland, late, tries, desktop>>

(* "pipeline did not reach PLAYING in time". *)
PipelineTimesOut ==
  /\ main = "poll" /\ late
  /\ AttemptFails /\ StopPipe
  /\ UNCHANGED <<held, wayland, late, tries, desktop>>

-----------------------------------------------------------------------------
(* The input devices: open, describe and create each, or fail anywhere.    *)

AddDevice(d, next) ==
  /\ main = d
  /\ \/ held' = held \cup {d} /\ Goto(next)
     \/ UNCHANGED held /\ Goto("unwind")
  /\ UNCHANGED <<wayland, late, media, tries, desktop>>

AddPen   == AddDevice("pen", IF WithTouch THEN "touch" ELSE "mapPen")
AddTouch == AddDevice("touch", "mapPen")

-----------------------------------------------------------------------------
(* The event loop looks at is_closed on every turn, and ends for a tablet  *)
(* or a tray click of its own accord.                                      *)
EndSession ==
  /\ main = "serve" /\ Goto("teardown")
  /\ UNCHANGED <<held, wayland, late, media, tries, desktop>>

SeeClosed ==
  /\ main = "serve" /\ IsClosed /\ Goto("teardown")
  /\ UNCHANGED <<held, wayland, late, media, tries, desktop>>

RankTouchLast ==                   \* mutant: touch is the last field
  [encoder |-> 1, pen |-> 2, vo |-> 3, touch |-> 4]
Rank     == [encoder |-> 1, pen |-> 2, touch |-> 3, vo |-> 4]    \* struct Screen
Unwind   == [touch |-> 1, pen |-> 2, encoder |-> 3, vo |-> 4]    \* locals, last first
Order    == IF main = "unwind" THEN Unwind ELSE Rank

(* Encoder::drop stops its pipeline, VirtualOutput::drop closes the stream *)
(* and leaves the dispatch thread alone.                                   *)
DropPart(p) ==
  /\ main \in {"teardown", "unwind"}
  /\ p \in held /\ \A q \in held : Order[p] <= Order[q]
  /\ held' = held \ {p}
  /\ IF p = "encoder" THEN StopPipe ELSE UNCHANGED pipes
  /\ IF held = {p} THEN Goto("idle") ELSE UNCHANGED main
  /\ UNCHANGED <<wayland, late, left, tries, desktop>>

-----------------------------------------------------------------------------
(* KWin and the clock. *)

Tell(e) == events' = Append(events, e)
client  == <<main, held, shared, thread, late, media, tries, desktop>>
Wanted  == main = "wait" \/ "vo" \in held

KwinCreates ==
  /\ kwin = "asked" /\ ~lost /\ kwin' = "shown" /\ Tell("created")
  /\ UNCHANGED <<client, lost, others>>

KwinRefuses ==
  /\ kwin = "asked" /\ ~lost /\ kwin' = "gone" /\ Tell("failed")
  /\ UNCHANGED <<client, lost, others>>

KwinCloses ==
  /\ kwin = "shown" /\ ~lost /\ kwin' = "gone" /\ Tell("closed")
  /\ UNCHANGED <<client, lost, others>>

(* A new wl_output is announced to every client, for instance. *)
KwinOther ==
  /\ kwin # "none" /\ ~lost /\ others < MaxOther /\ Wanted
  /\ others' = others + 1 /\ Tell("other")
  /\ UNCHANGED <<client, kwin, lost>>

KwinDies ==
  /\ kwin \in {"asked", "shown"} /\ ~lost
  /\ lost' = TRUE /\ kwin' = "gone"
  /\ UNCHANGED <<client, events, others>>

(* KWin sees the stream closed, or the client gone. *)
KwinReleases ==
  /\ kwin \in {"asked", "shown"} /\ ~Wanted
  /\ kwin' = "gone"
  /\ UNCHANGED <<client, events, lost, others>>

(* The output of an earlier session goes. *)
KwinClearsStale ==
  /\ stale /\ stale' = FALSE
  /\ UNCHANGED <<main, held, late, media, tries, named, conf, silent, warned, wayland>>

Tick ==
  /\ main \in {"wait", "poll"} /\ ~late
  /\ late' = TRUE
  /\ UNCHANGED <<main, held, media, tries, desktop, wayland>>

-----------------------------------------------------------------------------
MainStep ==
  \/ AwaitNode \/ NameMissing \/ SetScale \/ QueryMode
  \/ ChangeMode("add", "listed", "switch") \/ ChangeMode("switch", "mode", "launch")
  \/ Launch \/ PipelineTimesOut \/ AddPen \/ AddTouch
  \/ DeviceMissing("pen") \/ DeviceMissing("touch")
  \/ SeeClosed \/ \E p \in Part : DropPart(p)

Kwin ==
  \/ KwinCreates \/ KwinRefuses \/ KwinCloses \/ KwinOther \/ KwinDies
  \/ KwinReleases \/ KwinClearsStale

Next ==
  \/ MainStep \/ DispatchThread \/ Ask \/ EndSession \/ PipelineAnswers
  \/ NameFound \/ DeviceMapped("pen") \/ DeviceMapped("touch")
  \/ DeviceSkipped("pen") \/ DeviceSkipped("touch")
  \/ Kwin \/ Tick

(* The threads run, the clock goes on, the programs kde.rs calls return.   *)
(* Of KWin one thing only is assumed, that it answers the request: the     *)
(* deadline of create does not help when it is silent.  Neither GStreamer  *)
(* nor the tablet owes anything.                                           *)
Fairness ==
  /\ WF_vars(MainStep) /\ WF_vars(DispatchThread) /\ WF_vars(Tick)
  /\ WF_vars(KwinCreates \/ KwinRefuses)

Spec     == Init /\ [][Next]_vars
FairSpec == Spec /\ Fairness

-----------------------------------------------------------------------------

(* Session's view of the monitor is right: of each session's one request   *)
(* comes one monitor at most, held until the session ends, on every path   *)
(* through the waits, the failures and the order of KWin's events.         *)
servingNow == IF main = "idle" THEN 0 ELSE 1
monitorNow == IF "vo" \notin held THEN "none" ELSE IF kwin = "gone" THEN "gone" ELSE "shown"
Promise == INSTANCE Service WITH
  Conns <- {1}, NoConn <- 0, Paired <- {1}, serving <- servingNow, monitor <- monitorNow

ImplementsService == Promise!Spec

(* At most one pipeline captures the monitor, also after a failed attempt, *)
(* and it is stopped before the monitor is released ("Dropped last so the  *)
(* encoder is already stopped when the PipeWire stream goes away").        *)
OnePipeline == pipes <= 1 /\ (pipes = 1 => "vo" \in held)

(* A session that starts without a warning has its monitor at the scale    *)
(* and the mode that were asked for, and its devices on that monitor: a    *)
(* failure that the code can see is never passed over.  It does not see    *)
(* an error in words it does not know, nor a device without an event node, *)
(* nor that an output of the last session answers to the same name.        *)
QuietMeansConfigured ==
  main = "serve" /\ ~warned /\ named = "ours" =>
    {"scale", "mode"} \cup (held \cap {"pen", "touch"}) \subseteq conf \cup silent

(* The start of a session comes to an end, with a screen or without,       *)
(* whatever the encoder, KDE's tools and the devices do.                   *)
StartEnds == (main \notin {"idle", "serve"}) ~> (main \in {"idle", "serve"})

(* A `closed' that KWin sends while the session holds the monitor ends it, *)
(* in the middle of the start too, and whoever reads it.                   *)
Closing == IsClosed \/ \E i \in DOMAIN events : events[i] = "closed"
ClosedEndsSession == ("vo" \in held /\ Closing) ~> ("vo" \notin held)
=============================================================================
