----------------------------- MODULE AudioRoute -----------------------------
(***************************************************************************)
(* Who owns the computer's default audio output (audio.rs).                *)
(* "Tablet" mode loads a null sink called tabscreen into PipeWire, makes   *)
(* it the default and undoes both when the session drops the AudioRoute;   *)
(* "both" mode only looks at the default.  Each pactl call is a step and   *)
(* may fail.  The sink lives in PipeWire, so it outlives a server that     *)
(* dies; systemd then starts a new one.                                    *)
(***************************************************************************)
EXTENDS Integers

CONSTANTS
  RealSinks,   \* outputs that make sound
  Fallback,    \* the one PipeWire takes when the configured one is missing
  Failing,     \* pactl calls that may fail
  MaxCrashes,  \* bound: how often the server is killed
  MaxModules,  \* bound: sinks loaded at once, when unloading may fail
  CanQuit      \* whether the tray's Quit is used

ASSUME SinkAssumption ==
  Fallback \in RealSinks /\ "tabscreen" \notin RealSinks /\ "none" \notin RealSinks
ASSUME FailAssumption == Failing \subseteq {"get", "list", "load", "set", "unload"}
ASSUME BoundAssumption ==
  MaxCrashes \in Nat /\ MaxModules \in Nat /\ CanQuit \in BOOLEAN

VARIABLES
  pc,          \* where the session's audio is
  mode,        \* "tablet" or "both"
  prev,        \* previous_default, "none" for None
  mine,        \* module_id is Some
  modules,     \* tabscreen sinks loaded in PipeWire
  configured,  \* PipeWire's configured default sink
  crashes,
  original,    \* history: the default when the session began
  disturbed,   \* history: a call failed or the user chose since then
  ended,       \* history: the last session was "tablet" and was dropped
  leaky        \* history: list modules or unload-module has failed

vars == <<pc, mode, prev, mine, modules, configured, crashes, original,
          disturbed, ended, leaky>>

Sinks == RealSinks \cup {"tabscreen"}
Steps == {"idle", "get", "clean", "load", "set", "capture", "running",
          "restore", "unload", "exited"}

(* get-default-sink *)
Default == IF configured = "tabscreen" /\ modules = 0 THEN Fallback ELSE configured

TypeOK ==
  /\ pc \in Steps /\ mode \in {"tablet", "both"}
  /\ prev \in Sinks \cup {"none"} /\ mine \in BOOLEAN
  /\ modules \in 0 .. MaxModules
  /\ configured \in Sinks /\ original \in Sinks
  /\ crashes \in 0 .. MaxCrashes
  /\ disturbed \in BOOLEAN /\ ended \in BOOLEAN /\ leaky \in BOOLEAN

Init ==
  /\ pc = "idle" /\ mode = "both" /\ prev = "none" /\ mine = FALSE
  /\ modules = 0 /\ configured \in RealSinks
  /\ crashes = 0 /\ original = configured /\ disturbed = FALSE /\ ended = FALSE
  /\ leaky = FALSE

-----------------------------------------------------------------------------

(* A pactl call: `good' happens and the server goes on to `next', or the   *)
(* call fails and it goes on to `onErr'.                                   *)
Works(next)       == pc' = next /\ UNCHANGED <<disturbed, leaky>>
Fails(call, next) ==
  /\ call \in Failing
  /\ pc' = next /\ disturbed' = TRUE
  /\ leaky' = (leaky \/ call \in {"list", "unload"})

Begin(m) ==
  /\ pc = "idle"
  /\ pc' = "get" /\ mode' = m
  /\ original' = Default /\ disturbed' = FALSE /\ ended' = FALSE
  /\ UNCHANGED <<prev, mine, modules, configured, crashes, leaky>>

(* tablet_only remembers the default, or None; both() needs to know it. *)
GetDefault ==
  /\ pc = "get"
  /\ IF mode = "tablet"
     THEN \/ Works("clean") /\ prev' = Default
          \/ Fails("get", "clean") /\ prev' = "none"
     ELSE /\ Works("capture") \/ Fails("get", "idle")
          /\ prev' = "none"
  /\ UNCHANGED <<mode, mine, modules, configured, crashes, original, ended>>

(* Mutant of DropStale: there is no such step. *)
DropStaleNever ==
  /\ pc = "clean" /\ Works("load")
  /\ UNCHANGED <<mode, prev, mine, modules, configured, crashes, original, ended>>

(* "A stale sink from a crashed session would collide; drop it first." *)
DropStale ==
  /\ pc = "clean"
  /\ \/ Works("load") /\ modules' = 0
     \/ Fails("list", "load") /\ UNCHANGED modules
     \/ Fails("unload", "load") /\ modules' \in 0 .. modules
  /\ UNCHANGED <<mode, prev, mine, configured, crashes, original, ended>>

LoadModule ==
  /\ pc = "load"
  /\ \/ /\ modules < MaxModules
        /\ Works("set") /\ modules' = modules + 1 /\ mine' = TRUE
     \/ Fails("load", "idle") /\ UNCHANGED <<modules, mine>>
  /\ UNCHANGED <<mode, prev, configured, crashes, original, ended>>

(* The error return comes before the AudioRoute exists: nothing drops it. *)
SetDefault ==
  /\ pc = "set"
  /\ \/ Works("capture") /\ configured' = "tabscreen" /\ UNCHANGED mine
     \/ Fails("set", "idle") /\ mine' = FALSE /\ UNCHANGED configured
  /\ UNCHANGED <<mode, prev, modules, crashes, original, ended>>

(* AudioCapture::start; when it fails the route is dropped at once, later  *)
(* the end of the session drops it.                                        *)
Capture ==
  /\ pc = "capture"
  /\ Works("running") \/ Works("restore")
  /\ UNCHANGED <<mode, prev, mine, modules, configured, crashes, original, ended>>

EndSession ==
  /\ pc = "running"
  /\ Works("restore")
  /\ UNCHANGED <<mode, prev, mine, modules, configured, crashes, original, ended>>

(* Mutant of Restore: only the module is undone. *)
RestoreNothing ==
  /\ pc = "restore" /\ Works("unload")
  /\ UNCHANGED <<mode, prev, mine, modules, configured, crashes, original, ended>>

(* Drop for AudioRoute, errors ignored: the default first, ... *)
Restore ==
  /\ pc = "restore"
  /\ \/ Works("unload") /\ configured' = IF prev = "none" THEN configured ELSE prev
     \/ prev # "none" /\ Fails("set", "unload") /\ UNCHANGED configured
  /\ UNCHANGED <<mode, prev, mine, modules, crashes, original, ended>>

(* ... then the module, if there is one. *)
RemainingAll == modules            \* mutant: the sink stays
Remaining    == IF mine THEN modules - 1 ELSE modules

Unload ==
  /\ pc = "unload"
  /\ \/ Works("idle") /\ modules' = Remaining
     \/ mine /\ Fails("unload", "idle") /\ UNCHANGED modules
  /\ mine' = FALSE
  /\ ended' = (mode = "tablet")
  /\ UNCHANGED <<mode, prev, configured, crashes, original>>

(* The server is killed, or panics, and is started again. *)
Crash ==
  /\ pc # "exited" /\ crashes < MaxCrashes
  /\ crashes' = crashes + 1
  /\ pc' = "idle" /\ prev' = "none" /\ mine' = FALSE /\ ended' = FALSE
  /\ UNCHANGED <<mode, modules, configured, original, disturbed, leaky>>

(* The tray's Quit: process::exit(0) from the tray thread, at any moment.  *)
Quit ==
  /\ CanQuit /\ pc # "exited"
  /\ pc' = "exited" /\ prev' = "none" /\ mine' = FALSE
  /\ UNCHANGED <<mode, modules, configured, crashes, original, disturbed,
                 ended, leaky>>

(* The user picks another output. *)
UserChooses(s) ==
  /\ configured # s
  /\ configured' = s
  /\ disturbed' = TRUE
  /\ UNCHANGED <<pc, mode, prev, mine, modules, crashes, original, ended, leaky>>

Next ==
  \/ \E m \in {"tablet", "both"} : Begin(m)
  \/ GetDefault \/ DropStale \/ LoadModule \/ SetDefault \/ Capture
  \/ EndSession \/ Restore \/ Unload
  \/ Crash \/ Quit
  \/ \E s \in RealSinks : UserChooses(s)

Spec == Init /\ [][Next]_vars

-----------------------------------------------------------------------------

(* There is never a second sink of the name, not after any number of       *)
(* crashes: tablet_only removes stale ones before it loads its own.  Only  *)
(* a list or unload call that fails can leave one more.                    *)
AtMostOneSink == ~leaky => modules <= 1

(* A tablet session that ends in the regular way leaves no sink behind and *)
(* sound on a real output, also when an earlier server died with the       *)
(* computer routed to the tablet.                                          *)
SoundComesBack ==
  pc = "idle" /\ ended /\ ~leaky => modules = 0 /\ Default \in RealSinks

(* If nothing interfered with the session it is the very output it was     *)
(* before, whatever failed in earlier ones.                                *)
DefaultRestored ==
  pc = "idle" /\ ended /\ ~disturbed /\ original \in RealSinks =>
    Default = original
=============================================================================
