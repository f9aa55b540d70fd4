-------------------------------- MODULE Pen --------------------------------
(***************************************************************************)
(* The virtual stylus of the server (struct Pen of uinput.rs).             *)
(* It turns the tablet's pen events into key and axis events and remembers *)
(* what the desktop believes: whether a tool is in proximity, which one,   *)
(* and which barrel buttons are down.  The events of one call are written  *)
(* together; a call that changes the tool writes twice.                    *)
(*                                                                         *)
(* `penDev' and `penKernel' are as those of module Touch.  Position, tilt  *)
(* and distance are left out, pressure is zero or not.                     *)
(***************************************************************************)
EXTENDS FiniteSets

CONSTANT Tools    \* tool bytes the tablet sends; a real one knows the first two

ASSUME ToolsAssumption == Tools \subseteq {"pen", "eraser", "other"}

VARIABLES
  inProx,     \* in_proximity
  tool,       \* the tool last used
  buttons,    \* barrel buttons last reported
  penDev,     \* device state once `pending' is written
  penKernel,  \* device state the kernel and KWin know
  penPhase,   \* "live", "failed" (a sync failed), "released", "lost"
  switched    \* history: the tool changed in proximity and has not left since

penVars == <<inProx, tool, buttons, penDev, penKernel, penPhase, switched>>

ToolKey   == {"pen", "rubber"}           \* BTN_TOOL_PEN, BTN_TOOL_RUBBER
BarrelKey == {"stylus", "stylus2"}       \* BTN_STYLUS, BTN_STYLUS2
Action    == {"hover", "down", "move", "up", "leave", "unknown"}
PenDeviceState == [keys : SUBSET (ToolKey \cup BarrelKey \cup {"touch"}),
                   pressure : BOOLEAN]
PenFreshDevice == [keys |-> {}, pressure |-> FALSE]

PenTypeOK ==
  /\ inProx    \in BOOLEAN
  /\ tool      \in ToolKey
  /\ buttons   \in SUBSET BarrelKey
  /\ penDev    \in PenDeviceState
  /\ penKernel \in PenDeviceState
  /\ penPhase  \in {"live", "failed", "released", "lost"}
  /\ switched  \in BOOLEAN

PenInit ==
  /\ inProx = FALSE /\ tool = "pen" /\ buttons = {}
  /\ penDev = PenFreshDevice /\ penKernel = PenFreshDevice
  /\ penPhase = "live" /\ switched = FALSE

-----------------------------------------------------------------------------

Released(d, ks) == [keys |-> d.keys \ ks, pressure |-> d.pressure]

(* The key of a tool byte. *)
KeyOf(t) == IF t = "eraser" THEN "rubber" ELSE "pen"

(* Device::sync after an earlier write of the same call, if any, brought   *)
(* the kernel to `seen'.                                                   *)
PenSync(d, seen, onOk, onErr) ==
  /\ penDev' = d
  /\ \/ penKernel' = d    /\ penPhase' = onOk
     \/ penKernel' = seen /\ penPhase' = onErr

(* "Tool change mid-proximity: leave with the old tool first."  The four   *)
(* operators below are the state after that, for an event of tool key t.   *)
ChangesNever(t) == FALSE           \* mutant: no such step
Changes(t) == inProx /\ t # tool
Near(t)    == inProx /\ ~Changes(t)
Base(t)    == IF Changes(t) THEN Released(penDev, {tool}) ELSE penDev
Seen(t)    == IF Changes(t) THEN Base(t) ELSE penKernel

ToolChangeFails(t, onErr) ==
  /\ Changes(t)
  /\ penDev' = Base(t) /\ penKernel' = penKernel /\ penPhase' = onErr
  /\ switched' = TRUE
  /\ UNCHANGED <<inProx, tool, buttons>>

(* hover_enter, hover_move, down, move and up.                             *)
ContactKeys(d, action) ==
  CASE action = "down" -> d.keys \cup {"touch"}
    [] action = "up"   -> d.keys \ {"touch"}
    [] OTHER           -> d.keys

(* The barrel keys are written when the byte differs from the last one;    *)
(* the mutant writes presses only.                                         *)
WithBarrelPressed(keys, btn) == keys \cup btn
WithBarrel(keys, btn) ==
  IF btn # buttons THEN (keys \ BarrelKey) \cup btn ELSE keys

PenActive(t, action, btn) ==
  /\ tool' = t /\ inProx' = TRUE /\ buttons' = btn
  /\ switched' = (switched \/ Changes(t))
  /\ LET keys  == ContactKeys(Base(t), action) \cup (IF Near(t) THEN {} ELSE {t})
     IN  PenSync([keys     |-> WithBarrel(keys, btn),
                  pressure |-> action \in {"down", "move"}],
                 Seen(t), "live", "failed")

(* The keys a leaving tool releases, and a mutant.                         *)
KeysUpNoTouch(t) == {t} \cup (IF buttons = {} THEN {} ELSE BarrelKey)
KeysUp(t)        == {"touch", t} \cup (IF buttons = {} THEN {} ELSE BarrelKey)

(* hover_exit and cancel: only a tool in proximity leaves it.              *)
PenLeave(t, onOk, onErr) ==
  /\ tool' = t
  /\ \/ /\ Near(t)
        /\ buttons' = {}
        /\ PenSync([keys |-> penDev.keys \ KeysUp(t), pressure |-> FALSE],
                   penKernel, onOk, onErr)
        /\ inProx' = (penPhase' = onErr) /\ switched' = FALSE
     \/ /\ ~Near(t)
        /\ inProx' = FALSE /\ UNCHANGED buttons
        /\ switched' = (switched \/ Changes(t))
        /\ penDev' = Base(t) /\ penKernel' = Seen(t) /\ penPhase' = onOk

(* An action the server does not know still changes the tool.              *)
PenUnknown(t) ==
  /\ tool' = t /\ inProx' = Near(t)
  /\ penDev' = Base(t) /\ penKernel' = Seen(t)
  /\ switched' = (switched \/ Changes(t))
  /\ UNCHANGED <<buttons, penPhase>>

(* Pen::handle for one event of the tablet.                                *)
Handle(t, action, btn) ==
  /\ penPhase = "live"
  /\ \/ ToolChangeFails(t, "failed")
     \/ action \in {"hover", "down", "move", "up"} /\ PenActive(t, action, btn)
     \/ action = "leave"   /\ PenLeave(t, "live", "failed")
     \/ action = "unknown" /\ PenUnknown(t)

(* The teardown of handle_client cancels the pen, whatever tool is in use. *)
Teardown ==
  /\ penPhase \in {"live", "failed"}
  /\ \/ ToolChangeFails("pen", "lost")
     \/ PenLeave("pen", "released", "lost")

(* The next session creates a new device.                                  *)
PenRecreate ==
  /\ penPhase \in {"released", "lost"}
  /\ inProx' = FALSE /\ tool' = "pen" /\ buttons' = {}
  /\ penDev' = PenFreshDevice /\ penKernel' = PenFreshDevice
  /\ penPhase' = "live" /\ switched' = FALSE

PenNext ==
  \/ \E b \in Tools, action \in Action, btn \in SUBSET BarrelKey :
       Handle(KeyOf(b), action, btn)
  \/ Teardown
  \/ PenRecreate

PenSpec == PenInit /\ [][PenNext]_penVars

-----------------------------------------------------------------------------

(* The desktop sees exactly one tool while the pen is in proximity and     *)
(* none otherwise, across tool changes and leavings in any order, and      *)
(* after a teardown that is written.                                       *)
OneToolInProximity ==
  penPhase \in {"live", "released"} =>
    penKernel.keys \cap ToolKey = IF penPhase = "live" /\ inProx THEN {tool} ELSE {}

(* The barrel buttons are written only when they change, so the remembered *)
(* byte has to stay what the kernel shows.                                 *)
BarrelMirrored ==
  penPhase = "live" => penKernel.keys \cap BarrelKey = buttons

(* A pen that has left proximity holds nothing down, neither tip nor       *)
(* button nor pressure, in the session and after its teardown, unless it   *)
(* left by changing its tool.                                              *)
NothingHeldOutOfProximity ==
  /\ ~switched
  /\ penPhase = "released" \/ (penPhase = "live" /\ ~inProx)
  => penKernel = PenFreshDevice

(* main.rs:478 "Teardown: lift fingers/pen": after a teardown that is      *)
(* written the pen no longer touches and its buttons are up.               *)
PenLiftedAtTeardown ==
  penPhase = "released" => penKernel = PenFreshDevice
=============================================================================
