----------------------------- MODULE InputPath -----------------------------
(***************************************************************************)
(* Pen and fingers from the tablet's glass to the two virtual devices of   *)
(* a session with a second screen: StreamView.kt with its palm rejection,  *)
(* dispatch of main.rs, and the devices of modules Touch and Pen, whose    *)
(* properties have to hold for what a tablet can send them.  An error of   *)
(* either device ends the session of both.                                 *)
(*                                                                         *)
(* The connection keeps the order of messages and nothing comes back, so   *)
(* the view's next event waits here until its last message is dispatched.  *)
(* Pens are in reach or not for the platform; what it sends of them, and   *)
(* of fingers, is up to the user.                                          *)
(***************************************************************************)
EXTENDS Touch, Pen

VARIABLES
  sendTouch,      \* the view's setting, for one session
  penNear,        \* penInProximity of the view
  glass,          \* fingers on the glass
  batch,          \* of the touch message being dispatched: what is left
  main,           \* "serving", teardown of "fingers", of the "pen", "over"
  swallowed       \* history: fingers the desktop holds whose lift was not sent

view == <<sendTouch, penNear, glass, swallowed>>
vars == <<view, batch, main, touchVars, penVars>>

Dispatched == [act |-> "none", ids |-> {}]

(* The view goes with its session. *)
Ends ==
  /\ main' = "fingers"
  /\ sendTouch' = TRUE /\ penNear' = FALSE /\ glass' = {} /\ swallowed' = {}

Init ==
  /\ sendTouch \in BOOLEAN /\ penNear = FALSE /\ glass = {} /\ swallowed = {}
  /\ batch = Dispatched /\ main = "serving"
  /\ TouchInit /\ PenInit

-----------------------------------------------------------------------------
(* handlePen: whatever the pen does but for leaving brings it near.  (An   *)
(* action unknown to the server would be one of another version's app.)    *)

NearHovering(action) == action = "hover"    \* mutant: a pen that draws is not near
Nears(action)        == action # "leave"

PenEvent(t, action, btn) ==
  /\ main = "serving" /\ batch = Dispatched
  /\ Handle(KeyOf(t), action, btn)
  /\ IF penPhase' = "live"
     THEN penNear' = Nears(action) /\ UNCHANGED <<sendTouch, glass, swallowed, main>>
     ELSE Ends
  /\ UNCHANGED <<batch, touchVars>>

-----------------------------------------------------------------------------
(* handleTouch: nothing is sent while the pen is near. *)

Rejected == ~sendTouch \/ penNear
Held     == {slots[s] : s \in Slot}

Report(act, ids) ==
  /\ main = "serving" /\ batch = Dispatched
  /\ batch' = IF Rejected THEN Dispatched ELSE [act |-> act, ids |-> ids]
  /\ swallowed' = IF act = "move" THEN swallowed
                  ELSE IF act = "up" /\ Rejected THEN swallowed \cup (ids \cap Held)
                  ELSE swallowed \ ids
  /\ UNCHANGED <<sendTouch, penNear, main, touchVars, penVars>>

FingerDown(id) == id \notin glass /\ glass' = glass \cup {id} /\ Report("down", {id})
FingersMove    == glass # {} /\ UNCHANGED glass /\ Report("move", glass)
FingerUp(id)   == id \in glass /\ glass' = glass \ {id} /\ Report("up", {id})

CancelUnsent ==                    \* mutant: the branch is missing
  /\ main = "serving" /\ batch = Dispatched
  /\ glass # {} /\ glass' = {}
  /\ UNCHANGED <<sendTouch, penNear, swallowed, batch, main, touchVars, penVars>>

(* ACTION_CANCEL is reported for every pointer; the server takes it for UP. *)
FingersCancel  == glass # {} /\ glass' = {} /\ Report("up", glass)

-----------------------------------------------------------------------------
(* dispatch: one event of the batch after the other.  slot_for returns     *)
(* None for a finger beyond the last slot, and for one it does not know.   *)

Unslotted(id) ==
  /\ \A s \in Slot : ~SlotFor(id, batch.act = "down", s)
  /\ UNCHANGED touchVars

HandleTouch ==
  /\ \E id \in batch.ids :
       /\ \/ batch.act = "down" /\ TouchDown(id)
          \/ batch.act = "move" /\ TouchMove(id)
          \/ batch.act = "up"   /\ TouchUp(id)
          \/ Unslotted(id)
       /\ batch' = IF touchPhase' # "live" \/ batch.ids = {id} THEN Dispatched
                   ELSE [batch EXCEPT !.ids = @ \ {id}]
  /\ IF touchPhase' = "live" THEN UNCHANGED <<view, main>> ELSE Ends
  /\ UNCHANGED penVars

-----------------------------------------------------------------------------
(* The session ends for any reason; its teardown goes on after an error.   *)

EndSession ==
  /\ main = "serving" /\ batch = Dispatched
  /\ Ends
  /\ UNCHANGED <<batch, touchVars, penVars>>

LiftFingers ==
  /\ main = "fingers" /\ main' = "pen"
  /\ ReleaseAll
  /\ UNCHANGED <<view, batch, penVars>>

CancelPen ==
  /\ main = "pen" /\ main' = "over"
  /\ Teardown
  /\ UNCHANGED <<view, batch, touchVars>>

(* A new activity, a new view, new devices. *)
Reconnect ==
  /\ main = "over" /\ main' = "serving"
  /\ TouchRecreate /\ PenRecreate
  /\ sendTouch' \in BOOLEAN /\ UNCHANGED <<penNear, glass, swallowed, batch>>

Next ==
  \/ \E t \in Tools, action \in Action, btn \in SUBSET BarrelKey :
       PenEvent(t, action, btn)
  \/ \E id \in Ids : FingerDown(id) \/ FingerUp(id)
  \/ FingersMove \/ FingersCancel \/ HandleTouch
  \/ EndSession \/ LiftFingers \/ CancelPen \/ Reconnect

Spec == Init /\ [][Next]_vars

-----------------------------------------------------------------------------

(* "Palm rejection: ignore fingers while the pen is near the screen": no   *)
(* finger goes down on the desktop while the desktop has the pen in        *)
(* proximity, with any tool, drawing or hovering, so tablet and server     *)
(* never disagree about where the pen is.                                  *)
Contacts     == {s \in Slot : touchKernel.tid[s] # Lifted}
PalmRejected == [][inProx /\ penPhase = "live" => Contacts' \subseteq Contacts]_vars

(* The desktop holds no finger that has left the glass, but one that left  *)
(* while the pen was near, and that one not beyond its next visit.         *)
NoOtherGhosts ==
  main = "serving" /\ batch = Dispatched =>
    \A s \in Slot : slots[s] \in glass \cup swallowed \cup {NoId}
=============================================================================
