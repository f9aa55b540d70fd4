------------------------------ MODULE Touchpad ------------------------------
(***************************************************************************)
(* The virtual touchpad of the server (struct Touchpad of uinput.rs): a    *)
(* mouse that moves with one finger, scrolls with two and clicks when a    *)
(* short touch of one, two or three fingers is over.                       *)
(*                                                                         *)
(* One axis is modelled, in steps of 1/120 of the pad: a scroll line is    *)
(* two of them and TAP_MAX_MOVE (0.03) is exceeded by four.  Pointer       *)
(* motion itself is left out, the write that may fail is not.              *)
(***************************************************************************)
EXTENDS Integers, Sequences, FiniteSets

CONSTANTS
  PadIds,    \* pointer ids, a u8 each
  Deltas     \* steps one MOVE may cover

TapSteps     == 3
StepsPerLine == 2

ASSUME PadIdsAssumption == IsFiniteSet(PadIds)
ASSUME DeltasAssumption == Deltas \subseteq Int \ {0}

VARIABLES
  fingers,    \* the keys of the map
  peak,       \* the most fingers at once
  moved,
  timely,     \* down_at is no more than TAP_MAX_MS ago
  acc,        \* scroll_acc_y, in steps
  padDev,     \* buttons held once `pending' is written
  padKernel,  \* buttons the kernel holds
  padPhase,   \* "live", "failed" (a sync failed), "released", "lost"
  clicks,     \* history: buttons clicked since the first finger came down
  jumped,     \* history: one MOVE since then was longer than TapSteps
  late,       \* history: TAP_MAX_MS have passed since then
  joined      \* history: fingers on the pad at once since then, at most

gesture == <<clicks, jumped, late, joined>>
padVars == <<fingers, peak, moved, timely, acc, padDev, padKernel, padPhase,
             gesture>>

Button  == <<"left", "right", "middle">>
Buttons == {"left", "right", "middle"}

PadTypeOK ==
  /\ fingers \subseteq PadIds
  /\ peak \in 0 .. Cardinality(PadIds) /\ joined \in 0 .. Cardinality(PadIds)
  /\ moved \in BOOLEAN /\ timely \in BOOLEAN
  /\ acc \in -(StepsPerLine - 1) .. StepsPerLine - 1
  /\ padDev \subseteq Buttons /\ padKernel \subseteq Buttons
  /\ padPhase \in {"live", "failed", "released", "lost"}
  /\ clicks \in Seq(Buttons) /\ jumped \in BOOLEAN /\ late \in BOOLEAN

PadInit ==
  /\ fingers = {}
  /\ peak = 0 /\ moved = FALSE /\ timely = TRUE /\ acc = 0
  /\ padDev = {} /\ padKernel = {} /\ padPhase = "live"
  /\ clicks = <<>> /\ jumped = FALSE /\ late = FALSE /\ joined = 0

Abs(n)       == IF n < 0 THEN -n ELSE n
Larger(m, n) == IF m > n THEN m ELSE n

-----------------------------------------------------------------------------

(* TOUCH_DOWN.  The tablet names a finger anew only after it was lifted.   *)
FirstAlways == TRUE                \* mutant: each DOWN begins a gesture
First       == fingers = {}

PadDown(id) ==
  /\ padPhase = "live" /\ id \notin fingers
  /\ fingers' = fingers \cup {id}
  /\ peak'   = Larger(IF First THEN 0 ELSE peak, Cardinality(fingers'))
  /\ moved'  = (moved /\ ~First)
  /\ timely' = (timely \/ First)
  /\ LET began == fingers = {}
     IN  /\ clicks' = IF began THEN <<>> ELSE clicks
         /\ jumped' = (jumped /\ ~began)
         /\ late'   = (late /\ ~began)
         /\ joined' = IF began THEN 1 ELSE Larger(joined, Cardinality(fingers'))
  /\ UNCHANGED <<acc, padDev, padKernel, padPhase>>

(* The clock passes down_at + TAP_MAX_MS. *)
TimePasses ==
  /\ timely /\ fingers # {}
  /\ timely' = FALSE /\ late' = TRUE
  /\ UNCHANGED <<fingers, peak, moved, acc, padDev, padKernel, padPhase,
                 clicks, jumped, joined>>

(* emit_scroll: what is left for the next time.  `%' rounds down, trunc    *)
(* towards zero.                                                           *)
Rest(a)     == LET detents == IF a < 0 THEN -((-a) \div StepsPerLine)
                                       ELSE a \div StepsPerLine
               IN  IF detents = 0 THEN 0 ELSE a - StepsPerLine * detents

(* TOUCH_MOVE.  A failed write ends the session when it moves the pointer, *)
(* and is ignored when it scrolls.                                         *)
PadMove(id, d) ==
  /\ padPhase = "live" /\ id \in fingers
  /\ moved'  = (moved \/ Abs(d) > TapSteps)
  /\ jumped' = (jumped \/ Abs(d) > TapSteps)
  /\ acc' = IF Cardinality(fingers) = 2 THEN Rest(acc - d) ELSE acc
  /\ padPhase' = "live" \/ (Cardinality(fingers) = 1 /\ padPhase' = "failed")
  /\ UNCHANGED <<fingers, peak, timely, padDev, padKernel, clicks, late, joined>>

(* click: press and release are written one after the other.  Mutant: the  *)
(* release waits for the next write.                                       *)
ClickLazily(b) ==
  /\ padKernel' = {b} /\ padDev' = {} /\ padPhase' = "live"
  /\ clicks' = Append(clicks, b)

Click(b) ==
  \/ /\ padDev' = {} /\ clicks' = Append(clicks, b)
     /\ \/ padKernel' = {}  /\ padPhase' = "live"
        \/ padKernel' = {b} /\ padPhase' = "failed"
  \/ /\ padDev' = {b} /\ UNCHANGED clicks
     /\ padKernel' = {} /\ padPhase' = "failed"

LastAlways(id) == TRUE             \* mutant: any finger that is lifted taps
Last(id)       == fingers = {id}

PadUp(id) ==
  /\ padPhase = "live" /\ id \in fingers
  /\ fingers' = fingers \ {id}
  /\ \/ /\ Last(id) /\ timely /\ ~moved /\ peak \in DOMAIN Button
        /\ Click(Button[peak])
     \/ /\ ~(Last(id) /\ timely /\ ~moved /\ peak \in DOMAIN Button)
        /\ UNCHANGED <<padDev, padKernel, padPhase, clicks>>
  /\ UNCHANGED <<peak, moved, timely, acc, jumped, late, joined>>

(* TOUCH_CANCEL: the system takes the gesture away, all fingers at once. *)
PadCancel ==
  /\ padPhase = "live" /\ fingers # {}
  /\ fingers' = {}
  /\ UNCHANGED <<peak, moved, timely, acc, padDev, padKernel, padPhase, gesture>>

PadReleaseAll ==
  /\ padPhase \in {"live", "failed"}
  /\ fingers' = {} /\ padDev' = {}
  /\ \/ padKernel' = {}        /\ padPhase' = "released"
     \/ padKernel' = padKernel /\ padPhase' = "lost"
  /\ UNCHANGED <<peak, moved, timely, acc, gesture>>

(* The next session creates a new device. *)
PadRecreate ==
  /\ padPhase \in {"released", "lost"}
  /\ fingers' = {}
  /\ peak' = 0 /\ moved' = FALSE /\ timely' = TRUE /\ acc' = 0
  /\ padDev' = {} /\ padKernel' = {} /\ padPhase' = "live"
  /\ clicks' = <<>> /\ jumped' = FALSE /\ late' = FALSE /\ joined' = 0

PadNext ==
  \/ \E id \in PadIds : \/ PadDown(id) \/ PadUp(id)
                         \/ \E d \in Deltas : PadMove(id, d)
  \/ TimePasses \/ PadCancel \/ PadReleaseAll \/ PadRecreate

PadSpec == PadInit /\ [][PadNext]_padVars

-----------------------------------------------------------------------------

(* A gesture clicks once at most, and not before its last finger is gone,  *)
(* in whatever order fingers come and go.                                  *)
OneClickPerGesture ==
  clicks # <<>> => Len(clicks) = 1 /\ fingers = {}

(* A click is the one the gesture stands for: its button is that of the    *)
(* most fingers that were down at once, it was short, no finger jumped.    *)
ClickMatchesGesture ==
  clicks # <<>> => Head(clicks) = Button[joined] /\ ~late /\ ~jumped

(* No mouse button is left pressed, while the session runs and after a     *)
(* teardown that is written, also when the write of a release failed.      *)
ButtonsUp == padPhase \in {"live", "released"} => padKernel = {}
=============================================================================
