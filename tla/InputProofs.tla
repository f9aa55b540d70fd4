----------------------------- MODULE InputProofs -----------------------------
(***************************************************************************)
(* Proofs about the three virtual devices of uinput.rs, each for whatever  *)
(* it is given, and about the way of pen and fingers to two of them: for   *)
(* any number of slots, any set of pointer ids, any size of the tracking   *)
(* id counter and any set of tool bytes.                                   *)
(***************************************************************************)
EXTENDS InputPath, Touchpad, FiniteSetTheorems, TLAPS

(***************************************************************************)
(* The touchscreen.                                                        *)
(***************************************************************************)

(* None of the invariants of Touch is inductive: what the kernel shows     *)
(* after a failed write is arbitrary, and it is `touchDev', the events     *)
(* emitted whether or not they were written, that follows the slot table.  *)
DevMirrorsSlots ==
  /\ \A s \in Slot : touchDev.tid[s] # Lifted <=> slots[s] # NoId
  /\ touchDev.btn <=> \E s \in Slot : slots[s] # NoId

WrittenInv ==
  /\ touchPhase \in {"live", "released"} => touchKernel = touchDev
  /\ touchPhase \in {"released", "lost"} => \A s \in Slot : slots[s] = NoId

(* The tracking id of a contact is its age behind the counter, modulo      *)
(* TidMod, and no two contacts have the same age.                          *)
AgeInv ==
  /\ \A s \in Slot :
       slots[s] # NoId /\ age[s] < TidMod =>
         \/ touchDev.tid[s] + age[s] + 1 = nextTid
         \/ touchDev.tid[s] + age[s] + 1 = nextTid + TidMod
  /\ \A s, t \in Slot :
       s # t /\ slots[s] # NoId /\ slots[t] # NoId /\ age[s] = age[t] =>
         age[s] = TidMod

TouchInv == TouchTypeOK /\ OneSlotPerFinger /\ DevMirrorsSlots /\ WrittenInv /\ AgeInv

-----------------------------------------------------------------------------

(* The slot helpers are used below through these facts only.               *)
LEMMA SlotForFacts ==
  ASSUME NEW id \in Ids, NEW alloc \in BOOLEAN, NEW s \in Slot,
         SlotFor(id, alloc, s)
  PROVE  /\ slots[s] = id \/ (alloc /\ slots[s] = NoId)
         /\ slots[s] = NoId => \A t \in Slot : slots[t] # id
BY NoIdAssumption DEF SlotFor, IsFirst

LEMMA ActiveFacts ==
  /\ Active = {} <=> \A s \in Slot : slots[s] = NoId
  /\ \A s \in Slot : Active = {s} <=>
        slots[s] # NoId /\ \A t \in Slot : slots[t] # NoId => t = s
BY DEF Active

LEMMA TouchFreshFacts ==
  /\ 0 \in Slot
  /\ TouchFreshDevice \in TouchDeviceState
  /\ \A s \in Slot : TouchFreshDevice.tid[s] = Lifted
  /\ ~TouchFreshDevice.btn
  /\ 1 \in Tid
BY NumSlotsAssumption, TidModAssumption
   DEF TouchFreshDevice, TouchDeviceState, Slot, Tid, Lifted

(* The invariant holds of a new device.                                    *)
LEMMA TouchFreshGood ==
  ASSUME slots = [s \in Slot |-> NoId], nextTid = 1, touchDev = TouchFreshDevice,
         touchKernel = TouchFreshDevice, touchPhase = "live", age = [s \in Slot |-> 0]
  PROVE  TouchInv
<1>1. TouchTypeOK
  BY TouchFreshFacts, TidModAssumption DEF TouchTypeOK
<1>2. OneSlotPerFinger /\ DevMirrorsSlots /\ WrittenInv /\ AgeInv
  BY TouchFreshFacts DEF OneSlotPerFinger, DevMirrorsSlots, WrittenInv, AgeInv
<1> QED BY <1>1, <1>2 DEF TouchInv

-----------------------------------------------------------------------------

LEMMA TouchDownStep ==
  ASSUME TouchInv, NEW id \in Ids, TouchDown(id)
  PROVE  TouchInv'
<1>1. PICK s \in Slot :
        /\ SlotFor(id, TRUE, s)
        /\ slots'   = [slots EXCEPT ![s] = id]
        /\ nextTid' = IF nextTid + 1 = TidMod THEN 0 ELSE nextTid + 1
        /\ LET d == SetTid(SelectSlot(touchDev, s), nextTid)
           IN  TouchSync(SetBtn(d, d.btn \/ Active = {}), "live", "failed")
        /\ age' = Older(s)
  BY DEF TouchDown, NextTid
<1>2. /\ slots[s] = id \/ slots[s] = NoId
      /\ slots[s] = NoId => \A t \in Slot : slots[t] # id
  BY <1>1, SlotForFacts
<1>3. /\ touchDev' = [sel |-> s, tid |-> [touchDev.tid EXCEPT ![s] = nextTid],
                      btn |-> touchDev.btn \/ Active = {}]
      /\ \/ touchKernel' = touchDev' /\ touchPhase' = "live"
         \/ touchKernel' = touchKernel /\ touchPhase' = "failed"
  BY <1>1 DEF TouchSync, SetTid, SelectSlot, SetBtn, TouchInv, TouchTypeOK, TouchDeviceState
<1>4. /\ slots \in [Slot -> Ids \cup {NoId}]
      /\ nextTid \in 0 .. TidMod - 1
      /\ touchDev \in TouchDeviceState /\ touchKernel \in TouchDeviceState
      /\ touchDev.tid \in [Slot -> Tid \cup {Lifted}]
      /\ age \in [Slot -> 0 .. TidMod]
  BY DEF TouchInv, TouchTypeOK, Tid, TouchDeviceState
<1>5. TouchTypeOK'
  <2>1. nextTid' \in Tid
    BY <1>1, <1>4, TidModAssumption DEF Tid
  <2>2. age' \in [Slot -> 0 .. TidMod]
    BY <1>1, <1>4, TidModAssumption DEF Older
  <2>3. touchDev' \in TouchDeviceState
    BY <1>3, <1>4 DEF TouchDeviceState, Tid
  <2>. QED BY <1>1, <1>3, <1>4, <2>1, <2>2, <2>3 DEF TouchTypeOK
<1>6. OneSlotPerFinger'
  BY <1>1, <1>2, <1>4 DEF TouchInv, OneSlotPerFinger
<1>7. DevMirrorsSlots'
  <2>1. ASSUME NEW t \in Slot
        PROVE  touchDev'.tid[t] # Lifted <=> slots'[t] # NoId
    BY <1>1, <1>3, <1>4, NoIdAssumption DEF TouchInv, DevMirrorsSlots, Lifted
  <2>2. touchDev'.btn /\ \E t \in Slot : slots'[t] # NoId
    BY <1>1, <1>3, <1>4, ActiveFacts, NoIdAssumption DEF TouchInv, DevMirrorsSlots
  <2>. QED BY <2>1, <2>2 DEF DevMirrorsSlots
<1>8. WrittenInv'
  BY <1>3 DEF WrittenInv
<1>9. AgeInv'
  <2>1. age' = [t \in Slot |-> IF t = s THEN 0 ELSE IF age[t] < TidMod
                               THEN age[t] + 1 ELSE age[t]]
    BY <1>1 DEF Older
  <2>2. ASSUME NEW t \in Slot, slots'[t] # NoId, age'[t] < TidMod
        PROVE  \/ touchDev'.tid[t] + age'[t] + 1 = nextTid'
               \/ touchDev'.tid[t] + age'[t] + 1 = nextTid' + TidMod
    <3>1. CASE t = s
      BY <1>1, <1>3, <1>4, <2>1, <3>1, TidModAssumption
    <3>2. CASE t # s
      <4>1. /\ slots[t] # NoId /\ age[t] < TidMod /\ age'[t] = age[t] + 1
            /\ touchDev'.tid[t] = touchDev.tid[t]
        BY <1>1, <1>3, <1>4, <2>1, <2>2, <3>2, TidModAssumption
      <4>2. touchDev.tid[t] \in 0 .. TidMod - 1
        BY <1>4, <4>1 DEF TouchInv, DevMirrorsSlots, Tid
      <4>. QED BY <1>1, <1>4, <2>2, <4>1, <4>2, TidModAssumption DEF TouchInv, AgeInv
    <3>. QED BY <3>1, <3>2
  <2>3. ASSUME NEW t \in Slot, NEW u \in Slot, t # u, slots'[t] # NoId,
               slots'[u] # NoId, age'[t] = age'[u]
        PROVE  age'[t] = TidMod
    BY <1>1, <1>4, <2>1, <2>3, TidModAssumption DEF TouchInv, AgeInv
  <2>. QED BY <2>2, <2>3 DEF AgeInv
<1>. QED BY <1>5, <1>6, <1>7, <1>8, <1>9 DEF TouchInv

LEMMA TouchMoveStep ==
  ASSUME TouchInv, NEW id \in Ids, TouchMove(id)
  PROVE  TouchInv'
<1>1. PICK s \in Slot : TouchSync(SelectSlot(touchDev, s), "live", "failed")
  BY DEF TouchMove
<1>2. /\ touchDev' = [touchDev EXCEPT !.sel = s]
      /\ \/ touchKernel' = touchDev' /\ touchPhase' = "live"
         \/ touchKernel' = touchKernel /\ touchPhase' = "failed"
      /\ UNCHANGED <<slots, nextTid, age>>
  BY <1>1 DEF TouchMove, TouchSync, SelectSlot
<1>3. touchDev' \in TouchDeviceState /\ touchDev'.tid = touchDev.tid /\ touchDev'.btn = touchDev.btn
  BY <1>2 DEF TouchInv, TouchTypeOK, TouchDeviceState
<1>4. TouchTypeOK'
  BY <1>2, <1>3 DEF TouchInv, TouchTypeOK
<1>5. OneSlotPerFinger' /\ DevMirrorsSlots' /\ WrittenInv' /\ AgeInv'
  BY <1>2, <1>3
     DEF TouchInv, OneSlotPerFinger, DevMirrorsSlots, WrittenInv, AgeInv
<1>. QED BY <1>4, <1>5 DEF TouchInv

LEMMA TouchUpStep ==
  ASSUME TouchInv, NEW id \in Ids, TouchUp(id)
  PROVE  TouchInv'
<1>1. PICK s \in Slot :
        /\ SlotFor(id, FALSE, s)
        /\ slots' = [slots EXCEPT ![s] = NoId]
        /\ LET d == SetTid(SelectSlot(touchDev, s), Lifted)
           IN  TouchSync(SetBtn(d, d.btn /\ Active # {s}), "live", "failed")
  BY DEF TouchUp, StillTouched
<1>2. slots[s] # NoId
  BY <1>1, SlotForFacts, NoIdAssumption
<1>3. /\ touchDev' = [sel |-> s, tid |-> [touchDev.tid EXCEPT ![s] = Lifted],
                      btn |-> touchDev.btn /\ Active # {s}]
      /\ \/ touchKernel' = touchDev' /\ touchPhase' = "live"
         \/ touchKernel' = touchKernel /\ touchPhase' = "failed"
      /\ UNCHANGED <<nextTid, age>>
  BY <1>1 DEF TouchUp, TouchSync, SetTid, SelectSlot, SetBtn, TouchInv, TouchTypeOK, TouchDeviceState
<1>4. /\ slots \in [Slot -> Ids \cup {NoId}]
      /\ touchDev \in TouchDeviceState /\ touchDev.tid \in [Slot -> Tid \cup {Lifted}]
  BY DEF TouchInv, TouchTypeOK, TouchDeviceState
<1>5. TouchTypeOK'
  <2>1. touchDev' \in TouchDeviceState
    BY <1>3, <1>4 DEF TouchDeviceState
  <2>2. slots' \in [Slot -> Ids \cup {NoId}]
    BY <1>1, <1>4
  <2>. QED BY <1>3, <2>1, <2>2 DEF TouchInv, TouchTypeOK
<1>6. OneSlotPerFinger' /\ WrittenInv' /\ AgeInv'
  BY <1>1, <1>3, <1>4 DEF TouchInv, OneSlotPerFinger, WrittenInv, AgeInv
<1>7. DevMirrorsSlots'
  <2>1. ASSUME NEW t \in Slot
        PROVE  touchDev'.tid[t] # Lifted <=> slots'[t] # NoId
    BY <1>1, <1>3, <1>4 DEF TouchInv, DevMirrorsSlots
  <2>2. touchDev'.btn <=> \E t \in Slot : slots'[t] # NoId
    BY <1>1, <1>2, <1>3, <1>4, ActiveFacts DEF TouchInv, DevMirrorsSlots
  <2>. QED BY <2>1, <2>2 DEF DevMirrorsSlots
<1>. QED BY <1>5, <1>6, <1>7 DEF TouchInv

LEMMA TouchReleaseStep ==
  ASSUME TouchInv, ReleaseAll
  PROVE  TouchInv'
<1>1. PICK sel \in Slot :
        TouchSync([sel |-> sel,
                   tid |-> [s \in Slot |-> IF s \in Active THEN Lifted ELSE touchDev.tid[s]],
                   btn |-> FALSE], "released", "lost")
  BY DEF ReleaseAll
<1>2. /\ slots' = [s \in Slot |-> NoId]
      /\ touchDev' = [sel |-> sel, btn |-> FALSE,
                      tid |-> [s \in Slot |-> IF s \in Active THEN Lifted ELSE touchDev.tid[s]]]
      /\ \/ touchKernel' = touchDev' /\ touchPhase' = "released"
         \/ touchKernel' = touchKernel /\ touchPhase' = "lost"
      /\ UNCHANGED <<nextTid, age>>
  BY <1>1 DEF ReleaseAll, TouchSync
<1>3. \A s \in Slot : touchDev'.tid[s] = Lifted
  BY <1>2 DEF TouchInv, DevMirrorsSlots, Active
<1>4. TouchTypeOK'
  <2>1. touchDev' \in TouchDeviceState
    BY <1>2 DEF TouchInv, TouchTypeOK, TouchDeviceState
  <2>. QED BY <1>2, <2>1 DEF TouchInv, TouchTypeOK
<1>5. OneSlotPerFinger' /\ DevMirrorsSlots' /\ WrittenInv' /\ AgeInv'
  BY <1>2, <1>3 DEF OneSlotPerFinger, DevMirrorsSlots, WrittenInv, AgeInv
<1>. QED BY <1>4, <1>5 DEF TouchInv

LEMMA TouchInductive == TouchInv /\ [TouchNext]_touchVars => TouchInv'
<1> SUFFICES ASSUME TouchInv, [TouchNext]_touchVars PROVE TouchInv'
  OBVIOUS
<1>1. ASSUME NEW id \in Ids, TouchDown(id) PROVE TouchInv'
  BY <1>1, TouchDownStep
<1>2. ASSUME NEW id \in Ids, TouchMove(id) PROVE TouchInv'
  BY <1>2, TouchMoveStep
<1>3. ASSUME NEW id \in Ids, TouchUp(id) PROVE TouchInv'
  BY <1>3, TouchUpStep
<1>4. CASE ReleaseAll
  BY <1>4, TouchReleaseStep
<1>5. CASE TouchRecreate
  <2>1. /\ slots' = [s \in Slot |-> NoId] /\ nextTid' = 1 /\ touchDev' = TouchFreshDevice
        /\ touchKernel' = TouchFreshDevice /\ touchPhase' = "live" /\ age' = [s \in Slot |-> 0]
    BY <1>5 DEF TouchRecreate
  <2>2. TouchTypeOK'
    BY <2>1, TouchFreshFacts, TidModAssumption DEF TouchTypeOK
  <2>3. OneSlotPerFinger' /\ DevMirrorsSlots' /\ WrittenInv' /\ AgeInv'
    BY <2>1, TouchFreshFacts DEF OneSlotPerFinger, DevMirrorsSlots, WrittenInv, AgeInv
  <2>. QED BY <2>2, <2>3 DEF TouchInv
<1>6. CASE UNCHANGED touchVars
  BY <1>6 DEF touchVars, TouchInv, TouchTypeOK, OneSlotPerFinger, DevMirrorsSlots, WrittenInv, AgeInv
<1>. QED BY <1>1, <1>2, <1>3, <1>4, <1>5, <1>6 DEF TouchNext

-----------------------------------------------------------------------------

(* The slot table, the counter and both views of the device keep their     *)
(* types, wrap-around of the tracking ids (uinput.rs, next_tracking_id)    *)
(* included.                                                               *)
THEOREM TouchTypeCorrect == TouchSpec => []TouchTypeOK
<1>1. TouchInit => TouchInv
  BY TouchFreshGood DEF TouchInit
<1>. QED BY <1>1, TouchInductive, PTL DEF TouchSpec, TouchInv

(* Whatever the tablet sends, slot_for never gives a finger a second slot. *)
THEOREM TouchOneSlotPerFinger == TouchSpec => []OneSlotPerFinger
<1>1. TouchInit => TouchInv
  BY TouchFreshGood DEF TouchInit
<1>. QED BY <1>1, TouchInductive, PTL DEF TouchSpec, TouchInv

(* While the session is live the kernel shows exactly the contacts of the  *)
(* slot table, and BTN_TOUCH exactly while there is one.                   *)
THEOREM TouchKernelMirrorsSlots == TouchSpec => []KernelMirrorsSlots
<1>1. TouchInit => TouchInv
  BY TouchFreshGood DEF TouchInit
<1>2. TouchInv => KernelMirrorsSlots
  BY ActiveFacts DEF TouchInv, DevMirrorsSlots, WrittenInv, KernelMirrorsSlots
<1>. QED BY <1>1, <1>2, TouchInductive, PTL DEF TouchSpec

(* A release_all that reaches the kernel leaves nothing held, whatever     *)
(* writes failed before it.                                                *)
THEOREM TouchNothingHeldAfterRelease == TouchSpec => []NothingHeldAfterRelease
<1>1. TouchInit => TouchInv
  BY TouchFreshGood DEF TouchInit
<1>2. TouchInv => NothingHeldAfterRelease
  BY DEF TouchInv, DevMirrorsSlots, WrittenInv, NothingHeldAfterRelease
<1>. QED BY <1>1, <1>2, TouchInductive, PTL DEF TouchSpec

(* Two live contacts share a tracking id only when one of them has stayed  *)
(* down for a whole turn of the counter.                                   *)
THEOREM TouchTrackingIdsDistinct == TouchSpec => []TrackingIdsDistinct
<1>1. TouchInit => TouchInv
  BY TouchFreshGood DEF TouchInit
<1>2. TouchInv => TrackingIdsDistinct
  <2>1. SUFFICES ASSUME TouchInv, NEW s \in Slot, NEW t \in Slot, s # t,
                        touchPhase = "live", touchKernel.tid[s] # Lifted,
                        touchKernel.tid[s] = touchKernel.tid[t],
                        age[s] # TidMod, age[t] # TidMod
                 PROVE  FALSE
    BY DEF TrackingIdsDistinct
  <2>2. /\ slots[s] # NoId /\ slots[t] # NoId
        /\ touchDev.tid[s] = touchDev.tid[t] /\ touchDev.tid[s] \in 0 .. TidMod - 1
    BY <2>1 DEF TouchInv, WrittenInv, DevMirrorsSlots, TouchTypeOK, TouchDeviceState, Tid
  <2>3. age[s] \in 0 .. TidMod - 1 /\ age[t] \in 0 .. TidMod - 1
    BY <2>1, TidModAssumption DEF TouchInv, TouchTypeOK
  <2>4. nextTid \in 0 .. TidMod - 1
    BY <2>1 DEF TouchInv, TouchTypeOK, Tid
  <2>5. age[s] = age[t]
    BY <2>1, <2>2, <2>3, <2>4, TidModAssumption DEF TouchInv, AgeInv
  <2>. QED BY <2>1, <2>2, <2>5 DEF TouchInv, AgeInv
<1>. QED BY <1>1, <1>2, TouchInductive, PTL DEF TouchSpec

-----------------------------------------------------------------------------
(***************************************************************************)
(* The stylus.                                                             *)
(***************************************************************************)

(* A failed tool change leaves its key released in `penDev' only: the tool *)
(* keys follow the fields exactly while the session is live and never      *)
(* exceed them, and a failure never happens out of proximity.              *)
FieldInv ==
  /\ penDev.keys \cap ToolKey \subseteq IF inProx THEN {tool} ELSE {}
  /\ penPhase = "live" /\ inProx => tool \in penDev.keys
  /\ penDev.keys \cap BarrelKey = buttons
  /\ penPhase \in {"live", "released"} => penKernel = penDev
  /\ penPhase = "failed" => inProx
  /\ penPhase = "released" => ~inProx

(* Leaving proximity lifts everything, and only a change of tool leaves    *)
(* another way.                                                            *)
LeftInv == ~inProx /\ ~switched => penDev = PenFreshDevice

PenInv == PenTypeOK /\ FieldInv /\ LeftInv

LEMMA PenFreshFacts == PenFreshDevice \in PenDeviceState /\ PenFreshDevice.keys = {}
BY DEF PenFreshDevice, PenDeviceState

LEMMA PenInitGood == PenInit => PenInv
BY PenFreshFacts DEF PenInit, PenInv, PenTypeOK, FieldInv, LeftInv, ToolKey, BarrelKey

(* What Base and Seen are, under the invariant.                            *)
LEMMA BaseFacts ==
  ASSUME PenInv, NEW t \in ToolKey
  PROVE  /\ Base(t) \in PenDeviceState
         /\ Base(t).keys \cap ToolKey \subseteq IF Near(t) THEN {t} ELSE {}
         /\ penPhase = "live" /\ Near(t) => t \in Base(t).keys
         /\ Base(t).keys \cap BarrelKey = buttons
         /\ Base(t).pressure = penDev.pressure
         /\ ~Changes(t) => Base(t) = penDev
<1>1. CASE Changes(t)
  <2>1. Base(t) = [keys |-> penDev.keys \ {tool}, pressure |-> penDev.pressure]
    BY <1>1 DEF Base, Released, PenInv, PenTypeOK, PenDeviceState
  <2>. QED BY <1>1, <2>1
           DEF Changes, Near, PenInv, PenTypeOK, FieldInv, PenDeviceState, ToolKey, BarrelKey
<1>2. CASE ~Changes(t)
  BY <1>2 DEF Base, Changes, Near, PenInv, PenTypeOK, FieldInv
<1>. QED BY <1>1, <1>2

LEMMA ToolChangeFailsStep ==
  ASSUME PenInv, NEW t \in ToolKey, NEW onErr \in {"failed", "lost"},
         ToolChangeFails(t, onErr)
  PROVE  PenInv'
<1>1. /\ penDev' = Base(t) /\ penKernel' = penKernel /\ penPhase' = onErr /\ inProx
      /\ ~Near(t)
      /\ switched' = TRUE
      /\ UNCHANGED <<inProx, tool, buttons>>
  BY DEF ToolChangeFails, Changes, Near
<1>2. PenTypeOK' /\ FieldInv'
  BY <1>1, BaseFacts DEF PenInv, PenTypeOK, FieldInv
<1>3. LeftInv'
  BY <1>1 DEF LeftInv
<1>. QED BY <1>2, <1>3 DEF PenInv

LEMMA PenActiveStep ==
  ASSUME PenInv, penPhase = "live", NEW t \in ToolKey, NEW btn \in SUBSET BarrelKey,
         NEW action \in {"hover", "down", "move", "up"}, PenActive(t, action, btn)
  PROVE  PenInv'
<1> DEFINE keys == ContactKeys(Base(t), action) \cup (IF Near(t) THEN {} ELSE {t})
           written == WithBarrel(keys, btn)
<1>1. t \in ToolKey
  OBVIOUS
<1>2. /\ tool' = t /\ inProx' = TRUE /\ buttons' = btn
      /\ switched' = (switched \/ Changes(t))
      /\ penDev' = [keys |-> written, pressure |-> action \in {"down", "move"}]
      /\ \/ penKernel' = penDev' /\ penPhase' = "live"
         \/ penKernel' = Seen(t) /\ penPhase' = "failed"
  BY DEF PenActive, PenSync
<1>3. /\ keys \subseteq ToolKey \cup BarrelKey \cup {"touch"}
      /\ keys \cap ToolKey = {t}
      /\ keys \cap BarrelKey = buttons
  BY <1>1, BaseFacts DEF ContactKeys, PenDeviceState, ToolKey, BarrelKey
<1>4. /\ written \subseteq ToolKey \cup BarrelKey \cup {"touch"}
      /\ written \cap ToolKey = {t}
      /\ written \cap BarrelKey = btn
  BY <1>3 DEF WithBarrel, ToolKey, BarrelKey
<1>5. Seen(t) \in PenDeviceState
  BY <1>1, BaseFacts DEF Seen, PenInv, PenTypeOK
<1> HIDE DEF keys, written
<1>6. PenTypeOK'
  <2>1. penDev' \in PenDeviceState
    BY <1>2, <1>4 DEF PenDeviceState
  <2>. QED BY <1>1, <1>2, <1>5, <2>1 DEF PenInv, PenTypeOK
<1>7. FieldInv'
  BY <1>2, <1>4 DEF FieldInv
<1>8. LeftInv'
  BY <1>2 DEF LeftInv
<1>. QED BY <1>6, <1>7, <1>8 DEF PenInv

LEMMA PenLeaveStep ==
  ASSUME PenInv, NEW t \in ToolKey, NEW onOk, NEW onErr,
         PenLeave(t, onOk, onErr),
         \/ onOk = "live" /\ onErr = "failed" /\ penPhase = "live"
         \/ onOk = "released" /\ onErr = "lost" /\ penPhase \in {"live", "failed"}
  PROVE  PenInv'
<1>1. CASE Near(t)
  <2> DEFINE down == penDev.keys \ KeysUp(t)
  <2>1. /\ tool' = t /\ tool = t /\ buttons' = {}
        /\ penDev' = [keys |-> down, pressure |-> FALSE]
        /\ \/ penKernel' = penDev' /\ penPhase' = onOk
           \/ penKernel' = penKernel /\ penPhase' = onErr
        /\ inProx' = (penPhase' = onErr)
        /\ switched' = FALSE
    <3>1. tool = t
      BY <1>1 DEF Near, Changes
    <3>2. /\ tool' = t /\ buttons' = {}
          /\ PenSync([keys |-> down, pressure |-> FALSE], penKernel, onOk, onErr)
      BY <1>1 DEF PenLeave
    <3>3. inProx' = (penPhase' = onErr) /\ switched' = FALSE
      BY <1>1, Zenon DEF PenLeave
    <3>. QED BY <3>1, <3>2, <3>3, Zenon DEF PenSync
  <2>2. /\ down \subseteq penDev.keys
        /\ down \cap (ToolKey \cup BarrelKey \cup {"touch"}) = {}
    BY <1>1, <2>1 DEF PenInv, FieldInv, KeysUp, Near, ToolKey, BarrelKey
  <2>3. penDev.keys \subseteq ToolKey \cup BarrelKey \cup {"touch"}
    BY DEF PenInv, PenTypeOK, PenDeviceState
  <2> HIDE DEF down
  <2>4. penDev' = PenFreshDevice
    BY <2>1, <2>2, <2>3 DEF PenFreshDevice
  <2>5. PenTypeOK'
    BY <2>1, <2>4, PenFreshFacts DEF PenInv, PenTypeOK
  <2>6. FieldInv'
    BY <2>1, <2>4, PenFreshFacts DEF FieldInv
  <2>7. LeftInv'
    BY <2>1, <2>4 DEF LeftInv
  <2>. QED BY <2>5, <2>6, <2>7 DEF PenInv
<1>2. CASE ~Near(t)
  <2>1. /\ tool' = t /\ inProx' = FALSE /\ buttons' = buttons
        /\ switched' = (switched \/ Changes(t))
        /\ penDev' = Base(t) /\ penKernel' = Seen(t) /\ penPhase' = onOk
    BY <1>2 DEF PenLeave
  <2>2. Seen(t) = Base(t)
    BY <1>2, BaseFacts DEF Near, Seen, PenInv, FieldInv
  <2>3. PenTypeOK' /\ FieldInv'
    BY <1>2, <2>1, <2>2, BaseFacts DEF PenInv, PenTypeOK, FieldInv
  <2>4. LeftInv'
    BY <1>2, <2>1, BaseFacts DEF PenInv, LeftInv, Near, Changes
  <2>. QED BY <2>3, <2>4 DEF PenInv
<1>. QED BY <1>1, <1>2

LEMMA PenUnknownStep ==
  ASSUME PenInv, penPhase = "live", NEW t \in ToolKey, PenUnknown(t)
  PROVE  PenInv'
<1>1. t \in ToolKey
  OBVIOUS
<1>2. /\ tool' = t /\ inProx' = Near(t) /\ penDev' = Base(t) /\ penKernel' = Seen(t)
      /\ switched' = (switched \/ Changes(t))
      /\ UNCHANGED <<buttons, penPhase>>
  BY DEF PenUnknown
<1>3. Seen(t) = Base(t)
  BY <1>1, BaseFacts DEF Seen, PenInv, FieldInv
<1>4. Near(t) \in BOOLEAN
  BY DEF Near, Changes, PenInv, PenTypeOK
<1>5. PenTypeOK' /\ FieldInv'
  BY <1>1, <1>2, <1>3, <1>4, BaseFacts DEF PenInv, PenTypeOK, FieldInv
<1>6. LeftInv'
  BY <1>1, <1>2, BaseFacts DEF PenInv, LeftInv, Near, Changes
<1>. QED BY <1>5, <1>6 DEF PenInv

LEMMA PenInductive == PenInv /\ [PenNext]_penVars => PenInv'
<1> SUFFICES ASSUME PenInv, [PenNext]_penVars PROVE PenInv'
  OBVIOUS
<1>1. ASSUME NEW b \in Tools, NEW action \in Action, NEW btn \in SUBSET BarrelKey,
             Handle(KeyOf(b), action, btn)
      PROVE  PenInv'
  <2> DEFINE t == KeyOf(b)
  <2>1. /\ Handle(t, action, btn) /\ penPhase = "live"
        /\ t \in ToolKey
    BY <1>1 DEF Handle, KeyOf, ToolKey
  <2> HIDE DEF t
  <2>. QED BY <2>1, ToolChangeFailsStep, PenActiveStep, PenLeaveStep, PenUnknownStep
           DEF Handle
<1>2. CASE Teardown
  <2>1. penPhase \in {"live", "failed"} /\ "pen" \in ToolKey
    BY <1>2 DEF Teardown, ToolKey
  <2>. QED BY <1>2, <2>1, ToolChangeFailsStep, PenLeaveStep DEF Teardown
<1>3. CASE PenRecreate
  BY <1>3, PenFreshFacts DEF PenRecreate, PenInv, PenTypeOK, FieldInv, LeftInv, ToolKey, BarrelKey
<1>4. CASE UNCHANGED penVars
  BY <1>4 DEF penVars, PenInv, PenTypeOK, FieldInv, LeftInv
<1>. QED BY <1>1, <1>2, <1>3, <1>4 DEF PenNext

-----------------------------------------------------------------------------

(* The fields of Pen and both views of the device keep their types.        *)
THEOREM PenTypeCorrect == PenSpec => []PenTypeOK
<1>. QED BY PenInitGood, PenInductive, PTL DEF PenSpec, PenInv

(* Exactly one tool key is down in proximity, none out of it nor after the *)
(* teardown, whatever tool was in use.                                     *)
THEOREM PenOneToolInProximity == PenSpec => []OneToolInProximity
<1>1. PenInv => OneToolInProximity
  BY DEF PenInv, PenTypeOK, FieldInv, OneToolInProximity
<1>. QED BY <1>1, PenInitGood, PenInductive, PTL DEF PenSpec

(* The barrel buttons the kernel shows are the ones last reported.         *)
THEOREM PenBarrelMirrored == PenSpec => []BarrelMirrored
<1>1. PenInv => BarrelMirrored
  BY DEF PenInv, FieldInv, BarrelMirrored
<1>. QED BY <1>1, PenInitGood, PenInductive, PTL DEF PenSpec

(* A pen that leaves proximity with the tool it came with holds nothing    *)
(* afterwards.  After a change of tool it may: run pen_eraser_lift.        *)
THEOREM PenNothingHeldOutOfProximity == PenSpec => []NothingHeldOutOfProximity
<1>1. PenInv => NothingHeldOutOfProximity
  BY DEF PenInv, FieldInv, LeftInv, NothingHeldOutOfProximity
<1>. QED BY <1>1, PenInitGood, PenInductive, PTL DEF PenSpec

-----------------------------------------------------------------------------
(***************************************************************************)
(* The way of pen and fingers to these two devices.                        *)
(***************************************************************************)

PathTypeOK ==
  /\ sendTouch \in BOOLEAN /\ penNear \in BOOLEAN
  /\ glass \subseteq Ids /\ swallowed \subseteq Ids
  /\ batch \in [act : {"none", "down", "move", "up"}, ids : SUBSET Ids]
  /\ main \in {"serving", "fingers", "pen", "over"}

(* The view may take a pen for near that is not, never the other way       *)
(* round, and no message of fingers is under way while it does.            *)
ServingInv ==
  /\ main = "serving" => touchPhase = "live" /\ penPhase = "live"
  /\ main = "serving" /\ inProx => penNear
  /\ batch.ids # {} => main = "serving" /\ ~penNear
  /\ batch.act \in {"down", "move"} => batch.ids \subseteq glass

(* Between the glass and the slot table there are the fingers whose lift   *)
(* is under way and those whose lift was dropped.                          *)
Lifting  == IF batch.act = "up" THEN batch.ids ELSE {}
GhostInv ==
  main = "serving" =>
    \A s \in Slot : slots[s] \in glass \cup swallowed \cup Lifting \cup {NoId}

PathInv == TouchInv /\ PenInv /\ PathTypeOK /\ ServingInv /\ GhostInv

LEMMA PathInitGood == Init => PathInv
<1> SUFFICES ASSUME Init PROVE PathInv
  OBVIOUS
<1>1. TouchInv /\ PenInv
  BY TouchFreshGood, PenInitGood DEF Init, TouchInit
<1>2. PathTypeOK /\ ServingInv
  BY DEF Init, PenInit, TouchInit, Dispatched, PathTypeOK, ServingInv
<1>3. GhostInv
  BY DEF Init, TouchInit, GhostInv
<1>. QED BY <1>1, <1>2, <1>3 DEF PathInv

(* A finger of the message under way that the server has no slot for: it   *)
(* holds none, because the only slot of a finger is its first.             *)
LEMMA UnslottedFacts ==
  ASSUME TouchTypeOK, OneSlotPerFinger, NEW id \in Ids, Unslotted(id)
  PROVE  \A s \in Slot : slots[s] # id
BY NoIdAssumption DEF Unslotted, SlotFor, IsFirst, OneSlotPerFinger, TouchTypeOK, Slot

(* What a step of the view, of dispatch or of the teardown is for the two  *)
(* devices: one of their own steps, or none.                               *)
LEMMA StepsOfDevices ==
  ASSUME PathTypeOK, [Next]_vars
  PROVE  [TouchNext]_touchVars /\ [PenNext]_penVars
<1>1. ASSUME NEW t \in Tools, NEW action \in Action, NEW btn \in SUBSET BarrelKey,
             PenEvent(t, action, btn)
      PROVE  [TouchNext]_touchVars /\ [PenNext]_penVars
  BY <1>1 DEF PenEvent, PenNext
<1>2. ASSUME NEW act, NEW ids, Report(act, ids)
      PROVE  [TouchNext]_touchVars /\ [PenNext]_penVars
  BY <1>2 DEF Report
<1>3. CASE HandleTouch
  <2>1. PICK id \in batch.ids : TouchDown(id) \/ TouchMove(id) \/ TouchUp(id) \/ Unslotted(id)
    BY <1>3 DEF HandleTouch
  <2>2. id \in Ids
    BY DEF PathTypeOK
  <2>. QED BY <1>3, <2>1, <2>2 DEF HandleTouch, Unslotted, TouchNext
<1>4. CASE EndSession \/ LiftFingers \/ CancelPen \/ Reconnect
  BY <1>4 DEF EndSession, LiftFingers, CancelPen, Reconnect, TouchNext, PenNext
<1>5. CASE UNCHANGED vars
  BY <1>5 DEF vars
<1>. QED BY <1>1, <1>2, <1>3, <1>4, <1>5
         DEF Next, FingerDown, FingerUp, FingersMove, FingersCancel

-----------------------------------------------------------------------------

LEMMA PenEventStep ==
  ASSUME PathInv, NEW t \in Tools, NEW action \in Action,
         NEW btn \in SUBSET BarrelKey, PenEvent(t, action, btn)
  PROVE  PathTypeOK' /\ ServingInv' /\ GhostInv'
<1>1. /\ main = "serving" /\ batch = Dispatched /\ batch' = batch
      /\ slots' = slots /\ touchPhase' = touchPhase
      /\ Handle(KeyOf(t), action, btn)
  BY DEF PenEvent, touchVars
<1>2. batch.ids = {} /\ batch.act = "none"
  BY <1>1 DEF Dispatched
<1>3. CASE penPhase' = "live"
  <2>1. /\ penNear' = Nears(action)
        /\ UNCHANGED <<sendTouch, glass, swallowed, main>>
    BY <1>3 DEF PenEvent
  <2>2. action = "leave" => ~inProx'
    BY <1>1, <1>3 DEF Handle, PenLeave, ToolChangeFails
  <2>3. PathTypeOK'
    BY <1>1, <2>1 DEF PathInv, PathTypeOK, Nears
  <2>4. ServingInv'
    BY <1>1, <1>2, <1>3, <2>1, <2>2 DEF PathInv, ServingInv, Nears
  <2>5. GhostInv'
    BY <1>1, <1>2, <2>1 DEF PathInv, GhostInv, Lifting
  <2>. QED BY <2>3, <2>4, <2>5
<1>4. CASE penPhase' # "live"
  <2>1. Ends
    BY <1>4 DEF PenEvent
  <2>. QED BY <1>1, <1>2, <2>1 DEF Ends, PathInv, PathTypeOK, ServingInv, GhostInv
<1>. QED BY <1>3, <1>4

(* What the three kinds of reports do to the glass.                        *)
LEMMA ReportStep ==
  ASSUME PathInv, NEW act \in {"down", "move", "up"}, NEW ids \in SUBSET Ids,
         Report(act, ids),
         \/ act = "down" /\ glass' = glass \cup ids
         \/ act = "move" /\ glass' = glass /\ ids \subseteq glass
         \/ act = "up"   /\ glass' = glass \ ids
  PROVE  PathTypeOK' /\ ServingInv' /\ GhostInv'
<1>1. /\ main = "serving" /\ batch = Dispatched
      /\ batch' = IF Rejected THEN Dispatched ELSE [act |-> act, ids |-> ids]
      /\ swallowed' = IF act = "move" THEN swallowed
                      ELSE IF act = "up" /\ Rejected THEN swallowed \cup (ids \cap Held)
                      ELSE swallowed \ ids
      /\ UNCHANGED <<sendTouch, penNear, main, slots, touchPhase, inProx, penPhase>>
  BY DEF Report, touchVars, penVars
<1>2. batch.ids = {} /\ batch.act = "none"
  BY <1>1 DEF Dispatched
<1>3. /\ Rejected => batch'.ids = {} /\ batch'.act = "none"
      /\ ~Rejected => batch'.ids = ids /\ batch'.act = act
  BY <1>1 DEF Dispatched
<1>4. PathTypeOK'
  BY <1>1 DEF PathInv, PathTypeOK, Dispatched
<1>5. ServingInv'
  BY <1>1, <1>3 DEF PathInv, ServingInv, Rejected
<1>6. GhostInv'
  <2>1. ASSUME NEW s \in Slot
        PROVE  slots[s] \in glass' \cup swallowed' \cup Lifting' \cup {NoId}
    <3>1. slots[s] \in glass \cup swallowed \cup {NoId} /\ slots[s] \in Held
      BY <1>1, <1>2 DEF PathInv, GhostInv, Lifting, Held
    <3>. QED BY <1>1, <1>3, <3>1 DEF Lifting
  <2>. QED BY <1>1, <2>1 DEF GhostInv
<1>. QED BY <1>4, <1>5, <1>6

LEMMA HandleTouchStep ==
  ASSUME PathInv, HandleTouch
  PROVE  PathTypeOK' /\ ServingInv' /\ GhostInv'
<1>1. PICK id \in batch.ids :
        /\ \/ batch.act = "down" /\ TouchDown(id)
           \/ batch.act = "move" /\ TouchMove(id)
           \/ batch.act = "up"   /\ TouchUp(id)
           \/ Unslotted(id)
        /\ batch' = IF touchPhase' # "live" \/ batch.ids = {id} THEN Dispatched
                    ELSE [batch EXCEPT !.ids = @ \ {id}]
  BY DEF HandleTouch
<1>2. id \in Ids /\ main = "serving" /\ ~penNear
  BY DEF PathInv, PathTypeOK, ServingInv
<1>3. UNCHANGED <<inProx, penPhase>>
  BY DEF HandleTouch, penVars
<1>4. CASE touchPhase' = "live"
  <2>1. UNCHANGED <<sendTouch, penNear, glass, swallowed, main>>
    BY <1>4 DEF HandleTouch, view
  <2>2. /\ batch'.ids = batch.ids \ {id}
        /\ batch'.act = batch.act \/ (batch'.act = "none" /\ batch'.ids = {})
        /\ batch' \in [act : {"none", "down", "move", "up"}, ids : SUBSET Ids]
    BY <1>1, <1>4 DEF Dispatched, PathInv, PathTypeOK
  <2>3. PathTypeOK'
    BY <2>1, <2>2 DEF PathInv, PathTypeOK
  <2>4. ServingInv'
    BY <1>2, <1>3, <1>4, <2>1, <2>2 DEF PathInv, ServingInv
  <2>5. ASSUME NEW s \in Slot
        PROVE  slots'[s] \in glass \cup swallowed \cup Lifting' \cup {NoId}
    <3>1. /\ slots[s] \in glass \cup swallowed \cup Lifting \cup {NoId}
          /\ slots \in [Slot -> Ids \cup {NoId}]
      BY <1>2 DEF PathInv, GhostInv, TouchInv, TouchTypeOK
    <3>2. CASE Lifting' = Lifting \/ batch.act # "up"
      <4>1. slots'[s] = slots[s] \/ slots'[s] = NoId \/ slots'[s] \in glass
        BY <1>1, <1>2, <3>1
           DEF TouchDown, TouchMove, TouchUp, Unslotted, touchVars, PathInv, ServingInv
      <4>. QED BY <2>2, <3>1, <3>2, <4>1 DEF Lifting
    <3>3. CASE batch.act = "up"
      <4>1. Lifting' = Lifting \ {id}
        BY <2>2, <3>3 DEF Lifting
      <4>2. slots'[s] = NoId \/ (slots'[s] = slots[s] /\ slots[s] # id)
        <5>1. CASE TouchUp(id)
          <6>1. PICK t \in Slot : SlotFor(id, FALSE, t) /\ slots' = [slots EXCEPT ![t] = NoId]
            BY <5>1 DEF TouchUp
          <6>2. slots[t] = id
            BY <6>1 DEF SlotFor, IsFirst
          <6>. QED BY <1>2, <3>1, <6>1, <6>2, NoIdAssumption
                   DEF PathInv, TouchInv, OneSlotPerFinger
        <5>2. CASE Unslotted(id)
          BY <1>2, <5>2, UnslottedFacts DEF Unslotted, touchVars, PathInv, TouchInv
        <5>. QED BY <1>1, <3>3, <5>1, <5>2
      <4>. QED BY <3>1, <4>1, <4>2
    <3>. QED BY <3>2, <3>3
  <2>6. GhostInv'
    BY <2>1, <2>5 DEF GhostInv
  <2>. QED BY <2>3, <2>4, <2>6
<1>5. CASE touchPhase' # "live"
  <2>1. Ends /\ batch' = Dispatched
    BY <1>1, <1>5 DEF HandleTouch
  <2>. QED BY <2>1 DEF Ends, Dispatched, PathInv, PathTypeOK, ServingInv, GhostInv
<1>. QED BY <1>4, <1>5

LEMMA TeardownStep ==
  ASSUME PathInv, EndSession \/ LiftFingers \/ CancelPen \/ Reconnect
  PROVE  PathTypeOK' /\ ServingInv' /\ GhostInv'
<1>1. CASE EndSession
  BY <1>1 DEF EndSession, Ends, Dispatched, PathInv, PathTypeOK, ServingInv, GhostInv
<1>2. CASE LiftFingers \/ CancelPen
  BY <1>2 DEF LiftFingers, CancelPen, view, PathInv, PathTypeOK, ServingInv, GhostInv
<1>3. CASE Reconnect
  <2>1. /\ main = "over" /\ main' = "serving" /\ touchPhase' = "live"
        /\ penPhase' = "live" /\ inProx' = FALSE /\ slots' = [s \in Slot |-> NoId]
        /\ sendTouch' \in BOOLEAN /\ UNCHANGED <<penNear, glass, swallowed, batch>>
    BY <1>3 DEF Reconnect, TouchRecreate, PenRecreate
  <2>. QED BY <2>1 DEF PathInv, PathTypeOK, ServingInv, GhostInv
<1>. QED BY <1>1, <1>2, <1>3

LEMMA PathInductive == PathInv /\ [Next]_vars => PathInv'
<1> SUFFICES ASSUME PathInv, [Next]_vars PROVE PathInv'
  OBVIOUS
<1>1. TouchInv' /\ PenInv'
  BY StepsOfDevices, TouchInductive, PenInductive DEF PathInv
<1>2. PathTypeOK' /\ ServingInv' /\ GhostInv'
  <2>1. ASSUME NEW t \in Tools, NEW action \in Action, NEW btn \in SUBSET BarrelKey,
               PenEvent(t, action, btn)
        PROVE  PathTypeOK' /\ ServingInv' /\ GhostInv'
    BY <2>1, PenEventStep
  <2>2. ASSUME NEW id \in Ids, FingerDown(id) \/ FingerUp(id)
        PROVE  PathTypeOK' /\ ServingInv' /\ GhostInv'
    <3>1. {id} \in SUBSET Ids
      OBVIOUS
    <3>. QED BY <2>2, <3>1, ReportStep DEF FingerDown, FingerUp
  <2>3. CASE FingersMove \/ FingersCancel
    <3>1. glass \in SUBSET Ids
      BY DEF PathInv, PathTypeOK
    <3>2. glass \ glass = {}
      OBVIOUS
    <3>. QED BY <2>3, <3>1, <3>2, ReportStep DEF FingersMove, FingersCancel
  <2>4. CASE HandleTouch
    BY <2>4, HandleTouchStep
  <2>5. CASE EndSession \/ LiftFingers \/ CancelPen \/ Reconnect
    BY <2>5, TeardownStep
  <2>6. CASE UNCHANGED vars
    BY <2>6 DEF vars, view, touchVars, penVars, PathInv, PathTypeOK, ServingInv,
                GhostInv, Lifting
  <2>. QED BY <2>1, <2>2, <2>3, <2>4, <2>5, <2>6 DEF Next
<1>. QED BY <1>1, <1>2 DEF PathInv

LEMMA PathInvariant == Spec => []PathInv
BY PathInitGood, PathInductive, PTL DEF Spec

(* What arrives from a tablet, palm rejection, batches, an error of one    *)
(* device that ends the session of both and the two teardowns make the     *)
(* devices take the steps of Touch and of Pen, and no others.              *)
THEOREM InputImplementsDevices == Spec => TouchSpec /\ PenSpec
<1>1. Init => TouchInit /\ PenInit
  BY DEF Init
<1>2. PathInv /\ [Next]_vars => [TouchNext]_touchVars /\ [PenNext]_penVars
  BY StepsOfDevices DEF PathInv
<1>. QED BY <1>1, <1>2, PathInvariant, PTL DEF Spec, TouchSpec, PenSpec

(* So all that is proved of the devices above holds of a session.          *)
THEOREM InputDevicesCorrect ==
  Spec => [](/\ OneSlotPerFinger /\ KernelMirrorsSlots
             /\ NothingHeldAfterRelease /\ TrackingIdsDistinct
             /\ OneToolInProximity /\ BarrelMirrored /\ NothingHeldOutOfProximity)
BY InputImplementsDevices, TouchOneSlotPerFinger, TouchKernelMirrorsSlots,
   TouchNothingHeldAfterRelease, TouchTrackingIdsDistinct,
   PenOneToolInProximity, PenBarrelMirrored, PenNothingHeldOutOfProximity, PTL

(* Palm rejection works although the view only guesses from what it sends  *)
(* where the pen is: no finger comes down on the desktop while the desktop *)
(* has the pen in proximity.                                               *)
THEOREM InputPalmRejected == Spec => PalmRejected
<1>1. ASSUME PathInv, [Next]_vars, inProx, penPhase = "live"
      PROVE  Contacts' \subseteq Contacts
  <2>1. CASE UNCHANGED touchVars
    BY <2>1 DEF touchVars, Contacts
  <2>2. CASE LiftFingers
    <3>1. PICK sel \in Slot :
            TouchSync([sel |-> sel,
                       tid |-> [s \in Slot |-> IF s \in Active THEN Lifted
                                               ELSE touchDev.tid[s]],
                       btn |-> FALSE], "released", "lost")
      BY <2>2 DEF LiftFingers, ReleaseAll
    <3>2. \A s \in Slot : s \notin Active => touchDev.tid[s] = Lifted
      BY <1>1 DEF PathInv, TouchInv, DevMirrorsSlots, Active
    <3>. QED BY <3>1, <3>2 DEF TouchSync, Contacts
  <2>3. ~HandleTouch
    BY <1>1 DEF HandleTouch, PathInv, ServingInv
  <2>4. ~Reconnect
    BY <1>1 DEF Reconnect, PenRecreate
  <2>. QED BY <1>1, <2>1, <2>2, <2>3, <2>4
           DEF Next, vars, PenEvent, FingerDown, FingerUp, FingersMove,
               FingersCancel, Report, EndSession, CancelPen
<1>2. PathInv /\ [Next]_vars =>
        [inProx /\ penPhase = "live" => Contacts' \subseteq Contacts]_vars
  BY <1>1
<1>. QED BY <1>2, PathInvariant, PTL DEF Spec, PalmRejected

(* A finger the desktop still holds between two messages is on the glass,  *)
(* or was lifted while the view dropped what fingers do.                   *)
THEOREM InputNoOtherGhosts == Spec => []NoOtherGhosts
<1>1. PathInv => NoOtherGhosts
  BY DEF PathInv, GhostInv, Lifting, Dispatched, NoOtherGhosts
<1>. QED BY <1>1, PathInvariant, PTL

-----------------------------------------------------------------------------
(***************************************************************************)
(* The touchpad.                                                           *)
(***************************************************************************)

(* The fields of Touchpad and what really happened since the first finger  *)
(* came down agree while a finger is down; a click ends that.              *)
GestureInv ==
  /\ fingers # {} => peak = joined /\ moved = jumped /\ timely = ~late
  /\ clicks # <<>> =>
       /\ fingers = {} /\ ~late /\ ~jumped
       /\ joined \in DOMAIN Button /\ clicks = <<Button[joined]>>

ButtonInv ==
  /\ padPhase = "live"     => padKernel = {} /\ padDev = {}
  /\ padPhase = "released" => padKernel = {}

PadInv == PadTypeOK /\ GestureInv /\ ButtonInv

(* What becomes of a scroll remainder never reaches a line.                *)
LEMMA RestBounded ==
  ASSUME NEW a \in Int
  PROVE  Rest(a) \in -(StepsPerLine - 1) .. StepsPerLine - 1
BY DEF Rest, StepsPerLine

LEMMA ButtonFacts ==
  /\ DOMAIN Button = 1 .. 3
  /\ \A n \in DOMAIN Button : Button[n] \in Buttons
BY DEF Button, Buttons

LEMMA ClickFacts ==
  /\ <<>> \in Seq(Buttons)
  /\ \A b \in Buttons : <<b>> \in Seq(Buttons)
OBVIOUS

(* The fingers on the pad can be counted, and their number is bounded.     *)
LEMMA FingerCount ==
  ASSUME NEW S \in SUBSET PadIds
  PROVE  /\ IsFiniteSet(S)
         /\ Cardinality(S) \in 0 .. Cardinality(PadIds)
BY PadIdsAssumption, FS_Subset, FS_CardinalityType

LEMMA PadDownStep ==
  ASSUME PadInv, NEW id \in PadIds, PadDown(id)
  PROVE  PadInv'
<1>1. fingers' \in SUBSET PadIds /\ fingers' = fingers \cup {id}
  BY DEF PadDown, PadInv, PadTypeOK
<1>2. Cardinality(fingers') \in 0 .. Cardinality(PadIds)
  BY <1>1, FingerCount
<1>3. Cardinality(PadIds) \in Nat
  BY PadIdsAssumption, FS_CardinalityType
<1>4. fingers = {} => Cardinality(fingers') = 1
  BY <1>1, FS_Singleton
<1>5. PadTypeOK'
  <2>1. clicks' \in Seq(Buttons)
    BY ClickFacts DEF PadDown, PadInv, PadTypeOK
  <2>2. peak' \in 0 .. Cardinality(PadIds) /\ joined' \in 0 .. Cardinality(PadIds)
    BY <1>1, <1>2, <1>3, <1>4 DEF PadDown, First, Larger, PadInv, PadTypeOK
  <2>. QED BY <1>1, <2>1, <2>2 DEF PadDown, First, PadInv, PadTypeOK
<1>6. GestureInv'
  <2>1. peak' = joined' /\ moved' = jumped' /\ timely' = ~late'
    <3>1. CASE fingers = {}
      <4>1. peak' = 1 /\ joined' = 1
        BY <1>4, <3>1 DEF PadDown, First, Larger
      <4>2. moved' = FALSE /\ jumped' = FALSE /\ timely' = TRUE /\ late' = FALSE
        BY <3>1 DEF PadDown, First
      <4>. QED BY <4>1, <4>2, Zenon
    <3>2. CASE fingers # {}
      BY <3>2 DEF PadDown, First, PadInv, PadTypeOK, GestureInv
    <3>. QED BY <3>1, <3>2
  <2>2. clicks' = <<>>
    BY DEF PadDown, PadInv, GestureInv
  <2>. QED BY <2>1, <2>2 DEF GestureInv
<1>7. ButtonInv'
  BY DEF PadDown, PadInv, ButtonInv
<1>. QED BY <1>5, <1>6, <1>7 DEF PadInv

LEMMA PadMoveStep ==
  ASSUME PadInv, NEW id \in PadIds, NEW d \in Deltas, PadMove(id, d)
  PROVE  PadInv'
<1>1. acc' \in -(StepsPerLine - 1) .. StepsPerLine - 1
  <2>1. acc - d \in Int
    BY DeltasAssumption DEF PadInv, PadTypeOK, StepsPerLine
  <2>. QED BY <2>1, RestBounded DEF PadMove, PadInv, PadTypeOK
<1>2. PadTypeOK'
  BY <1>1 DEF PadMove, PadInv, PadTypeOK
<1>3. GestureInv' /\ ButtonInv'
  BY DEF PadMove, PadInv, GestureInv, ButtonInv
<1>. QED BY <1>2, <1>3 DEF PadInv

LEMMA PadUpStep ==
  ASSUME PadInv, NEW id \in PadIds, PadUp(id)
  PROVE  PadInv'
<1>1. /\ padPhase = "live" /\ id \in fingers /\ fingers' = fingers \ {id}
      /\ padKernel = {} /\ padDev = {} /\ clicks = <<>>
      /\ UNCHANGED <<peak, moved, timely, acc, jumped, late, joined>>
  BY DEF PadUp, PadInv, GestureInv, ButtonInv
<1>2. CASE Last(id) /\ timely /\ ~moved /\ peak \in DOMAIN Button
  <2>1. Click(Button[peak]) /\ fingers' = {}
    BY <1>1, <1>2 DEF PadUp, Last
  <2>2. peak = joined /\ ~jumped /\ ~late
    BY <1>1, <1>2 DEF PadInv, GestureInv, PadTypeOK
  <2>3. Button[peak] \in Buttons
    BY <1>2, ButtonFacts
  <2>4. /\ padKernel' \subseteq Buttons /\ padDev' \subseteq Buttons
        /\ clicks' = <<>> \/ clicks' = <<Button[peak]>>
        /\ padPhase' \in {"live", "failed"}
        /\ padPhase' = "live" => padKernel' = {} /\ padDev' = {}
    BY <1>1, <2>1, <2>3 DEF Click
  <2>5. PadTypeOK'
    BY <1>1, <2>1, <2>3, <2>4, ClickFacts DEF PadInv, PadTypeOK
  <2>6. GestureInv'
    BY <1>1, <1>2, <2>1, <2>2, <2>4 DEF GestureInv
  <2>7. ButtonInv'
    BY <2>4 DEF ButtonInv
  <2>. QED BY <2>5, <2>6, <2>7 DEF PadInv
<1>3. CASE ~(Last(id) /\ timely /\ ~moved /\ peak \in DOMAIN Button)
  <2>1. UNCHANGED <<padDev, padKernel, padPhase, clicks>>
    BY <1>3 DEF PadUp
  <2>. QED BY <1>1, <2>1 DEF PadInv, PadTypeOK, GestureInv, ButtonInv
<1>. QED BY <1>2, <1>3

LEMMA FreshCounters ==
  0 \in 0 .. Cardinality(PadIds) /\ 0 \in -(StepsPerLine - 1) .. StepsPerLine - 1
<1>1. Cardinality(PadIds) \in Nat
  BY PadIdsAssumption, FS_CardinalityType
<1>. QED BY <1>1 DEF StepsPerLine

LEMMA PadFreshGood ==
  ASSUME fingers = {}, peak = 0, moved = FALSE, timely = TRUE, acc = 0,
         padDev = {}, padKernel = {}, padPhase = "live",
         clicks = <<>>, jumped = FALSE, late = FALSE, joined = 0
  PROVE  PadInv
<1>1. PadTypeOK
  BY FreshCounters, ClickFacts, Zenon DEF PadTypeOK
<1>. QED BY <1>1 DEF PadInv, GestureInv, ButtonInv

LEMMA PadInductive == PadInv /\ [PadNext]_padVars => PadInv'
<1> SUFFICES ASSUME PadInv, [PadNext]_padVars PROVE PadInv'
  OBVIOUS
<1>1. ASSUME NEW id \in PadIds, PadDown(id) PROVE PadInv'
  BY <1>1, PadDownStep
<1>2. ASSUME NEW id \in PadIds, PadUp(id) PROVE PadInv'
  BY <1>2, PadUpStep
<1>3. ASSUME NEW id \in PadIds, NEW d \in Deltas, PadMove(id, d) PROVE PadInv'
  BY <1>3, PadMoveStep
<1>4. CASE TimePasses
  BY <1>4 DEF TimePasses, PadInv, PadTypeOK, GestureInv, ButtonInv
<1>5. CASE PadCancel \/ PadReleaseAll
  BY <1>5 DEF PadCancel, PadReleaseAll, gesture, PadInv, PadTypeOK, GestureInv, ButtonInv
<1>6. CASE PadRecreate
  <2>1. PadTypeOK'
    BY <1>6, FreshCounters, ClickFacts, Zenon DEF PadRecreate, PadTypeOK
  <2>. QED BY <1>6, <2>1 DEF PadRecreate, PadInv, GestureInv, ButtonInv
<1>7. CASE UNCHANGED padVars
  BY <1>7 DEF padVars, gesture, PadInv, PadTypeOK, GestureInv, ButtonInv
<1>. QED BY <1>1, <1>2, <1>3, <1>4, <1>5, <1>6, <1>7 DEF PadNext

LEMMA PadInvariant == PadSpec => []PadInv
<1>1. PadInit => PadInv
  BY PadFreshGood DEF PadInit
<1>. QED BY <1>1, PadInductive, PTL DEF PadSpec

(* The fields of Touchpad keep their types: among them the most fingers at *)
(* once, and a scroll remainder below one line.                            *)
THEOREM PadTypeCorrect == PadSpec => []PadTypeOK
<1>1. PadInv => PadTypeOK
  BY DEF PadInv
<1>. QED BY <1>1, PadInvariant, PTL

(* However fingers come and go, a gesture clicks once at most and not      *)
(* before it is over.                                                      *)
THEOREM PadOneClickPerGesture == PadSpec => []OneClickPerGesture
<1>1. PadInv => OneClickPerGesture
  BY DEF PadInv, GestureInv, OneClickPerGesture
<1>. QED BY <1>1, PadInvariant, PTL

(* The button of a click is that of the most fingers that were down at     *)
(* once, and the gesture was short and still.                              *)
THEOREM PadClickMatchesGesture == PadSpec => []ClickMatchesGesture
<1>1. PadInv => ClickMatchesGesture
  BY DEF PadInv, GestureInv, ClickMatchesGesture
<1>. QED BY <1>1, PadInvariant, PTL

(* Whatever write failed, no button is down in a session that runs, nor    *)
(* after a teardown that is written.                                       *)
THEOREM PadButtonsUp == PadSpec => []ButtonsUp
<1>1. PadInv => ButtonsUp
  BY DEF PadInv, ButtonInv, ButtonsUp
<1>. QED BY <1>1, PadInvariant, PTL
=============================================================================
