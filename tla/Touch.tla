------------------------------- MODULE Touch -------------------------------
(***************************************************************************)
(* The virtual touchscreen of the server (struct Touch of uinput.rs).      *)
(* The tablet names its fingers by pointer id.  The server gives every     *)
(* finger a multitouch slot and a tracking id and writes the change to     *)
(* /dev/uinput as a batch of events closed by SYN_REPORT.  A write may     *)
(* fail: the batch then stays in `pending', the session ends, and the      *)
(* teardown (release_all) writes it again in front of its own events.      *)
(*                                                                         *)
(* `touchDev' is what the events emitted so far add up to and              *)
(* `touchKernel' what the kernel has been given: they differ exactly while *)
(* `pending' is not empty.  Coordinates, pressure and contact size are     *)
(* left out.                                                               *)
(***************************************************************************)
EXTENDS Integers

CONSTANTS
  Ids,        \* pointer ids the tablet may use (a u8 on the wire)
  NoId,       \* Option::None of a slot
  NumSlots,   \* MT_SLOTS
  TidMod      \* tracking ids are counted modulo 0x10000

ASSUME NoIdAssumption     == NoId \notin Ids
ASSUME NumSlotsAssumption == NumSlots \in Nat \ {0}
ASSUME TidModAssumption   == TidMod \in Nat \ {0, 1}

VARIABLES
  slots,        \* slot -> pointer id holding it
  nextTid,      \* next_tracking_id
  touchDev,     \* device state once `pending' is written
  touchKernel,  \* device state the kernel and KWin know
  touchPhase,   \* "live", "failed" (a sync failed), "released", "lost"
  age           \* history: DOWNs since the contact of a slot began, up to TidMod

touchVars == <<slots, nextTid, touchDev, touchKernel, touchPhase, age>>

Slot == 0 .. NumSlots - 1
Tid  == 0 .. TidMod - 1
Lifted == -1                       \* ABS_MT_TRACKING_ID of an empty slot

TouchDeviceState == [sel : Slot, tid : [Slot -> Tid \cup {Lifted}], btn : BOOLEAN]

TouchTypeOK ==
  /\ slots       \in [Slot -> Ids \cup {NoId}]
  /\ nextTid     \in Tid
  /\ touchDev    \in TouchDeviceState
  /\ touchKernel \in TouchDeviceState
  /\ touchPhase  \in {"live", "failed", "released", "lost"}
  /\ age         \in [Slot -> 0 .. TidMod]

-----------------------------------------------------------------------------
(* What the kernel does with one event: a tracking id goes to the slot     *)
(* selected last; BTN_TOUCH is a key.                                      *)

TouchFreshDevice == [sel |-> 0, tid |-> [s \in Slot |-> Lifted], btn |-> FALSE]

SelectSlot(d, s) == [d EXCEPT !.sel = s]
SetTid(d, t)     == [d EXCEPT !.tid = [@ EXCEPT ![d.sel] = t]]
SetBtn(d, b)     == [d EXCEPT !.btn = b]

-----------------------------------------------------------------------------

(* The lowest slot that holds v: Iterator::position.                       *)
IsFirst(s, v) == slots[s] = v /\ \A t \in Slot : slots[t] = v => s <= t

Active == {s \in Slot : slots[s] # NoId}

(* Mutant of SlotFor: a DOWN takes a free slot without looking for its id. *)
SlotForFree(id, allocate, s) ==
  IF allocate THEN IsFirst(s, NoId) ELSE IsFirst(s, id)

(* slot_for returns Some(s); it returns None when no s qualifies.          *)
SlotFor(id, allocate, s) ==
  \/ IsFirst(s, id)
  \/ /\ allocate
     /\ \A t \in Slot : slots[t] # id
     /\ IsFirst(s, NoId)

(* The counter after a DOWN, and the mutant that keeps half its range.     *)
NextTidHalf == (nextTid + 1) % (TidMod \div 2)
NextTid     == IF nextTid + 1 = TidMod THEN 0 ELSE nextTid + 1

(* Whether a finger is left once slot s is empty, and the mutant that      *)
(* counts before the slot is emptied.                                      *)
StillTouchedBefore(s) == Active # {}
StillTouched(s)       == Active # {s}

(* Mutant of TouchSync: the batch is cleared, written or not. *)
SyncClearing(d, onOk, onErr) ==
  \/ touchDev' = d           /\ touchKernel' = d           /\ touchPhase' = onOk
  \/ touchDev' = touchKernel /\ touchKernel' = touchKernel /\ touchPhase' = onErr

(* Device::sync: the kernel gets every pending event, or the write fails,  *)
(* the events stay pending and the error ends the session.                 *)
TouchSync(d, onOk, onErr) ==
  /\ touchDev' = d
  /\ \/ touchKernel' = d           /\ touchPhase' = onOk
     \/ touchKernel' = touchKernel /\ touchPhase' = onErr

Older(s) == [t \in Slot |-> IF t = s THEN 0
                            ELSE IF age[t] < TidMod THEN age[t] + 1 ELSE age[t]]

TouchInit ==
  /\ slots       = [s \in Slot |-> NoId]
  /\ nextTid     = 1
  /\ touchDev    = TouchFreshDevice
  /\ touchKernel = TouchFreshDevice
  /\ touchPhase  = "live"
  /\ age         = [s \in Slot |-> 0]

(* TOUCH_DOWN: a finger beyond the last slot is ignored.                   *)
TouchDown(id) ==
  /\ touchPhase = "live"
  /\ \E s \in Slot :
       /\ SlotFor(id, TRUE, s)
       /\ slots'   = [slots EXCEPT ![s] = id]
       /\ nextTid' = NextTid
       /\ LET d == SetTid(SelectSlot(touchDev, s), nextTid)
          IN  TouchSync(SetBtn(d, d.btn \/ Active = {}), "live", "failed")
       /\ age' = Older(s)

(* TOUCH_MOVE: only a finger that has a slot moves.                        *)
TouchMove(id) ==
  /\ touchPhase = "live"
  /\ \E s \in Slot :
       /\ SlotFor(id, FALSE, s)
       /\ TouchSync(SelectSlot(touchDev, s), "live", "failed")
  /\ UNCHANGED <<slots, nextTid, age>>

(* TOUCH_UP and TOUCH_CANCEL; lifting the last finger releases BTN_TOUCH.  *)
TouchUp(id) ==
  /\ touchPhase = "live"
  /\ \E s \in Slot :
       /\ SlotFor(id, FALSE, s)
       /\ slots' = [slots EXCEPT ![s] = NoId]
       /\ LET d == SetTid(SelectSlot(touchDev, s), Lifted)
          IN  TouchSync(SetBtn(d, d.btn /\ StillTouched(s)), "live", "failed")
  /\ UNCHANGED <<nextTid, age>>

(* Teardown, after a normal end of the session or after a failed sync.     *)
(* The slots still held are lifted in ascending order.                     *)
ReleaseAll ==
  /\ touchPhase \in {"live", "failed"}
  /\ slots' = [s \in Slot |-> NoId]
  /\ \E sel \in Slot :
       /\ \/ Active = {} /\ sel = touchDev.sel
          \/ sel \in Active /\ \A t \in Active : t <= sel
       /\ TouchSync([sel |-> sel,
                     tid |-> [s \in Slot |-> IF s \in Active THEN Lifted ELSE touchDev.tid[s]],
                     btn |-> FALSE], "released", "lost")
  /\ UNCHANGED <<nextTid, age>>

(* The device is destroyed with its session; the next one makes a new one. *)
TouchRecreate ==
  /\ touchPhase \in {"released", "lost"}
  /\ slots'       = [s \in Slot |-> NoId]
  /\ nextTid'     = 1
  /\ touchDev'    = TouchFreshDevice
  /\ touchKernel' = TouchFreshDevice
  /\ touchPhase'  = "live"
  /\ age'         = [s \in Slot |-> 0]

TouchNext ==
  \/ \E id \in Ids : TouchDown(id) \/ TouchMove(id) \/ TouchUp(id)
  \/ ReleaseAll
  \/ TouchRecreate

TouchSpec == TouchInit /\ [][TouchNext]_touchVars

-----------------------------------------------------------------------------

(* A finger never owns two slots, however often the tablet repeats a DOWN  *)
(* for a pointer id whose UP it never sent (slot_for looks for the id      *)
(* before it takes a free slot).                                           *)
OneSlotPerFinger ==
  \A s, t \in Slot : slots[s] = slots[t] /\ slots[s] # NoId => s = t

(* While the session runs the desktop sees a contact in exactly the slots  *)
(* that some finger owns, and BTN_TOUCH exactly while there is one.        *)
KernelMirrorsSlots ==
  touchPhase = "live" =>
    /\ \A s \in Slot : touchKernel.tid[s] # Lifted <=> slots[s] # NoId
    /\ touchKernel.btn <=> Active # {}

(* "Lift every finger": a teardown whose write succeeds leaves no contact  *)
(* behind, also when an earlier write of the session failed half way       *)
(* between the slot table and the kernel.                                  *)
NothingHeldAfterRelease ==
  touchPhase = "released" =>
    /\ \A s \in Slot : touchKernel.tid[s] = Lifted
    /\ ~touchKernel.btn

(* Two fingers on the glass share a tracking id only if one of them has    *)
(* stayed down while the counter went all the way round.                   *)
TrackingIdsDistinct ==
  \A s, t \in Slot :
    /\ s # t
    /\ touchPhase = "live"
    /\ touchKernel.tid[s] # Lifted
    /\ touchKernel.tid[s] = touchKernel.tid[t]
    => age[s] = TidMod \/ age[t] = TidMod
=============================================================================
