-------------------------- MODULE AudioRouteProofs --------------------------
(* Proofs about the default audio output, for every set of outputs, every  *)
(* set of calls that may fail and any number of kills.                     *)
EXTENDS AudioRoute, TLAPS

Held == {"capture", "running", "restore", "unload"}

(* Whose sink it is: this session's from the load to the unload, and only  *)
(* in tablet mode.                                                         *)
OwnerInv ==
  /\ mine = TRUE => mode = "tablet" /\ pc \in Held \cup {"set"} /\ modules >= 1
  /\ pc \in {"clean", "load", "set"} => mode = "tablet"
  /\ pc = "set" => mine = TRUE
  /\ pc \in Held /\ mode = "tablet" => mine = TRUE

(* Unless list or unload has failed the stale sinks are gone before the    *)
(* own one is loaded.                                                      *)
CountInv ==
  leaky = FALSE =>
    /\ modules <= 1
    /\ pc = "load" => modules = 0
    /\ pc = "idle" /\ ended = TRUE => modules = 0

(* What the session remembers, as long as nothing disturbs it. *)
MemoryInv ==
  /\ pc \notin {"idle", "exited"} => ended = FALSE
  /\ disturbed = FALSE =>
       /\ pc = "get" => Default = original
       /\ pc \in {"clean", "load", "set", "capture", "running", "restore"} /\ mode = "tablet"
            => prev = original
       /\ pc = "unload" /\ mode = "tablet" /\ original \in RealSinks => configured = original
       /\ pc = "idle" /\ ended = TRUE /\ original \in RealSinks => Default = original

IInv == TypeOK /\ OwnerInv /\ CountInv /\ MemoryInv

LEMMA DefaultFacts ==
  ASSUME TypeOK
  PROVE  Default \in Sinks /\ (modules = 0 \/ configured \in RealSinks => Default \in RealSinks)
BY SinkAssumption DEF TypeOK, Default, Sinks

LEMMA InitGood == Init => IInv
<1> SUFFICES ASSUME Init PROVE IInv
  OBVIOUS
<1>1. TypeOK
  <2>1. 0 \in 0 .. MaxModules /\ 0 \in 0 .. MaxCrashes
    BY BoundAssumption
  <2>. QED BY <2>1 DEF Init, TypeOK, Sinks, Steps
<1>2. OwnerInv
  BY DEF Init, OwnerInv, Held
<1>3. CountInv
  BY DEF Init, CountInv
<1>4. MemoryInv
  BY DEF Init, MemoryInv
<1>. QED BY <1>1, <1>2, <1>3, <1>4 DEF IInv

(* The type invariant needs the owner's: nothing is unloaded twice. *)
LEMMA TypeStep == IInv /\ [Next]_vars => TypeOK'
<1> SUFFICES ASSUME IInv, [Next]_vars PROVE TypeOK'
  OBVIOUS
<1>1. TypeOK /\ OwnerInv /\ Default \in Sinks /\ MaxModules \in Nat /\ MaxCrashes \in Nat
  BY DefaultFacts, BoundAssumption DEF IInv
<1>a. ASSUME NEW next, Works(next)
      PROVE  disturbed' \in BOOLEAN /\ leaky' \in BOOLEAN /\ pc' = next
  BY <1>1, <1>a DEF Works, TypeOK
<1>b. ASSUME NEW call, NEW next, Fails(call, next)
      PROVE  disturbed' \in BOOLEAN /\ leaky' \in BOOLEAN /\ pc' = next
  BY <1>b DEF Fails
<1>2. ASSUME NEW m \in {"tablet", "both"}, Begin(m) PROVE TypeOK'
  BY <1>1, <1>2 DEF Begin, TypeOK, Steps
<1>3. CASE GetDefault
  BY <1>1, <1>a, <1>b, <1>3 DEF GetDefault, TypeOK, Steps
<1>4. CASE DropStale
  BY <1>1, <1>a, <1>b, <1>4 DEF DropStale, TypeOK, Steps
<1>5. CASE LoadModule
  <2>1. modules' \in 0 .. MaxModules /\ mine' \in BOOLEAN
    <3>1. \/ modules < MaxModules /\ modules' = modules + 1 /\ mine' = TRUE
          \/ modules' = modules /\ mine' = mine
      BY <1>5 DEF LoadModule
    <3>2. modules \in 0 .. MaxModules /\ mine \in BOOLEAN
      BY <1>1 DEF TypeOK
    <3>3. modules < MaxModules => modules + 1 \in 0 .. MaxModules
      BY <1>1, <3>2
    <3>4. modules' \in 0 .. MaxModules
      BY <3>1, <3>2, <3>3
    <3>5. mine' \in BOOLEAN
      BY <3>1, <3>2
    <3>. QED BY <3>4, <3>5
  <2>2. disturbed' \in BOOLEAN /\ leaky' \in BOOLEAN /\ pc' \in {"set", "idle"}
    BY <1>a, <1>b, <1>5 DEF LoadModule
  <2>. QED BY <1>1, <1>5, <2>1, <2>2 DEF LoadModule, TypeOK, Steps
<1>6. CASE SetDefault
  BY <1>1, <1>a, <1>b, <1>6 DEF SetDefault, TypeOK, Steps, Sinks
<1>7. CASE Capture \/ EndSession
  BY <1>1, <1>a, <1>b, <1>7 DEF Capture, EndSession, TypeOK, Steps
<1>8. CASE Restore
  BY <1>1, <1>a, <1>b, <1>8 DEF Restore, TypeOK, Steps
<1>9. CASE Unload
  <2>1. modules' \in 0 .. MaxModules
    BY <1>1, <1>9 DEF Unload, Remaining, OwnerInv, TypeOK
  <2>2. ended' \in BOOLEAN
    BY <1>9 DEF Unload
  <2>3. disturbed' \in BOOLEAN /\ leaky' \in BOOLEAN /\ pc' = "idle"
    BY <1>a, <1>b, <1>9 DEF Unload
  <2>. QED BY <1>1, <1>9, <2>1, <2>2, <2>3 DEF Unload, TypeOK, Steps
<1>10. CASE Crash \/ Quit
  <2>1. crashes' \in 0 .. MaxCrashes
    BY <1>1, <1>10 DEF Crash, Quit, TypeOK
  <2>. QED BY <1>1, <1>10, <2>1 DEF Crash, Quit, TypeOK, Steps
<1>11. ASSUME NEW s \in RealSinks, UserChooses(s) PROVE TypeOK'
  BY <1>1, <1>11 DEF UserChooses, TypeOK, Sinks
<1>12. CASE UNCHANGED vars
  BY <1>1, <1>12 DEF vars, TypeOK
<1>. QED BY <1>2, <1>3, <1>4, <1>5, <1>6, <1>7, <1>8, <1>9, <1>10, <1>11, <1>12 DEF Next

LEMMA OwnerStep == IInv /\ [Next]_vars => OwnerInv'
<1> SUFFICES ASSUME IInv, [Next]_vars PROVE OwnerInv'
  OBVIOUS
<1> USE DEF IInv, OwnerInv, Held, TypeOK
<1>1. ASSUME NEW m \in {"tablet", "both"}, Begin(m) PROVE OwnerInv'
  BY <1>1 DEF Begin
<1>2. CASE GetDefault \/ DropStale
  BY <1>2 DEF GetDefault, DropStale, Works, Fails
<1>3. CASE LoadModule \/ SetDefault
  BY <1>3 DEF LoadModule, SetDefault, Works, Fails
<1>4. CASE Capture \/ EndSession \/ Restore \/ Unload
  BY <1>4 DEF Capture, EndSession, Restore, Unload, Works, Fails
<1>5. CASE Crash \/ Quit
  BY <1>5 DEF Crash, Quit
<1>6. ASSUME NEW s \in RealSinks, UserChooses(s) PROVE OwnerInv'
  BY <1>6 DEF UserChooses
<1>7. CASE UNCHANGED vars
  BY <1>7 DEF vars
<1>. QED BY <1>1, <1>2, <1>3, <1>4, <1>5, <1>6, <1>7 DEF Next

LEMMA CountStep == IInv /\ [Next]_vars => CountInv'
<1> SUFFICES ASSUME IInv, [Next]_vars PROVE CountInv'
  OBVIOUS
<1> USE DEF IInv, CountInv, TypeOK
<1>1. ASSUME NEW m \in {"tablet", "both"}, Begin(m) PROVE CountInv'
  BY <1>1 DEF Begin
<1>2. CASE GetDefault \/ SetDefault
  BY <1>2 DEF GetDefault, SetDefault, Works, Fails, MemoryInv
<1>3. CASE DropStale \/ LoadModule
  <2>1. CASE DropStale
    <3>1. leaky' = FALSE => modules' = 0 /\ pc' = "load"
      BY <2>1 DEF DropStale, Works, Fails
    <3>. QED BY <3>1
  <2>2. CASE LoadModule
    <3>1. /\ leaky' = leaky /\ pc' \in {"set", "idle"} /\ ended' = FALSE
          /\ pc = "load" /\ (modules' = modules + 1 \/ modules' = modules)
      BY <2>2 DEF LoadModule, Works, Fails, MemoryInv
    <3>. QED BY <3>1
  <2>. QED BY <1>3, <2>1, <2>2
<1>4. CASE Capture \/ EndSession \/ Restore
  BY <1>4 DEF Capture, EndSession, Restore, Works, Fails
<1>5. CASE Unload
  BY <1>5 DEF Unload, Works, Fails, Remaining, OwnerInv, Held
<1>6. CASE Crash \/ Quit
  BY <1>6 DEF Crash, Quit
<1>7. ASSUME NEW s \in RealSinks, UserChooses(s) PROVE CountInv'
  BY <1>7 DEF UserChooses
<1>8. CASE UNCHANGED vars
  BY <1>8 DEF vars
<1>. QED BY <1>1, <1>2, <1>3, <1>4, <1>5, <1>6, <1>7, <1>8 DEF Next

LEMMA MemoryStep == IInv /\ [Next]_vars => MemoryInv'
<1> SUFFICES ASSUME IInv, [Next]_vars PROVE MemoryInv'
  OBVIOUS
<1>1. UNCHANGED <<configured, modules>> => Default' = Default
  BY DEF Default
<1>2. configured' \in RealSinks => Default' = configured'
  BY SinkAssumption DEF Default
<1> USE DEF IInv, MemoryInv, TypeOK
<1>3. ASSUME NEW m \in {"tablet", "both"}, Begin(m) PROVE MemoryInv'
  BY <1>1, <1>3 DEF Begin
<1>4. CASE GetDefault
  BY <1>1, <1>4 DEF GetDefault, Works, Fails
<1>5. CASE DropStale \/ LoadModule \/ SetDefault
  BY <1>5 DEF DropStale, LoadModule, SetDefault, Works, Fails
<1>6. CASE Capture \/ EndSession
  BY <1>6 DEF Capture, EndSession, Works
<1>7. CASE Restore
  BY <1>7, SinkAssumption DEF Restore, Works, Fails, Sinks
<1>8. CASE Unload
  BY <1>2, <1>8 DEF Unload, Works, Fails
<1>9. CASE Crash \/ Quit
  BY <1>9 DEF Crash, Quit
<1>10. ASSUME NEW s \in RealSinks, UserChooses(s) PROVE MemoryInv'
  BY <1>10 DEF UserChooses
<1>11. CASE UNCHANGED vars
  BY <1>1, <1>11 DEF vars
<1>. QED BY <1>3, <1>4, <1>5, <1>6, <1>7, <1>8, <1>9, <1>10, <1>11 DEF Next

LEMMA Inductive == IInv /\ [Next]_vars => IInv'
BY TypeStep, OwnerStep, CountStep, MemoryStep DEF IInv

(* The type invariant: among others, no sink is unloaded that is not there. *)
THEOREM AudioTypeCorrect == Spec => []TypeOK
<1>1. IInv => TypeOK
  BY DEF IInv
<1>. QED BY <1>1, InitGood, Inductive, PTL DEF Spec

(* There is never a second sink, however often the server was killed.      *)
THEOREM AudioAtMostOneSink == Spec => []AtMostOneSink
<1>1. IInv => AtMostOneSink
  BY DEF IInv, CountInv, AtMostOneSink, TypeOK
<1>. QED BY <1>1, InitGood, Inductive, PTL DEF Spec

(* A tablet session that has ended leaves sound on a real output.          *)
THEOREM AudioSoundComesBack == Spec => []SoundComesBack
<1>1. IInv => SoundComesBack
  BY DefaultFacts DEF IInv, CountInv, SoundComesBack, TypeOK
<1>. QED BY <1>1, InitGood, Inductive, PTL DEF Spec

(* An undisturbed session restores the output it found.                    *)
THEOREM AudioDefaultRestored == Spec => []DefaultRestored
<1>1. IInv => DefaultRestored
  BY DEF IInv, MemoryInv, DefaultRestored, TypeOK
<1>. QED BY <1>1, InitGood, Inductive, PTL DEF Spec
=============================================================================
