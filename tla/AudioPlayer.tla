---------------------------- MODULE AudioPlayer ----------------------------
(***************************************************************************)
(* The tablet's audio player (AudioPlayer.kt): a queue of PCM chunks       *)
(* between the reader thread, which feeds it and drops the oldest chunks   *)
(* when it grows too long, and its own thread, which plays them.  Both     *)
(* count the bytes in `queuedBytes', a @Volatile field that they read,     *)
(* change and write without a lock: a `+=' is two steps.                   *)
(***************************************************************************)
EXTENDS Integers, Sequences, Functions

CONSTANTS
  Sizes,          \* of chunks, in bytes
  MaxQueuedBytes, \* 100 ms of sound
  MaxFed          \* bound: chunks the server sends

VARIABLES
  queue,          \* sizes of the chunks in it
  queuedBytes,
  running,        \* until release()
  feeder,         \* the reader thread: where it is, its chunk, the bytes it
                  \* counts in (or out), the value of queuedBytes it has read
  player,         \* the same for the player's thread
  fed

vars == <<queue, queuedBytes, running, feeder, player, fed>>

Thread(at, size) == [at |-> at, size |-> size, by |-> 0, seen |-> 0]

Init ==
  /\ queue = <<>> /\ queuedBytes = 0 /\ running = TRUE
  /\ feeder = Thread("idle", 0) /\ player = Thread("loop", 0) /\ fed = 0

-----------------------------------------------------------------------------
(* queuedBytes += by, and its two steps. *)

Count(t, by)  == [t EXCEPT !.at = "count", !.by = by, !.seen = queuedBytes]
CountRest(t)  == queuedBytes' = t.seen + t.by

-----------------------------------------------------------------------------
(* feed, on the reader thread. *)

Feed(size) ==
  /\ feeder.at = "idle" /\ fed < MaxFed
  /\ fed' = fed + 1 /\ feeder' = Thread("check", size)
  /\ UNCHANGED <<queue, queuedBytes, running, player>>

TooLong == queuedBytes + feeder.size > MaxQueuedBytes

Check ==
  /\ feeder.at = "check"
  /\ feeder' = [feeder EXCEPT !.at = IF TooLong THEN "poll" ELSE "fits"]
  /\ UNCHANGED <<queue, queuedBytes, running, player, fed>>

(* pollFirst: out with the oldest chunk; without one the loop ends. *)
DropOldest ==
  /\ feeder.at = "poll"
  /\ IF queue = <<>> THEN feeder' = [feeder EXCEPT !.at = "fits"] /\ UNCHANGED queue
     ELSE /\ queue' = Tail(queue)
          /\ feeder' = [feeder EXCEPT !.at = "dropped", !.by = -Head(queue)]
  /\ UNCHANGED <<queuedBytes, running, player, fed>>

CountChange ==
  /\ \/ feeder.at = "dropped" /\ feeder' = Count(feeder, feeder.by)
     \/ feeder.at = "fits"    /\ feeder' = Count(feeder, feeder.size)
  /\ UNCHANGED <<queue, queuedBytes, running, player, fed>>

Changed ==
  /\ feeder.at = "count" /\ CountRest(feeder)
  /\ feeder' = [feeder EXCEPT !.at = IF feeder.by < 0 THEN "check" ELSE "offer"]
  /\ UNCHANGED <<queue, running, player, fed>>

Offer ==
  /\ feeder.at = "offer" /\ feeder' = Thread("idle", 0)
  /\ queue' = Append(queue, feeder.size)
  /\ UNCHANGED <<queuedBytes, running, player, fed>>

-----------------------------------------------------------------------------
(* The player's thread; the interrupt of release() wakes it from takeFirst *)
(* and from AudioTrack.write.                                              *)

Take ==
  /\ player.at = "loop" /\ running /\ queue # <<>>
  /\ queue' = Tail(queue) /\ player' = Thread("taken", Head(queue))
  /\ UNCHANGED <<queuedBytes, running, feeder, fed>>

CountTaken ==
  /\ player.at = "taken" /\ player' = Count(player, -player.size)
  /\ UNCHANGED <<queue, queuedBytes, running, feeder, fed>>

TakenCounted ==
  /\ player.at = "count" /\ CountRest(player)
  /\ player' = [player EXCEPT !.at = "write"]
  /\ UNCHANGED <<queue, running, feeder, fed>>

(* Blocks while the track's own buffer is full; an error ends the chunk.   *)
Write ==
  /\ player.at = "write" /\ player' = Thread("loop", 0)
  /\ UNCHANGED <<queue, queuedBytes, running, feeder, fed>>

Stop ==
  /\ player.at = "loop" /\ ~running /\ player' = Thread("done", 0)
  /\ UNCHANGED <<queue, queuedBytes, running, feeder, fed>>

-----------------------------------------------------------------------------
(* release(), on the UI thread. *)
Release ==
  /\ running /\ running' = FALSE
  /\ UNCHANGED <<queue, queuedBytes, feeder, player, fed>>

FeederStep == Check \/ DropOldest \/ CountChange \/ Changed \/ Offer
PlayerStep == Take \/ CountTaken \/ TakenCounted \/ Write \/ Stop

Next == (\E size \in Sizes : Feed(size)) \/ FeederStep \/ PlayerStep \/ Release

Spec == Init /\ [][Next]_vars

-----------------------------------------------------------------------------

(* "Plays raw PCM chunks from the server with a bounded queue": the sound  *)
(* that waits is never longer than 100 ms, but for a single longer chunk.  *)
Waiting      == FoldFunction(+, 0, queue)
QueueBounded == Len(queue) <= 1 \/ Waiting <= MaxQueuedBytes
=============================================================================
