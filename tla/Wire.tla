-------------------------------- MODULE Wire --------------------------------
(***************************************************************************)
(* The event loop of handle_client as a pump: it writes what the producers *)
(* and dispatch have queued, reads whatever part of the tablet's byte      *)
(* stream has arrived, cuts it into frames and dispatches them.            *)
(*                                                                         *)
(* A frame is a header of 5 bytes (type and length) and its payload.  The  *)
(* stream is the frames the tablet has sent, each with the place `at' of   *)
(* its first byte; the bytes between two places are not told apart.        *)
(* A batch holds a count and that many events.                             *)
(***************************************************************************)
EXTENDS Integers, Sequences

CONSTANTS
  Frames,     \* [type, len, n]: payload length and, of a batch, its count
  Item,       \* bytes of one event (36 of a pen sample, 28 of a touch)
  MaxLen,     \* 1 << 20
  Chunk,      \* 1 << 16, what one read may bring
  MaxSent,    \* bound: frames the tablet sends
  MaxQueue    \* bound: messages in the channel

ASSUME FrameAssumption ==
  Frames \subseteq [type : {"pen", "touch", "ping", "keyframe", "unknown"}, len : Nat, n : Nat]
ASSUME SizeAssumption ==
  Item \in Nat \ {0} /\ MaxLen \in Nat /\ Chunk \in Nat \ {0}
ASSUME BoundAssumption == MaxSent \in Nat /\ MaxQueue \in Nat \ {0}

VARIABLES
  mode,       \* "screen", "penOnly" (--no-touch) or "touchpad"
  sent,       \* the frames of the stream
  closed,     \* the tablet has closed its end
  base,       \* place of inbuf[0] in the stream
  got,        \* place after the last byte of inbuf
  pos,        \* where the dispatch loop is in inbuf
  main,       \* "drain", "read", "parse", "over"
  done,       \* frames dispatched
  events,     \* history: events given to the devices, per frame dispatched
  broken,     \* a device has failed
  queued      \* messages in the channel of Outgoing

vars == <<mode, sent, closed, base, got, pos, main, done, events, broken, queued>>

Header == 5
Placed == [type : {"pen", "touch", "ping", "keyframe", "unknown"}, len : Nat, n : Nat, at : Nat]
Size(f) == Header + f.len
End     == IF sent = <<>> THEN 0 ELSE sent[Len(sent)].at + Size(sent[Len(sent)])

Modes == {"screen", "penOnly", "touchpad"}

TypeOK ==
  /\ mode \in Modes
  /\ sent \in Seq(Placed) /\ closed \in BOOLEAN
  /\ base \in Nat /\ got \in Nat /\ pos \in Nat
  /\ main \in {"drain", "read", "parse", "over"}
  /\ done \in Nat /\ events \in Seq(Nat) /\ broken \in BOOLEAN
  /\ queued \in Nat

Init ==
  /\ mode \in Modes
  /\ sent = <<>> /\ closed = FALSE
  /\ base = 0 /\ got = 0 /\ pos = 0 /\ main = "drain"
  /\ done = 0 /\ events = <<>> /\ broken = FALSE
  /\ queued = 0

buffer == <<base, got, pos>>
input  == <<done, events, broken>>

-----------------------------------------------------------------------------
(* The tablet, and the threads of encoder and audio capture. *)

Send(f) ==
  /\ ~closed /\ Len(sent) < MaxSent
  /\ sent' = Append(sent, [type |-> f.type, len |-> f.len, n |-> f.n, at |-> End])
  /\ UNCHANGED <<mode, closed, buffer, main, input, queued>>

Close ==
  /\ ~closed /\ closed' = TRUE
  /\ UNCHANGED <<mode, sent, buffer, main, input, queued>>

Produce ==
  /\ main # "over" /\ queued < MaxQueue
  /\ queued' = queued + 1
  /\ UNCHANGED <<mode, sent, closed, buffer, main, input>>

-----------------------------------------------------------------------------
(* 1. Send everything the producers have queued. *)

WriteOne ==
  /\ main = "drain" /\ queued > 0
  /\ queued' = queued - 1
  /\ UNCHANGED <<mode, sent, closed, buffer, main, input>>

WriteFails ==
  /\ main = "drain" /\ queued > 0 /\ closed
  /\ main' = "over"
  /\ UNCHANGED <<mode, sent, closed, buffer, input, queued>>

Drained ==
  /\ main = "drain" /\ queued = 0
  /\ main' = "read"
  /\ UNCHANGED <<mode, sent, closed, buffer, input, queued>>

(* 2. Read whatever input is available, for 3 ms. *)
ReadSome ==
  /\ main = "read" /\ got < End
  /\ \E n \in 1 .. Chunk : got + n <= End /\ got' = got + n
  /\ main' = "parse"
  /\ UNCHANGED <<mode, sent, closed, base, pos, input, queued>>

ReadNothing ==
  /\ main = "read" /\ main' = "parse"
  /\ UNCHANGED <<mode, sent, closed, buffer, input, queued>>

ReadEnd ==
  /\ main = "read" /\ closed /\ got = End
  /\ main' = "over"
  /\ UNCHANGED <<mode, sent, closed, buffer, input, queued>>

-----------------------------------------------------------------------------
(* 3. Dispatch any complete frames. *)

Left       == got - base - pos               \* inbuf.len() - pos
FrameAt(p) == CHOOSE f \in {sent[i] : i \in DOMAIN sent} : f.at = p
Current      == FrameAt(base + pos)
Compact    == base' = base + pos /\ pos' = 0  \* inbuf.drain(0..pos)
AdvancePayload == pos + Current.len    \* mutant: the header is not counted
Advance    == pos + Size(Current)
CompleteStrict == Left > Header /\ Left > Size(Current)   \* mutant: off by one
Complete   == Left >= Header /\ Left >= Size(Current)
TooLongNever == FALSE              \* mutant: any length is waited for
TooLong    == Left >= Header /\ Current.len > MaxLen

Oversized ==
  /\ main = "parse" /\ TooLong
  /\ Compact /\ main' = "over"
  /\ UNCHANGED <<mode, sent, closed, got, input, queued>>

Incomplete ==
  /\ main = "parse" /\ ~TooLong /\ ~Complete
  /\ Compact /\ main' = "drain"
  /\ UNCHANGED <<mode, sent, closed, got, input, queued>>

(* Reader::take of parse_pen_batch and parse_touch_batch: all events are   *)
(* read before the first is handled; bytes behind them are ignored.        *)
Truncated(f) == f.len < 2 + f.n * Item

Parsed(f)  == f.type = "touch" \/ (f.type = "pen" /\ mode # "touchpad")
Refused(f) == Parsed(f) /\ Truncated(f)
Wanted(f)  == \/ f.type = "pen"   /\ mode # "touchpad"
              \/ f.type = "touch" /\ mode # "penOnly"

(* dispatch returned Ok: every event of a wanted batch has been handled. *)
Dispatch ==
  /\ main = "parse" /\ ~TooLong /\ Complete /\ ~Refused(Current)
  /\ pos' = Advance /\ done' = done + 1
  /\ events' = Append(events, IF Wanted(Current) THEN Current.n ELSE 0)
  /\ queued' = IF Current.type = "ping" THEN queued + 1 ELSE queued     \* PONG
  /\ UNCHANGED <<mode, sent, closed, base, got, main, broken>>

DispatchFailsLate ==               \* mutant: events are handled as they are parsed
  /\ main = "parse" /\ ~TooLong /\ Complete /\ Refused(Current)
  /\ events' = Append(events, (Current.len - 2) \div Item)
  /\ base' = base + Advance /\ pos' = 0 /\ done' = done + 1
  /\ main' = "over"
  /\ UNCHANGED <<mode, sent, closed, got, broken, queued>>

(* dispatch returned an error: a batch that is cut short, or a device that *)
(* fails in the middle of one.                                             *)
DispatchFails ==
  /\ main = "parse" /\ ~TooLong /\ Complete
  /\ \E k \in 0 .. Current.n :
       /\ \/ Refused(Current) /\ k = 0 /\ UNCHANGED broken
          \/ ~Refused(Current) /\ Wanted(Current) /\ k < Current.n /\ broken' = TRUE
       /\ events' = Append(events, k)
  /\ base' = base + Advance /\ pos' = 0 /\ done' = done + 1
  /\ main' = "over"
  /\ UNCHANGED <<mode, sent, closed, got, queued>>

-----------------------------------------------------------------------------
MainStep ==
  \/ WriteOne \/ WriteFails \/ Drained \/ ReadSome \/ ReadNothing \/ ReadEnd
  \/ Oversized \/ Incomplete \/ Dispatch \/ DispatchFails

Next ==
  MainStep \/ (\E f \in Frames : Send(f)) \/ Close \/ Produce

(* The main thread runs, and what the tablet has sent arrives.             *)
Fairness == WF_vars(MainStep) /\ SF_vars(ReadSome)

Spec     == Init /\ [][Next]_vars
FairSpec == Spec /\ Fairness

-----------------------------------------------------------------------------

(* However the stream is cut into reads, the loop stands at the beginning  *)
(* of the first frame it has not dispatched: each frame is dispatched      *)
(* once, in order, and none is read from the middle of another.            *)
Place(i) == IF i <= Len(sent) THEN sent[i].at ELSE End
InStep   == base + pos = Place(done + 1)

(* The loop does not turn to writing, nor wait for more, while it holds a  *)
(* whole frame: the last event of a burst needs no later one to be seen.   *)
NothingWaits ==
  main \in {"drain", "read"} =>
    \A i \in DOMAIN sent : i > done => got < sent[i].at + Size(sent[i])

(* The buffer holds less than one frame of the largest size and one read,  *)
(* whatever lengths the headers claim.                                     *)
BoundedBuffer == got - base < Header + MaxLen + Chunk

(* A batch is handled as a whole or, when it is cut short, not at all;     *)
(* only a device that fails leaves a part of the last batch behind.        *)
BatchWhole ==
  \A i \in DOMAIN events :
    \/ events[i] = IF Wanted(sent[i]) /\ ~Truncated(sent[i]) THEN sent[i].n ELSE 0
    \/ broken /\ i = Len(events)

(* Everything the tablet sends is dispatched, if each time the loop turns  *)
(* to its unbounded channel it finds the end of it: what encoder and audio *)
(* produce is written before the next of it is there.                      *)
DrainEnds    == []<>(main # "drain")
InputHandled == DrainEnds => ((done < Len(sent)) ~> (done = Len(sent) \/ main = "over"))
=============================================================================
