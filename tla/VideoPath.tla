----------------------------- MODULE VideoPath -----------------------------
(***************************************************************************)
(* The way of a video frame in second-screen mode: encoder callback,       *)
(* channel, event loop, TCP, the tablet's reader thread, its decoder.      *)
(* The tablet's UI thread creates and releases decoders as its surface     *)
(* comes and goes, while the reader thread may be inside the old one, and  *)
(* asks for a keyframe through the event loop.                             *)
(*                                                                         *)
(* A frame is a key frame or a delta.  The wire is reliable and ordered,   *)
(* so whether a delta can be decoded depends only on what the current      *)
(* decoder has been given or has missed: `ref'.                            *)
(***************************************************************************)
EXTENDS Integers, Sequences

CONSTANTS
  Gop,          \* key-int-max: at least one key frame in Gop
  MaxQueue,     \* bound: frames waiting in the channel
  MaxWire,      \* what the socket buffers hold; write_all blocks beyond it
  MaxSurfaces,  \* bound: times the surface goes away
  MaxStalls,    \* bound: 200 ms polls of the decoder that find no buffer
  MaxFailures   \* bound: decoders whose constructor throws

ASSUME BoundsAssumption ==
  /\ Gop \in Nat \ {0} /\ MaxQueue \in Nat \ {0} /\ MaxWire \in Nat \ {0}
  /\ MaxSurfaces \in Nat /\ MaxStalls \in Nat /\ MaxFailures \in Nat

VARIABLES
  enc,          \* "va", "cpu": starting with this conversion; "running"
  sinceKey,     \* frames since the pipeline's last key frame, 0: none yet
  forceKey,     \* a force-key-unit event is on its way to the encoder
  queue,        \* the mpsc channel of Outgoing
  sentKeyframe, \* event loop: sent_keyframe
  wire,         \* server to tablet
  requests,     \* KEYFRAME_REQUESTs on their way to the server
  surface,      \* surfaceReady
  config,       \* pendingConfig # null
  posted,       \* onStreamConfig's runnable waits for the UI thread
  link,         \* the tablet's connection, see Link
  alive,        \* threads and codecs of decoders, begun and not released
  failures,     \* decoders whose constructor threw
  decoder,      \* the activity has one
  awaiting,     \* its awaitingKeyframe
  ref,          \* what it can decode, see Ref
  reader,       \* the reader thread inside onVideo
  surfaces, stalls

vars == <<enc, sinceKey, forceKey, queue, sentKeyframe, wire, requests, surface,
          config, posted, link, alive, failures, decoder, awaiting, ref, reader,
          surfaces, stalls>>

server  == <<enc, sinceKey, forceKey, queue, sentKeyframe>>
made    == <<alive, failures, decoder>>
ui      == <<surface, posted, made, surfaces>>

Frame == {"key", "delta"}
Msg   == Frame \cup {"config"}

(* fresh: no unit yet; ok: has every unit since its last key frame;        *)
(* broken: has missed one; headless: began with a delta; garbled: was      *)
(* given a delta after it had missed a unit.                               *)
Ref == {"fresh", "ok", "broken", "headless", "garbled"}

(* pc: "idle"; "feed" holds a decoder and a frame; "poll" waits for one of *)
(* its buffers.  mine: that decoder is still the activity's.               *)
Reader == [pc : {"idle", "feed", "poll"}, frame : Frame, mine : BOOLEAN]

(* last: closed while the reader may have been inside readFrame, which can  *)
(* still bring one message.                                                *)
Link == {"open", "last", "closed"}

TypeOK ==
  /\ enc \in {"va", "cpu", "running"} /\ sinceKey \in 0 .. Gop
  /\ forceKey \in BOOLEAN /\ sentKeyframe \in BOOLEAN
  /\ queue \in Seq(Msg) /\ Len(queue) <= MaxQueue + 1
  /\ wire \in Seq(Msg) /\ Len(wire) <= MaxWire
  /\ requests \in 0 .. MaxSurfaces + 1
  /\ surface \in BOOLEAN /\ config \in BOOLEAN /\ posted \in BOOLEAN
  /\ link \in Link /\ alive \in Nat /\ failures \in 0 .. MaxFailures
  /\ decoder \in BOOLEAN /\ awaiting \in BOOLEAN /\ ref \in Ref /\ reader \in Reader
  /\ surfaces \in 0 .. MaxSurfaces /\ stalls \in 0 .. MaxStalls

(* start_screen has called Encoder::start; the tablet's surface is there,  *)
(* that is what made it connect.                                           *)
Init ==
  /\ enc = "va" /\ sinceKey = 0 /\ forceKey = FALSE
  /\ queue = <<>> /\ sentKeyframe = FALSE /\ wire = <<>> /\ requests = 0
  /\ surface = TRUE /\ config = FALSE /\ posted = FALSE
  /\ link = "open" /\ alive = 0 /\ failures = 0 /\ decoder = FALSE /\ awaiting = TRUE
  /\ ref = "fresh" /\ reader = [pc |-> "idle", frame |-> "key", mine |-> FALSE]
  /\ surfaces = 0 /\ stalls = 0

-----------------------------------------------------------------------------
(* The server. *)

(* The next frame is a key frame. *)
IsKey == sinceKey \in {0, Gop} \/ forceKey

(* The appsink callback.  It runs as soon as the pipeline does, also while *)
(* start_screen is still waiting for PLAYING or creating input devices.    *)
EncoderEmits ==
  /\ Len(queue) < MaxQueue
  /\ queue' = Append(queue, IF IsKey THEN "key" ELSE "delta")
  /\ sinceKey' = IF IsKey THEN 1 ELSE sinceKey + 1
  /\ forceKey' = FALSE
  /\ UNCHANGED <<enc, sentKeyframe, wire, requests, config, awaiting, ref,
                 reader, stalls, link, ui>>

(* Convert::Auto: the VA-API pipeline failed, perhaps after some frames;   *)
(* a new one starts with a key frame.                                      *)
EncoderFallsBack ==
  /\ enc = "va"
  /\ enc' = "cpu" /\ sinceKey' = 0 /\ forceKey' = FALSE
  /\ UNCHANGED <<queue, sentKeyframe, wire, requests, config, awaiting, ref,
                 reader, stalls, link, ui>>

(* The end of start_screen; the event loop runs from here on. *)
ScreenReady ==
  /\ enc # "running"
  /\ enc' = "running"
  /\ queue' = Append(queue, "config")
  /\ forceKey' = TRUE
  /\ UNCHANGED <<sinceKey, sentKeyframe, wire, requests, config, awaiting, ref,
                 reader, stalls, link, ui>>

(* The event loop takes one message; "skips delta frames before the first  *)
(* IDR".                                                                   *)
Drain ==
  /\ enc = "running" /\ queue # <<>>
  /\ queue' = Tail(queue)
  /\ \/ /\ Head(queue) = "delta" /\ ~sentKeyframe
        /\ UNCHANGED <<wire, sentKeyframe>>
     \/ /\ Head(queue) # "delta" \/ sentKeyframe
        /\ Len(wire) < MaxWire
        /\ wire' = Append(wire, Head(queue))
        /\ sentKeyframe' = (sentKeyframe \/ Head(queue) = "key")
  /\ UNCHANGED <<enc, sinceKey, forceKey, requests, config, awaiting, ref,
                 reader, stalls, link, ui>>

(* dispatch of KEYFRAME_REQUEST. *)
ServeRequest ==
  /\ enc = "running" /\ requests > 0
  /\ requests' = requests - 1
  /\ forceKey' = TRUE
  /\ UNCHANGED <<enc, sinceKey, queue, sentKeyframe, wire, config, awaiting,
                 ref, reader, stalls, link, ui>>

-----------------------------------------------------------------------------
(* The tablet's reader thread. *)

ReadFrame ==
  /\ reader.pc = "idle" /\ link # "closed" /\ wire # <<>>
  /\ wire' = Tail(wire)
  /\ link' = IF link = "open" THEN "open" ELSE "closed"

ReadConfig ==
  /\ ReadFrame /\ Head(wire) = "config"
  /\ config' = TRUE /\ posted' = TRUE
  /\ UNCHANGED <<server, requests, surface, made, awaiting, ref, reader,
                 surfaces, stalls>>

(* onVideo: without a decoder the frame is dropped. *)
ReadVideo ==
  /\ ReadFrame /\ Head(wire) \in Frame
  /\ reader' = [pc |-> IF decoder THEN "feed" ELSE "idle",
                frame |-> Head(wire), mine |-> decoder]
  /\ UNCHANGED <<server, requests, config, awaiting, ref, stalls, ui>>

(* feed: a released decoder takes nothing, a fresh one waits for its first *)
(* key frame.  Mutants: it does not wait; it takes the key frame for a     *)
(* delta too.                                                              *)
SkipsReleased == ~reader.mine
SkipsAwaiting == ~reader.mine \/ awaiting
Skips         == ~reader.mine \/ (awaiting /\ reader.frame = "delta")

Feed ==
  /\ reader.pc = "feed"
  /\ reader' = [reader EXCEPT !.pc = IF Skips THEN "idle" ELSE "poll"]
  /\ awaiting' = (awaiting /\ Skips)
  /\ UNCHANGED <<server, wire, requests, config, ref, stalls, link, ui>>

(* A free input buffer: queueInputBuffer, which fails if the decoder was   *)
(* released meanwhile.                                                     *)
QueueInput ==
  /\ reader.pc = "poll"
  /\ reader' = [reader EXCEPT !.pc = "idle"]
  /\ ref' = IF ~reader.mine THEN ref
            ELSE IF reader.frame = "key" THEN "ok"
            ELSE CASE ref = "fresh"  -> "headless"
                   [] ref = "broken" -> "garbled"
                   [] OTHER          -> ref
  /\ UNCHANGED <<server, wire, requests, config, awaiting, stalls, link, ui>>

(* "decoder stalled, dropping frame". *)
Stall ==
  /\ reader.pc = "poll" /\ stalls < MaxStalls
  /\ stalls' = stalls + 1
  /\ reader' = [reader EXCEPT !.pc = "idle"]
  /\ ref' = IF reader.mine /\ ref = "ok" THEN "broken" ELSE ref
  /\ UNCHANGED <<server, wire, requests, config, awaiting, link, ui>>

-----------------------------------------------------------------------------
(* The tablet's UI thread. *)

(* applyConfig.  The size is that of the session, so a decoder that exists *)
(* is never torn down.                                                     *)
KeepDecoder == UNCHANGED <<made, awaiting, ref, reader, requests, link>>

(* The key frame is asked for by send, which drops what comes after close. *)
MakeDecoder ==
  /\ decoder' = TRUE /\ alive' = alive + 1
  /\ awaiting' = TRUE /\ ref' = "fresh"
  /\ reader' = [reader EXCEPT !.mine = FALSE]
  /\ requests' = IF link = "open" THEN requests + 1 ELSE requests
  /\ UNCHANGED <<failures, link>>

(* "decoder init failed": the constructor throws before it has begun       *)
(* anything (mimeFor), or with its thread started and perhaps its codec    *)
(* made, which nobody releases.  The connection is closed; finish() is on  *)
(* its way, and takes the surface.                                         *)
DecoderFails ==
  /\ failures < MaxFailures /\ failures' = failures + 1
  /\ alive' \in {alive, alive + 1}
  /\ link' = IF link # "open" THEN link
             ELSE IF reader.pc = "idle" THEN "last" ELSE "closed"
  /\ UNCHANGED <<decoder, awaiting, ref, reader, requests>>

ApplyConfig ==
  \/ decoder /\ KeepDecoder
  \/ ~decoder /\ (MakeDecoder \/ DecoderFails)

RunPostedBlind ==                  \* mutant: no look at surfaceReady
  /\ posted
  /\ posted' = FALSE
  /\ ApplyConfig
  /\ UNCHANGED <<server, wire, config, surface, surfaces, stalls>>

RunPosted ==
  /\ posted
  /\ posted' = FALSE
  /\ IF surface THEN ApplyConfig ELSE KeepDecoder
  /\ UNCHANGED <<server, wire, config, surface, surfaces, stalls>>

(* setFixedSize and the system call surfaceChanged again and again. *)
SurfaceChanged ==
  /\ surface' = TRUE
  /\ IF config THEN ApplyConfig ELSE KeepDecoder
  /\ UNCHANGED <<server, wire, config, posted, surfaces, stalls>>

SurfaceDestroyed ==
  /\ surface /\ surfaces < MaxSurfaces
  /\ surface' = FALSE /\ surfaces' = surfaces + 1
  /\ decoder' = FALSE /\ alive' = IF decoder THEN alive - 1 ELSE alive
  /\ reader' = [reader EXCEPT !.mine = FALSE]
  /\ UNCHANGED <<server, wire, requests, config, posted, awaiting, ref, stalls,
                 link, failures>>

-----------------------------------------------------------------------------

Server == EncoderFallsBack \/ ScreenReady \/ Drain \/ ServeRequest
NetRx  == ReadConfig \/ ReadVideo \/ Feed \/ QueueInput \/ Stall
UI     == RunPosted \/ SurfaceChanged \/ SurfaceDestroyed

Next == EncoderEmits \/ Server \/ NetRx \/ UI

Spec == Init /\ [][Next]_vars

(* The capture has a keep-alive (keepalive-time), so frames keep coming;   *)
(* every thread runs.  Nothing makes the surface go away or come back.     *)
FairSpec ==
  /\ Spec
  /\ WF_vars(EncoderEmits) /\ WF_vars(ScreenReady) /\ WF_vars(Drain)
  /\ WF_vars(ServeRequest) /\ WF_vars(NetRx) /\ WF_vars(RunPosted)

-----------------------------------------------------------------------------

(* Whatever the order of STREAM_CONFIG's runnable and the surface          *)
(* callbacks: every decoder but the one in use has been released, those    *)
(* excepted whose constructor threw (each may leave a thread and a codec); *)
(* none outlives its surface; and a surface whose stream is known has one, *)
(* or the connection is closed.                                            *)
Decoders == IF decoder THEN 1 ELSE 0
DecoderFollowsSurface ==
  /\ alive <= Decoders + failures
  /\ decoder => surface
  /\ surface /\ config /\ ~posted => decoder \/ link # "open"

(* While no input buffer is late, no decoder is ever given a delta whose   *)
(* reference it has not seen, also when it was created in mid-stream.      *)
DeltasDecodable == stalls = 0 => ref \notin {"headless", "garbled"}

(* A decoder of an open connection gets a picture it can show: "the server *)
(* resends keyframes regularly" and answers its request, so neither a late *)
(* surface nor a stall freezes the screen for good.                        *)
DecoderRecovers == (decoder /\ link = "open") ~> (ref = "ok" \/ ~decoder)
=============================================================================
