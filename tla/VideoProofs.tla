----------------------------- MODULE VideoProofs -----------------------------
(* Proofs about the way of a video frame, for every distance of key        *)
(* frames, every queue and wire, any number of surfaces, of stalls and of  *)
(* decoders that cannot be made.                                           *)
EXTENDS VideoPath, SequenceTheorems, TLAPS

(* TypeOK by the side that changes it.  STREAM_CONFIG is the one message   *)
(* that is queued above the bound.                                         *)
ServerTypes ==
  /\ enc \in {"va", "cpu", "running"} /\ sinceKey \in 0 .. Gop
  /\ forceKey \in BOOLEAN /\ sentKeyframe \in BOOLEAN
  /\ queue \in Seq(Msg)
  /\ Len(queue) <= MaxQueue + (IF enc = "running" THEN 1 ELSE 0)

WireTypes == wire \in Seq(Msg) /\ Len(wire) <= MaxWire

TabletTypes ==
  /\ requests \in Nat /\ surface \in BOOLEAN /\ config \in BOOLEAN
  /\ posted \in BOOLEAN /\ decoder \in BOOLEAN /\ awaiting \in BOOLEAN
  /\ link \in Link /\ failures \in 0 .. MaxFailures
  /\ ref \in Ref /\ reader \in Reader
  /\ surfaces \in 0 .. MaxSurfaces /\ stalls \in 0 .. MaxStalls

(* A decoder belongs to the surface it was made for, a reader that holds   *)
(* the activity's decoder finds it there, and a surface costs one request  *)
(* for a key frame at most.  What has been begun and not released is the   *)
(* decoder in use and what a throwing constructor left.                    *)
DecoderInv ==
  /\ alive \in Nat /\ Decoders <= alive /\ alive <= Decoders + failures
  /\ surface /\ config /\ ~posted => decoder \/ link # "open"
  /\ decoder => surface
  /\ reader.mine => decoder
  /\ requests <= surfaces + Decoders

(* Without a stall a decoder stays fresh until its first unit, which is    *)
(* the key frame that ended `awaiting'.                                    *)
KeyInv ==
  stalls = 0 =>
    /\ ref \in {"fresh", "ok"}
    /\ decoder /\ ref = "fresh" /\ ~awaiting => reader.pc = "poll" /\ reader.mine
    /\ reader.pc = "poll" /\ reader.mine /\ ref = "fresh" => reader.frame = "key"

IInv == ServerTypes /\ WireTypes /\ TabletTypes /\ DecoderInv /\ KeyInv

LEMMA InitGood == Init => IInv
<1> SUFFICES ASSUME Init PROVE IInv
  OBVIOUS
<1>1. queue \in Seq(Msg) /\ Len(queue) = 0 /\ WireTypes
  BY EmptySeq, BoundsAssumption DEF Init, WireTypes
<1>2. ServerTypes
  <2>1. enc = "va" /\ sinceKey = 0 /\ forceKey = FALSE /\ sentKeyframe = FALSE
    BY DEF Init
  <2>2. Len(queue) <= MaxQueue + (IF enc = "running" THEN 1 ELSE 0)
    BY <1>1, <2>1, BoundsAssumption
  <2>3. sinceKey \in 0 .. Gop
    BY <2>1, BoundsAssumption
  <2>. QED BY <1>1, <2>1, <2>2, <2>3, Zenon DEF ServerTypes
<1>3. TabletTypes
  <2>1. reader \in Reader
    BY DEF Init, Reader, Frame
  <2>2. /\ requests = 0 /\ surface = TRUE /\ config = FALSE /\ posted = FALSE
        /\ decoder = FALSE /\ awaiting = TRUE /\ ref = "fresh"
        /\ surfaces = 0 /\ stalls = 0 /\ link = "open" /\ failures = 0
    BY DEF Init
  <2>3. requests \in Nat /\ failures \in 0 .. MaxFailures /\ surfaces \in 0 .. MaxSurfaces /\ stalls \in 0 .. MaxStalls
    BY <2>2, BoundsAssumption
  <2>. QED BY <2>1, <2>2, <2>3, Zenon DEF TabletTypes, Ref, Link
<1>4. DecoderInv /\ KeyInv
  BY DEF Init, DecoderInv, Decoders, KeyInv
<1>. QED BY <1>1, <1>2, <1>3, <1>4 DEF IInv

-----------------------------------------------------------------------------
(* The server's steps change the queue, the wire and their counters; the   *)
(* tablet is not theirs.                                                   *)

LEMMA ServerKeepsTablet ==
  ASSUME IInv, UNCHANGED <<config, awaiting, ref, reader, stalls, link, ui>>,
         requests' \in Nat, requests' <= requests
  PROVE  TabletTypes' /\ DecoderInv' /\ KeyInv'
<1>1. TabletTypes' /\ KeyInv'
  BY DEF ui, made, IInv, TabletTypes, KeyInv
<1>2. DecoderInv'
  BY BoundsAssumption DEF ui, made, IInv, TabletTypes, DecoderInv, Decoders
<1>. QED BY <1>1, <1>2

LEMMA EmitStep ==
  ASSUME IInv, EncoderEmits
  PROVE  IInv'
<1>1. /\ Len(queue) < MaxQueue
      /\ queue' = Append(queue, IF IsKey THEN "key" ELSE "delta")
      /\ UNCHANGED <<enc, sentKeyframe, wire, requests, config, awaiting, ref,
                     reader, stalls, link, ui>>
  BY DEF EncoderEmits
<1>2. queue \in Seq(Msg) /\ (IF IsKey THEN "key" ELSE "delta") \in Msg
  BY DEF IInv, ServerTypes, Msg, Frame
<1>3. queue' \in Seq(Msg) /\ Len(queue') = Len(queue) + 1 /\ Len(queue) \in Nat
  BY <1>1, <1>2, AppendProperties, LenProperties
<1>4. sinceKey' \in 0 .. Gop /\ forceKey' = FALSE
  BY BoundsAssumption DEF EncoderEmits, IsKey, IInv, ServerTypes
<1>5. Len(queue') <= MaxQueue
  BY <1>1, <1>3, BoundsAssumption
<1>6. ServerTypes'
  <2>1. Len(queue') <= MaxQueue + (IF enc' = "running" THEN 1 ELSE 0)
    BY <1>3, <1>5, BoundsAssumption
  <2>2. /\ enc' \in {"va", "cpu", "running"} /\ sentKeyframe' \in BOOLEAN
        /\ forceKey' \in BOOLEAN
    BY <1>1, <1>4 DEF IInv, ServerTypes
  <2>. QED BY <1>3, <1>4, <2>1, <2>2, Zenon DEF ServerTypes
<1>7. WireTypes' /\ TabletTypes' /\ DecoderInv' /\ KeyInv'
  BY <1>1, ServerKeepsTablet DEF IInv, WireTypes, TabletTypes
<1>. QED BY <1>6, <1>7 DEF IInv

LEMMA DrainStep ==
  ASSUME IInv, Drain
  PROVE  IInv'
<1>1. /\ queue # <<>> /\ queue' = Tail(queue)
      /\ \/ wire' = wire /\ sentKeyframe' = sentKeyframe
         \/ /\ Len(wire) < MaxWire /\ wire' = Append(wire, Head(queue))
            /\ sentKeyframe' = (sentKeyframe \/ Head(queue) = "key")
      /\ UNCHANGED <<enc, sinceKey, forceKey, requests, config, awaiting, ref,
                     reader, stalls, link, ui>>
  BY DEF Drain
<1>2. queue' \in Seq(Msg) /\ Len(queue') <= Len(queue) /\ Head(queue) \in Msg
  <2>1. queue \in Seq(Msg)
    BY DEF IInv, ServerTypes
  <2>. QED BY <1>1, <2>1, HeadTailProperties, LenProperties
<1>3. WireTypes'
  <2>1. wire \in Seq(Msg) /\ Len(wire) \in Nat
    BY LenProperties DEF IInv, WireTypes
  <2>2. Append(wire, Head(queue)) \in Seq(Msg)
        /\ Len(Append(wire, Head(queue))) = Len(wire) + 1
    BY <1>2, <2>1, AppendProperties
  <2>3. CASE wire' = wire
    BY <2>3 DEF IInv, WireTypes
  <2>4. CASE Len(wire) < MaxWire /\ wire' = Append(wire, Head(queue))
    <3>1. wire' \in Seq(Msg) /\ Len(wire') = Len(wire) + 1
      BY <2>2, <2>4
    <3>2. Len(wire') <= MaxWire
      BY <2>1, <2>4, <3>1, BoundsAssumption
    <3>. QED BY <3>1, <3>2 DEF WireTypes
  <2>. QED BY <1>1, <2>3, <2>4
<1>4. ServerTypes'
  <2>1. sentKeyframe' \in BOOLEAN
    BY <1>1 DEF IInv, ServerTypes
  <2>2. Len(queue) \in Nat /\ Len(queue') \in Nat
    BY <1>2, LenProperties DEF IInv, ServerTypes
  <2>. QED BY <1>1, <1>2, <2>1, <2>2, BoundsAssumption DEF IInv, ServerTypes
<1>5. TabletTypes' /\ DecoderInv' /\ KeyInv'
  BY <1>1, ServerKeepsTablet DEF IInv, TabletTypes
<1>. QED BY <1>3, <1>4, <1>5 DEF IInv

LEMMA ServerStep ==
  ASSUME IInv, Server
  PROVE  IInv'
<1>1. CASE EncoderFallsBack
  <2>1. ServerTypes'
    <3>1. /\ enc = "va" /\ enc' = "cpu" /\ sinceKey' = 0 /\ forceKey' = FALSE
          /\ queue' = queue /\ sentKeyframe' = sentKeyframe
      BY <1>1 DEF EncoderFallsBack
    <3>2. sinceKey' \in 0 .. Gop
      BY <3>1, BoundsAssumption
    <3>3. Len(queue') <= MaxQueue + (IF enc' = "running" THEN 1 ELSE 0)
      BY <3>1 DEF IInv, ServerTypes
    <3>4. queue' \in Seq(Msg) /\ sentKeyframe' \in BOOLEAN
      BY <3>1, Zenon DEF IInv, ServerTypes
    <3>. QED BY <3>1, <3>2, <3>3, <3>4, Zenon DEF ServerTypes
  <2>2. WireTypes' /\ TabletTypes' /\ DecoderInv' /\ KeyInv'
    BY <1>1, ServerKeepsTablet DEF EncoderFallsBack, IInv, WireTypes, TabletTypes
  <2>. QED BY <2>1, <2>2 DEF IInv
<1>2. CASE ScreenReady
  <2>1. /\ enc # "running" /\ enc' = "running" /\ forceKey' = TRUE
        /\ queue' = Append(queue, "config")
        /\ UNCHANGED <<sinceKey, sentKeyframe>>
    BY <1>2 DEF ScreenReady
  <2>2. queue \in Seq(Msg) /\ "config" \in Msg /\ Len(queue) <= MaxQueue
    BY <2>1, BoundsAssumption DEF IInv, ServerTypes, Msg
  <2>3. queue' \in Seq(Msg) /\ Len(queue') = Len(queue) + 1 /\ Len(queue) \in Nat
    BY <2>1, <2>2, AppendProperties, LenProperties
  <2>4. ServerTypes'
    BY <2>1, <2>2, <2>3, BoundsAssumption DEF IInv, ServerTypes
  <2>5. WireTypes' /\ TabletTypes' /\ DecoderInv' /\ KeyInv'
    BY <1>2, ServerKeepsTablet DEF ScreenReady, IInv, WireTypes, TabletTypes
  <2>. QED BY <2>4, <2>5 DEF IInv
<1>3. CASE ServeRequest
  <2>1. ServerTypes'
    BY <1>3 DEF ServeRequest, IInv, ServerTypes
  <2>2. requests' \in Nat /\ requests' <= requests
    BY <1>3 DEF ServeRequest, IInv, TabletTypes
  <2>3. WireTypes' /\ TabletTypes' /\ DecoderInv' /\ KeyInv'
    BY <1>3, <2>2, ServerKeepsTablet DEF ServeRequest, IInv, WireTypes
  <2>. QED BY <2>1, <2>3 DEF IInv
<1>. QED BY <1>1, <1>2, <1>3, DrainStep DEF Server

-----------------------------------------------------------------------------
(* The reader thread. *)

LEMMA WireTail ==
  ASSUME WireTypes, wire # <<>>
  PROVE  Tail(wire) \in Seq(Msg) /\ Len(Tail(wire)) <= MaxWire
<1>1. wire \in Seq(Msg) /\ Len(wire) <= MaxWire /\ Len(wire) \in Nat
  BY LenProperties DEF WireTypes
<1>. QED BY <1>1, HeadTailProperties, BoundsAssumption

(* A step that leaves the server and the activity's decoder alone.         *)
LEMMA TabletKeepsServer ==
  ASSUME IInv, UNCHANGED server
  PROVE  ServerTypes'
BY DEF server, IInv, ServerTypes

LEMMA ReaderKeepsDecoder ==
  ASSUME IInv, UNCHANGED <<requests, config, ui>>, reader'.mine => decoder,
         link # "open" => link' # "open"
  PROVE  DecoderInv'
BY DEF ui, made, IInv, DecoderInv, Decoders

LEMMA ReadFrameFacts ==
  ASSUME IInv, ReadFrame
  PROVE  /\ reader.pc = "idle" /\ wire # <<>> /\ wire' = Tail(wire)
         /\ link' \in Link /\ (link = "open" <=> link' = "open")
BY DEF ReadFrame, IInv, TabletTypes, Link

LEMMA ReadConfigStep ==
  ASSUME IInv, ReadConfig
  PROVE  IInv'
<1>1. ReadFrame /\ config' = TRUE /\ posted' = TRUE
      /\ UNCHANGED <<server, requests, surface, made, awaiting, ref, reader,
                     surfaces, stalls>>
  BY DEF ReadConfig
<1>2. ServerTypes' /\ WireTypes'
  BY <1>1, TabletKeepsServer, WireTail, ReadFrameFacts DEF IInv, WireTypes
<1>3. TabletTypes' /\ KeyInv'
  BY <1>1, ReadFrameFacts DEF made, IInv, TabletTypes, KeyInv
<1>4. DecoderInv'
  BY <1>1 DEF made, IInv, DecoderInv, Decoders
<1>. QED BY <1>2, <1>3, <1>4 DEF IInv

LEMMA ReadVideoStep ==
  ASSUME IInv, ReadVideo
  PROVE  IInv'
<1>1. /\ ReadFrame /\ Head(wire) \in Frame
      /\ reader' = [pc |-> IF decoder THEN "feed" ELSE "idle",
                    frame |-> Head(wire), mine |-> decoder]
      /\ UNCHANGED <<server, requests, config, awaiting, ref, stalls, ui>>
  BY DEF ReadVideo
<1>2. ServerTypes' /\ WireTypes'
  BY <1>1, TabletKeepsServer, WireTail, ReadFrameFacts DEF IInv, WireTypes
<1>3. reader' \in Reader
  BY <1>1 DEF IInv, TabletTypes, Reader
<1>4. TabletTypes'
  BY <1>1, <1>3, ReadFrameFacts DEF ui, made, IInv, TabletTypes
<1>5. DecoderInv'
  BY <1>1, ReaderKeepsDecoder, ReadFrameFacts
<1>6. KeyInv'
  BY <1>1, ReadFrameFacts DEF ui, made, IInv, KeyInv
<1>. QED BY <1>2, <1>4, <1>5, <1>6 DEF IInv

LEMMA FeedStep ==
  ASSUME IInv, Feed
  PROVE  IInv'
<1>1. /\ reader.pc = "feed"
      /\ reader' = [reader EXCEPT !.pc = IF Skips THEN "idle" ELSE "poll"]
      /\ awaiting' = (awaiting /\ Skips)
      /\ UNCHANGED <<server, wire, requests, config, ref, stalls, link, ui>>
  BY DEF Feed
<1>2. /\ reader' \in Reader /\ reader'.mine = reader.mine
      /\ reader'.frame = reader.frame
      /\ reader'.pc = IF Skips THEN "idle" ELSE "poll"
  BY <1>1 DEF IInv, TabletTypes, Reader
<1>3. ServerTypes' /\ WireTypes'
  BY <1>1, TabletKeepsServer DEF IInv, WireTypes
<1>4. awaiting' \in BOOLEAN
  BY <1>1 DEF IInv, TabletTypes
<1>5. TabletTypes'
  BY <1>1, <1>2, <1>4 DEF ui, made, IInv, TabletTypes
<1>6. DecoderInv'
  BY <1>1, <1>2, ReaderKeepsDecoder DEF IInv, DecoderInv
<1>7. KeyInv'
  <2>1. CASE Skips
    <3>1. (awaiting' <=> awaiting) /\ reader'.pc = "idle"
      BY <1>1, <1>2, <2>1
    <3>. QED BY <1>1, <3>1 DEF ui, made, IInv, KeyInv
  <2>2. CASE ~Skips
    <3>1. /\ reader.mine /\ (awaiting => reader.frame # "delta")
          /\ reader.frame \in Frame /\ reader'.pc = "poll"
      BY <1>2, <2>2 DEF Skips, IInv, TabletTypes, Reader
    <3>. QED BY <1>1, <1>2, <3>1 DEF ui, made, IInv, DecoderInv, KeyInv, Frame
  <2>. QED BY <2>1, <2>2
<1>. QED BY <1>3, <1>5, <1>6, <1>7 DEF IInv

LEMMA QueueInputStep ==
  ASSUME IInv, QueueInput
  PROVE  IInv'
<1>1. /\ reader.pc = "poll" /\ reader' = [reader EXCEPT !.pc = "idle"]
      /\ ref' = IF ~reader.mine THEN ref
                ELSE IF reader.frame = "key" THEN "ok"
                ELSE CASE ref = "fresh"  -> "headless"
                       [] ref = "broken" -> "garbled"
                       [] OTHER          -> ref
      /\ UNCHANGED <<server, wire, requests, config, awaiting, stalls, link, ui>>
  BY DEF QueueInput
<1>2. /\ reader' \in Reader /\ reader'.mine = reader.mine /\ reader'.pc = "idle"
  BY <1>1 DEF IInv, TabletTypes, Reader
<1>3. ServerTypes' /\ WireTypes'
  BY <1>1, TabletKeepsServer DEF IInv, WireTypes
<1>4. ref' \in Ref
  BY <1>1 DEF IInv, TabletTypes, Ref
<1>5. TabletTypes'
  BY <1>1, <1>2, <1>4 DEF ui, made, IInv, TabletTypes
<1>6. DecoderInv'
  BY <1>1, <1>2, ReaderKeepsDecoder DEF IInv, DecoderInv
<1>7. KeyInv'
  <2>0. stalls' = stalls /\ decoder' = decoder /\ awaiting' = awaiting
    BY <1>1 DEF ui, made
  <2>1. CASE ~reader.mine
    <3>1. ref' = ref
      BY <1>1, <2>1
    <3>2. stalls = 0 => ref \in {"fresh", "ok"} /\ ~(decoder /\ ref = "fresh" /\ ~awaiting)
      BY <2>1 DEF IInv, KeyInv
    <3>. QED BY <1>2, <2>0, <3>1, <3>2 DEF KeyInv
  <2>2. CASE reader.mine
    <3>1. stalls = 0 => reader.frame = "key" \/ ref = "ok"
      BY <1>1, <2>2 DEF IInv, KeyInv
    <3>2. reader.frame = "key" => ref' = "ok"
      BY <1>1, <2>2
    <3>3. reader.frame # "key" /\ ref = "ok" => ref' = "ok"
      BY <1>1, <2>2
    <3>4. stalls = 0 => ref' = "ok"
      BY <3>1, <3>2, <3>3
    <3>. QED BY <2>0, <3>4 DEF KeyInv
  <2>. QED BY <2>1, <2>2
<1>. QED BY <1>3, <1>5, <1>6, <1>7 DEF IInv

LEMMA StallStep ==
  ASSUME IInv, Stall
  PROVE  IInv'
<1>1. /\ stalls < MaxStalls /\ stalls' = stalls + 1
      /\ reader' = [reader EXCEPT !.pc = "idle"]
      /\ ref' = ref \/ ref' = "broken"
      /\ UNCHANGED <<server, wire, requests, config, awaiting, link, ui>>
  BY DEF Stall
<1>2. reader' \in Reader /\ reader'.mine = reader.mine
  BY <1>1 DEF IInv, TabletTypes, Reader
<1>3. ServerTypes' /\ WireTypes'
  BY <1>1, TabletKeepsServer DEF IInv, WireTypes
<1>4. stalls' \in 1 .. MaxStalls
  BY <1>1, BoundsAssumption DEF IInv, TabletTypes
<1>5. TabletTypes'
  BY <1>1, <1>2, <1>4, BoundsAssumption DEF ui, made, IInv, TabletTypes, Ref
<1>6. DecoderInv'
  BY <1>1, <1>2, ReaderKeepsDecoder DEF IInv, DecoderInv
<1>7. KeyInv'
  BY <1>4 DEF KeyInv
<1>. QED BY <1>3, <1>5, <1>6, <1>7 DEF IInv

-----------------------------------------------------------------------------
(* The UI thread. *)

LEMMA ApplyStep ==
  ASSUME IInv, ApplyConfig, surface' = TRUE, posted' \in BOOLEAN,
         UNCHANGED <<server, wire, config, surfaces, stalls>>
  PROVE  IInv'
<1>1. ServerTypes' /\ WireTypes'
  BY TabletKeepsServer DEF IInv, WireTypes
<1>2. CASE decoder /\ KeepDecoder
  <2>1. UNCHANGED <<alive, failures, decoder, awaiting, ref, reader, requests, link>>
    BY <1>2 DEF KeepDecoder, made
  <2>2. TabletTypes' /\ KeyInv'
    BY <2>1 DEF IInv, TabletTypes, KeyInv
  <2>3. DecoderInv'
    BY <1>2, <2>1 DEF IInv, DecoderInv, Decoders
  <2>. QED BY <1>1, <2>2, <2>3 DEF IInv
<1>3. CASE ~decoder /\ MakeDecoder
  <2>1. /\ decoder' = TRUE /\ alive' = alive + 1 /\ awaiting' = TRUE
        /\ ref' = "fresh" /\ reader' = [reader EXCEPT !.mine = FALSE]
        /\ requests' \in {requests, requests + 1} /\ UNCHANGED <<failures, link>>
    BY <1>3 DEF MakeDecoder
  <2>2. reader' \in Reader /\ ~reader'.mine
    BY <2>1 DEF IInv, TabletTypes, Reader
  <2>3. TabletTypes'
    BY <2>1, <2>2 DEF IInv, TabletTypes, Ref
  <2>4. DecoderInv'
    <3>1. /\ alive \in Nat /\ alive <= failures /\ failures \in Nat
          /\ requests \in Nat /\ surfaces \in Nat /\ requests <= surfaces
      BY <1>3, BoundsAssumption DEF IInv, TabletTypes, DecoderInv, Decoders
    <3>. QED BY <2>1, <2>2, <3>1 DEF DecoderInv, Decoders
  <2>5. KeyInv'
    BY <2>1, <2>2 DEF KeyInv
  <2>. QED BY <1>1, <2>3, <2>4, <2>5 DEF IInv
<1>4. CASE ~decoder /\ DecoderFails
  <2>1. /\ failures < MaxFailures /\ failures' = failures + 1
        /\ alive' \in {alive, alive + 1} /\ link' \in {"last", "closed"}
        /\ UNCHANGED <<decoder, awaiting, ref, reader, requests>>
    BY <1>4 DEF DecoderFails, IInv, TabletTypes, Link
  <2>2. failures \in Nat /\ failures' \in 0 .. MaxFailures
    BY <2>1, BoundsAssumption DEF IInv, TabletTypes
  <2>3. TabletTypes' /\ KeyInv'
    BY <2>1, <2>2 DEF IInv, TabletTypes, KeyInv, Link
  <2>4. DecoderInv'
    BY <1>4, <2>1, <2>2 DEF IInv, DecoderInv, Decoders
  <2>. QED BY <1>1, <2>3, <2>4 DEF IInv
<1>. QED BY <1>2, <1>3, <1>4 DEF ApplyConfig

(* A step of the UI thread that makes no decoder and takes none away.      *)
LEMMA IdleUIStep ==
  ASSUME IInv, KeepDecoder, surface' \in BOOLEAN, surface => surface',
         ~(surface' /\ config), posted' \in BOOLEAN,
         UNCHANGED <<server, wire, config, surfaces, stalls>>
  PROVE  IInv'
<1>1. ServerTypes' /\ WireTypes'
  BY TabletKeepsServer DEF IInv, WireTypes
<1>2. TabletTypes' /\ KeyInv'
  BY DEF KeepDecoder, made, IInv, TabletTypes, KeyInv
<1>3. DecoderInv'
  BY DEF KeepDecoder, made, IInv, DecoderInv, Decoders
<1>. QED BY <1>1, <1>2, <1>3 DEF IInv

LEMMA UIStep ==
  ASSUME IInv, UI
  PROVE  IInv'
<1>1. surface \in BOOLEAN /\ posted \in BOOLEAN
  BY DEF IInv, TabletTypes
<1>2. CASE RunPosted
  BY <1>1, <1>2, ApplyStep, IdleUIStep DEF RunPosted
<1>3. CASE SurfaceChanged
  BY <1>1, <1>3, ApplyStep, IdleUIStep DEF SurfaceChanged
<1>4. CASE SurfaceDestroyed
  <2>1. /\ surfaces < MaxSurfaces /\ surfaces' = surfaces + 1
        /\ surface' = FALSE /\ decoder' = FALSE
        /\ alive' = IF decoder THEN alive - 1 ELSE alive
        /\ reader' = [reader EXCEPT !.mine = FALSE]
        /\ UNCHANGED <<server, wire, requests, config, posted, awaiting, ref, stalls,
                       link, failures>>
    BY <1>4 DEF SurfaceDestroyed
  <2>2. reader' \in Reader /\ ~reader'.mine
    BY <2>1 DEF IInv, TabletTypes, Reader
  <2>3. ServerTypes' /\ WireTypes'
    BY <2>1, TabletKeepsServer DEF IInv, WireTypes
  <2>4. surfaces' \in 0 .. MaxSurfaces
    BY <2>1, BoundsAssumption DEF IInv, TabletTypes
  <2>5. TabletTypes'
    BY <2>1, <2>2, <2>4 DEF IInv, TabletTypes
  <2>6. DecoderInv'
    <3>1. /\ alive' \in Nat /\ alive' <= failures /\ requests <= surfaces + 1
          /\ requests \in Nat /\ surfaces \in Nat
      BY <2>1, BoundsAssumption DEF IInv, TabletTypes, DecoderInv, Decoders
    <3>. QED BY <2>1, <2>2, <3>1, BoundsAssumption
             DEF IInv, TabletTypes, DecoderInv, Decoders
  <2>7. KeyInv'
    BY <2>1, <2>2 DEF IInv, KeyInv
  <2>. QED BY <2>3, <2>5, <2>6, <2>7 DEF IInv
<1>. QED BY <1>2, <1>3, <1>4 DEF UI

LEMMA Inductive == IInv /\ [Next]_vars => IInv'
<1> SUFFICES ASSUME IInv, [Next]_vars PROVE IInv'
  OBVIOUS
<1>1. CASE NetRx
  BY <1>1, ReadConfigStep, ReadVideoStep, FeedStep, QueueInputStep, StallStep DEF NetRx
<1>2. CASE UNCHANGED vars
  <2>1. /\ UNCHANGED <<server, wire, requests, config, awaiting, ref, reader, stalls, link>>
        /\ UNCHANGED ui
    BY <1>2 DEF vars, server, ui, made
  <2>2. ServerTypes' /\ WireTypes'
    BY <2>1, TabletKeepsServer DEF IInv, WireTypes
  <2>3. requests \in Nat /\ requests' <= requests
    BY <2>1 DEF IInv, TabletTypes
  <2>. QED BY <2>1, <2>2, <2>3, ServerKeepsTablet DEF IInv
<1>. QED BY <1>1, <1>2, EmitStep, ServerStep, UIStep DEF Next

LEMMA Invariant == Spec => []IInv
BY InitGood, Inductive, PTL DEF Spec

-----------------------------------------------------------------------------

(* Every variable keeps its type; so a session asks for no more key frames *)
(* than it had surfaces, and the channel holds one message beyond its      *)
(* bound at most.                                                          *)
THEOREM VideoTypeCorrect == Spec => []TypeOK
<1>1. IInv => TypeOK
  <2> SUFFICES ASSUME IInv PROVE TypeOK
    OBVIOUS
  <2>1. queue \in Seq(Msg) /\ Len(queue) <= MaxQueue + 1
    <3>1. queue \in Seq(Msg) /\ Len(queue) \in Nat
      BY LenProperties DEF IInv, ServerTypes
    <3>. QED BY <3>1, BoundsAssumption DEF IInv, ServerTypes
  <2>2. alive \in Nat /\ requests \in 0 .. MaxSurfaces + 1
    BY BoundsAssumption DEF IInv, TabletTypes, DecoderInv, Decoders
  <2>. QED BY <2>1, <2>2, Zenon DEF IInv, ServerTypes, WireTypes, TabletTypes, TypeOK
<1>. QED BY <1>1, Invariant, PTL

(* Runnables of STREAM_CONFIG and surface callbacks in any order: nothing  *)
(* but throwing constructors leaves decoders behind, none is there without *)
(* a surface, and a surface has its decoder or the connection is closed,   *)
(* for any number of surfaces and of constructors that throw.              *)
THEOREM VideoDecoderFollowsSurface == Spec => []DecoderFollowsSurface
<1>1. IInv => DecoderFollowsSurface
  BY DEF IInv, DecoderInv, DecoderFollowsSurface
<1>. QED BY <1>1, Invariant, PTL

(* As long as no poll of the decoder timed out no decoder was given a      *)
(* delta without its reference, whenever it was created.                   *)
THEOREM VideoDeltasDecodable == Spec => []DeltasDecodable
<1>1. IInv => DeltasDecodable
  BY DEF IInv, KeyInv, DeltasDecodable
<1>. QED BY <1>1, Invariant, PTL

-----------------------------------------------------------------------------
(* A decoder that waits for its key frame does not wait in vain: the       *)
(* request for it, the order to the encoder or the frame itself is         *)
(* somewhere between the two, and nothing on the way drops it.             *)

HasKey(s) == \E i \in DOMAIN s : s[i] = "key"
InHand    == reader.pc = "feed" /\ reader.mine /\ reader.frame = "key"
OnItsWay  == requests > 0 \/ IsKey \/ HasKey(queue) \/ HasKey(wire) \/ InHand

KeyOnItsWay == decoder /\ awaiting /\ link = "open" => OnItsWay

LEMMA HasKeyAppend ==
  ASSUME NEW s \in Seq(Msg), NEW m \in Msg
  PROVE  HasKey(Append(s, m)) <=> HasKey(s) \/ m = "key"
<1>1. /\ Len(s) \in Nat /\ DOMAIN s = 1 .. Len(s)
      /\ Len(Append(s, m)) = Len(s) + 1
      /\ DOMAIN Append(s, m) = 1 .. Len(s) + 1
      /\ \A i \in 1 .. Len(s) : Append(s, m)[i] = s[i]
      /\ Append(s, m)[Len(s) + 1] = m
  BY AppendProperties, LenProperties
<1>2. 1 .. Len(s) + 1 = (1 .. Len(s)) \cup {Len(s) + 1}
  BY <1>1
<1>. QED BY <1>1, <1>2 DEF HasKey

LEMMA HasKeyTail ==
  ASSUME NEW s \in Seq(Msg), s # <<>>, HasKey(s)
  PROVE  Head(s) = "key" \/ HasKey(Tail(s))
<1>1. PICK i \in 1 .. Len(s) : s[i] = "key"
  BY LenProperties DEF HasKey
<1>2. /\ Len(s) \in Nat /\ Head(s) = s[1] /\ Len(Tail(s)) = Len(s) - 1
      /\ DOMAIN Tail(s) = 1 .. Len(Tail(s))
      /\ \A j \in 1 .. Len(Tail(s)) : Tail(s)[j] = s[j + 1]
  BY HeadTailProperties, LenProperties
<1>3. CASE i = 1
  BY <1>1, <1>2, <1>3
<1>4. CASE i # 1
  <2>1. i - 1 \in 1 .. Len(Tail(s)) /\ (i - 1) + 1 = i
    BY <1>2, <1>4
  <2>2. Tail(s)[i - 1] = "key"
    BY <1>1, <1>2, <2>1
  <2>. QED BY <1>2, <2>1, <2>2 DEF HasKey
<1>. QED BY <1>3, <1>4

(* On the server: a request becomes an order, an order a frame in the      *)
(* channel, and that a frame on the wire.                                  *)
LEMMA ServerKeepsKey ==
  ASSUME IInv, EncoderEmits \/ Server, OnItsWay
  PROVE  OnItsWay'
<1>0. queue \in Seq(Msg) /\ wire \in Seq(Msg) /\ requests \in Nat
  BY DEF IInv, ServerTypes, WireTypes, TabletTypes
<1>1. CASE EncoderEmits
  <2>1. /\ queue' = Append(queue, IF IsKey THEN "key" ELSE "delta")
        /\ UNCHANGED <<requests, wire, reader>>
    BY <1>1 DEF EncoderEmits
  <2>2. (IF IsKey THEN "key" ELSE "delta") \in Msg
    BY DEF Msg, Frame
  <2>3. HasKey(queue) \/ IsKey => HasKey(queue')
    BY <1>0, <2>1, <2>2, HasKeyAppend
  <2>. QED BY <2>1, <2>3 DEF OnItsWay, InHand, HasKey
<1>2. CASE EncoderFallsBack \/ ScreenReady \/ ServeRequest
  BY <1>2 DEF EncoderFallsBack, ScreenReady, ServeRequest, OnItsWay, IsKey
<1>3. CASE Drain
  <2>1. /\ queue # <<>> /\ queue' = Tail(queue)
        /\ UNCHANGED <<requests, reader, sinceKey, forceKey>>
        /\ \/ Head(queue) = "delta" /\ wire' = wire
           \/ wire' = Append(wire, Head(queue))
    BY <1>3 DEF Drain
  <2>2. Head(queue) \in Msg
    BY <1>0, <2>1, HeadTailProperties
  <2>3. HasKey(wire) => HasKey(wire')
    BY <1>0, <2>1, <2>2, HasKeyAppend
  <2>4. HasKey(queue) => HasKey(queue') \/ HasKey(wire')
    <3>1. Head(queue) = "key" => wire' = Append(wire, Head(queue))
      BY <2>1
    <3>2. HasKey(queue) => Head(queue) = "key" \/ HasKey(queue')
      BY <1>0, <2>1, HasKeyTail
    <3>3. Head(queue) = "key" => HasKey(Append(wire, Head(queue)))
      BY <1>0, <2>2, HasKeyAppend
    <3>. QED BY <3>1, <3>2, <3>3
  <2>. QED BY <2>1, <2>3, <2>4 DEF OnItsWay, InHand, IsKey, HasKey
<1>. QED BY <1>1, <1>2, <1>3 DEF Server

(* On the tablet: the reader hands the frame to the decoder that waits.    *)
LEMMA ReaderKeepsKey ==
  ASSUME IInv, NetRx, decoder, awaiting', OnItsWay
  PROVE  OnItsWay'
<1>0. wire \in Seq(Msg)
  BY DEF IInv, WireTypes
<1>1. CASE ReadConfig
  <2>1. /\ wire # <<>> /\ Head(wire) = "config" /\ wire' = Tail(wire)
        /\ UNCHANGED <<requests, queue, reader, sinceKey, forceKey>>
    BY <1>1, ReadFrameFacts DEF ReadConfig, server
  <2>2. HasKey(wire) => HasKey(wire')
    BY <1>0, <2>1, HasKeyTail
  <2>. QED BY <2>1, <2>2 DEF OnItsWay, InHand, IsKey, HasKey
<1>2. CASE ReadVideo
  <2>1. /\ wire # <<>> /\ wire' = Tail(wire) /\ reader.pc = "idle"
        /\ reader' = [pc |-> IF decoder THEN "feed" ELSE "idle",
                      frame |-> Head(wire), mine |-> decoder]
        /\ UNCHANGED <<requests, queue, sinceKey, forceKey>>
    BY <1>2, ReadFrameFacts DEF ReadVideo, server
  <2>2. reader'.pc = "feed" /\ reader'.frame = Head(wire) /\ reader'.mine
    BY <2>1
  <2>3. HasKey(wire) => HasKey(wire') \/ InHand'
    BY <1>0, <2>1, <2>2, HasKeyTail DEF InHand
  <2>. QED BY <2>1, <2>3 DEF OnItsWay, InHand, IsKey, HasKey
<1>3. CASE Feed
  <2>1. /\ awaiting /\ Skips /\ UNCHANGED <<requests, queue, wire, sinceKey, forceKey>>
    BY <1>3 DEF Feed, server
  <2>2. ~InHand
    BY <2>1 DEF Skips, InHand
  <2>. QED BY <2>1, <2>2 DEF OnItsWay, IsKey, HasKey
<1>4. CASE QueueInput \/ Stall
  <2>1. /\ reader.pc = "poll" /\ UNCHANGED <<requests, queue, wire, sinceKey, forceKey>>
    BY <1>4 DEF QueueInput, Stall, server
  <2>. QED BY <2>1 DEF OnItsWay, InHand, IsKey, HasKey
<1>. QED BY <1>1, <1>2, <1>3, <1>4 DEF NetRx

LEMMA KeyKept == IInv /\ KeyOnItsWay /\ [Next]_vars => KeyOnItsWay'
<1> SUFFICES ASSUME IInv, KeyOnItsWay, [Next]_vars, decoder', awaiting', link' = "open"
             PROVE  OnItsWay'
  BY DEF KeyOnItsWay
<1>1. CASE EncoderEmits \/ Server
  <2>1. decoder' = decoder /\ awaiting' = awaiting /\ link' = link
    BY <1>1 DEF EncoderEmits, Server, EncoderFallsBack, ScreenReady, Drain,
       ServeRequest, ui, made
  <2>. QED BY <1>1, <2>1, ServerKeepsKey DEF KeyOnItsWay
<1>2. CASE NetRx
  <2>1. decoder' = decoder /\ link = "open"
    BY <1>2 DEF NetRx, ReadConfig, ReadVideo, ReadFrame, Feed, QueueInput, Stall, ui, made
  <2>2. awaiting' => awaiting
    BY <1>2 DEF NetRx, ReadConfig, ReadVideo, Feed, QueueInput, Stall
  <2>. QED BY <1>2, <2>1, <2>2, ReaderKeepsKey DEF KeyOnItsWay
<1>3. CASE UI
  <2>1. UNCHANGED <<queue, wire, sinceKey, forceKey>>
    BY <1>3 DEF UI, RunPosted, SurfaceChanged, SurfaceDestroyed, server
  <2>2. CASE UNCHANGED <<decoder, awaiting, requests, reader, link>>
    BY <2>1, <2>2 DEF KeyOnItsWay, OnItsWay, InHand, IsKey, HasKey
  <2>3. CASE requests' = requests + 1
    BY <2>3 DEF OnItsWay, IInv, TabletTypes
  <2>4. \/ UNCHANGED <<decoder, awaiting, requests, reader, link>>
        \/ requests' = requests + 1
    <3>1. CASE SurfaceDestroyed
      BY <3>1 DEF SurfaceDestroyed
    <3>2. CASE KeepDecoder
      BY <3>2 DEF KeepDecoder, made
    <3>3. CASE MakeDecoder
      BY <3>3 DEF MakeDecoder
    <3>4. CASE ~decoder /\ DecoderFails
      BY <3>4 DEF DecoderFails
    <3>. QED BY <1>3, <3>1, <3>2, <3>3, <3>4
             DEF UI, RunPosted, SurfaceChanged, ApplyConfig
  <2>. QED BY <2>2, <2>3, <2>4
<1>4. CASE UNCHANGED vars
  BY <1>4 DEF vars, KeyOnItsWay, OnItsWay, InHand, IsKey, HasKey
<1>. QED BY <1>1, <1>2, <1>3, <1>4 DEF Next

(* While a decoder of an open connection waits for its first key frame,    *)
(* one is on its way to it, whatever the surfaces, the encoder's fallback  *)
(* and the stalls do: a request or its answer does not go missing before   *)
(* the decoder is offered the frame.                                       *)
THEOREM VideoKeyOnItsWay == Spec => []KeyOnItsWay
<1>1. Init => KeyOnItsWay
  BY DEF Init, KeyOnItsWay
<1>. QED BY <1>1, InitGood, Inductive, KeyKept, PTL DEF Spec
=============================================================================
