----------------------------- MODULE WireProofs -----------------------------
(* Proofs about the event loop's framing, for every set of frames, every   *)
(* size of a batch item, a payload and a read.                             *)
EXTENDS Wire, TLAPS

(* The frames of the stream lie one behind the other. *)
Stream ==
  /\ Place(1) = 0
  /\ \A i \in DOMAIN sent : Place(i + 1) = sent[i].at + Size(sent[i])
  /\ \A i, j \in 1 .. Len(sent) + 1 : i < j => Place(i) + Header <= Place(j)

(* Where the loop stands in it. *)
Position ==
  /\ done <= Len(sent) /\ Len(events) = done
  /\ base + pos <= got /\ got <= End
  /\ main \in {"drain", "read"} => pos = 0
  /\ broken = TRUE => main = "over"

(* A turn of the loop begins with less than a frame in the buffer, and     *)
(* brings one read.                                                        *)
Buffered == main \in {"drain", "read"} => got - base < Header + MaxLen

IInv == TypeOK /\ Stream /\ Position /\ InStep /\ NothingWaits /\ Buffered
        /\ BoundedBuffer /\ BatchWhole

LEMMA EndFacts ==
  ASSUME TypeOK
  PROVE  End \in Nat /\ \A i \in Nat \ {0} : Place(i) \in Nat
<1>1. \A i \in DOMAIN sent : sent[i].at \in Nat /\ sent[i].len \in Nat
  <2>1. \A i \in DOMAIN sent : sent[i] \in Placed
    BY DEF TypeOK
  <2>. QED BY <2>1 DEF Placed
<1>2. End \in Nat
  <2>1. CASE sent = <<>>
    BY <2>1 DEF End
  <2>2. CASE sent # <<>>
    <3>1. Len(sent) \in DOMAIN sent
      BY <2>2 DEF TypeOK
    <3>. QED BY <2>2, <3>1, <1>1 DEF End, Size, Header
  <2>. QED BY <2>1, <2>2
<1>3. ASSUME NEW i \in Nat \ {0} PROVE Place(i) \in Nat
  <2>1. i <= Len(sent) => i \in DOMAIN sent
    BY DEF TypeOK
  <2>. QED BY <2>1, <1>1, <1>2 DEF Place
<1>. QED BY <1>2, <1>3

LEMMA InitGood == Init => IInv
<1> SUFFICES ASSUME Init PROVE IInv
  OBVIOUS
<1>1. TypeOK
  <2>1. sent \in Seq(Placed) /\ events \in Seq(Nat)
    BY DEF Init
  <2>. QED BY <2>1 DEF Init, TypeOK
<1>2. End = 0 /\ Place(1) = 0
  BY DEF Init, End, Place
<1>3. Stream /\ Position /\ InStep /\ NothingWaits /\ BatchWhole
  BY <1>2 DEF Init, Stream, Position, InStep, NothingWaits, BatchWhole
<1>4. Buffered /\ BoundedBuffer
  BY SizeAssumption DEF Init, Buffered, BoundedBuffer, Header
<1>. QED BY <1>1, <1>3, <1>4 DEF IInv

(* Once its header has arrived, the frame at the place of the loop is the  *)
(* first that has not been dispatched.                                     *)
LEMMA CurrentFacts ==
  ASSUME IInv, Left >= Header
  PROVE  /\ done + 1 \in DOMAIN sent
         /\ Current = sent[done + 1] /\ Current \in Placed
         /\ Place(done + 2) = base + pos + Size(Current)
<1> USE DEF IInv
<1>1. done + 1 \in DOMAIN sent
  <2>1. CASE done = Len(sent)
    BY <2>1 DEF InStep, Place, Position, Left, Header, TypeOK
  <2>. QED BY <2>1 DEF Position, TypeOK
<1>2. sent[done + 1].at = base + pos
  BY <1>1 DEF InStep, Place
<1>3. ASSUME NEW i \in DOMAIN sent, sent[i].at = base + pos PROVE i = done + 1
  <2>1. Place(i) = Place(done + 1) /\ Place(i) \in Nat
    BY <1>1, <1>2, <1>3, EndFacts DEF Place
  <2>2. i \in 1 .. Len(sent) + 1 /\ done + 1 \in 1 .. Len(sent) + 1
    BY <1>1 DEF TypeOK
  <2>3. ~(i < done + 1) /\ ~(done + 1 < i)
    BY <2>1, <2>2 DEF Stream, Header
  <2>. QED BY <2>2, <2>3
<1>4. Current = sent[done + 1]
  BY <1>1, <1>2, <1>3 DEF Current, FrameAt
<1>5. Current \in Placed
  BY <1>1, <1>4 DEF TypeOK
<1>6. Place(done + 2) = base + pos + Size(Current)
  <2>1. Place((done + 1) + 1) = sent[done + 1].at + Size(sent[done + 1])
    BY <1>1 DEF Stream
  <2>. QED BY <2>1, <1>2, <1>4 DEF TypeOK
<1>. QED BY <1>1, <1>4, <1>5, <1>6

(* Steps that leave the stream alone. *)
LEMMA StreamKept ==
  ASSUME IInv, UNCHANGED sent
  PROVE  Stream' /\ End' = End /\ \A i \in Nat : Place(i)' = Place(i)
BY DEF IInv, Stream, End, Place

(* What the tablet sends comes behind everything it has sent. *)
LEMMA SendStep ==
  ASSUME IInv, NEW f \in Frames, Send(f)
  PROVE  IInv'
<1> USE DEF IInv
<1> DEFINE g == [type |-> f.type, len |-> f.len, n |-> f.n, at |-> End]
<1>1. g \in Placed
  BY FrameAssumption, EndFacts DEF Placed
<1>2. sent' = Append(sent, g) /\ UNCHANGED <<mode, closed, base, got, pos, main, done,
                                             events, broken, queued>>
  BY DEF Send, buffer, input
<1>3. g.at = End /\ Size(g) \in Nat /\ Size(g) >= Header
  BY <1>1 DEF Placed, Size, Header
<1> HIDE DEF g
<1>4. /\ sent' \in Seq(Placed) /\ Len(sent') = Len(sent) + 1
      /\ \A i \in DOMAIN sent : sent'[i] = sent[i]
      /\ sent'[Len(sent) + 1] = g
  BY <1>1, <1>2 DEF TypeOK
<1>5. TypeOK'
  BY <1>2, <1>4 DEF TypeOK
<1>6. End' = End + Size(g) /\ End \in Nat
  BY <1>3, <1>4, EndFacts DEF End, Size, TypeOK
<1>7. /\ \A i \in 1 .. Len(sent) + 1 : Place(i)' = Place(i)
      /\ \A i \in Nat : i = Len(sent) + 2 => Place(i)' = End + Size(g)
      /\ Place(Len(sent) + 1) = End
  <2>1. ASSUME NEW i \in 1 .. Len(sent) PROVE Place(i)' = Place(i)
    BY <1>4 DEF Place, TypeOK
  <2>2. ASSUME NEW i \in Nat, i = Len(sent) + 1 PROVE Place(i)' = End /\ Place(i) = End
    <3>1. i <= Len(sent') /\ sent'[i] = g /\ ~(i <= Len(sent))
      BY <2>2, <1>4 DEF TypeOK
    <3>. QED BY <3>1, <1>3 DEF Place
  <2>3. ASSUME NEW i \in Nat, i = Len(sent) + 2 PROVE Place(i)' = End + Size(g)
    <3>1. ~(i <= Len(sent'))
      BY <2>3, <1>4 DEF TypeOK
    <3>. QED BY <3>1, <1>6 DEF Place
  <2>4. Len(sent) \in Nat
    BY DEF TypeOK
  <2>5. Place(Len(sent) + 1) = End
    BY <2>2, <2>4
  <2>6. ASSUME NEW i \in 1 .. Len(sent) + 1 PROVE Place(i)' = Place(i)
    BY <2>1, <2>2, <2>4
  <2>. QED BY <2>3, <2>5, <2>6
<1>8. Stream'
  <2>1. Place(1)' = 0
    BY <1>7 DEF Stream, TypeOK
  <2>2. ASSUME NEW i \in DOMAIN sent' PROVE (Place(i + 1) = sent[i].at + Size(sent[i]))'
    <3>1. CASE i \in DOMAIN sent
      <4>1. i + 1 \in 1 .. Len(sent) + 1 /\ sent'[i] = sent[i]
        BY <3>1, <1>4 DEF TypeOK
      <4>. QED BY <3>1, <4>1, <1>7 DEF Stream, Size
    <3>2. CASE i = Len(sent) + 1
      BY <3>2, <1>3, <1>4, <1>7 DEF Size, TypeOK
    <3>. QED BY <3>1, <3>2, <1>4 DEF TypeOK
  <2>3. ASSUME NEW i \in 1 .. Len(sent') + 1, NEW j \in 1 .. Len(sent') + 1, i < j
        PROVE  Place(i)' + Header <= Place(j)'
    <3>1. i \in 1 .. Len(sent) + 1
      BY <2>3, <1>4 DEF TypeOK
    <3>2. CASE j \in 1 .. Len(sent) + 1
      BY <2>3, <3>1, <3>2, <1>7 DEF Stream
    <3>3. CASE j = Len(sent) + 2
      <4>1. Place(i) <= End /\ Place(i) \in Nat
        <5>1. i = Len(sent) + 1 \/ i < Len(sent) + 1
          BY <3>1 DEF TypeOK
        <5>2. Len(sent) + 1 \in 1 .. Len(sent) + 1
          BY DEF TypeOK
        <5>3. Place(i) \in Nat
          BY <3>1, EndFacts
        <5>. QED BY <5>1, <5>2, <5>3, <3>1, <1>6, <1>7 DEF Stream, Header
      <4>. QED BY <4>1, <3>1, <3>3, <1>3, <1>6, <1>7 DEF Header
    <3>. QED BY <3>2, <3>3, <1>4 DEF TypeOK
  <2>. QED BY <2>1, <2>2, <2>3 DEF Stream
<1>9. Position'
  BY <1>2, <1>3, <1>4, <1>6 DEF Position, TypeOK
<1>10. InStep'
  BY <1>2, <1>7 DEF InStep, Position, TypeOK
<1>11. NothingWaits'
  <2> SUFFICES ASSUME main \in {"drain", "read"}, NEW i \in DOMAIN sent', i > done
               PROVE  got < sent'[i].at + Size(sent'[i])
    BY <1>2 DEF NothingWaits, Size
  <2>1. CASE i \in DOMAIN sent
    BY <2>1, <1>4 DEF NothingWaits
  <2>2. CASE i = Len(sent) + 1
    BY <2>2, <1>3, <1>4, <1>6 DEF Position, Header, TypeOK
  <2>. QED BY <2>1, <2>2, <1>4 DEF TypeOK
<1>12. Buffered' /\ BoundedBuffer'
  BY <1>2 DEF Buffered, BoundedBuffer
<1>13. BatchWhole'
  <2>1. \A i \in DOMAIN events : i \in DOMAIN sent
    BY DEF Position, TypeOK
  <2>2. \A i \in DOMAIN events : sent'[i] = sent[i]
    BY <2>1, <1>4
  <2>. QED BY <1>2, <2>2 DEF BatchWhole, Wanted, Truncated
<1>. QED BY <1>5, <1>8, <1>9, <1>10, <1>11, <1>12, <1>13

(* Steps that move nothing in the buffer: what is written, the ends of the *)
(* connection, a read that brings nothing.                                 *)
LEMMA QuietStep ==
  ASSUME IInv, UNCHANGED <<mode, sent, base, got, pos, done, events, broken>>,
         closed' \in BOOLEAN, queued' \in Nat,
         \/ main' = main
         \/ main = "drain" /\ main' = "read"
         \/ main' \in {"parse", "over"},
         main = "over" => main' = "over"
  PROVE  IInv'
<1> USE DEF IInv
<1>1. TypeOK'
  BY DEF TypeOK
<1>2. Stream' /\ End' = End /\ \A i \in Nat : Place(i)' = Place(i)
  BY StreamKept
<1>3. main' \in {"drain", "read"} => main \in {"drain", "read"}
  BY DEF TypeOK
<1>4. Position' /\ Buffered' /\ BoundedBuffer'
  BY <1>2, <1>3 DEF Position, Buffered, BoundedBuffer
<1>5. InStep'
  BY <1>2 DEF InStep, TypeOK
<1>6. NothingWaits' /\ BatchWhole'
  BY <1>3 DEF NothingWaits, BatchWhole, Size, Wanted, Truncated
<1>. QED BY <1>1, <1>2, <1>4, <1>5, <1>6

(* A read brings at most a chunk, and no more than there is. *)
LEMMA ReadStep ==
  ASSUME IInv, ReadSome
  PROVE  IInv'
<1> USE DEF IInv
<1>1. /\ UNCHANGED <<mode, sent, closed, base, pos, done, events, broken, queued>>
      /\ main = "read" /\ main' = "parse"
  BY DEF ReadSome, input
<1>2. PICK n \in 1 .. Chunk : got + n <= End /\ got' = got + n
  BY DEF ReadSome
<1>3. TypeOK'
  BY <1>1, <1>2, SizeAssumption DEF TypeOK
<1>4. Stream' /\ End' = End /\ \A i \in Nat : Place(i)' = Place(i)
  BY <1>1, StreamKept
<1>5. Position' /\ NothingWaits' /\ Buffered'
  BY <1>1, <1>2, <1>4, SizeAssumption, EndFacts DEF Position, NothingWaits, Buffered, TypeOK
<1>6. BoundedBuffer'
  BY <1>1, <1>2, SizeAssumption DEF Buffered, BoundedBuffer, Header, TypeOK
<1>7. InStep' /\ BatchWhole'
  BY <1>1, <1>4 DEF InStep, TypeOK, BatchWhole, Wanted, Truncated
<1>. QED BY <1>3, <1>4, <1>5, <1>6, <1>7

(* The end of a turn: what is left is less than a frame. *)
LEMMA IncompleteStep ==
  ASSUME IInv, Incomplete \/ Oversized
  PROVE  IInv'
<1> USE DEF IInv
<1>1. /\ UNCHANGED <<mode, sent, closed, got, done, events, broken, queued>>
      /\ base' = base + pos /\ pos' = 0
      /\ main = "parse" /\ main' \in {"drain", "over"}
      /\ main' = "drain" => ~TooLong /\ ~Complete
  BY DEF Incomplete, Oversized, Compact, input
<1>2. TypeOK'
  BY <1>1 DEF TypeOK
<1>3. Stream' /\ End' = End /\ \A i \in Nat : Place(i)' = Place(i)
  BY <1>1, StreamKept
<1>4. Position' /\ InStep'
  BY <1>1, <1>3 DEF Position, InStep, TypeOK
<1>5. BatchWhole'
  BY <1>1 DEF BatchWhole, Wanted, Truncated
<1>6. ASSUME main' = "drain"
      PROVE  /\ Left < Header + MaxLen
             /\ \A i \in DOMAIN sent : i > done => got < sent[i].at + Size(sent[i])
  <2>1. CASE Left < Header
    <3>1. ASSUME NEW i \in DOMAIN sent, i > done
          PROVE  got < sent[i].at + Size(sent[i])
      <4>1. /\ done + 1 \in 1 .. Len(sent) + 1 /\ i \in 1 .. Len(sent)
            /\ i + 1 \in 1 .. Len(sent) + 1 /\ done + 1 < i + 1
        BY <3>1 DEF TypeOK
      <4>2. Place(done + 1) + Header <= Place(i + 1)
        BY <4>1 DEF Stream
      <4>3. Place(i + 1) = sent[i].at + Size(sent[i])
        BY <3>1 DEF Stream
      <4>4. Place(done + 1) \in Nat /\ Place(i + 1) \in Nat
        BY <4>1, EndFacts
      <4>. QED BY <2>1, <4>2, <4>3, <4>4 DEF InStep, Left, Header, TypeOK
    <3>. QED BY <2>1, <3>1, SizeAssumption DEF Left, Header, TypeOK
  <2>2. CASE Left >= Header
    <3>1. Left < Size(Current) /\ Current.len <= MaxLen /\ Current \in Placed
      BY <1>1, <1>6, <2>2, CurrentFacts, SizeAssumption DEF Complete, TooLong, Size,
         Placed, Header, Left, TypeOK
    <3>2. ASSUME NEW i \in DOMAIN sent, i > done
          PROVE  got < sent[i].at + Size(sent[i])
      <4>1. /\ done + 2 \in 1 .. Len(sent) + 1 /\ i \in 1 .. Len(sent)
            /\ i + 1 \in 1 .. Len(sent) + 1 /\ done + 2 <= i + 1
        BY <3>2 DEF TypeOK
      <4>2. Place(done + 2) <= Place(i + 1)
        BY <4>1, EndFacts DEF Stream, Header
      <4>3. Place(i + 1) = sent[i].at + Size(sent[i])
        BY <3>2 DEF Stream
      <4>4. Place(done + 2) = base + pos + Size(Current)
        BY <2>2, CurrentFacts
      <4>5. Place(done + 2) \in Nat /\ Place(i + 1) \in Nat
        BY <4>1, EndFacts
      <4>. QED BY <3>1, <4>2, <4>3, <4>4, <4>5 DEF Left, Placed, Size, Header, TypeOK
    <3>. QED BY <3>1, <3>2, SizeAssumption DEF Left, Size, Header, Placed, TypeOK
  <2>. QED BY <2>1, <2>2 DEF Left, Header, TypeOK
<1>7. Buffered' /\ NothingWaits'
  BY <1>1, <1>6 DEF Buffered, NothingWaits, Left, Size, TypeOK
<1>8. BoundedBuffer'
  BY <1>1, SizeAssumption DEF BoundedBuffer, Header, TypeOK
<1>. QED BY <1>2, <1>3, <1>4, <1>5, <1>7, <1>8

(* One frame is handed to dispatch: the loop goes on behind it, or ends.   *)
Expected(f) == IF Wanted(f) /\ ~Truncated(f) THEN f.n ELSE 0

LEMMA FrameStep ==
  ASSUME IInv, main = "parse", Complete, NEW k \in Nat, NEW b \in Nat, NEW p \in Nat,
         /\ UNCHANGED <<mode, sent, closed, got>>
         /\ queued' \in Nat /\ broken' \in BOOLEAN
         /\ done' = done + 1
         /\ base' = b /\ pos' = p
         /\ b >= base /\ b + p = base + Advance
         /\ main' \in {"parse", "over"}
         /\ events' = Append(events, k)
         /\ \/ k = Expected(Current) /\ broken' = broken
            \/ broken' = TRUE /\ main' = "over"
  PROVE  IInv'
<1> USE DEF IInv
<1>1. /\ done + 1 \in DOMAIN sent
      /\ Current = sent[done + 1] /\ Current \in Placed
      /\ Place(done + 2) = base + pos + Size(Current)
      /\ Left >= Size(Current)
  BY CurrentFacts DEF Complete
<1>2. Size(Current) \in Nat
  BY <1>1 DEF Size, Placed, Header
<1>3. b + p = Place(done + 2) /\ b + p <= got
  <2>1. base \in Nat /\ pos \in Nat /\ got \in Nat
    BY DEF TypeOK
  <2>2. b + p = base + (pos + Size(Current))
    BY DEF Advance
  <2>3. got - base - pos >= Size(Current)
    BY <1>1 DEF Left
  <2>. QED BY <1>1, <1>2, <2>1, <2>2, <2>3
<1>4. TypeOK'
  BY DEF TypeOK
<1>5. Stream' /\ End' = End /\ \A i \in Nat : Place(i)' = Place(i)
  BY StreamKept
<1>6. Position'
  <2>1. done + 1 <= Len(sent) /\ Len(events') = done + 1
    BY <1>1 DEF Position, TypeOK
  <2>. QED BY <1>3, <1>5, <2>1 DEF Position, TypeOK
<1>7. InStep'
  <2>1. (done + 1)' = done + 2
    BY DEF TypeOK
  <2>. QED BY <1>3, <1>5, <2>1 DEF InStep, Place
<1>8. NothingWaits' /\ Buffered'
  BY DEF NothingWaits, Buffered
<1>9. BoundedBuffer'
  <2>1. got' = got /\ base' = b /\ b >= base
    OBVIOUS
  <2>2. base \in Nat /\ got \in Nat /\ got - base < Header + MaxLen + Chunk
    BY DEF TypeOK, BoundedBuffer
  <2>. QED BY <2>1, <2>2, SizeAssumption DEF BoundedBuffer, Header
<1>10. BatchWhole'
  <2>1. /\ Len(events') = Len(events) + 1 /\ events'[done + 1] = k
        /\ \A i \in DOMAIN events : events'[i] = events[i]
        /\ DOMAIN events' = DOMAIN events \cup {done + 1}
    BY DEF Position, TypeOK
  <2>2. \A i \in DOMAIN events : events[i] = Expected(sent[i])
    BY DEF BatchWhole, Position, Expected
  <2>. QED BY <1>1, <2>1, <2>2 DEF BatchWhole, Wanted, Truncated, Position, Expected
<1>. QED BY <1>4, <1>5, <1>6, <1>7, <1>8, <1>9, <1>10

LEMMA DispatchStep ==
  ASSUME IInv, Dispatch
  PROVE  IInv'
<1> DEFINE k == IF Wanted(Current) THEN Current.n ELSE 0
<1>1. /\ main = "parse" /\ ~Refused(Current) /\ Complete /\ Left >= Header
      /\ UNCHANGED <<mode, sent, closed, base, got, main, broken>>
      /\ pos' = Advance /\ done' = done + 1 /\ events' = Append(events, k)
      /\ queued' = IF Current.type = "ping" THEN queued + 1 ELSE queued
  BY DEF Dispatch, Complete
<1>2. Current \in Placed
  BY <1>1, CurrentFacts
<1>3. k \in Nat /\ Advance \in Nat /\ queued' \in Nat
  <2>1. k \in Nat /\ Advance \in Nat
    BY <1>2 DEF Placed, Advance, Size, Header, IInv, TypeOK
  <2>2. queued \in Nat /\ queued + 1 \in Nat
    BY DEF IInv, TypeOK
  <2>. QED BY <1>1, <2>1, <2>2
<1>4. k = Expected(Current)
  BY <1>1 DEF Refused, Parsed, Wanted, Expected
<1> HIDE DEF k
<1>5. base \in Nat /\ broken' \in BOOLEAN
  BY <1>1 DEF IInv, TypeOK
<1>. QED BY <1>1, <1>3, <1>4, <1>5, FrameStep

LEMMA DispatchFailsStep ==
  ASSUME IInv, DispatchFails
  PROVE  IInv'
<1>1. /\ main = "parse" /\ Complete /\ Left >= Header
      /\ UNCHANGED <<mode, sent, closed, got, queued>>
      /\ base' = base + Advance /\ pos' = 0 /\ done' = done + 1 /\ main' = "over"
  BY DEF DispatchFails, Complete
<1>2. PICK k \in 0 .. Current.n :
        /\ \/ Refused(Current) /\ k = 0 /\ UNCHANGED broken
           \/ ~Refused(Current) /\ Wanted(Current) /\ k < Current.n /\ broken' = TRUE
        /\ events' = Append(events, k)
  BY DEF DispatchFails
<1>3. Current \in Placed
  BY <1>1, CurrentFacts
<1>4. k \in Nat /\ Advance \in Nat /\ queued' \in Nat /\ broken' \in BOOLEAN
  <2>1. k \in Nat /\ Advance \in Nat
    BY <1>3 DEF Placed, Advance, Size, Header, IInv, TypeOK
  <2>2. queued \in Nat /\ broken \in BOOLEAN
    BY DEF IInv, TypeOK
  <2>3. queued' = queued /\ (broken' = broken \/ broken' = TRUE)
    BY <1>1, <1>2
  <2>. QED BY <2>1, <2>2, <2>3, Zenon
<1>5. (k = Expected(Current) /\ broken' = broken) \/ broken' = TRUE
  BY <1>2 DEF Refused, Expected
<1>6. base + Advance \in Nat /\ base + Advance >= base /\ base + Advance + 0 = base + Advance
  BY <1>4 DEF IInv, TypeOK
<1>. QED BY <1>1, <1>2, <1>4, <1>5, <1>6, FrameStep

LEMMA Inductive == IInv /\ [Next]_vars => IInv'
<1> SUFFICES ASSUME IInv, [Next]_vars PROVE IInv'
  OBVIOUS
<1>1. ASSUME NEW f \in Frames, Send(f) PROVE IInv'
  BY <1>1, SendStep
<1>2. CASE \/ WriteOne \/ WriteFails \/ Drained \/ ReadNothing \/ ReadEnd
           \/ Close \/ Produce \/ UNCHANGED vars
  <2>1. /\ queued \in Nat /\ closed \in BOOLEAN /\ queued + 1 \in Nat
        /\ queued > 0 => queued - 1 \in Nat
    BY DEF IInv, TypeOK
  <2>2. queued' \in Nat /\ closed' \in BOOLEAN
    BY <1>2, <2>1 DEF WriteOne, WriteFails, Drained, ReadNothing, ReadEnd, Close, Produce,
       vars
  <2>3. /\ UNCHANGED <<mode, sent, base, got, pos, done, events, broken>>
        /\ \/ main' = main
           \/ main = "drain" /\ main' = "read"
           \/ main' \in {"parse", "over"}
        /\ main = "over" => main' = "over"
    BY <1>2 DEF WriteOne, WriteFails, Drained, ReadNothing, ReadEnd, Close, Produce,
       vars, buffer, input
  <2>. QED BY <2>2, <2>3, QuietStep
<1>3. CASE ReadSome
  BY <1>3, ReadStep
<1>4. CASE Oversized \/ Incomplete
  BY <1>4, IncompleteStep
<1>5. CASE Dispatch
  BY <1>5, DispatchStep
<1>6. CASE DispatchFails
  BY <1>6, DispatchFailsStep
<1>. QED BY <1>1, <1>2, <1>3, <1>4, <1>5, <1>6 DEF Next, MainStep

-----------------------------------------------------------------------------

(* Every variable of the loop keeps its type. *)
THEOREM WireTypeCorrect == Spec => []TypeOK
<1>. QED BY InitGood, Inductive, PTL DEF Spec, IInv

(* Each frame is dispatched once, in order, from its first byte on,        *)
(* however the stream is cut into reads.                                   *)
THEOREM WireInStep == Spec => []InStep
<1>. QED BY InitGood, Inductive, PTL DEF Spec, IInv

(* No frame that has arrived is left for a later turn of the loop. *)
THEOREM WireNothingWaits == Spec => []NothingWaits
<1>. QED BY InitGood, Inductive, PTL DEF Spec, IInv

(* The input buffer is bounded by one frame and one read, whatever the     *)
(* peer claims.                                                            *)
THEOREM WireBoundedBuffer == Spec => []BoundedBuffer
<1>. QED BY InitGood, Inductive, PTL DEF Spec, IInv

(* A batch is handled as a whole or not at all, unless a device fails. *)
THEOREM WireBatchWhole == Spec => []BatchWhole
<1>. QED BY InitGood, Inductive, PTL DEF Spec, IInv

(* When all that was sent has arrived and the loop is out of its parser,   *)
(* every frame has been dispatched.                                        *)
AllDispatched == main \in {"drain", "read"} /\ got = End => done = Len(sent)

(* No turn of the loop leaves a frame behind that only a read which brings *)
(* more bytes would get dispatched: there may be none.                     *)
THEOREM WireAllDispatched == Spec => []AllDispatched
<1>1. IInv => AllDispatched
  <2> SUFFICES ASSUME IInv, main \in {"drain", "read"}, got = End, done # Len(sent)
               PROVE  FALSE
    BY DEF AllDispatched
  <2>1. done \in Nat /\ done < Len(sent) /\ Len(sent) \in DOMAIN sent
    BY DEF IInv, TypeOK, Position
  <2>2. got < sent[Len(sent)].at + Size(sent[Len(sent)])
    BY <2>1 DEF IInv, NothingWaits
  <2>3. End = sent[Len(sent)].at + Size(sent[Len(sent)])
    BY <2>1 DEF End, IInv, TypeOK
  <2>4. got \in Nat /\ End \in Nat
    BY EndFacts DEF IInv, TypeOK
  <2>. QED BY <2>2, <2>3, <2>4
<1>. QED BY <1>1, InitGood, Inductive, PTL DEF Spec
=============================================================================
