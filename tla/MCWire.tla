------------------------------- MODULE MCWire -------------------------------
(* Batches that are whole, cut short, and followed by bytes nobody asked   *)
(* for; the shortest frame, an answer, and a length beyond the limit.      *)
EXTENDS Wire

MCFrames == {
  [type |-> "pen",      len |-> 6, n |-> 2],
  [type |-> "touch",    len |-> 5, n |-> 2],
  [type |-> "touch",    len |-> 5, n |-> 1],
  [type |-> "ping",     len |-> 1, n |-> 0],
  [type |-> "keyframe", len |-> 0, n |-> 0],
  [type |-> "unknown",  len |-> 7, n |-> 0] }
=============================================================================
