SPECIFICATION PenSpec
CONSTANTS
  Tools = {"pen", "eraser"}
INVARIANTS
  PenLiftedAtTeardown
