SPECIFICATION PadSpec
CONSTANTS
  f1 = f1
  f2 = f2
  f3 = f3
  f4 = f4
  PadIds <- MCPadIds
  Deltas <- MCDeltas
SYMMETRY MCSymmetry
INVARIANTS
  OneClickPerGesture
  ClickMatchesGesture
  ButtonsUp
