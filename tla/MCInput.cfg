SPECIFICATION Spec
CONSTANTS
  f1 = f1
  f2 = f2
  f3 = f3
  none = none
  Ids <- MCIds
  NoId <- MCNoId
  NumSlots = 2
  TidMod = 3
  Tools = {"pen", "eraser"}
SYMMETRY MCSymmetry
INVARIANTS
  NoOtherGhosts
  OneSlotPerFinger
  KernelMirrorsSlots
  NothingHeldAfterRelease
  TrackingIdsDistinct
  OneToolInProximity
  BarrelMirrored
  NothingHeldOutOfProximity
PROPERTIES
  PalmRejected
