SPECIFICATION FairSpec
CONSTANTS
  Gop = 3
  MaxQueue = 2
  MaxWire = 2
  MaxSurfaces = 2
  MaxStalls = 1
  MaxFailures = 2
INVARIANTS
  DecoderFollowsSurface
  DeltasDecodable
PROPERTIES
  DecoderRecovers
