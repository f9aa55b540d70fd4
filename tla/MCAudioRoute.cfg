SPECIFICATION Spec
CONSTANTS
  RealSinks = {"speaker", "hdmi"}
  Fallback = "speaker"
  Failing = {"get", "list", "load", "set", "unload"}
  MaxCrashes = 2
  MaxModules = 3
  CanQuit = TRUE
INVARIANTS
  AtMostOneSink
  SoundComesBack
  DefaultRestored
