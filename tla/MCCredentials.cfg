SPECIFICATION Spec
CONSTANTS
  Procs = {"service", "showPair"}
  MaxMade = 5
INVARIANTS
  NeverRefused
  StartsAgain
