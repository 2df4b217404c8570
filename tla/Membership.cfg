CONSTANTS
  Member = {"x", "y", "z"}
  Device = {"x"}
  Founders = {"x", "y"}
  Lifetime = 2
  Tolerance = 1
  MaxRevision = 2
  MaxTime = 4
  MaxShift = 1
  MaxTroubles = 2
SPECIFICATION FairSpec
INVARIANTS
  TypeOK
  ExpulsionTakesEffect
PROPERTIES
  Reauthorized
CHECK_DEADLOCK FALSE
