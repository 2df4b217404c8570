CONSTANTS
  None = None
  Self = "me"
  Baseline = "base"
  Member = {"me", "peer", "other", "base"}
  Content = {"A", "L", "M", "T"}
  Path = {"p", "q"}
  UserContent = {"A", "L", "M"}
  Revision <- MCRevision
  ParentsOf <- MCParentsOf
  OriginOf <- MCOriginOf
  PathOf <- MCPathOf
  ContentOf <- MCContentOf
  AncestorsOf <- MCAncestorsOf
  Seal <- MCSeal
  Genesis <- Start
  Incoming <- MCIncomingNone
  UserAction = {"open", "type", "write", "remove", "move"}
  MaxQueue = 1
  MaxCaptures = 3
  MaxDeliveries = 2
  MaxEdits = 3
  MaxCrashes = 1
SPECIFICATION FairSpec
PROPERTIES
  EditsCaptured
CHECK_DEADLOCK FALSE
