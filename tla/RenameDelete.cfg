CONSTANTS
  None = None
  Self = "me"
  Baseline = "base"
  Member = {"me", "peer", "other", "base"}
  Content = {"A", "L", "M", "T"}
  Path = {"p", "q"}
  UserContent = {"L", "M"}
  Revision <- MCRevision
  ParentsOf <- MCParentsOf
  OriginOf <- MCOriginOf
  PathOf <- MCPathOf
  ContentOf <- MCContentOf
  AncestorsOf <- MCAncestorsOf
  Seal <- MCSeal
  Genesis <- Start
  Incoming <- MCIncomingRenameDelete
  UserAction = {"open"}
  MaxQueue = 1
  MaxCaptures = 2
  MaxDeliveries = 2
  MaxEdits = 0
  MaxCrashes = 0
SPECIFICATION FairSpec
PROPERTIES
  Converges
CHECK_DEADLOCK FALSE
