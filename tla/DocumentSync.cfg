CONSTANTS
  None = None
  Self = "me"
  Baseline = "base"
  Member = {"me", "peer", "other", "base"}
  Content = {"A", "L", "M", "T"}
  Path = {"p", "q"}
  UserContent = {"L", "M"}
  Revision <- MCRevision
  ParentsOf <- MCParentsOf
  OriginOf <- MCOriginOf
  PathOf <- MCPathOf
  ContentOf <- MCContentOf
  AncestorsOf <- MCAncestorsOf
  Seal <- MCSeal
  Genesis <- Start
  Incoming <- MCIncomingAny
  UserAction = {"open", "type", "write", "remove", "move"}
  MaxQueue = 1
  MaxCaptures = 2
  MaxDeliveries = 2
  MaxEdits = 2
  MaxCrashes = 1
SPECIFICATION Spec
INVARIANTS
  TypeOK
  InventoriedIsCurrent
PROPERTIES
  JournalSteps
  PreimageSafe
  CapturesAreAuthored
  DeletionIsOfMissing
CHECK_DEADLOCK FALSE
