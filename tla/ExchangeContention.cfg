CONSTANTS
  Device = {"x","y","z"}
  Link <- Triangle
  Table <- RaceTable
  Revision <- MCRevision
  ParentList <- MCParentList
  AuthorOf <- MCAuthorOf
  SizeOf <- MCSizeOf
  MaxStaged = 2
  PageSize = 1
  MaxFaults = 0
SPECIFICATION FairSpec
INVARIANT
  AcknowledgedIsDurable
PROPERTIES
  ImplementsDissemination
  Delivered
CHECK_DEADLOCK FALSE
