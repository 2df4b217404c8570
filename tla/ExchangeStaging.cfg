CONSTANTS
  Device = {"x","y"}
  Link <- OneLink
  Table <- StagingTable
  Revision <- MCRevision
  ParentList <- MCParentList
  AuthorOf <- MCAuthorOf
  SizeOf <- MCSizeOf
  MaxStaged = 1
  PageSize = 2
  MaxFaults = 1
SPECIFICATION FairSpec
PROPERTY
  Delivered
CHECK_DEADLOCK FALSE
