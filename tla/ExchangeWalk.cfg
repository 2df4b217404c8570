CONSTANTS
  Device = {"x","y"}
  Link <- OneLink
  Table <- WalkTable
  Revision <- MCRevision
  ParentList <- MCParentList
  AuthorOf <- MCAuthorOf
  SizeOf <- MCSizeOf
  MaxStaged = 2
  PageSize = 1
  MaxFaults = 1
SPECIFICATION Spec
INVARIANTS
  TypeOK
  CursorSound
  StagedFinishable
CHECK_DEADLOCK FALSE
