CONSTANTS
  Revision <- MCRevision
  Content <- MCRevision
  Path = {"p"}
  Member = {"x", "y"}
  None = None
  ParentsOf <- MCParentsOf
  OriginOf <- MCOriginOf
  PathOf <- MCPathOf
  ContentOf <- MCContentOf
  AncestorsOf <- MCAncestorsOf
  Seal <- MCSeal
  Device = {"x", "y"}
  Operation = {1, 2}
  Start <- MCStart
  Following = {"y"}
  PageLimit = 1
  MaxFaults = 1
SPECIFICATION FairSpec
INVARIANTS
  TypeOK
  OnlyWinnersTravel
  FeedComplete
PROPERTIES
  ImplementsAdjudication
  ProposalsSettle
  WinnersAdmitted
CHECK_DEADLOCK FALSE
