CONSTANTS
  None = None
  Self = "me"
  Baseline = "base"
  Member = {"me", "peer", "base"}
  Content = {"A", "B"}
  Path = {"p", "q"}
  Revision <- MCRevision
  ParentsOf <- MCParentsOf
  OriginOf <- MCOriginOf
  PathOf <- MCPathOf
  ContentOf <- MCContentOf
  AncestorsOf <- MCAncestorsOf
  Seal <- MCSeal
  Decided <- MCDecided
SPECIFICATION Spec
INVARIANTS
  TypeOK
  ReceiptIsTopological
  EligibleExact
  AppliedEligible
  PendingIsResumable
  CompletedStaysApplied
PROPERTY
  ImplementsReplica
CHECK_DEADLOCK FALSE
