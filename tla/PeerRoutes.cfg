CONSTANTS
  None = None
  Route = {"p2p", "relay"}
  Direct = {"p2p"}
  MaxConns = 1
  MaxTroubles = 1
SPECIFICATION FairSpec
INVARIANTS
  TypeOK
  ExchangesPaired
PROPERTY
  RoutesAgree
CHECK_DEADLOCK FALSE
