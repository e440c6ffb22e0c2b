CONSTANTS
  alice = alice
  bob = bob
  Offers = {o1}
  Robots = {alice, bob}
  Payouts = {p1, p2}
  NULL = NULL
  MakerOf <- MCMakerOf
  TakerOf <- MCTakerOf
  MinConf = 1
  MaxReorg = 1
  MaxDepth = 3
  MaxFaults = 1
SPECIFICATION FairSpec
INVARIANTS
  ProtocolTypeOK
  DisputeExcludesPayout
PROPERTIES
  EscrowIsBroadcast
  PayoutIsBroadcast
  PayoutIsOffered
  DisputeIsDecided
  ExchangeBegins
