CONSTANTS
  alice = alice
  bob = bob
  Offers = {o1}
  Robots = {alice, bob}
  Payouts = {p1, p2}
  NULL = NULL
  MakerOf <- MCMakerOf
  TakerOf <- MCTakerOf
  MinConf = 1
  MaxReorg = 1
  MaxDepth = 2
  MaxFaults = 0
SPECIFICATION ProtocolSpec
INVARIANT TradersGetSamePayout
