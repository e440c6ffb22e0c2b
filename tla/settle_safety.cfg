CONSTANTS
  alice = alice
  bob = bob
  Offers = {o1}
  Robots = {alice, bob, carol}
  Payouts = {p1, p2}
  NULL = NULL
  MakerOf <- MCMakerOf
  TakerOf <- MCTakerOf
  MinConf = 3
  MaxReorg = 3
  MaxDepth = 4
  MaxFaults = 1
SPECIFICATION Spec
INVARIANTS
  TypeOK
  EscrowLockedByBoth
  ConfirmedIsFinal
  SettlementNeedsConfirmation
  PayoutAuthorised
  RowKeptUntilPaid
  SignaturesAreUsed
  IInv
PROPERTIES
  DecidedWhileOpen
  LockNotAbandoned
  PayoutSettled
  ImplementsTrade
SYMMETRY PayoutSymmetry
