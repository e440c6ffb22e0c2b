CONSTANTS
  NULL = NULL
  bond = bond
  spend = spend
  rival = rival
  c1 = c1
  c2 = c2
  Coins = {c1, c2}
  Txs = {bond, spend, rival}
  Inputs <- MCInputs
  Offers = {o1, o2}
  BondOf <- MCBondOf
  MaxFaults = 1
SPECIFICATION Spec
INVARIANTS
  TypeOK
  LagBounded
  PunishedForCause
PROPERTIES
  SpendNoticed
  
