CONSTANTS
  NULL = NULL
  MaxAmount = 20000000
  OrderAmounts = {10000, 20000, 22000, 60000, 65000, 20000000}
  BondRatios = {2, 10, 50}
  FeePercent = 1
  Surpluses = {0, 5330, 12000, 2000000}
  PayoutFees = {1120, 5600, 1729}
  BondInputs = {30000, 62000, 30000000}
  BondFees = {29999, 30000}
  VSize = 150
  U64Size = 1073741824
SPECIFICATION Spec
INVARIANTS
  TypeOK
  BondsPay
  MakerFunded
  PayoutAsAgreed
  
CHECK_DEADLOCK FALSE
