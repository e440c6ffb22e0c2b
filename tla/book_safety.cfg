CONSTANTS
  NULL = NULL
  Makers = {m1, m2}
  Takers = {t1, t2}
  Offers = {o1}
  Amounts = {1, 2}
  MaxFaults = 0
  MaxSpends = 4
SPECIFICATION Spec
INVARIANTS
  TypeOK
  
  OneTable
  NoOfferLost
PROPERTIES
  ImplementsListings
  MakerStays
  NoLateTaker
SYMMETRY RobotSymmetry
