CONSTANTS
  NULL = NULL
  Makers = {m1}
  Takers = {t1, t2}
  Offers = {o1}
  Amounts = {1}
  MaxFaults = 0
  MaxSpends = 1
SPECIFICATION Spec
INVARIANT TakerKeepsOffer
