CONSTANTS
  NULL = NULL
  Makers = {m1, m2}
  Takers = {t1}
  Offers = {o1, o2}
  Amounts = {1}
  MaxFaults = 1
  MaxSpends = 1
SPECIFICATION FairSpec
PROPERTIES
  
  PublishedForCause
