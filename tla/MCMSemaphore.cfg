SPECIFICATION MSemFairSpec
CONSTANTS
  Threads = {t1, t2, t3, t4}
  MaxSurplus = 2
PROPERTY
  ImplementsSemaphore
