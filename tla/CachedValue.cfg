CONSTANTS
  Callers = {c1, c2}
  MaxVersion = 3
  MaxResets = 1
SPECIFICATION FairSpec
INVARIANTS
  CacheInv
  RefreshAloneIsFresh
PROPERTIES
  NeverGoesBack
  CallsReturn
