SPECIFICATION Spec
CONSTANTS
  Threads = {t1, t2}
  MaxGems = 2
  MaxVmas = 1
  Big = 2
  MaxHandle = 2
  Pages = 2
  Objs = {o1, o2}
  Offsets = {f1, f2}
  Addrs = {1, 2}
  None = None
  MaxCreates = 3
SYMMETRY Interchangeable
INVARIANTS
  TypeOK
  LookupFindsLive
  BigUvaCurrent
CHECK_DEADLOCK FALSE
