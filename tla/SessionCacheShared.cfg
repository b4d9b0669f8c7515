SPECIFICATION Spec
CONSTANTS
  Session = {s1, s2}
  Id = {i1, i2}
  Thread = {t1, t2}
  CacheSize = 1
  MaxTime = 0
  Roles = {"server", "client"}
  Features = {"external", "renew"}
  Null = Null
  HeadPtr = HeadPtr
  TailPtr = TailPtr
SYMMETRY Symmetric
INVARIANT RefsAreHolders
