SPECIFICATION Spec
CONSTANTS
  Session = {s1, s2, s3}
  Id = {i1, i2, i3}
  Thread = {t1, t2}
  CacheSize = 1
  MaxTime = 1
  Roles = {"client"}
  Features = {"renew"}
  Null = Null
  HeadPtr = HeadPtr
  TailPtr = TailPtr
SYMMETRY Symmetric
INVARIANT ListIsTable
