SPECIFICATION Spec
CONSTANTS
  Session = {s1, s2, s3}
  Id = {i1, i2}
  Thread = {t1, t2}
  CacheSize = 1
  MaxTime = 1
  Roles = {"server"}
  Features = {"switch"}
  Null = Null
  HeadPtr = HeadPtr
  TailPtr = TailPtr
SYMMETRY Symmetric
INVARIANTS
  TypeOK
  ListIsTable
  CacheIsBounded
  RevokedStayOut
  FailureRemoves
PROPERTY ImplementsStore
