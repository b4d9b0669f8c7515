SPECIFICATION LibcryptoSpec
CONSTANTS
  Byte = {0, 1}
  MaxIo = 2
  Sizes = {1, 3}
  Size0 <- MCSize0
  Thread = {t1, t2}
  Blinding = {b1, b2, b3}
  MaxBlindings = 1
  Counter = 2
  MaxFaults = 1
  RandThread = {r1, r2}
  Processes = {2, 3}
  PerBuf = 2
  Large = 2
  MaxDraws = 3
  MaxRequest = 3
  ErrorCode = {1, 2}
  NumErrors = 3
  Strings = {s1, s2}
  DefaultSize = 2
  OtherSizes = {1, 3}
  MaxCall = 5
  MaxStream = 6
  LineEnds = {2, 3}
INVARIANTS
  TypeOK
  RequestIsWarranted
  RingIsNormal
  BlindingIsExclusive
  BlindingsAreKept
  RandomIsFresh
  StringsAreOwnedOnce
  StreamsAreInOrder
PROPERTIES
  ImplementsPipes
  GuaranteeHolds
  ImplementsList
CHECK_DEADLOCK FALSE
