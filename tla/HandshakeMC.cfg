SPECIFICATION Spec
CONSTANTS
  Options <- Everything
  MaxApp = 1
  NetCap = 2
INVARIANTS
  NoAbort
  CachedSessionsAreProved
PROPERTIES
  NothingLost
  ImplementsChannel
