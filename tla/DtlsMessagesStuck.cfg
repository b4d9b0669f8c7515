SPECIFICATION MessagesSpec
CONSTANTS
  Lengths <- MCLengths
  Mtu = 5
  FallbackMtu = 4
  AlertLimit = 3
  Ahead = 1
  ByteBits = 2
  MaxFragment = 2
  MaxWrite = 3
  MaxTold = 3
  MaxAlerts = 1
  WireCap = 4
  ReadBuffer = 5
  StreamOptions <- MCStreamOptions
  Piece = {3, 20}
  HelloLength = 12
  OldHelloLengths = {11, 13}
  ConfigCalls = 3
  ConfigBios = 3
  VersionSets <- MCVersionSets
  ExtCases <- MCExtCases
  CurveCases <- MCCurveCases
  SetCases <- MCSetCases
  SigalgCases <- MCSigalgCases
  ChainCases <- MCChainCases
  HelloCases <- MCHelloCases
  PaddingCases <- MCPadding
  CopyCases <- MCCopy
  DigestCases <- MCDigest
  RuleCases <- MCRuleCases
  OrderCases <- MCOrderCases
  ChoiceCases <- MCChoiceCases
INVARIANT
  DesiredIsRetrieved
CHECK_DEADLOCK FALSE
