SPECIFICATION CalculationsSpec
CONSTANTS
  CertRequests <- MCCertRequests
  CertErrors <- MCCertErrors
  RevocationPaths <- MCRevocationPaths
  RevocationParams <- MCRevocationParams
  RevocationLists <- MCRevocationLists
  OtherRoots <- MCOtherRoots
  OtherSigners <- MCOtherSigners
  UpperLists <- MCUpperLists
  BITS2 = 4
  WindowLimits <- MCWindowLimits
  BinaryLimit = 4
  SmallPrimes <- MCSmallPrimes
  PairCases <- MCPairs
  RootCases <- MCRoots
  RootPrimes = {2, 3, 5, 7, 11, 13, 17, 29, 37, 41, 73, 97, 113}
  ExpCases <- MCPowers
  SecondPowers <- MCSecondPowers
  PrimeCases = {1, 2, 3, 4, 5, 6, 7, 9, 13, 15, 17, 19, 21, 25, 31, 33, 35, 49, 51, 63, 65, 91}
  Comba = 2
  Ten = 3
  BnCases <- MCBnCases
  LongCases <- MCLongCases
  DigitCases <- MCDigitCases
INVARIANTS
  ChainsAreVerified
  EncodingsAreRight
  NumbersAreRight
  
CHECK_DEADLOCK FALSE
