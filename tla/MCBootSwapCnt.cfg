SPECIFICATION BootSpec
CONSTANTS
  s1 = s1
  s2 = s2
  n1 = n1
  n2 = n2
  NoVer = NoVer
  Version <- MCVersion
  ImageOf <- MCImageOf
  Number <- MCNumber
  Factory <- MCFactory
  Builds <- BuildsCnt
  MaxDownloads = 2
  MaxFails = 2
INVARIANT CntWaitsForOk
