SPECIFICATION InputsSpec
CONSTANTS
  Chars = {"g", "p", "r", "n", "x"}
  MaxSent = 5
  RecvSize = 3
  MaxRequestSize = 3
  ReallocMayFail = TRUE
  Half = 4
  PayloadLens = {0, 1, 2, 63, 64}
  MaxFrames = 2
  PieceLens = {1, 2, 7}
  Letters <- MCLetters
  HostTexts <- MCHosts
  Ports = {2, 5}
  PrefixTexts <- MCPrefixes
  FileTexts <- MCFiles
  CountTexts <- MCCounts
  Radix = 3
  PortRange = 4
  BufLen = 33
  Window = 2
  MaxSegments = 4
INVARIANTS
  InputsTypeOK
  CutsDoNotMatter
  OptionsArrive
  AdvertisedIsFound
CHECK_DEADLOCK FALSE
