CONSTANTS
  f = f
  Handles = {h1}
  MaxWrites = 2
  MaxMounts = 2
  DeviceFails = FALSE
  Word = 8
  SectorSize = 2
  DeviceSize = 5
  SuperblockSize = 1
  Keys <- MCKeys
  Underlay <- MCUnderlay
  Contents <- MCContents
  Empty <- MCEmpty
SPECIFICATION FairSessionSpec
INVARIANTS SessionTypeOK ReadsStayInTheSlice
PROPERTIES ImplementsScratch DismountEnds
CHECK_DEADLOCK FALSE
