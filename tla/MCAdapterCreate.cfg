CONSTANTS
  f = f
  n = n
  Handles = {h1, h2}
  MaxWrites = 1
  DeviceFails = FALSE
  Keys <- MCKeys
  Underlay <- MCUnderlay
  Contents <- MCContents
  Empty <- MCEmpty
SPECIFICATION Spec
PROPERTY CreateOnlyTakesFreeNames
