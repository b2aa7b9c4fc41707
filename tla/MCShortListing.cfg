CONSTANTS
  nothing = nothing
  Contents = {nothing}
  Empty = nothing
  PageSize = 2
  Dir <- MCDir
  Keys <- MCKeys
  Touched <- MCTouched
  Underlay <- MCUnderlay
SPECIFICATION Spec
INVARIANT NoShortListing
