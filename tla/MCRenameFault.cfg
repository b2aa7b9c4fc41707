CONSTANTS
  f = f
  d = d
  n = n
  Names = {f, d, n}
  Blank = Blank
  Dot = Dot
  DotDot = DotDot
  Bytes = {0, 1, 2}
  Zero = 0
  MaxLen = 2
  MaxOffset = 3
  Contents <- MCContents
  Empty <- MCEmpty
  Buffers <- MCBuffers
  Keys <- MCKeys
  Spellings <- MCSpellings
  Underlay <- MCUnderlay
SPECIFICATION Spec
PROPERTY ExistingDestinationIsRefused
