CONSTANTS
  f = f
  d = d
  n = n
  image = image
  staged = staged
  nothing = nothing
  Names = {f, d, n}
  Blank = Blank
  Dot = Dot
  DotDot = DotDot
  Contents = {image, staged, nothing}
  Empty = nothing
  Keys <- MCKeys
  Spellings <- MCSpellings
  Underlay <- MCUnderlay
SPECIFICATION Spec
INVARIANT TypeOK
PROPERTIES ImplementsVolume CoverageOnlyGrows
