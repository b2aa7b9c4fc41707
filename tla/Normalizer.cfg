\* Every spelling of up to five segments over two names, "", "." and "..".
\* The loop stops at the end of its input, so deadlock is not checked.
CONSTANTS
  Names = {a, b}
  Blank = Blank
  Dot = Dot
  DotDot = DotDot
  MaxSegments = 5
SPECIFICATION Spec
INVARIANTS TypeOK StackIsResolvedPrefix ResultIsAFixedPoint
CHECK_DEADLOCK FALSE
