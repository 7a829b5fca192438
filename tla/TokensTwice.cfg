SPECIFICATION TokenSpec
CONSTANTS
  lower = lower
  upper = upper
  wide = wide
  narrow = narrow
  below = below
  acute = acute
  lowerAcute = lowerAcute
  upperAcute = upperAcute
  spacing = spacing
  joiner = joiner
  blank = blank
  Chars = {lower, upper, wide, narrow, below, acute, lowerAcute, upperAcute, spacing, joiner, blank}
  Format = {joiner}
  Space = {blank}
  Parts <- MCParts
  Class <- MCClass
  Fold <- MCFold
  Composed <- MCComposed
  MaxWord = 4
  MaxPasses = 3
CHECK_DEADLOCK FALSE
PROPERTY
  Idempotent
