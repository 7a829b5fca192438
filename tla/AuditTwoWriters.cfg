SPECIFICATION Spec
CONSTANTS
  Writers = {w1, w2}
  Bodies = {b1, b2}
  NoBody = NoBody
  Junk = Junk
  MaxLines = 3
  Environments = {{}}
CHECK_DEADLOCK FALSE
INVARIANT
  ChainIntact
