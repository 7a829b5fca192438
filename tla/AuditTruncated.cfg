SPECIFICATION Spec
CONSTANTS
  Writers = {w1}
  Bodies = {b1, b2}
  NoBody = NoBody
  Junk = Junk
  MaxLines = 3
  Environments = {{"alter"}}
CHECK_DEADLOCK FALSE
INVARIANT
  TruncationIsSeen
