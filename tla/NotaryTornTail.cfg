SPECIFICATION Spec
CONSTANTS
  Threads = {t1}
  Chains = {c1}
  Hashes = {h1, h2}
  Junk = Junk
  Genesis = Genesis
  NoThread = NoThread
  MaxSeq = 1
  MaxLines = 3
  Environments = {{"crash", "tail"}}
CHECK_DEADLOCK FALSE
INVARIANT
  OneHashPerSeq
