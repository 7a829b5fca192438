SPECIFICATION Spec
CONSTANTS
  Threads = {t1, t2}
  Chains = {c1, c2}
  Hashes = {h1, h2}
  Junk = Junk
  Genesis = Genesis
  NoThread = NoThread
  MaxSeq = 1
  MaxLines = 3
  Environments = {{"crash"}, {"crash", "io"}, {"crash", "tail"}}
SYMMETRY Symmetry
CHECK_DEADLOCK FALSE
INVARIANTS
  TypeOK
  AckedSurvive
  ShownHeadsStand
  HeadIsHighest
  Reopenable
  LossLeavesEvidence
PROPERTY
  Contract
