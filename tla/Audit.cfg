SPECIFICATION MCSpec
CONSTANTS
  Writers = {w1}
  Bodies = {b1, b2}
  NoBody = NoBody
  Junk = Junk
  MaxLines = 3
  Environments = {{"crash", "anchor", "alter"}, {"crash", "anchor", "torn"}}
  Visitors = {{"auditor"}, {"stranger"}}
  Conns = {k1, k2}
  LineBodies = {l1, l2}
  Forged = Forged
  NoHead = NoHead
  MaxLog <- MCMaxLog
  MaxBytes = 1
  Processes = {q1, q2}
  Keys = {x1, x2, x3}
  NoFile = NoFile
  Torn = Torn
  SignedHeads = {h1, h2}
  KeyFaults = {"crash", "disk"}
CHECK_DEADLOCK FALSE
SYMMETRY Symmetry
INVARIANTS
  TypeOK
  ChainIntact
  LossIsDetected
  AnchorNeverAhead
  HeadsIncrease
  AuditorAgrees
  VerifyDetects
  WitnessedHistory
  AuditorsAreToldTheLatest
  OneIdentity
