SPECIFICATION Spec
CONSTANTS
  s1 = s1
  s2 = s2
  n1 = n1
  n2 = n2
  p1 = p1
  p2 = p2
  pii = pii
  keys = keys
  spend = spend
  tokens = tokens
  Sessions = {s1, s2}
  Nonces = {n1, n2}
  NoNonce = NoNonce
  Purposes = {p1, p2}
  NoPurpose = NoPurpose
  Labels = {pii, keys}
  CostKeys = {spend, tokens}
  NonFinite = NonFinite
  Raises = Raises
  Actions <- MCActions
  MaxSteps = 3
  RateLimit = 3
  RateWindow = 2
  Budgets <- MCBudgets
  SensitiveLabels = {pii, keys}
  PurposeForLabel <- MCPins
  Calls = {c1, c2}
  Objects = {o1, o2}
  NoCall = NoCall
  NoObject = NoObject
  NoAction = NoAction
  NoPlan = NoPlan
INVARIANTS
  TypeOK
  OneStatePerSession
  StateMirrorsHistory
  NonceGrantedOnce
  StepCeiling
  BudgetCeiling
  OnePurposePerLabel
PROPERTIES
  Contract
  DenialsAreJustified
