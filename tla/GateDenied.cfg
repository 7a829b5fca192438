SPECIFICATION Spec
CONSTANTS
  s1 = s1
  n1 = n1
  n2 = n2
  p1 = p1
  p2 = p2
  pii = pii
  keys = keys
  spend = spend
  admin = admin
  mail = mail
  pay = pay
  Sessions = {s1}
  Nonces = {n1, n2}
  NoNonce = NoNonce
  Purposes = {p1, p2}
  NoPurpose = NoPurpose
  Labels = {pii, keys}
  CostKeys = {spend}
  NonFinite = NonFinite
  Raises = Raises
  Actions <- MCActions
  MaxSteps = 3
  RateLimit = 3
  RateWindow = 2
  Budgets <- MCBudgets
  SensitiveLabels = {pii, keys}
  PurposeForLabel <- MCPins
  Calls = {c1, c2}
  NoAction = NoAction
  Capabilities = {admin, mail, pay}
  Wildcard = admin
  CapabilityOf <- MCCapabilityOf
  Bindings <- MCBindings
  DefaultDeny = TRUE
  Redacted <- MCRedacted
  Registered <- MCRegistered
  Faults = {"audit"}
CHECK_DEADLOCK FALSE
SYMMETRY Symmetry
INVARIANTS
  DeniedConsumesNothing
