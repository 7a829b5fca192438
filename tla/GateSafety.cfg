SPECIFICATION GatewaySpec
CONSTANTS
  s1 = s1
  n1 = n1
  n2 = n2
  p1 = p1
  p2 = p2
  pii = pii
  keys = keys
  spend = spend
  admin = admin
  mail = mail
  pay = pay
  Sessions = {s1}
  Nonces = {n1, n2}
  NoNonce = NoNonce
  Purposes = {p1, p2}
  NoPurpose = NoPurpose
  Labels = {pii, keys}
  CostKeys = {spend}
  NonFinite = NonFinite
  Raises = Raises
  Actions <- MCActions
  MaxSteps = 3
  RateLimit = 3
  RateWindow = 2
  Budgets <- MCBudgets
  SensitiveLabels = {pii, keys}
  PurposeForLabel <- MCPins
  Calls = {c1, c2}
  NoAction = NoAction
  Capabilities = {admin, mail, pay}
  Wildcard = admin
  CapabilityOf <- MCCapabilityOf
  Bindings <- MCBindings
  DefaultDeny = TRUE
  Redacted <- MCRedacted
  Registered <- MCRegistered
  Faults = {"policy", "audit", "tool"}
  bot = bot
  growth = growth
  Mark = Mark
  Letters = {"t", "b", "0", "1", "2", "3", "-", Mark}
  WordChars = {"t", "b", "0", "1", "2", "3"}
  MinScrubLen = 2
  Agents = {bot, growth}
  ActionAgents = {growth}
  Plan <- MCIntents
  Days <- MCDays
  PurposeBindings <- MCPurposes
  DenyUnknown = TRUE
  Rules <- MCRules
  Executors = {"send_email"}
  Tampered <- MCTampered
  GateFaults = {"log", "executor"}
  Requests <- MCRequests
  MaxFloat = 3000000
  NaN = NaN
  Infinite = Infinite
  Overflow = Overflow
  Unusable = Unusable
  NotANumber = NotANumber
  PrefixesOf <- MCPrefixes
  Regulated = {"card_number"}
  lower = lower
  upper = upper
  wide = wide
  narrow = narrow
  below = below
  acute = acute
  lowerAcute = lowerAcute
  upperAcute = upperAcute
  spacing = spacing
  joiner = joiner
  blank = blank
  Chars = {lower, upper, wide, narrow, below, acute, lowerAcute, upperAcute, spacing, joiner, blank}
  Format = {joiner}
  Space = {blank}
  Parts <- MCParts
  Class <- MCClass
  Fold <- MCFold
  Composed <- MCComposed
  MaxWord = 4
  MaxPasses = 3
  MaxImports = 2
  MaxAttacks = 2
  Visitors = {{"stranger"}}
  Conns = {k1, k2}
  LineBodies = {l1}
  Forged = Forged
  NoHead = NoHead
  MaxLog <- MCMaxLog
  MaxBytes = 2
CHECK_DEADLOCK FALSE
INVARIANTS
  TypeOK
  NothingRunsUnlogged
  OnlyClearedCallsConsume
  AuthorisedDuringCall
  MinimisedStaysMinimised
  VariantsCollapse
  ChargedAsRated
  LargerIsNotSafer
  
PROPERTIES
  EffectsWithinLimits
  PartialRequestsEnd
