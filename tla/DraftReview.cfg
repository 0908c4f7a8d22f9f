SPECIFICATION ReviewSpec
CONSTANTS
  web = web
  agent = agent
  first = first
  second = second
  Clients = {web, agent}
  Texts = {first, second}
  Old = Old
  Tidy = Tidy
  Cut = Cut
  NoText = NoText
  NoDraft = NoDraft
  NoScript = NoScript
  NoClient = NoClient
  MaxOps = 4
  MaxDeaths = 1
CHECK_DEADLOCK FALSE
SYMMETRY ReviewSymmetry
INVARIANTS
  ReviewTypeOK
  PromoteIsGated
  CutNeedsConfirm
  Draft2FallsWithStep1
PROPERTY NothingOverwritten
