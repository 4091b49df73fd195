CONSTANTS
  p = p
  q = q
  b = b
  i = i
  j = j
  Root = Root
  None = None
  Element = {p, q, b}
  Identifier = {i, j}
  Places <- Nested
  ControllerValues <- Controllers
  ActionValues <- Actions
  TargetFor <- TargetOf
  MaxModules = 2
  MaxRecords = 2
SPECIFICATION Spec
INVARIANTS
  ScopesMatchDocument
  BindingsMatchDocument
  ReferencesCounted
  ContextsOfScopes
  ClickReachesClosest
  TargetsFoundOnce
