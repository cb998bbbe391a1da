SPECIFICATION Spec
CONSTANTS
  c1 = c1
  c2 = c2
  s1 = s1
  Calls = {c1, c2}
  Sessions = {s1}
  SessionOf <- MCSessionOf
  None = None
INVARIANTS
  OneContainerPerSession
  SessionKeepsItsExecutor
  CloseReclaims
PROPERTIES
  GetReturns
  CloseReturns
