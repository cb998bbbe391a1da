SPECIFICATION Spec
CONSTANTS
  g = g
  h = h
  Signatures = {g, h}
  MaxCalls = 2
  Responses <- MCResponses
  MaxToolIterations = 4
  RepeatLimit = 3
  FailedLimit = 3
INVARIANTS
  NoEndlessRepeat
PROPERTIES
  ToolsEndWhenFailing
  ImplementsTurn
  TurnEnds
