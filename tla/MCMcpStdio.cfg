SPECIFICATION Spec
CONSTANTS
  hello = hello
  ready = ready
  page = page
  next = next
  c1 = c1
  c2 = c2
  Setup <- MCSetup
  Calls <- MCCalls
  None = None
  LineRoom = 1
INVARIANTS
  SendNeverBlocks
  PendingIsUnderWay
PROPERTIES
  StartupEnds
  CloseEndsProcess
  CloseReleasesCalls
