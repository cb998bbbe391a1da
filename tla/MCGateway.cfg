SPECIFICATION GatewaySafeSpec
CONSTANTS
  a1 = a1
  a2 = a2
  k1 = k1
  m1 = m1
  m2 = m2
  m3 = m3
  Addresses = {a1}
  Messages = {m1, m2, m3}
  AddressOf <- MCAddressOf
  MaxConcurrent = 1
  MaxPending = 1
  None = None
  Keys = {k1}
  KeyOf <- MCKeyOf
  NoKey = NoKey
  TTL = 2
  MaxClock = 3
  InboundCap = 1
  OutboundCap = 2
  Routable = {a1}
INVARIANTS
  NoRepeatWithinWindow
  DropsOnlyWhatWasAccepted
  RepliesInOrder
