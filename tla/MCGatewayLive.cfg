SPECIFICATION GatewaySpec
CONSTANTS
  a1 = a1
  a2 = a2
  k1 = k1
  m1 = m1
  m2 = m2
  m3 = m3
  Addresses = {a1, a2}
  Messages = {m1, m3}
  AddressOf <- MCLiveAddressOf
  MaxConcurrent = 1
  MaxPending = 1
  None = None
  Keys = {k1}
  KeyOf <- MCLiveKeyOf
  NoKey = NoKey
  TTL = 1
  MaxClock = 1
  InboundCap = 1
  OutboundCap = 1
  Routable = {a1}
PROPERTIES
  ShutdownCompletes
  AcceptedIsHandled
