SPECIFICATION Spec
CONSTANTS
  a1 = a1
  m1 = m1
  m2 = m2
  m3 = m3
  Addresses = {a1}
  Messages = {m1, m2, m3}
  AddressOf <- MCAddressOf
  MaxConcurrent = 2
  MaxPending = 1
  None = None
INVARIANTS
  SlotAccounting
  OneHandlerPerConversation
  NoStrandedMessage
  StopLeavesNothing
PROPERTIES
  ImplementsFifoDispatch
  AcceptedIsServed
  IdleConversationIsForgotten
