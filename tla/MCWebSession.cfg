SPECIFICATION Spec
CONSTANTS
  s1 = s1
  w1 = w1
  p1 = p1
  p2 = p2
  v1 = v1
  m1 = m1
  Streams <- MCStreams
  Posts <- MCPosts
  Chats <- MCChats
  Sessions <- MCSessions
  SessionOf <- MCSessionOf
  TextOf <- MCTextOf
  Say = Say
  Default = Default
  EventRoom = 1
INVARIANTS
  TurnSeesSession
  NoTurnOutlivesItsRequest
  FinalMeansStored
PROPERTIES
  LeaverEnds
