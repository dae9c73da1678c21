SPECIFICATION Spec
CONSTANTS
  a = a
  b = b
  c = c
  d = d
  u = u
  v = v
  Node = {a, b, c}
  User = {u}
  BROADCAST_ADDR = bcast
  NullID = null
  NoRoute = noroute
  InRange <- Line3
  Dist <- HopDistance
  ReplyThreshold = 2
  RreqHopLimit = 10
  UreqHopLimit = 10
  maxRetrans = 1
  MayMiss = {a, b, c}
  Traffic <- AckedAToC
INVARIANTS
  AckMeansNextHopHasIt
CHECK_DEADLOCK FALSE
