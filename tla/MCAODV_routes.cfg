SPECIFICATION Spec
CONSTANTS
  a = a
  b = b
  c = c
  d = d
  u = u
  v = v
  Node = {a, b, c, d}
  User = {u, v}
  BROADCAST_ADDR = bcast
  NullID = null
  NoRoute = noroute
  InRange <- Line4
  Dist <- HopDistance
  ReplyThreshold = 1
  RreqHopLimit = 1
  UreqHopLimit = 1
  maxRetrans = 0
  MayMiss = {a, b}
  Traffic <- LookupsAndBreaks
INVARIANTS
  HopSound
  BlacklistSound
  RouteDescends
  NextHopCanForward
  GutSound
CHECK_DEADLOCK FALSE
