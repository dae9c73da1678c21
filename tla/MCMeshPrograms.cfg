SPECIFICATION FairSpec
CONSTANTS
  a = a
  b = b
  p1 = p1
  p2 = p2
  na = na
  nb = nb
  np = np
  u = u
  v = v
  Object = {a, b, p1, p2}
  Physical = {p1, p2}
  NodeID = {na, nb, np}
  IDOf <- Ids
  User = {u, v}
  NoObject = noobject
  NoUser = nouser
  BusCap = 2
  Fleet <- Ships
  Scenario <- Plans
  Session <- Sessions
  MaxHandlers = 2
INVARIANTS
  TypeOK
  PanicsOnlyWhenSignalled
  TornDown
  EventsAreCounted
  FrontEndAgrees
  UserAtOneNode
  NoOrphans
PROPERTIES
  RunEnds
  
CHECK_DEADLOCK FALSE
