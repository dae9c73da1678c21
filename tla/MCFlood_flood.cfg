SPECIFICATION FairSpec
CONSTANTS
  a = a
  b = b
  c = c
  u = u
  v = v
  Node = {a, b, c}
  User = {u, v}
  BROADCAST_ADDR = bcast
  NullID = null
  InRange <- Line3
  MayMiss = {a}
  defaultTTL = 1
  ackMaxRetrans = 1
  TxQueueCap = 1
  Traffic <- Floods
INVARIANTS
  TypeOK
  AtMostOnceDelivery
  AckedWasHandled
  OneOutcome
  GutSound
PROPERTIES
  PendingDrains
  MCReaches
CHECK_DEADLOCK FALSE
