SPECIFICATION Spec
CONSTANTS
  a = a
  b = b
  c = c
  m1 = m1
  m2 = m2
  m3 = m3
  Node = {a, b, c}
  PacketID = {m1, m2, m3}
  Place <- Row
  Near <- NextTo
  Home <- LineHome
  Physical = {}
  Members = {a, b, c}
  Traffic <- Quiet
  LoRaAirTime = 2
  TransmissionGrace = 3
  CcaWindow = 1
  MaxJitter = 1
  MaxBackoff = 1
  RadioExtra = 0
  Late = 1
  WakeLate = 0
  TxQueueCap = 1
  MessagesCap = 1
  Flooded = {m3}
  MayLeave = {}
  MayLose = {}
  MayMove = {a}
  MaxMoves = 1
INVARIANTS
  TypeOK
  CollisionsAreSeen
  CarrierIsSensed
CHECK_DEADLOCK FALSE
