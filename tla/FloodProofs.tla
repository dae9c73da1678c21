----------------------------- MODULE FloodProofs -----------------------------
(***************************************************************************)
(* What holds of the flooding routers for every set of nodes and users,    *)
(* every symmetric topology, every bound and every sequence of calls: that *)
(* every variable keeps its type; that a packet is delivered once and a    *)
(* wait ends once; that what packets say is true, so that what is          *)
(* acknowledged was handled by a neighbour, and what is known of a user    *)
(* was so.                                                                 *)
(***************************************************************************)
EXTENDS FloodRouter, SequenceTheorems, TLAPS

----------------------------------------------------------------------------
(* Packets and queues.                                                     *)

\* What every packet has, whatever its type.
LEMMA FloodHeader ==
  ASSUME NEW p \in FloodPacket
  PROVE  /\ p.PacketID \in PacketID
         /\ p.DestNodeID = BROADCAST_ADDR
         /\ p.PrevHopID \in Node
         /\ p.HopCount \in 0 .. defaultTTL
  BY FloodAssumption
  DEF FloodPacket, DataFormat, AckFormat, InfoFormat, HomelessFormat

\* A packet has the format of its type.
LEMMA FloodFormat ==
  ASSUME NEW p \in FloodPacket
  PROVE  /\ p.PacketType = "DATA" => p \in DataFormat
         /\ p.PacketType = "ACK" => p \in AckFormat
         /\ p.PacketType = "BROADCAST_INFO" => p \in InfoFormat
         /\ p.PacketType = "USER_MSG" => p \in HomelessFormat
  BY DEF FloodPacket, DataFormat, AckFormat, InfoFormat, HomelessFormat

\* A packet below the limit may be repeated.
LEMMA OnwardPacket ==
  ASSUME NEW p \in FloodPacket, NEW n \in Node, p.HopCount < defaultTTL
  PROVE  /\ Onward(n, p) \in FloodPacket
         /\ Onward(n, p).PrevHopID = n
         /\ Onward(n, p).PacketID = p.PacketID
         /\ Onward(n, p).PacketType = p.PacketType
         /\ p.PacketType = "BROADCAST_INFO" =>
               /\ Onward(n, p).OriginNodeID = p.OriginNodeID
               /\ Onward(n, p).Added = p.Added
  <1>1. p.HopCount \in Nat /\ defaultTTL \in 0 .. 255
    BY FloodHeader, FloodAssumption
  <1>2. Uint8(p.HopCount + 1) = p.HopCount + 1
    BY <1>1 DEF Uint8
  <1>3. p.HopCount + 1 \in Nat /\ p.HopCount + 1 <= defaultTTL
    BY <1>1
  <1>4. CASE p \in DataFormat
    BY <1>2, <1>3, <1>4 DEF Onward, FloodPacket, DataFormat
  <1>5. CASE p \in AckFormat
    BY <1>2, <1>3, <1>5 DEF Onward, FloodPacket, AckFormat
  <1>6. CASE p \in InfoFormat
    BY <1>2, <1>3, <1>6 DEF Onward, FloodPacket, InfoFormat
  <1>7. CASE p \in HomelessFormat
    BY <1>2, <1>3, <1>7 DEF Onward, FloodPacket, HomelessFormat
  <1> QED
    BY <1>4, <1>5, <1>6, <1>7 DEF FloodPacket

LEMMA FloodData ==
  ASSUME NEW n \in Node, NEW dest \in Node \cup {BROADCAST_ADDR},
         NEW flags \in Flags, NEW pid \in PacketID
  PROVE  CreateDataPacket(n, n, dest, BROADCAST_ADDR, 0, flags, pid)
            \in FloodPacket
  BY FloodAssumption
  DEF CreateDataPacket, FloodPacket, DataFormat, Uint8, Address

LEMMA FloodAck ==
  ASSUME NEW n \in Node, NEW original \in PacketID, NEW pid \in PacketID
  PROVE  CreateACKPacket(n, BROADCAST_ADDR, original, pid)
            \in FloodPacket \cap AckFormat
  BY FloodAssumption DEF CreateACKPacket, FloodPacket, AckFormat, Address

LEMMA FloodInfo ==
  ASSUME NEW n \in Node, NEW added \in SUBSET User, NEW pid \in PacketID
  PROVE  CreateDiffBroadcastInfoPacket(n, n, added, {}, 0, pid)
            \in FloodPacket
  BY FloodAssumption
  DEF CreateDiffBroadcastInfoPacket, FloodPacket, InfoFormat, Uint8, Address

LEMMA FloodUserMessage ==
  ASSUME NEW n \in Node, NEW from \in User, NEW to \in User,
         NEW home \in Node \cup {NullID}, NEW flags \in Flags,
         NEW pid \in PacketID
  PROVE  CreateUSERMessagePacket(n, n, from, to, home, BROADCAST_ADDR, 0,
                                 flags, pid) \in FloodPacket
  BY FloodAssumption
  DEF CreateUSERMessagePacket, FloodPacket, HomelessFormat, Uint8, Address

\* A queue after an element was put on it or taken off.
LEMMA Queued ==
  ASSUME NEW S, NEW s \in Seq(S), NEW x \in S
  PROVE  Append(s, x) \in Seq(S) /\ Len(Append(s, x)) = Len(s) + 1
  OBVIOUS

LEMMA Taken ==
  ASSUME NEW S, NEW s \in Seq(S), s # <<>>
  PROVE  Head(s) \in S /\ Tail(s) \in Seq(S) /\ Len(Tail(s)) = Len(s) - 1
  OBVIOUS

LEMMA NewIDType ==
  ASSUME TypeOK, NEW n \in Node
  PROVE  NewID(n) \in PacketID
  BY DEF TypeOK, NewID, PacketID

LEMMA UseIDType ==
  ASSUME TypeOK, NEW n \in Node, UseID(n)
  PROVE  nextID' \in [Node -> Nat]
  BY DEF TypeOK, UseID

LEMMA EnqueueType ==
  ASSUME TypeOK, NEW n \in Node, NEW pkt \in FloodPacket, tryEnqueue(n, pkt)
  PROVE  /\ txQueue' \in [Node -> Seq(FloodPacket)]
         /\ \A m \in Node : Len(txQueue'[m]) <= TxQueueCap
  <1>1. /\ txQueue \in [Node -> Seq(FloodPacket)]
        /\ \A m \in Node : Len(txQueue[m]) <= TxQueueCap
    BY DEF TypeOK
  <1>2. CASE ~HasRoom(n)
    BY <1>1, <1>2 DEF tryEnqueue
  <1>3. CASE HasRoom(n)
    <2>1. /\ txQueue' = [txQueue EXCEPT ![n] = Append(txQueue[n], pkt)]
          /\ Len(txQueue[n]) < TxQueueCap
      BY <1>3 DEF tryEnqueue, HasRoom
    <2>2. /\ txQueue[n] \in Seq(FloodPacket)
          /\ Len(txQueue[n]) \in Nat
          /\ TxQueueCap \in Nat
      BY <1>1, FloodAssumption
    <2>3. /\ Append(txQueue[n], pkt) \in Seq(FloodPacket)
          /\ Len(Append(txQueue[n], pkt)) = Len(txQueue[n]) + 1
      BY <2>2, Queued
    <2> QED
      BY <1>1, <2>1, <2>2, <2>3
  <1> QED
    BY <1>2, <1>3

\* The call that is made has the arguments of its kind.
LEMMA CallType ==
  ASSUME TypeOK, NEW n \in Node, NEW name, Make(n, name)
  PROVE  LET call == calls[made + 1] IN
         /\ made \in Nat /\ made + 1 \in 1 .. Len(calls)
         /\ call \in FloodCall /\ call.call = name /\ call.node = n
         /\ calls \in Seq(FloodCall)
         /\ made' = made + 1
  <1>1. /\ calls \in Seq(FloodCall) /\ made \in 0 .. Len(calls)
        /\ made < Len(calls)
    BY FloodTraffic DEF TypeOK, Make
  <1>2. Len(calls) \in Nat
    BY <1>1
  <1>3. made \in Nat /\ made + 1 \in 1 .. Len(calls)
    BY <1>1, <1>2
  <1> QED
    BY <1>1, <1>3 DEF Make

LEMMA AirType ==
  ASSUME TypeOK, NEW n \in Node, NEW pkt \in FloodPacket,
         BroadcastMessageCSMA(n, pkt)
  PROVE  messages' \in [Node -> Seq(FloodPacket)]
  <1>1. messages \in [Node -> Seq(FloodPacket)]
    BY DEF TypeOK
  <1>2. \A m \in Node : Append(messages[m], pkt) \in Seq(FloodPacket)
    BY <1>1, Queued
  <1> QED
    BY <1>1, <1>2 DEF BroadcastMessageCSMA

----------------------------------------------------------------------------
(* Type correctness: one lemma for each action.                            *)

LEMMA InitType == Init => TypeOK
  BY FloodAssumption, FloodTraffic
  DEF Init, TypeOK

LEMMA SubmitType ==
  ASSUME TypeOK, NEW n \in Node, NEW pkt \in FloodPacket, NEW tracked \in BOOLEAN,
         Submit(n, pkt, tracked), made' \in 0 .. Len(calls)
  PROVE  TypeOK'
  <1>1. nextID' \in [Node -> Nat]
    BY UseIDType DEF Submit
  <1>2. /\ txQueue' \in [Node -> Seq(FloodPacket)]
        /\ \A m \in Node : Len(txQueue'[m]) <= TxQueueCap
    BY EnqueueType DEF Submit
  <1>3. registering' \in [Node -> SUBSET PendingTx]
    <2>1. Entry(pkt) \in PendingTx
      BY FloodHeader, FloodAssumption DEF Entry, PendingTx
    <2>2. registering \in [Node -> SUBSET PendingTx]
      BY DEF TypeOK
    <2> QED
      BY <2>1, <2>2 DEF Submit
  <1> QED
    BY <1>1, <1>2, <1>3 DEF TypeOK, Submit, tables, history

LEMMA CallSendDataType ==
  ASSUME TypeOK, NEW n \in Node, CallSendData(n)
  PROVE  TypeOK'
  <1> DEFINE call == calls[made + 1]
             pkt == CreateDataPacket(n, n, call.dest, BROADCAST_ADDR, 0,
                                     call.flags, NewID(n))
             tracked == call.flags = REQ_ACK /\ call.dest # BROADCAST_ADDR
  <1>1. /\ call \in FloodCall /\ call.call = "SendData"
        /\ made' \in 0 .. Len(calls)
    BY CallType DEF CallSendData
  <1>2. call.dest \in Node \cup {BROADCAST_ADDR} /\ call.flags \in Flags
    BY <1>1 DEF FloodCall
  <1>3. pkt \in FloodPacket
    BY <1>2, FloodData, NewIDType
  <1>4. Submit(n, pkt, tracked)
    BY DEF CallSendData
  <1> QED
    BY <1>1, <1>3, <1>4, SubmitType

LEMMA CallSendUserMessageType ==
  ASSUME TypeOK, NEW n \in Node, CallSendUserMessage(n)
  PROVE  TypeOK'
  <1> DEFINE call == calls[made + 1]
             pkt == CreateUSERMessagePacket(n, n, call.from, call.to,
                       gut[n][call.to], BROADCAST_ADDR, 0, call.flags, NewID(n))
             tracked == call.flags = REQ_ACK
  <1>1. /\ call \in FloodCall /\ call.call = "SendUserMessage"
        /\ made' \in 0 .. Len(calls)
    BY CallType DEF CallSendUserMessage
  <1>2. call.from \in User /\ call.to \in User /\ call.flags \in Flags
    BY <1>1 DEF FloodCall
  <1>3. gut[n][call.to] \in Node \cup {NullID}
    BY <1>2 DEF TypeOK
  <1>4. pkt \in FloodPacket
    BY <1>2, <1>3, FloodUserMessage, NewIDType
  <1>5. Submit(n, pkt, tracked)
    BY DEF CallSendUserMessage
  <1> QED
    BY <1>1, <1>4, <1>5, SubmitType

LEMMA trackIfAckRequestedType ==
  ASSUME TypeOK, NEW n \in Node, trackIfAckRequested(n)
  PROVE  TypeOK'
  <1>1. /\ registering \in [Node -> SUBSET PendingTx]
        /\ pending \in [Node -> SUBSET PendingTx]
    BY DEF TypeOK
  <1>2. /\ registering' \in [Node -> SUBSET PendingTx]
        /\ pending' \in [Node -> SUBSET PendingTx]
    BY <1>1 DEF trackIfAckRequested
  <1> QED
    BY ZenonT(30), <1>2 DEF TypeOK, trackIfAckRequested, env, tables, radio, history

LEMMA SendDiffBroadcastInfoType ==
  ASSUME TypeOK, NEW n \in Node, SendDiffBroadcastInfo(n),
         made' \in 0 .. Len(calls),
         status' \in [Node -> {"out", "joined", "up", "leaving", "stopped"}]
  PROVE  TypeOK'
  <1> DEFINE pkt == CreateDiffBroadcastInfoPacket(n, n, connectedUsers[n], {},
                                                  0, NewID(n))
  <1>1. pkt \in FloodPacket
    <2>1. connectedUsers[n] \in SUBSET User
      BY DEF TypeOK
    <2> QED
      BY <2>1, FloodInfo, NewIDType
  <1>2. /\ txQueue' \in [Node -> Seq(FloodPacket)]
        /\ \A m \in Node : Len(txQueue'[m]) <= TxQueueCap
    BY <1>1, EnqueueType DEF SendDiffBroadcastInfo
  <1>3. nextID' \in [Node -> Nat]
    BY UseIDType DEF SendDiffBroadcastInfo
  <1> QED
    BY <1>2, <1>3 DEF TypeOK, SendDiffBroadcastInfo, tables, waiting, history

LEMMA MoveUserType ==
  ASSUME TypeOK, NEW n \in Node, MoveUser(n)
  PROVE  TypeOK'
  <1> DEFINE call == calls[made + 1]
  <1>1. /\ call \in FloodCall
        /\ call.call \in {"AddConnectedUser", "RemoveConnectedUser"}
        /\ made' \in 0 .. Len(calls)
    BY CallType DEF MoveUser
  <1>2. call.user \in User
    BY <1>1 DEF FloodCall
  <1>3. connectedUsers \in [Node -> SUBSET User]
    BY DEF TypeOK
  <1>4. connectedUsers' \in [Node -> SUBSET User]
    BY <1>2, <1>3 DEF MoveUser
  <1> QED
    BY <1>1, <1>4 DEF TypeOK, MoveUser, tables, waiting, radio, history

LEMMA StartType ==
  ASSUME TypeOK, NEW n \in Node, Start(n)
  PROVE  TypeOK'
  <1>1. status' \in [Node -> {"out", "joined", "up", "leaving", "stopped"}]
    BY DEF TypeOK, Start
  <1>2. made' \in 0 .. Len(calls)
    BY DEF TypeOK, Start
  <1> QED
    BY <1>1, <1>2, SendDiffBroadcastInfoType DEF Start

LEMMA BroadcastTickType ==
  ASSUME TypeOK, NEW n \in Node, BroadcastTick(n)
  PROVE  TypeOK'
  <1>1. status' \in [Node -> {"out", "joined", "up", "leaving", "stopped"}]
    BY DEF TypeOK, BroadcastTick
  <1>2. made' \in 0 .. Len(calls)
    BY CallType DEF BroadcastTick
  <1> QED
    BY <1>1, <1>2, SendDiffBroadcastInfoType DEF BroadcastTick

LEMMA LifeType ==
  ASSUME TypeOK, NEW n \in Node, Join(n) \/ Leave(n) \/ Stop(n)
  PROVE  TypeOK'
  <1>1. status' \in [Node -> {"out", "joined", "up", "leaving", "stopped"}]
    BY DEF TypeOK, Join, Leave, Stop
  <1>2. made' \in 0 .. Len(calls)
    <2>1. CASE Join(n) \/ Leave(n)
      BY <2>1, CallType DEF Join, Leave
    <2>2. CASE Stop(n)
      BY <2>2 DEF Stop, TypeOK
    <2> QED
      BY <2>1, <2>2
  <1> QED
    BY <1>1, <1>2 DEF TypeOK, Join, Leave, Stop, tables, waiting, radio, history

LEMMA TakeFromQueueType ==
  ASSUME TypeOK, NEW n \in Node, TakeFromQueue(n)
  PROVE  TypeOK'
  <1>1. /\ txQueue \in [Node -> Seq(FloodPacket)]
        /\ sending \in [Node -> Seq(FloodPacket)]
        /\ \A m \in Node : Len(txQueue[m]) <= TxQueueCap
        /\ TxQueueCap \in Nat
    BY FloodAssumption DEF TypeOK
  <1>2. /\ Head(txQueue[n]) \in FloodPacket
        /\ Tail(txQueue[n]) \in Seq(FloodPacket)
        /\ Len(Tail(txQueue[n])) = Len(txQueue[n]) - 1
        /\ Len(txQueue[n]) \in Nat
    BY <1>1, Taken DEF TakeFromQueue
  <1>3. /\ sending' \in [Node -> Seq(FloodPacket)]
        /\ txQueue' \in [Node -> Seq(FloodPacket)]
        /\ \A m \in Node : Len(txQueue'[m]) <= TxQueueCap
    BY <1>1, <1>2 DEF TakeFromQueue
  <1> QED
    BY <1>3 DEF TypeOK, TakeFromQueue, env, tables, waiting, history

LEMMA TransmitType ==
  ASSUME TypeOK, NEW n \in Node, Transmit(n)
  PROVE  TypeOK'
  <1>1. sending \in [Node -> Seq(FloodPacket)]
    BY DEF TypeOK
  <1>2. Head(sending[n]) \in FloodPacket
    BY <1>1, Taken DEF Transmit
  <1>3. sending' \in [Node -> Seq(FloodPacket)]
    BY <1>1 DEF Transmit
  <1>4. messages' \in [Node -> Seq(FloodPacket)]
    BY <1>2, AirType DEF Transmit
  <1> QED
    BY <1>3, <1>4 DEF TypeOK, Transmit, env, tables, waiting, history

LEMMA ForwardNowType ==
  ASSUME TypeOK, NEW n \in Node, ForwardNow(n)
  PROVE  TypeOK'
  <1>1. jittering \in [Node -> SUBSET FloodPacket]
    BY DEF TypeOK
  <1>2. /\ jittering' \in [Node -> SUBSET FloodPacket]
        /\ messages' \in [Node -> Seq(FloodPacket)]
    BY <1>1, AirType DEF ForwardNow
  <1> QED
    BY <1>2 DEF TypeOK, ForwardNow, env, tables, waiting, history

LEMMA SendAckType ==
  ASSUME TypeOK, NEW n \in Node, SendAck(n)
  PROVE  TypeOK'
  <1> DEFINE ack == Head(replying[n])
  <1>1. /\ replying \in [Node -> Seq(FloodPacket \cap AckFormat)]
        /\ delivered \in [Node -> Seq(PacketID)]
    BY DEF TypeOK
  <1>2. ack \in FloodPacket \cap AckFormat
    BY <1>1, Taken DEF SendAck
  <1>3. messages' \in [Node -> Seq(FloodPacket)]
    BY <1>2, AirType DEF SendAck
  <1>4. replying' \in [Node -> Seq(FloodPacket \cap AckFormat)]
    BY <1>1 DEF SendAck
  <1>5. delivered' \in [Node -> Seq(PacketID)]
    <2>1. ack.OriginalPacketID \in PacketID
      BY <1>2 DEF AckFormat
    <2> QED
      BY <1>1, <2>1, Queued DEF SendAck
  <1> QED
    BY <1>3, <1>4, <1>5 DEF TypeOK, SendAck, env, tables, waiting

\* What every handler starts with.
LEMMA ReceiveType ==
  ASSUME TypeOK, NEW n \in Node, NEW answered \in SUBSET pending[n],
         Receive(n, answered)
  PROVE  /\ Head(messages[n]) \in FloodPacket
         /\ messages' \in [Node -> Seq(FloodPacket)]
         /\ pending' \in [Node -> SUBSET PendingTx]
         /\ acked' \in [Node -> SUBSET PacketID]
  <1>1. /\ messages \in [Node -> Seq(FloodPacket)]
        /\ pending \in [Node -> SUBSET PendingTx]
        /\ acked \in [Node -> SUBSET PacketID]
    BY DEF TypeOK
  <1>2. /\ Head(messages[n]) \in FloodPacket
        /\ Tail(messages[n]) \in Seq(FloodPacket)
    BY <1>1, Taken DEF Receive
  <1> DEFINE ended == {e \in pending[n] : e.MsgID = Head(messages[n]).PacketID
                                          /\ Head(messages[n]).PrevHopID # n}
                      \cup answered
  <1>3. ended \subseteq PendingTx
    BY <1>1
  <1>4. \A e \in ended : e.MsgID \in PacketID
    BY <1>3 DEF PendingTx
  <1>5. /\ messages' = [messages EXCEPT ![n] = Tail(@)]
        /\ pending' = [pending EXCEPT ![n] = @ \ ended]
        /\ acked' = [acked EXCEPT ![n] = @ \cup {e.MsgID : e \in ended}]
    BY DEF Receive
  <1> QED
    BY <1>1, <1>2, <1>4, <1>5

\* A handler is well typed if what it does beyond Receive is.
LEMMA HandlerType ==
  ASSUME TypeOK, NEW n \in Node, NEW answered \in SUBSET pending[n],
         Receive(n, answered),
         seenMsgIDs' \in [Node -> SUBSET PacketID],
         gut' \in [Node -> [User -> Node \cup {NullID}]],
         jittering' \in [Node -> SUBSET FloodPacket],
         replying' \in [Node -> Seq(FloodPacket \cap AckFormat)],
         nextID' \in [Node -> Nat],
         delivered' \in [Node -> Seq(PacketID)]
  PROVE  TypeOK'
  BY ReceiveType DEF TypeOK, Receive, env

LEMMA markSeenType ==
  ASSUME TypeOK, NEW n \in Node, NEW p \in FloodPacket, markSeen(n, p)
  PROVE  seenMsgIDs' \in [Node -> SUBSET PacketID]
  BY FloodHeader DEF TypeOK, markSeen

LEMMA floodAfterJitterType ==
  ASSUME TypeOK, NEW n \in Node, NEW p \in FloodPacket, floodAfterJitter(n, p)
  PROVE  jittering' \in [Node -> SUBSET FloodPacket]
  <1>1. jittering \in [Node -> SUBSET FloodPacket]
    BY DEF TypeOK
  <1>2. CASE p.HopCount >= defaultTTL
    BY <1>1, <1>2 DEF floodAfterJitter
  <1>3. CASE ~(p.HopCount >= defaultTTL)
    <2>1. p.HopCount < defaultTTL
      BY <1>3, FloodHeader, FloodAssumption
    <2>2. Onward(n, p) \in FloodPacket
      BY <2>1, OnwardPacket
    <2> QED
      BY <1>1, <1>3, <2>2 DEF floodAfterJitter
  <1> QED
    BY <1>2, <1>3

LEMMA PassOnType ==
  ASSUME TypeOK, NEW n \in Node, NEW p \in FloodPacket, PassOn(n, p)
  PROVE  /\ jittering' \in [Node -> SUBSET FloodPacket]
         /\ replying' \in [Node -> Seq(FloodPacket \cap AckFormat)]
         /\ nextID' \in [Node -> Nat]
  BY floodAfterJitterType DEF TypeOK, PassOn

LEMMA DeliverNowType ==
  ASSUME TypeOK, NEW n \in Node, NEW p \in FloodPacket, DeliverNow(n, p)
  PROVE  delivered' \in [Node -> Seq(PacketID)]
  <1>1. delivered \in [Node -> Seq(PacketID)]
    BY DEF TypeOK
  <1>2. Append(delivered[n], p.PacketID) \in Seq(PacketID)
    BY <1>1, FloodHeader, Queued
  <1> QED
    BY <1>1, <1>2 DEF DeliverNow

LEMMA DeliverHereType ==
  ASSUME TypeOK, NEW n \in Node, NEW p \in FloodPacket, DeliverHere(n, p)
  PROVE  /\ jittering' \in [Node -> SUBSET FloodPacket]
         /\ replying' \in [Node -> Seq(FloodPacket \cap AckFormat)]
         /\ nextID' \in [Node -> Nat]
         /\ delivered' \in [Node -> Seq(PacketID)]
  <1>1. jittering' \in [Node -> SUBSET FloodPacket]
    BY DEF TypeOK, DeliverHere
  <1>2. CASE p.Flags = REQ_ACK
    <2> DEFINE ack == CreateACKPacket(n, BROADCAST_ADDR, p.PacketID, NewID(n))
    <2>1. ack \in FloodPacket \cap AckFormat
      BY FloodHeader, NewIDType, FloodAck
    <2> HIDE DEF ack
    <2>2. <<ack>> \in Seq(FloodPacket \cap AckFormat)
      BY <2>1
    <2>3. replying' = [replying EXCEPT ![n] = <<ack>>]
      BY <1>2 DEF DeliverHere, ack
    <2>4. replying' \in [Node -> Seq(FloodPacket \cap AckFormat)]
      BY <2>2, <2>3 DEF TypeOK
    <2>5. nextID' \in [Node -> Nat] /\ UNCHANGED delivered
      BY <1>2, UseIDType DEF DeliverHere
    <2> QED
      BY <1>1, <2>4, <2>5 DEF TypeOK
  <1>3. CASE p.Flags # REQ_ACK
    <2>1. delivered' \in [Node -> Seq(PacketID)]
      BY <1>3, DeliverNowType DEF DeliverHere
    <2>2. UNCHANGED <<replying, nextID>>
      BY <1>3 DEF DeliverHere
    <2> QED
      BY <1>1, <2>1, <2>2 DEF TypeOK
  <1> QED
    BY <1>2, <1>3

LEMMA HandleDuplicateType ==
  ASSUME TypeOK, NEW n \in Node, HandleDuplicate(n)
  PROVE  TypeOK'
  <1>1. Receive(n, {}) /\ {} \in SUBSET pending[n]
    BY DEF HandleDuplicate
  <1>2. UNCHANGED <<seenMsgIDs, gut, jittering, replying, nextID, delivered>>
    BY DEF HandleDuplicate, tables
  <1>3. /\ seenMsgIDs' \in [Node -> SUBSET PacketID]
        /\ gut' \in [Node -> [User -> Node \cup {NullID}]]
        /\ jittering' \in [Node -> SUBSET FloodPacket]
        /\ replying' \in [Node -> Seq(FloodPacket \cap AckFormat)]
        /\ nextID' \in [Node -> Nat]
        /\ delivered' \in [Node -> Seq(PacketID)]
    BY <1>2 DEF TypeOK
  <1> QED
    BY <1>1, <1>3, HandlerType

LEMMA handleDataType ==
  ASSUME TypeOK, NEW n \in Node, handleData(n)
  PROVE  TypeOK'
  <1> DEFINE p == Head(messages[n])
  <1>1. Receive(n, {}) /\ {} \in SUBSET pending[n]
    BY DEF handleData
  <1>2. p \in FloodPacket
    BY <1>1, ReceiveType
  <1> HIDE DEF p
  <1>3. seenMsgIDs' \in [Node -> SUBSET PacketID]
    BY <1>2, markSeenType DEF handleData, p
  <1>4. gut' \in [Node -> [User -> Node \cup {NullID}]]
    BY DEF handleData, TypeOK
  <1>5. \/ DeliverHere(n, p)
        \/ /\ DeliverNow(n, p)
           /\ UNCHANGED <<jittering, replying, nextID>> \/ PassOn(n, p)
        \/ PassOn(n, p) /\ UNCHANGED delivered
    BY DEF handleData, p
  <1>6. /\ jittering' \in [Node -> SUBSET FloodPacket]
        /\ replying' \in [Node -> Seq(FloodPacket \cap AckFormat)]
        /\ nextID' \in [Node -> Nat]
        /\ delivered' \in [Node -> Seq(PacketID)]
    <2>1. CASE DeliverHere(n, p)
      BY <1>2, <2>1, DeliverHereType
    <2>2. CASE DeliverNow(n, p) /\ UNCHANGED <<jittering, replying, nextID>>
      BY <1>2, <2>2, DeliverNowType DEF TypeOK
    <2>3. CASE DeliverNow(n, p) /\ PassOn(n, p)
      BY <1>2, <2>3, DeliverNowType, PassOnType
    <2>4. CASE PassOn(n, p) /\ UNCHANGED delivered
      BY <1>2, <2>4, PassOnType DEF TypeOK
    <2> QED
      BY <1>5, <2>1, <2>2, <2>3, <2>4
  <1> QED
    BY <1>1, <1>3, <1>4, <1>6, HandlerType

LEMMA handleUserMsgType ==
  ASSUME TypeOK, NEW n \in Node, handleUserMsg(n)
  PROVE  TypeOK'
  <1> DEFINE p == Head(messages[n])
  <1>1. Receive(n, {}) /\ {} \in SUBSET pending[n]
    BY DEF handleUserMsg
  <1>2. p \in FloodPacket
    BY <1>1, ReceiveType
  <1> HIDE DEF p
  <1>3. seenMsgIDs' \in [Node -> SUBSET PacketID]
    BY <1>2, markSeenType DEF handleUserMsg, p
  <1>4. gut' \in [Node -> [User -> Node \cup {NullID}]]
    BY DEF handleUserMsg, TypeOK
  <1>5. DeliverHere(n, p) \/ (PassOn(n, p) /\ UNCHANGED delivered)
    BY DEF handleUserMsg, p
  <1>6. /\ jittering' \in [Node -> SUBSET FloodPacket]
        /\ replying' \in [Node -> Seq(FloodPacket \cap AckFormat)]
        /\ nextID' \in [Node -> Nat]
        /\ delivered' \in [Node -> Seq(PacketID)]
    <2>1. CASE DeliverHere(n, p)
      BY <1>2, <2>1, DeliverHereType
    <2>2. CASE PassOn(n, p) /\ UNCHANGED delivered
      BY <1>2, <2>2, PassOnType DEF TypeOK
    <2> QED
      BY <1>5, <2>1, <2>2
  <1> QED
    BY <1>1, <1>3, <1>4, <1>6, HandlerType

LEMMA handleBroadcastInfoType ==
  ASSUME TypeOK, NEW n \in Node, handleBroadcastInfo(n)
  PROVE  TypeOK'
  <1> DEFINE p == Head(messages[n])
  <1>1. Receive(n, {}) /\ {} \in SUBSET pending[n]
    BY DEF handleBroadcastInfo
  <1>2. p \in FloodPacket
    BY <1>1, ReceiveType
  <1> HIDE DEF p
  <1>3. seenMsgIDs' \in [Node -> SUBSET PacketID]
    BY <1>2, markSeenType DEF handleBroadcastInfo, p
  <1>4. gut' \in [Node -> [User -> Node \cup {NullID}]]
    <2>1. p.PacketType = "BROADCAST_INFO"
      BY DEF handleBroadcastInfo, IsNew, p
    <2>2. p.OriginNodeID \in Node
      BY <1>2, <2>1, FloodFormat DEF InfoFormat
    <2>3. gut' = [gut EXCEPT ![n] = [u \in User |->
                     IF u \in p.Added THEN p.OriginNodeID ELSE gut[n][u]]]
      BY DEF handleBroadcastInfo, TypeOK, p
    <2> QED
      BY <2>2, <2>3 DEF TypeOK
  <1>5. PassOn(n, p) /\ UNCHANGED delivered
    BY DEF handleBroadcastInfo, p
  <1>6. /\ jittering' \in [Node -> SUBSET FloodPacket]
        /\ replying' \in [Node -> Seq(FloodPacket \cap AckFormat)]
        /\ nextID' \in [Node -> Nat]
        /\ delivered' \in [Node -> Seq(PacketID)]
    BY <1>2, <1>5, PassOnType DEF TypeOK
  <1> QED
    BY <1>1, <1>3, <1>4, <1>6, HandlerType

LEMMA handleAckType ==
  ASSUME TypeOK, NEW n \in Node, handleAck(n)
  PROVE  TypeOK'
  <1> DEFINE p == Head(messages[n])
             answered == {e \in pending[n] : p.DestNodeID = n
                                             /\ e.MsgID = p.OriginalPacketID}
  <1>1. Receive(n, answered) /\ answered \in SUBSET pending[n]
    BY DEF handleAck
  <1>2. p \in FloodPacket
    BY <1>1, ReceiveType
  <1>3. seenMsgIDs' \in [Node -> SUBSET PacketID]
    BY <1>2, markSeenType DEF handleAck
  <1>4. /\ gut' \in [Node -> [User -> Node \cup {NullID}]]
        /\ jittering' \in [Node -> SUBSET FloodPacket]
        /\ replying' \in [Node -> Seq(FloodPacket \cap AckFormat)]
        /\ nextID' \in [Node -> Nat]
        /\ delivered' \in [Node -> Seq(PacketID)]
    BY DEF handleAck, TypeOK
  <1> QED
    BY <1>1, <1>3, <1>4, HandlerType

LEMMA CountedType ==
  ASSUME NEW again \in SUBSET PendingTx,
         \A e \in again : e.Attempts < ackMaxRetrans
  PROVE  Counted(again) \in SUBSET PendingTx
  <1> SUFFICES ASSUME NEW e \in again
               PROVE  [e EXCEPT !.Attempts = @ + 1] \in PendingTx
    BY DEF Counted
  <1>1. e.Attempts + 1 \in 0 .. ackMaxRetrans
    BY FloodAssumption DEF PendingTx
  <1> QED
    BY <1>1 DEF PendingTx

LEMMA CheckerTickType ==
  ASSUME TypeOK, NEW n \in Node, CheckerTick(n)
  PROVE  TypeOK'
  <1>1. /\ pending \in [Node -> SUBSET PendingTx]
        /\ lost \in [Node -> SUBSET PacketID]
        /\ retries \in [Node -> SUBSET FloodPacket]
        /\ checker \in [Node -> {"waiting", "retrying", "returned"}]
    BY DEF TypeOK
  <1>2. PICK due \in (SUBSET pending[n]) \ {{}} :
          LET again == {e \in due : e.Attempts < ackMaxRetrans} IN
          /\ pending' = [pending EXCEPT ![n] = AfterTick(n, due, again)]
          /\ lost' = [lost EXCEPT ![n] = @ \cup {e.MsgID : e \in due \ again}]
          /\ retries' = [retries EXCEPT ![n] = {e.Pkt : e \in again}]
          /\ checker' = IF again = {} THEN checker
                        ELSE [checker EXCEPT ![n] = "retrying"]
    BY DEF CheckerTick
  <1> DEFINE again == {e \in due : e.Attempts < ackMaxRetrans}
  <1>3. due \in SUBSET PendingTx /\ again \in SUBSET PendingTx
    BY <1>1
  <1>4. \A e \in due : e.MsgID \in PacketID /\ e.Pkt \in FloodPacket
    BY <1>3 DEF PendingTx
  <1>5. AfterTick(n, due, again) \in SUBSET PendingTx
    <2>1. Counted(again) \in SUBSET PendingTx
      BY <1>3, CountedType
    <2> QED
      BY <1>1, <2>1 DEF AfterTick
  <1>6. /\ pending' \in [Node -> SUBSET PendingTx]
        /\ lost' \in [Node -> SUBSET PacketID]
        /\ retries' \in [Node -> SUBSET FloodPacket]
        /\ checker' \in [Node -> {"waiting", "retrying", "returned"}]
    BY <1>1, <1>2, <1>4, <1>5
  <1> QED
    BY <1>6 DEF TypeOK, CheckerTick, env, tables, radio

LEMMA CheckerRetryType ==
  ASSUME TypeOK, NEW n \in Node, CheckerRetry(n)
  PROVE  TypeOK'
  <1>1. /\ retries \in [Node -> SUBSET FloodPacket]
        /\ checker \in [Node -> {"waiting", "retrying", "returned"}]
    BY DEF TypeOK
  <1>2. PICK pkt \in retries[n] :
          /\ tryEnqueue(n, pkt)
          /\ retries' = [retries EXCEPT
                            ![n] = IF HasRoom(n) THEN @ \ {pkt} ELSE {}]
          /\ checker' = [checker EXCEPT
                            ![n] = IF ~HasRoom(n) THEN "returned"
                                   ELSE IF retries[n] = {pkt} THEN "waiting"
                                   ELSE "retrying"]
    BY DEF CheckerRetry
  <1>3. /\ txQueue' \in [Node -> Seq(FloodPacket)]
        /\ \A m \in Node : Len(txQueue'[m]) <= TxQueueCap
    BY <1>1, <1>2, EnqueueType
  <1>4. /\ retries' \in [Node -> SUBSET FloodPacket]
        /\ checker' \in [Node -> {"waiting", "retrying", "returned"}]
    BY <1>1, <1>2
  <1> QED
    BY <1>3, <1>4 DEF TypeOK, CheckerRetry, env, tables, history

LEMMA CheckerQuitType ==
  ASSUME TypeOK, NEW n \in Node, CheckerQuit(n)
  PROVE  TypeOK'
  <1>1. checker' \in [Node -> {"waiting", "retrying", "returned"}]
    BY DEF TypeOK, CheckerQuit
  <1> QED
    BY <1>1 DEF TypeOK, CheckerQuit, env, tables, radio, history

LEMMA NextType == TypeOK /\ [Next]_vars => TypeOK'
  <1> SUFFICES ASSUME TypeOK, [Next]_vars
               PROVE  TypeOK'
    OBVIOUS
  <1>1. CASE UNCHANGED vars
    BY <1>1 DEF TypeOK, vars, env, tables, waiting, radio, history
  <1>2. ASSUME NEW n \in Node, NodeGoroutine(n) \/ TxWorker(n)
        PROVE  TypeOK'
    BY <1>2, StartType, SendAckType, LifeType, HandleDuplicateType,
       handleDataType, handleUserMsgType, handleBroadcastInfoType,
       handleAckType, TakeFromQueueType, TransmitType
    DEF NodeGoroutine, HandleMessage, TxWorker
  <1>3. ASSUME NEW n \in Node, PendingTxChecker(n)
        PROVE  TypeOK'
    BY <1>3, CheckerTickType, CheckerRetryType, CheckerQuitType
    DEF PendingTxChecker
  <1>4. ASSUME NEW n \in Node, Outside(n)
        PROVE  TypeOK'
    BY <1>4, CallSendDataType, CallSendUserMessageType, MoveUserType, LifeType,
       BroadcastTickType DEF Outside
  <1> QED
    BY <1>1, <1>2, <1>3, <1>4, ForwardNowType, trackIfAckRequestedType
    DEF Next

\* Whatever a handler, goroutine or call does, no packet goes further than
\* defaultTTL hops, txQueue keeps to its capacity, no packet is retried more than
\* ackMaxRetrans times, and every variable keeps its type.
THEOREM FloodTypeCorrect == Spec => []TypeOK
  BY InitType, NextType, PTL DEF Spec

----------------------------------------------------------------------------
(* At most one delivery.  A packet that is being acknowledged is delivered *)
(* later, so the invariant speaks of it too.                               *)

DeliveredWasSeen ==
    \A n \in Node : \A i \in DOMAIN delivered[n] :
        delivered[n][i] \in seenMsgIDs[n]

RepliedIsNew ==
    \A n \in Node :
        replying[n] # <<>> =>
            LET id == Head(replying[n]).OriginalPacketID IN
            /\ id \in seenMsgIDs[n]
            /\ \A i \in DOMAIN delivered[n] : delivered[n][i] # id

DeliveryInv == AtMostOnceDelivery /\ DeliveredWasSeen /\ RepliedIsNew

\* What the steps do to the variables of the invariant.
KeepsSeen == \A m \in Node : seenMsgIDs[m] \subseteq seenMsgIDs'[m]

DeliversNew(n) ==
    \E id \in PacketID :
        /\ replying[n] = <<>>
        /\ id \notin seenMsgIDs[n] /\ id \in seenMsgIDs'[n]
        /\ delivered' = [delivered EXCEPT ![n] = Append(@, id)]
        /\ UNCHANGED replying

RepliesNew(n) ==
    \E ack \in AckFormat :
        /\ ack.OriginalPacketID \notin seenMsgIDs[n]
        /\ ack.OriginalPacketID \in seenMsgIDs'[n]
        /\ replying' = [replying EXCEPT ![n] = <<ack>>]
        /\ UNCHANGED delivered

DeliversReplied(n) ==
    /\ replying[n] # <<>>
    /\ replying' = [replying EXCEPT ![n] = <<>>]
    /\ delivered' = [delivered EXCEPT
                        ![n] = Append(@, Head(replying[n]).OriginalPacketID)]

DeliveryStep(n) ==
    /\ KeepsSeen
    /\ \/ UNCHANGED <<delivered, replying>>
       \/ DeliversNew(n) \/ RepliesNew(n) \/ DeliversReplied(n)

LEMMA markSeenKeeps ==
  ASSUME TypeOK, NEW n \in Node, NEW p, markSeen(n, p)
  PROVE  /\ KeepsSeen
         /\ p.PacketID \in seenMsgIDs'[n]
  BY DEF TypeOK, markSeen, KeepsSeen

LEMMA DeliverHereStep ==
  ASSUME TypeOK, NEW n \in Node, NEW p \in FloodPacket, replying[n] = <<>>,
         p.PacketID \notin seenMsgIDs[n], markSeen(n, p), DeliverHere(n, p)
  PROVE  DeliveryStep(n)
  <1>1. KeepsSeen /\ p.PacketID \in seenMsgIDs'[n] /\ p.PacketID \in PacketID
    BY markSeenKeeps, FloodHeader
  <1>2. CASE p.Flags = REQ_ACK
    <2> DEFINE ack == CreateACKPacket(n, BROADCAST_ADDR, p.PacketID, NewID(n))
    <2>1. ack \in AckFormat
      BY <1>1, NewIDType, FloodAck
    <2>2. ack.OriginalPacketID = p.PacketID
      BY DEF CreateACKPacket
    <2>3. replying' = [replying EXCEPT ![n] = <<ack>>] /\ UNCHANGED delivered
      BY <1>2 DEF DeliverHere
    <2> HIDE DEF ack
    <2>4. RepliesNew(n)
      BY <1>1, <2>1, <2>2, <2>3 DEF RepliesNew
    <2> QED
      BY <1>1, <2>4 DEF DeliveryStep
  <1>3. CASE p.Flags # REQ_ACK
    BY <1>1, <1>3 DEF DeliverHere, DeliverNow, DeliversNew, DeliveryStep
  <1> QED
    BY <1>2, <1>3

LEMMA HandlerDelivery ==
  ASSUME TypeOK, NEW n \in Node, HandleMessage(n)
  PROVE  DeliveryStep(n)
  <1> DEFINE p == Head(messages[n])
  <1>0. /\ p \in FloodPacket
        /\ replying[n] = <<>>
    <2>1. PICK answered \in SUBSET pending[n] : Receive(n, answered)
      BY DEF HandleMessage, HandleDuplicate, handleData, handleUserMsg,
             handleBroadcastInfo, handleAck
    <2> QED
      BY <2>1, ReceiveType DEF Receive
  <1> HIDE DEF p
  <1>1. CASE HandleDuplicate(n)
    BY <1>1 DEF HandleDuplicate, tables, KeepsSeen, DeliveryStep
  <1>2. CASE handleData(n)
    <2>1. markSeen(n, p) /\ p.PacketID \notin seenMsgIDs[n]
      BY <1>2 DEF handleData, IsNew, p
    <2>2. \/ DeliverHere(n, p)
          \/ DeliverNow(n, p) /\ UNCHANGED replying
          \/ UNCHANGED <<delivered, replying>>
      BY <1>2 DEF handleData, PassOn, p
    <2>3. KeepsSeen /\ p.PacketID \in seenMsgIDs'[n] /\ p.PacketID \in PacketID
      BY <1>0, <2>1, markSeenKeeps, FloodHeader
    <2>4. CASE DeliverHere(n, p)
      BY <1>0, <2>1, <2>4, DeliverHereStep
    <2>5. CASE DeliverNow(n, p) /\ UNCHANGED replying
      BY <1>0, <2>1, <2>3, <2>5 DEF DeliverNow, DeliversNew, DeliveryStep
    <2>6. CASE UNCHANGED <<delivered, replying>>
      BY <2>3, <2>6 DEF DeliveryStep
    <2> QED
      BY <2>2, <2>4, <2>5, <2>6
  <1>3. CASE handleUserMsg(n)
    <2>1. markSeen(n, p) /\ p.PacketID \notin seenMsgIDs[n]
      BY <1>3 DEF handleUserMsg, IsNew, p
    <2>2. DeliverHere(n, p) \/ UNCHANGED <<delivered, replying>>
      BY <1>3 DEF handleUserMsg, PassOn, p
    <2> QED
      BY <1>0, <2>1, <2>2, DeliverHereStep, markSeenKeeps DEF DeliveryStep
  <1>4. CASE handleBroadcastInfo(n)
    <2>1. markSeen(n, p) /\ UNCHANGED <<delivered, replying>>
      BY <1>4 DEF handleBroadcastInfo, PassOn, p
    <2> QED
      BY <2>1, markSeenKeeps DEF DeliveryStep
  <1>5. CASE handleAck(n)
    <2>1. markSeen(n, p) /\ UNCHANGED <<delivered, replying>>
      BY <1>5 DEF handleAck, p
    <2> QED
      BY <2>1, markSeenKeeps DEF DeliveryStep
  <1> QED
    BY <1>1, <1>2, <1>3, <1>4, <1>5 DEF HandleMessage

LEMMA NextDelivery ==
  ASSUME TypeOK, [Next]_vars
  PROVE  \/ \E n \in Node : DeliveryStep(n)
         \/ UNCHANGED <<seenMsgIDs, delivered, replying>>
  <1>1. CASE UNCHANGED vars
    BY <1>1 DEF vars, tables, radio, history
  <1>2. ASSUME NEW n \in Node, NodeGoroutine(n)
        PROVE  DeliveryStep(n) \/ UNCHANGED <<seenMsgIDs, delivered, replying>>
    <2>1. CASE Start(n) \/ Stop(n)
      BY <2>1 DEF Start, Stop, SendDiffBroadcastInfo, tables, radio, history
    <2>2. CASE SendAck(n)
      BY <2>2 DEF SendAck, tables, DeliversReplied, DeliveryStep, KeepsSeen
    <2> QED
      BY <1>2, <2>1, <2>2, HandlerDelivery DEF NodeGoroutine
  <1>3. ASSUME NEW n \in Node,
               TxWorker(n) \/ ForwardNow(n) \/ trackIfAckRequested(n)
        PROVE  UNCHANGED <<seenMsgIDs, delivered, replying>>
    BY <1>3 DEF TxWorker, TakeFromQueue, Transmit, ForwardNow,
       trackIfAckRequested, tables, radio, history
  <1>4. ASSUME NEW n \in Node, PendingTxChecker(n)
        PROVE  UNCHANGED <<seenMsgIDs, delivered, replying>>
    BY <1>4 DEF PendingTxChecker, CheckerTick, CheckerRetry, CheckerQuit,
       tables, radio, history
  <1>5. ASSUME NEW n \in Node, Outside(n)
        PROVE  UNCHANGED <<seenMsgIDs, delivered, replying>>
    BY <1>5 DEF Outside, CallSendData, CallSendUserMessage, Submit, MoveUser,
       Join, Leave, BroadcastTick, SendDiffBroadcastInfo, tables, radio, history
  <1> QED
    BY <1>1, <1>2, <1>3, <1>4, <1>5 DEF Next

\* A delivery of what has not been delivered keeps deliveries distinct.
LEMMA FirstDelivery ==
  ASSUME TypeOK, DeliveryInv, KeepsSeen, NEW n \in Node, NEW id \in PacketID,
         id \in seenMsgIDs'[n],
         \A i \in DOMAIN delivered[n] : delivered[n][i] # id,
         delivered' = [delivered EXCEPT ![n] = Append(@, id)]
  PROVE  AtMostOnceDelivery' /\ DeliveredWasSeen'
  <1> DEFINE s == delivered[n]
  <1>0. delivered \in [Node -> Seq(PacketID)]
    BY DEF TypeOK
  <1>1. /\ delivered'[n] = Append(s, id)
        /\ \A m \in Node \ {n} : delivered'[m] = delivered[m]
        /\ s \in Seq(PacketID)
    BY <1>0
  <1>2. /\ DOMAIN Append(s, id) = 1 .. Len(s) + 1
        /\ DOMAIN s = 1 .. Len(s)
        /\ Len(s) \in Nat
        /\ \A i \in 1 .. Len(s) : Append(s, id)[i] = s[i]
        /\ Append(s, id)[Len(s) + 1] = id
    BY <1>1
  <1>3. /\ \A i \in DOMAIN s : s[i] \in seenMsgIDs[n] /\ s[i] # id
        /\ \A i, j \in DOMAIN s : s[i] = s[j] => i = j
    BY DEF DeliveryInv, DeliveredWasSeen, AtMostOnceDelivery
  <1> HIDE DEF s
  <1>4. \A i \in DOMAIN delivered'[n] : delivered'[n][i] \in seenMsgIDs'[n]
    BY <1>1, <1>2, <1>3 DEF KeepsSeen
  <1>5. \A i, j \in DOMAIN delivered'[n] :
           delivered'[n][i] = delivered'[n][j] => i = j
    BY <1>1, <1>2, <1>3
  <1>6. \A m \in Node \ {n} :
           /\ \A i \in DOMAIN delivered'[m] : delivered'[m][i] \in seenMsgIDs'[m]
           /\ \A i, j \in DOMAIN delivered'[m] :
                 delivered'[m][i] = delivered'[m][j] => i = j
    BY <1>1 DEF DeliveryInv, AtMostOnceDelivery, DeliveredWasSeen, KeepsSeen
  <1> QED
    BY <1>4, <1>5, <1>6 DEF AtMostOnceDelivery, DeliveredWasSeen

LEMMA DeliveryStepInv ==
  ASSUME TypeOK, DeliveryInv, NEW n \in Node, DeliveryStep(n)
  PROVE  DeliveryInv'
  <1>0. /\ delivered \in [Node -> Seq(PacketID)]
        /\ replying \in [Node -> Seq(FloodPacket \cap AckFormat)]
        /\ KeepsSeen
    BY DEF TypeOK, DeliveryStep
  <1>1. CASE UNCHANGED <<delivered, replying>>
    BY <1>0, <1>1 DEF DeliveryInv, AtMostOnceDelivery, DeliveredWasSeen,
                      RepliedIsNew, KeepsSeen
  <1>2. CASE DeliversNew(n)
    <2>1. PICK id \in PacketID :
             /\ replying[n] = <<>>
             /\ id \notin seenMsgIDs[n] /\ id \in seenMsgIDs'[n]
             /\ delivered' = [delivered EXCEPT ![n] = Append(@, id)]
             /\ UNCHANGED replying
      BY <1>2 DEF DeliversNew
    <2>2. \A i \in DOMAIN delivered[n] : delivered[n][i] # id
      BY <2>1 DEF DeliveryInv, DeliveredWasSeen
    <2>3. AtMostOnceDelivery' /\ DeliveredWasSeen'
      BY <1>0, <2>1, <2>2, FirstDelivery
    <2>4. \A m \in Node \ {n} : delivered'[m] = delivered[m]
      BY <1>0, <2>1
    <2>5. RepliedIsNew'
      BY <1>0, <2>1, <2>4 DEF DeliveryInv, RepliedIsNew, KeepsSeen
    <2> QED
      BY <2>3, <2>5 DEF DeliveryInv
  <1>3. CASE RepliesNew(n)
    <2>1. PICK ack \in AckFormat :
             /\ ack.OriginalPacketID \notin seenMsgIDs[n]
             /\ ack.OriginalPacketID \in seenMsgIDs'[n]
             /\ replying' = [replying EXCEPT ![n] = <<ack>>]
             /\ UNCHANGED delivered
      BY <1>3 DEF RepliesNew
    <2>2. AtMostOnceDelivery' /\ DeliveredWasSeen'
      BY <1>0, <2>1
      DEF DeliveryInv, AtMostOnceDelivery, DeliveredWasSeen, KeepsSeen
    <2>3. /\ replying'[n] = <<ack>>
          /\ Head(<<ack>>) = ack
          /\ \A m \in Node \ {n} : replying'[m] = replying[m]
      BY <1>0, <2>1
    <2>4. \A i \in DOMAIN delivered'[n] : delivered'[n][i] # ack.OriginalPacketID
      BY <2>1 DEF DeliveryInv, DeliveredWasSeen
    <2>5. RepliedIsNew'
      BY <1>0, <2>1, <2>3, <2>4 DEF DeliveryInv, RepliedIsNew, KeepsSeen
    <2> QED
      BY <2>2, <2>5 DEF DeliveryInv
  <1>4. CASE DeliversReplied(n)
    <2> DEFINE id == Head(replying[n]).OriginalPacketID
    <2>1. id \in PacketID
      <3>1. Head(replying[n]) \in FloodPacket \cap AckFormat
        BY <1>0, <1>4, Taken DEF DeliversReplied
      <3> QED
        BY <3>1 DEF AckFormat
    <2>2. /\ id \in seenMsgIDs'[n]
          /\ \A i \in DOMAIN delivered[n] : delivered[n][i] # id
      BY <1>0, <1>4 DEF DeliversReplied, DeliveryInv, RepliedIsNew, KeepsSeen
    <2>3. /\ delivered' = [delivered EXCEPT ![n] = Append(@, id)]
          /\ replying'[n] = <<>>
          /\ \A m \in Node \ {n} : /\ replying'[m] = replying[m]
                                   /\ delivered'[m] = delivered[m]
      BY <1>0, <1>4 DEF DeliversReplied
    <2> HIDE DEF id
    <2>4. AtMostOnceDelivery' /\ DeliveredWasSeen'
      BY <1>0, <2>1, <2>2, <2>3, FirstDelivery
    <2>5. RepliedIsNew'
      BY ZenonT(30), <1>0, <2>3 DEF DeliveryInv, RepliedIsNew, KeepsSeen
    <2> QED
      BY <2>4, <2>5 DEF DeliveryInv
  <1> QED
    BY <1>1, <1>2, <1>3, <1>4 DEF DeliveryStep

\* However often a packet is repeated, over whichever nodes its copies come, and
\* although a delivery is published only after its acknowledgement is on the
\* air, no node publishes EventMessageDelivered twice for a packet.
THEOREM FloodDeliveredAtMostOnce == Spec => []AtMostOnceDelivery
  <1>1. Init => DeliveryInv
    BY DEF Init, DeliveryInv, AtMostOnceDelivery, DeliveredWasSeen, RepliedIsNew
  <1>2. TypeOK /\ DeliveryInv /\ [Next]_vars => DeliveryInv'
    <2> SUFFICES ASSUME TypeOK, DeliveryInv, [Next]_vars
                 PROVE  DeliveryInv'
      OBVIOUS
    <2>1. CASE UNCHANGED <<seenMsgIDs, delivered, replying>>
      BY <2>1 DEF DeliveryInv, AtMostOnceDelivery, DeliveredWasSeen, RepliedIsNew
    <2> QED
      BY <2>1, NextDelivery, DeliveryStepInv
  <1>3. DeliveryInv => AtMostOnceDelivery
    BY DEF DeliveryInv
  <1> QED
    BY <1>1, <1>2, <1>3, FloodTypeCorrect, PTL DEF Spec

----------------------------------------------------------------------------
(* One outcome of every wait.  A packet has one entry, in one of the two   *)
(* tables, until its wait ends, and identifiers are not used again.        *)

Ids(S) == {e.MsgID : e \in S}

\* The entries P and R of node n, whose next packet has the number k, and the
\* identifiers A and L of which it has heard and given up.
Clean(n, k, P, R, A, L) ==
    /\ \A id \in Ids(P) \cup Ids(R) \cup A \cup L :
          id \in PacketID /\ id[1] = n /\ id[2] < k
    /\ \A e, f \in P : e.MsgID = f.MsgID => e = f
    /\ \A e, f \in R : e.MsgID = f.MsgID => e = f
    /\ Ids(P) \cap Ids(R) = {}
    /\ A \cap L = {}
    /\ (A \cup L) \cap (Ids(P) \cup Ids(R)) = {}

OutcomeInv ==
    \A n \in Node : Clean(n, nextID[n], pending[n], registering[n], acked[n],
                          lost[n])

LEMMA CleanLater ==
  ASSUME NEW n, NEW k \in Nat, NEW l \in Nat, k <= l, NEW P, NEW R, NEW A, NEW L,
         Clean(n, k, P, R, A, L)
  PROVE  Clean(n, l, P, R, A, L)
  <1>1. \A id \in PacketID : id[2] < k => id[2] < l
    BY DEF PacketID
  <1> QED
    BY <1>1 DEF Clean

LEMMA CleanRegistered ==
  ASSUME NEW n \in Node, NEW k \in Nat, NEW P, NEW R, NEW A, NEW L, NEW e,
         e.MsgID = <<n, k>>, Clean(n, k, P, R, A, L)
  PROVE  Clean(n, k + 1, P, R \cup {e}, A, L)
  <1>1. \A id \in Ids(P) \cup Ids(R) \cup A \cup L :
           id \in PacketID /\ id[1] = n /\ id[2] < k + 1 /\ id # <<n, k>>
    BY DEF Clean, PacketID
  <1>2. <<n, k>> \in PacketID /\ <<n, k>>[1] = n /\ <<n, k>>[2] < k + 1
    BY DEF PacketID
  <1>3. Ids(R \cup {e}) = Ids(R) \cup {<<n, k>>}
    BY DEF Ids
  <1>4. \A f \in R : f.MsgID # e.MsgID
    BY <1>1 DEF Ids
  <1>5. \A id \in Ids(P) \cup Ids(R \cup {e}) \cup A \cup L :
           id \in PacketID /\ id[1] = n /\ id[2] < k + 1
    BY <1>1, <1>2, <1>3
  <1>6. \A f, g \in R \cup {e} : f.MsgID = g.MsgID => f = g
    BY <1>4 DEF Clean
  <1>7. Ids(P) \cap Ids(R \cup {e}) = {}
    <2>1. Ids(P) \cap Ids(R) = {}
      BY DEF Clean
    <2>2. <<n, k>> \notin Ids(P)
      BY <1>1
    <2> QED
      BY <1>3, <2>1, <2>2
  <1>8. <<n, k>> \notin A \cup L
    BY <1>1
  <1>9. (A \cup L) \cap (Ids(P) \cup Ids(R)) = {} /\ A \cap L = {}
    BY DEF Clean
  <1>10. (A \cup L) \cap (Ids(P) \cup Ids(R \cup {e})) = {}
    BY <1>3, <1>8, <1>9
  <1>11. \A f, g \in P : f.MsgID = g.MsgID => f = g
    BY DEF Clean
  <1> QED
    BY <1>5, <1>6, <1>7, <1>9, <1>10, <1>11 DEF Clean

LEMMA CleanTracked ==
  ASSUME NEW n, NEW k, NEW P, NEW R, NEW A, NEW L, NEW e \in R,
         Clean(n, k, P, R, A, L)
  PROVE  Clean(n, k, P \cup {e}, R \ {e}, A, L)
  <1>1. /\ Ids(P \cup {e}) = Ids(P) \cup {e.MsgID}
        /\ Ids(R \ {e}) \subseteq Ids(R)
        /\ e.MsgID \in Ids(R)
    BY DEF Ids
  <1>2. e.MsgID \notin Ids(R \ {e})
    BY DEF Ids, Clean
  <1>3. \A f \in P : f.MsgID # e.MsgID
    BY <1>1 DEF Clean, Ids
  <1>4. \A id \in Ids(P \cup {e}) \cup Ids(R \ {e}) \cup A \cup L :
           id \in PacketID /\ id[1] = n /\ id[2] < k
    BY <1>1 DEF Clean
  <1>5. \A f, g \in P \cup {e} : f.MsgID = g.MsgID => f = g
    BY <1>3 DEF Clean
  <1>6. Ids(P \cup {e}) \cap Ids(R \ {e}) = {}
    <2>1. Ids(P) \cap Ids(R) = {}
      BY DEF Clean
    <2> QED
      BY <1>1, <1>2, <2>1
  <1>7. \A f, g \in R \ {e} : f.MsgID = g.MsgID => f = g
    BY DEF Clean
  <1>8. (A \cup L) \cap (Ids(P) \cup Ids(R)) = {} /\ A \cap L = {}
    BY DEF Clean
  <1>9. (A \cup L) \cap (Ids(P \cup {e}) \cup Ids(R \ {e})) = {}
    BY <1>1, <1>8
  <1> QED
    BY <1>4, <1>5, <1>6, <1>7, <1>8, <1>9 DEF Clean

LEMMA CleanEnded ==
  ASSUME NEW n, NEW k, NEW P, NEW R, NEW A, NEW L, NEW ended \in SUBSET P,
         Clean(n, k, P, R, A, L)
  PROVE  Clean(n, k, P \ ended, R, A \cup Ids(ended), L)
  <1>1. /\ Ids(ended) \subseteq Ids(P)
        /\ Ids(P \ ended) \subseteq Ids(P)
    BY DEF Ids
  <1>2. Ids(P \ ended) \cap Ids(ended) = {}
    BY DEF Ids, Clean
  <1> QED
    BY <1>1, <1>2 DEF Clean

LEMMA CountedIds ==
  ASSUME NEW again \in SUBSET PendingTx
  PROVE  /\ Ids(Counted(again)) = Ids(again)
         /\ \A f \in Counted(again) : \E e \in again :
               f = [e EXCEPT !.Attempts = @ + 1] /\ f.MsgID = e.MsgID
  <1>1. \A e \in again : [e EXCEPT !.Attempts = @ + 1].MsgID = e.MsgID
    BY DEF PendingTx
  <1> QED
    BY ZenonT(30), <1>1 DEF Counted, Ids

LEMMA CleanTick ==
  ASSUME NEW n, NEW k, NEW P \in SUBSET PendingTx, NEW R, NEW A, NEW L,
         NEW due \in SUBSET P, NEW again \in SUBSET due,
         Clean(n, k, P, R, A, L)
  PROVE  Clean(n, k, (P \ due) \cup Counted(again), R, A, L \cup Ids(due \ again))
  <1> DEFINE Q == (P \ due) \cup Counted(again)
  <1>1. /\ Ids(Counted(again)) = Ids(again)
        /\ \A f \in Counted(again) : \E e \in again :
              f = [e EXCEPT !.Attempts = @ + 1] /\ f.MsgID = e.MsgID
    BY CountedIds
  <1>2. Ids(Q) = Ids(P \ due) \cup Ids(again)
    BY <1>1 DEF Ids
  <1>3. /\ Ids(P \ due) \subseteq Ids(P) /\ Ids(again) \subseteq Ids(P)
        /\ Ids(due \ again) \subseteq Ids(P)
    BY DEF Ids
  <1>4. \A e, f \in P : e.MsgID = f.MsgID => e = f
    BY DEF Clean
  <1>5. /\ Ids(P \ due) \cap Ids(due \ again) = {}
        /\ Ids(again) \cap Ids(due \ again) = {}
    BY <1>4 DEF Ids
  <1>6. ASSUME NEW e \in Q, NEW f \in Q, e.MsgID = f.MsgID
        PROVE  e = f
    <2>1. CASE e \in P \ due /\ f \in P \ due
      BY <1>4, <1>6, <2>1
    <2>2. CASE e \in P \ due /\ f \in Counted(again)
      BY <1>1, <1>4, <1>6, <2>2
    <2>3. CASE e \in Counted(again) /\ f \in P \ due
      BY <1>1, <1>4, <1>6, <2>3
    <2>4. CASE e \in Counted(again) /\ f \in Counted(again)
      <3>1. PICK g \in again : e = [g EXCEPT !.Attempts = @ + 1]
                               /\ e.MsgID = g.MsgID
        BY <1>1, <2>4
      <3>2. PICK h \in again : f = [h EXCEPT !.Attempts = @ + 1]
                               /\ f.MsgID = h.MsgID
        BY <1>1, <2>4
      <3>3. g = h
        BY <1>4, <1>6, <3>1, <3>2
      <3> QED
        BY <3>1, <3>2, <3>3
    <2> QED
      BY <2>1, <2>2, <2>3, <2>4
  <1> HIDE DEF Q
  <1>7. Clean(n, k, Q, R, A, L \cup Ids(due \ again))
    BY <1>2, <1>3, <1>5, <1>6 DEF Clean
  <1> QED
    BY <1>7 DEF Q

\* Every step gives out identifiers and moves the entries of one node.
WaitStep(n) ==
    /\ \A m \in Node : nextID[m] <= nextID'[m]
    /\ \/ UNCHANGED <<pending, registering, acked, lost>>
       \/ \E e \in PendingTx :
             /\ e.MsgID = NewID(n)
             /\ nextID' = [nextID EXCEPT ![n] = @ + 1]
             /\ registering' = [registering EXCEPT ![n] = @ \cup {e}]
             /\ UNCHANGED <<pending, acked, lost>>
       \/ \E e \in registering[n] :
             /\ registering' = [registering EXCEPT ![n] = @ \ {e}]
             /\ pending' = [pending EXCEPT ![n] = @ \cup {e}]
             /\ UNCHANGED <<acked, lost>>
       \/ \E ended \in SUBSET pending[n] :
             /\ pending' = [pending EXCEPT ![n] = @ \ ended]
             /\ acked' = [acked EXCEPT ![n] = @ \cup Ids(ended)]
             /\ UNCHANGED <<registering, lost>>
       \/ \E due \in SUBSET pending[n] : \E again \in SUBSET due :
             /\ pending' = [pending EXCEPT
                               ![n] = (@ \ due) \cup Counted(again)]
             /\ lost' = [lost EXCEPT ![n] = @ \cup Ids(due \ again)]
             /\ UNCHANGED <<registering, acked>>

LEMMA WaitStepInv ==
  ASSUME TypeOK, TypeOK', OutcomeInv, NEW n \in Node, WaitStep(n)
  PROVE  OutcomeInv'
  <1>0. /\ pending \in [Node -> SUBSET PendingTx]
        /\ registering \in [Node -> SUBSET PendingTx]
        /\ acked \in [Node -> SUBSET PacketID]
        /\ lost \in [Node -> SUBSET PacketID]
        /\ nextID \in [Node -> Nat] /\ nextID' \in [Node -> Nat]
    BY DEF TypeOK
  <1>1. \A m \in Node : Clean(m, nextID'[m], pending[m], registering[m],
                              acked[m], lost[m])
    BY <1>0, CleanLater DEF OutcomeInv, WaitStep
  <1>2. CASE UNCHANGED <<pending, registering, acked, lost>>
    BY <1>1, <1>2 DEF OutcomeInv
  <1>3. ASSUME NEW e \in PendingTx,
               /\ e.MsgID = NewID(n)
               /\ nextID' = [nextID EXCEPT ![n] = @ + 1]
               /\ registering' = [registering EXCEPT ![n] = @ \cup {e}]
               /\ UNCHANGED <<pending, acked, lost>>
        PROVE  OutcomeInv'
    <2>1. /\ nextID[n] \in Nat /\ e.MsgID = <<n, nextID[n]>>
          /\ nextID'[n] = nextID[n] + 1
          /\ registering'[n] = registering[n] \cup {e}
          /\ \A m \in Node \ {n} : registering'[m] = registering[m]
      BY <1>0, <1>3 DEF NewID
    <2>2. Clean(n, nextID[n] + 1, pending[n], registering[n] \cup {e}, acked[n],
                lost[n])
      BY <2>1, CleanRegistered DEF OutcomeInv
    <2> QED
      BY <1>1, <1>3, <2>1, <2>2 DEF OutcomeInv
  <1>4. ASSUME NEW e \in registering[n],
               /\ registering' = [registering EXCEPT ![n] = @ \ {e}]
               /\ pending' = [pending EXCEPT ![n] = @ \cup {e}]
               /\ UNCHANGED <<acked, lost>>
        PROVE  OutcomeInv'
    <2>1. /\ registering'[n] = registering[n] \ {e}
          /\ pending'[n] = pending[n] \cup {e}
          /\ \A m \in Node \ {n} : /\ registering'[m] = registering[m]
                                   /\ pending'[m] = pending[m]
      BY <1>0, <1>4
    <2>2. Clean(n, nextID'[n], pending[n] \cup {e}, registering[n] \ {e},
                acked[n], lost[n])
      BY <1>1, CleanTracked
    <2> QED
      BY <1>1, <1>4, <2>1, <2>2 DEF OutcomeInv
  <1>5. ASSUME NEW ended \in SUBSET pending[n],
               /\ pending' = [pending EXCEPT ![n] = @ \ ended]
               /\ acked' = [acked EXCEPT ![n] = @ \cup Ids(ended)]
               /\ UNCHANGED <<registering, lost>>
        PROVE  OutcomeInv'
    <2>1. /\ pending'[n] = pending[n] \ ended
          /\ acked'[n] = acked[n] \cup Ids(ended)
          /\ \A m \in Node \ {n} : /\ acked'[m] = acked[m]
                                   /\ pending'[m] = pending[m]
      BY <1>0, <1>5
    <2>2. Clean(n, nextID'[n], pending[n] \ ended, registering[n],
                acked[n] \cup Ids(ended), lost[n])
      BY <1>1, CleanEnded
    <2> QED
      BY <1>1, <1>5, <2>1, <2>2 DEF OutcomeInv
  <1>6. ASSUME NEW due \in SUBSET pending[n], NEW again \in SUBSET due,
               /\ pending' = [pending EXCEPT
                                 ![n] = (@ \ due) \cup Counted(again)]
               /\ lost' = [lost EXCEPT ![n] = @ \cup Ids(due \ again)]
               /\ UNCHANGED <<registering, acked>>
        PROVE  OutcomeInv'
    <2>1. /\ pending'[n] = (pending[n] \ due) \cup Counted(again)
          /\ lost'[n] = lost[n] \cup Ids(due \ again)
          /\ \A m \in Node \ {n} : /\ lost'[m] = lost[m]
                                   /\ pending'[m] = pending[m]
      BY <1>0, <1>6
    <2>2. pending[n] \in SUBSET PendingTx
      BY <1>0
    <2>3. Clean(n, nextID'[n], (pending[n] \ due) \cup Counted(again),
                registering[n], acked[n], lost[n] \cup Ids(due \ again))
      BY <1>1, <2>2, CleanTick
    <2> QED
      BY <1>1, <1>6, <2>1, <2>3 DEF OutcomeInv
  <1> QED
    BY <1>2, <1>3, <1>4, <1>5, <1>6 DEF WaitStep

LEMMA NumbersGrow ==
  ASSUME TypeOK, NEW n \in Node, UNCHANGED nextID \/ UseID(n)
  PROVE  \A m \in Node : nextID[m] <= nextID'[m]
  <1>0. nextID \in [Node -> Nat]
    BY DEF TypeOK
  <1>1. CASE UNCHANGED nextID
    BY <1>0, <1>1
  <1>2. CASE UseID(n)
    BY <1>0, <1>2 DEF UseID
  <1> QED
    BY <1>1, <1>2

LEMMA HandlerWait ==
  ASSUME TypeOK, NEW n \in Node, HandleMessage(n)
  PROVE  WaitStep(n)
  <1> DEFINE p == Head(messages[n])
  <1>1. PICK answered \in SUBSET pending[n] : Receive(n, answered)
    BY DEF HandleMessage, HandleDuplicate, handleData, handleUserMsg,
           handleBroadcastInfo, handleAck
  <1> DEFINE ended == {e \in pending[n] : e.MsgID = p.PacketID
                                          /\ p.PrevHopID # n} \cup answered
  <1>2. /\ ended \in SUBSET pending[n]
        /\ pending' = [pending EXCEPT ![n] = @ \ ended]
        /\ acked' = [acked EXCEPT ![n] = @ \cup Ids(ended)]
        /\ UNCHANGED <<registering, lost>>
    BY <1>1 DEF Receive, Ids
  <1>3. UNCHANGED nextID \/ UseID(n)
    BY DEF HandleMessage, HandleDuplicate, handleData, handleUserMsg,
           handleBroadcastInfo, handleAck, DeliverHere, PassOn
  <1>4. \A m \in Node : nextID[m] <= nextID'[m]
    BY <1>3, NumbersGrow
  <1> HIDE DEF ended
  <1> QED
    BY <1>2, <1>4 DEF WaitStep

LEMMA SubmitWait ==
  ASSUME TypeOK, NEW n \in Node, NEW pkt \in FloodPacket, NEW tracked,
         pkt.PacketID = NewID(n), Submit(n, pkt, tracked)
  PROVE  WaitStep(n)
  <1>1. Entry(pkt) \in PendingTx /\ Entry(pkt).MsgID = NewID(n)
    BY FloodHeader, FloodAssumption DEF Entry, PendingTx
  <1>2. \A m \in Node : nextID[m] <= nextID'[m]
    BY DEF Submit, UseID, TypeOK
  <1>3. /\ nextID' = [nextID EXCEPT ![n] = @ + 1]
        /\ UNCHANGED <<pending, acked, lost>>
        /\ \/ UNCHANGED registering
           \/ registering' = [registering EXCEPT ![n] = @ \cup {Entry(pkt)}]
    BY DEF Submit, UseID, history
  <1> QED
    BY <1>1, <1>2, <1>3 DEF WaitStep

LEMMA CallWait ==
  ASSUME TypeOK, NEW n \in Node, CallSendData(n) \/ CallSendUserMessage(n)
  PROVE  WaitStep(n)
  <1> DEFINE call == calls[made + 1]
  <1>1. CASE CallSendData(n)
    <2> DEFINE pkt == CreateDataPacket(n, n, call.dest, BROADCAST_ADDR, 0,
                                       call.flags, NewID(n))
    <2>1. call \in FloodCall /\ call.call = "SendData"
      BY <1>1, CallType DEF CallSendData
    <2>2. call.dest \in Node \cup {BROADCAST_ADDR} /\ call.flags \in Flags
      BY <2>1 DEF FloodCall
    <2>3. pkt \in FloodPacket /\ pkt.PacketID = NewID(n)
      BY <2>2, FloodData, NewIDType DEF CreateDataPacket
    <2>4. Submit(n, pkt, call.flags = REQ_ACK /\ call.dest # BROADCAST_ADDR)
      BY <1>1 DEF CallSendData
    <2> QED
      BY <2>3, <2>4, SubmitWait
  <1>2. CASE CallSendUserMessage(n)
    <2> DEFINE pkt == CreateUSERMessagePacket(n, n, call.from, call.to,
                         gut[n][call.to], BROADCAST_ADDR, 0, call.flags,
                         NewID(n))
    <2>1. call \in FloodCall /\ call.call = "SendUserMessage"
      BY <1>2, CallType DEF CallSendUserMessage
    <2>2. call.from \in User /\ call.to \in User /\ call.flags \in Flags
      BY <2>1 DEF FloodCall
    <2>3. gut[n][call.to] \in Node \cup {NullID}
      BY <2>2 DEF TypeOK
    <2>4. pkt \in FloodPacket /\ pkt.PacketID = NewID(n)
      BY <2>2, <2>3, FloodUserMessage, NewIDType DEF CreateUSERMessagePacket
    <2>5. Submit(n, pkt, call.flags = REQ_ACK)
      BY <1>2 DEF CallSendUserMessage
    <2> QED
      BY <2>4, <2>5, SubmitWait
  <1> QED
    BY <1>1, <1>2

LEMMA SameWait ==
  ASSUME TypeOK, NEW n \in Node, UNCHANGED nextID \/ UseID(n),
         UNCHANGED <<pending, registering, acked, lost>>
  PROVE  WaitStep(n)
  BY NumbersGrow DEF WaitStep

LEMMA NextWait ==
  ASSUME TypeOK, [Next]_vars
  PROVE  \/ \E n \in Node : WaitStep(n)
         \/ UNCHANGED <<pending, registering, acked, lost, nextID>>
  <1>1. CASE UNCHANGED vars
    BY <1>1 DEF vars, waiting, history
  <1>2. ASSUME NEW n \in Node, NodeGoroutine(n)
        PROVE  WaitStep(n)
    <2>1. CASE Start(n) \/ Stop(n) \/ SendAck(n)
      BY <2>1, SameWait
      DEF Start, Stop, SendAck, SendDiffBroadcastInfo, waiting, history
    <2> QED
      BY <1>2, <2>1, HandlerWait DEF NodeGoroutine
  <1>3. ASSUME NEW n \in Node, TxWorker(n) \/ ForwardNow(n)
        PROVE  WaitStep(n)
    BY <1>3, SameWait
    DEF TxWorker, TakeFromQueue, Transmit, ForwardNow, waiting, history
  <1>4. ASSUME NEW n \in Node, trackIfAckRequested(n)
        PROVE  WaitStep(n)
    <2>1. \A m \in Node : nextID[m] <= nextID'[m]
      BY <1>4 DEF trackIfAckRequested, TypeOK
    <2> QED
      BY <1>4, <2>1 DEF trackIfAckRequested, history, WaitStep
  <1>5. ASSUME NEW n \in Node, CheckerTick(n)
        PROVE  WaitStep(n)
    <2>1. \A m \in Node : nextID[m] <= nextID'[m]
      BY <1>5 DEF CheckerTick, TypeOK
    <2>2. PICK due \in (SUBSET pending[n]) \ {{}} :
            LET again == {e \in due : e.Attempts < ackMaxRetrans} IN
            /\ pending' = [pending EXCEPT ![n] = AfterTick(n, due, again)]
            /\ lost' = [lost EXCEPT ![n] = @ \cup {e.MsgID : e \in due \ again}]
      BY <1>5 DEF CheckerTick
    <2> DEFINE again == {e \in due : e.Attempts < ackMaxRetrans}
    <2>3. /\ due \in SUBSET pending[n] /\ again \in SUBSET due
          /\ pending' = [pending EXCEPT ![n] = (@ \ due) \cup Counted(again)]
          /\ lost' = [lost EXCEPT ![n] = @ \cup Ids(due \ again)]
      BY <2>2 DEF AfterTick, Ids, TypeOK
    <2>4. UNCHANGED <<registering, acked>>
      BY <1>5 DEF CheckerTick
    <2> HIDE DEF again
    <2> QED
      BY <2>1, <2>3, <2>4 DEF WaitStep
  <1>6. ASSUME NEW n \in Node, CheckerRetry(n) \/ CheckerQuit(n)
        PROVE  WaitStep(n)
    BY <1>6, SameWait DEF CheckerRetry, CheckerQuit, history
  <1>7. ASSUME NEW n \in Node, Outside(n)
        PROVE  WaitStep(n)
    <2>1. CASE MoveUser(n) \/ Join(n) \/ Leave(n) \/ BroadcastTick(n)
      BY <2>1, SameWait
      DEF MoveUser, Join, Leave, BroadcastTick, SendDiffBroadcastInfo, waiting,
          history
    <2> QED
      BY <1>7, <2>1, CallWait DEF Outside
  <1> QED
    BY <1>1, <1>2, <1>3, <1>4, <1>5, <1>6, <1>7 DEF Next, PendingTxChecker

LEMMA OutcomeInit == Init => OutcomeInv
  <1> SUFFICES ASSUME Init, NEW n \in Node
               PROVE  Clean(n, nextID[n], pending[n], registering[n],
                            acked[n], lost[n])
    BY DEF OutcomeInv
  <1>1. Ids({}) = {}
    BY DEF Ids
  <1>2. /\ pending[n] = {} /\ registering[n] = {}
        /\ acked[n] = {} /\ lost[n] = {}
    BY DEF Init
  <1> QED
    BY <1>1, <1>2 DEF Clean

LEMMA OutcomeNext == TypeOK /\ TypeOK' /\ OutcomeInv /\ [Next]_vars => OutcomeInv'
  <1> SUFFICES ASSUME TypeOK, TypeOK', OutcomeInv, [Next]_vars
               PROVE  OutcomeInv'
    OBVIOUS
  <1>1. CASE UNCHANGED <<pending, registering, acked, lost, nextID>>
    BY <1>1 DEF OutcomeInv
  <1> QED
    BY <1>1, NextWait, WaitStepInv

\* In whatever order the repetition by a neighbour, the tick of the checker and
\* the entry into the table come, the wait for an acknowledgement ends once: a
\* packet is never both acknowledged and given up, nor waited for again.
THEOREM WaitEndsOnce == Spec => []OneOutcome
  <1>1. OutcomeInv => OneOutcome
    <2> SUFFICES ASSUME OutcomeInv, NEW n \in Node
                 PROVE  LET waited == {e.MsgID : e \in pending[n]
                                                        \cup registering[n]} IN
                        /\ acked[n] \cap lost[n] = {}
                        /\ (acked[n] \cup lost[n]) \cap waited = {}
      BY DEF OneOutcome
    <2>1. {e.MsgID : e \in pending[n] \cup registering[n]}
             = Ids(pending[n]) \cup Ids(registering[n])
      BY DEF Ids
    <2> QED
      BY <2>1 DEF OutcomeInv, Clean
  <1> QED
    BY <1>1, OutcomeInit, OutcomeNext, FloodTypeCorrect, PTL DEF Spec

----------------------------------------------------------------------------
(* What packets say.  A node repeats only what it has handled, and an      *)
(* announcement names users that were connected to its origin.             *)

\* User x has been connected to the node home.
Hosted(x, home) ==
    \E i \in 1 .. made : /\ calls[i].call = "AddConnectedUser"
                         /\ calls[i].node = home
                         /\ calls[i].user = x

\* The packets that node n may transmit.
Carried(n) ==
    {p \in FloodPacket :
        /\ p.PrevHopID = n
        /\ p.PacketID[1] = n \/ p.PacketID \in seenMsgIDs[n]
        /\ p.PacketType = "BROADCAST_INFO" =>
              \A x \in p.Added : Hosted(x, p.OriginNodeID)}

\* The packets that node n may hear.
Heard(n) ==
    {p \in FloodPacket : /\ p.PrevHopID \in InRange[n] \ {n}
                         /\ p \in Carried(p.PrevHopID)}

QueueInv ==
    \A n \in Node : /\ txQueue[n] \in Seq(Carried(n))
                    /\ sending[n] \in Seq(Carried(n))

ForwardInv ==
    \A n \in Node : /\ jittering[n] \subseteq Carried(n)
                    /\ replying[n] \in Seq(Carried(n))

EntryInv ==
    \A n \in Node :
        /\ retries[n] \subseteq Carried(n)
        /\ \A e \in pending[n] \cup registering[n] : e.Pkt \in Carried(n)

HeardInv == \A n \in Node : messages[n] \in Seq(Heard(n))

HomeInv ==
    \A n \in Node :
        /\ \A x \in connectedUsers[n] : Hosted(x, n)
        /\ \A x \in User : gut[n][x] # NullID => Hosted(x, gut[n][x])

PacketInv ==
    /\ QueueInv /\ ForwardInv /\ EntryInv /\ HeardInv /\ HomeInv
    /\ AckedWasHandled

----------------------------------------------------------------------------
(* Nothing that was true of a packet becomes false.                        *)

Grows ==
    /\ KeepsSeen
    /\ calls' = calls
    /\ made' \in Nat /\ made <= made'

LEMMA NextGrows ==
  ASSUME TypeOK, TypeOK', [Next]_vars
  PROVE  Grows
  <1>1. KeepsSeen
    BY NextDelivery DEF DeliveryStep, KeepsSeen
  <1>2. calls' = calls
    <2>1. CASE UNCHANGED vars
      BY SMTT(30), <2>1 DEF vars, env
    <2>2. ASSUME NEW n \in Node, NodeGoroutine(n)
          PROVE  calls' = calls
      BY <2>2 DEF NodeGoroutine, Start, SendDiffBroadcastInfo, SendAck, Stop,
         HandleMessage, HandleDuplicate, handleData, handleUserMsg,
         handleBroadcastInfo, handleAck, Receive, env
    <2>3. ASSUME NEW n \in Node,
                 \/ TxWorker(n) \/ ForwardNow(n) \/ trackIfAckRequested(n)
                 \/ PendingTxChecker(n)
          PROVE  calls' = calls
      BY <2>3 DEF TxWorker, TakeFromQueue, Transmit, ForwardNow,
         trackIfAckRequested, PendingTxChecker, CheckerTick, CheckerRetry,
         CheckerQuit, env
    <2>4. ASSUME NEW n \in Node, Outside(n)
          PROVE  calls' = calls
      BY <2>4 DEF Outside, CallSendData, CallSendUserMessage, Submit, MoveUser,
         Join, Leave, BroadcastTick, SendDiffBroadcastInfo
    <2> QED
      BY <2>1, <2>2, <2>3, <2>4 DEF Next
  <1>3. made' = made \/ made' = made + 1
    <2>1. CASE UNCHANGED vars
      BY <2>1 DEF vars, env
    <2>2. ASSUME NEW n \in Node, NodeGoroutine(n)
          PROVE  made' = made
      BY <2>2 DEF NodeGoroutine, Start, SendAck, Stop,
         HandleMessage, HandleDuplicate, handleData, handleUserMsg,
         handleBroadcastInfo, handleAck, Receive, env
    <2>3. ASSUME NEW n \in Node,
                 \/ TxWorker(n) \/ ForwardNow(n) \/ trackIfAckRequested(n)
                 \/ PendingTxChecker(n)
          PROVE  made' = made
      BY <2>3 DEF TxWorker, TakeFromQueue, Transmit, ForwardNow,
         trackIfAckRequested, PendingTxChecker, CheckerTick, CheckerRetry,
         CheckerQuit, env
    <2>4. ASSUME NEW n \in Node, Outside(n)
          PROVE  made' = made + 1
      BY <2>4 DEF Outside, CallSendData, CallSendUserMessage, MoveUser,
         Join, Leave, BroadcastTick, Make
    <2> QED
      BY <2>1, <2>2, <2>3, <2>4 DEF Next
  <1>4. made \in Nat /\ made' \in Nat
    <2>1. /\ calls \in Seq(FloodCall) /\ calls' \in Seq(FloodCall)
          /\ made \in 0 .. Len(calls) /\ made' \in 0 .. Len(calls')
      BY FloodTraffic DEF TypeOK
    <2>2. Len(calls) \in Nat /\ Len(calls') \in Nat
      BY <2>1
    <2> QED
      BY <2>1, <2>2
  <1> QED
    BY <1>1, <1>2, <1>3, <1>4 DEF Grows

LEMMA HostedGrows ==
  ASSUME TypeOK, Grows, NEW x, NEW home, Hosted(x, home)
  PROVE  Hosted(x, home)'
  <1>1. made \in Nat
    <2>1. calls \in Seq(FloodCall) /\ made \in 0 .. Len(calls)
      BY FloodTraffic DEF TypeOK
    <2> QED
      BY <2>1
  <1>2. 1 .. made \subseteq 1 .. made'
    BY <1>1 DEF Grows
  <1> QED
    BY <1>2 DEF Hosted, Grows

LEMMA CarriedGrows ==
  ASSUME TypeOK, Grows, NEW n \in Node
  PROVE  Carried(n) \subseteq Carried(n)'
  <1> SUFFICES ASSUME NEW p \in Carried(n)
               PROVE  p \in Carried(n)'
    OBVIOUS
  <1>1. seenMsgIDs[n] \subseteq seenMsgIDs'[n]
    BY DEF Grows, KeepsSeen
  <1>2. /\ p \in FloodPacket /\ p.PrevHopID = n
        /\ p.PacketID[1] = n \/ p.PacketID \in seenMsgIDs'[n]
    BY <1>1 DEF Carried
  <1>3. p.PacketType = "BROADCAST_INFO" =>
           \A x \in p.Added : Hosted(x, p.OriginNodeID)'
    BY HostedGrows DEF Carried
  <1> QED
    BY <1>2, <1>3 DEF Carried

LEMMA HeardGrows ==
  ASSUME TypeOK, Grows, NEW n \in Node
  PROVE  Heard(n) \subseteq Heard(n)'
  <1> SUFFICES ASSUME NEW p \in Heard(n)
               PROVE  p \in Heard(n)'
    OBVIOUS
  <1>1. p \in FloodPacket /\ p.PrevHopID \in InRange[n] \ {n}
    BY DEF Heard
  <1>2. p.PrevHopID \in Node
    BY <1>1, FloodHeader
  <1>3. p \in Carried(p.PrevHopID)'
    BY <1>2, CarriedGrows DEF Heard
  <1> QED
    BY <1>1, <1>3 DEF Heard

LEMMA SeqGrows ==
  ASSUME NEW S, NEW T, S \subseteq T, NEW s \in Seq(S)
  PROVE  s \in Seq(T)
  OBVIOUS

LEMMA KeptQueues ==
  ASSUME TypeOK, Grows, QueueInv, UNCHANGED <<txQueue, sending>>
  PROVE  QueueInv'
  BY CarriedGrows, SeqGrows DEF QueueInv

LEMMA KeptForwards ==
  ASSUME TypeOK, Grows, ForwardInv, UNCHANGED <<jittering, replying>>
  PROVE  ForwardInv'
  BY CarriedGrows, SeqGrows DEF ForwardInv

LEMMA KeptEntries ==
  ASSUME TypeOK, Grows, EntryInv, UNCHANGED <<retries, pending, registering>>
  PROVE  EntryInv'
  BY CarriedGrows DEF EntryInv

LEMMA KeptAir ==
  ASSUME TypeOK, Grows, HeardInv, UNCHANGED messages
  PROVE  HeardInv'
  BY HeardGrows, SeqGrows DEF HeardInv

LEMMA KeptHomes ==
  ASSUME TypeOK, Grows, HomeInv, UNCHANGED <<connectedUsers, gut>>
  PROVE  HomeInv'
  BY HostedGrows DEF HomeInv

LEMMA KeptAcks ==
  ASSUME TypeOK, Grows, AckedWasHandled, UNCHANGED acked
  PROVE  AckedWasHandled'
  <1>1. \A n \in Node : InRange[n] \subseteq Node
    BY FloodAssumption
  <1> QED
    BY <1>1 DEF AckedWasHandled, Grows, KeepsSeen

----------------------------------------------------------------------------
(* What the queues and the radio do.                                       *)

LEMMA EnqueuedCarried ==
  ASSUME TypeOK, Grows, QueueInv, NEW n \in Node, NEW pkt \in Carried(n)',
         tryEnqueue(n, pkt), UNCHANGED sending
  PROVE  QueueInv'
  <1>0. txQueue \in [Node -> Seq(FloodPacket)]
    BY DEF TypeOK
  <1>1. \A m \in Node : /\ txQueue[m] \in Seq(Carried(m)')
                        /\ sending[m] \in Seq(Carried(m)')
    BY CarriedGrows, SeqGrows DEF QueueInv
  <1>2. Append(txQueue[n], pkt) \in Seq(Carried(n)')
    BY <1>1, Queued
  <1>3. \A m \in Node : \/ txQueue'[m] = txQueue[m]
                        \/ m = n /\ txQueue'[m] = Append(txQueue[n], pkt)
    BY <1>0 DEF tryEnqueue
  <1> QED
    BY <1>1, <1>2, <1>3 DEF QueueInv

LEMMA TransmittedHeard ==
  ASSUME TypeOK, Grows, HeardInv, NEW n \in Node, NEW pkt \in Carried(n),
         BroadcastMessageCSMA(n, pkt)
  PROVE  HeardInv'
  <1>0. messages \in [Node -> Seq(FloodPacket)]
    BY DEF TypeOK
  <1>1. \A m \in Node : messages[m] \in Seq(Heard(m)')
    BY HeardGrows, SeqGrows DEF HeardInv
  <1>2. \A m \in Node : \/ messages'[m] = messages[m]
                        \/ m \in Reach(n) /\ messages'[m] = Append(messages[m], pkt)
    BY DEF BroadcastMessageCSMA
  <1>3. ASSUME NEW m \in Node, m \in Reach(n)
        PROVE  pkt \in Heard(m)'
    <2>1. pkt \in Carried(n)' /\ pkt \in FloodPacket /\ pkt.PrevHopID = n
      BY CarriedGrows DEF Carried
    <2>2. n \in InRange[m] \ {m}
      BY <1>3, FloodAssumption DEF Reach
    <2> QED
      BY <2>1, <2>2 DEF Heard
  <1>4. \A m \in Node : m \in Reach(n) => Append(messages[m], pkt) \in Seq(Heard(m)')
    BY <1>1, <1>3, Queued
  <1> QED
    BY <1>1, <1>2, <1>4 DEF HeardInv

LEMMA NewCarried ==
  ASSUME NEW n \in Node, NEW pkt \in FloodPacket,
         pkt.PrevHopID = n, pkt.PacketID = NewID(n),
         pkt.PacketType = "BROADCAST_INFO" =>
            \A x \in pkt.Added : Hosted(x, pkt.OriginNodeID)'
  PROVE  pkt \in Carried(n)'
  BY DEF Carried, NewID

----------------------------------------------------------------------------
(* The steps.                                                              *)

LEMMA SubmitPackets ==
  ASSUME TypeOK, Grows, PacketInv, NEW n \in Node, NEW pkt \in FloodPacket,
         NEW tracked, pkt.PrevHopID = n, pkt.PacketID = NewID(n),
         pkt.PacketType # "BROADCAST_INFO", Submit(n, pkt, tracked)
  PROVE  PacketInv'
  <1>1. pkt \in Carried(n)'
    BY NewCarried
  <1>2. QueueInv'
    BY <1>1, EnqueuedCarried DEF Submit, PacketInv
  <1>3. ForwardInv' /\ HeardInv' /\ HomeInv' /\ AckedWasHandled'
    BY KeptForwards, KeptAir, KeptHomes, KeptAcks
    DEF Submit, PacketInv, tables, history
  <1>4. EntryInv'
    <2>1. Entry(pkt).Pkt = pkt
      BY DEF Entry
    <2>2. registering \in [Node -> SUBSET PendingTx]
      BY DEF TypeOK
    <2>3. \A m \in Node : \/ registering'[m] = registering[m]
                          \/ /\ m = n
                             /\ registering'[m] = registering[m] \cup {Entry(pkt)}
      BY <2>2 DEF Submit
    <2> QED
      BY <1>1, <2>1, <2>3, CarriedGrows DEF Submit, PacketInv, EntryInv
  <1> QED
    BY <1>2, <1>3, <1>4 DEF PacketInv

LEMMA CallPackets ==
  ASSUME TypeOK, Grows, PacketInv, NEW n \in Node,
         CallSendData(n) \/ CallSendUserMessage(n)
  PROVE  PacketInv'
  <1> DEFINE call == calls[made + 1]
  <1>1. CASE CallSendData(n)
    <2> DEFINE pkt == CreateDataPacket(n, n, call.dest, BROADCAST_ADDR, 0,
                                       call.flags, NewID(n))
    <2>1. call \in FloodCall /\ call.call = "SendData"
      BY <1>1, CallType DEF CallSendData
    <2>2. call.dest \in Node \cup {BROADCAST_ADDR} /\ call.flags \in Flags
      BY <2>1 DEF FloodCall
    <2>3. pkt \in FloodPacket
      BY <2>2, FloodData, NewIDType
    <2>4. /\ pkt.PacketID = NewID(n) /\ pkt.PrevHopID = n
          /\ pkt.PacketType # "BROADCAST_INFO"
      BY DEF CreateDataPacket
    <2>5. Submit(n, pkt, call.flags = REQ_ACK /\ call.dest # BROADCAST_ADDR)
      BY <1>1 DEF CallSendData
    <2> HIDE DEF pkt
    <2> QED
      BY <2>3, <2>4, <2>5, SubmitPackets
  <1>2. CASE CallSendUserMessage(n)
    <2> DEFINE pkt == CreateUSERMessagePacket(n, n, call.from, call.to,
                         gut[n][call.to], BROADCAST_ADDR, 0, call.flags,
                         NewID(n))
    <2>1. call \in FloodCall /\ call.call = "SendUserMessage"
      BY <1>2, CallType DEF CallSendUserMessage
    <2>2. call.from \in User /\ call.to \in User /\ call.flags \in Flags
      BY <2>1 DEF FloodCall
    <2>3. gut[n][call.to] \in Node \cup {NullID}
      BY <2>2 DEF TypeOK
    <2>4. pkt \in FloodPacket
      BY <2>2, <2>3, FloodUserMessage, NewIDType
    <2>5. /\ pkt.PacketID = NewID(n) /\ pkt.PrevHopID = n
          /\ pkt.PacketType # "BROADCAST_INFO"
      BY DEF CreateUSERMessagePacket
    <2>6. Submit(n, pkt, call.flags = REQ_ACK)
      BY <1>2 DEF CallSendUserMessage
    <2> HIDE DEF pkt
    <2> QED
      BY <2>4, <2>5, <2>6, SubmitPackets
  <1> QED
    BY <1>1, <1>2

LEMMA AnnouncePackets ==
  ASSUME TypeOK, Grows, PacketInv, NEW n \in Node, SendDiffBroadcastInfo(n)
  PROVE  PacketInv'
  <1> DEFINE pkt == CreateDiffBroadcastInfoPacket(n, n, connectedUsers[n], {},
                                                  0, NewID(n))
  <1>1. pkt \in FloodPacket
    <2>1. connectedUsers[n] \in SUBSET User
      BY DEF TypeOK
    <2> QED
      BY <2>1, FloodInfo, NewIDType
  <1>2. \A x \in connectedUsers[n] : Hosted(x, n)'
    BY HostedGrows DEF PacketInv, HomeInv
  <1>3. /\ pkt.PacketID = NewID(n) /\ pkt.PrevHopID = n
        /\ pkt.OriginNodeID = n /\ pkt.Added = connectedUsers[n]
    BY DEF CreateDiffBroadcastInfoPacket
  <1>4. tryEnqueue(n, pkt)
    BY DEF SendDiffBroadcastInfo
  <1> HIDE DEF pkt
  <1>5. pkt \in Carried(n)'
    BY <1>1, <1>2, <1>3, NewCarried
  <1>6. QueueInv'
    BY <1>4, <1>5, EnqueuedCarried DEF SendDiffBroadcastInfo, PacketInv
  <1>7. /\ ForwardInv' /\ EntryInv' /\ HeardInv' /\ HomeInv'
        /\ AckedWasHandled'
    BY KeptForwards, KeptEntries, KeptAir, KeptHomes, KeptAcks
    DEF SendDiffBroadcastInfo, PacketInv, tables, waiting, history
  <1> QED
    BY <1>6, <1>7 DEF PacketInv

LEMMA MoveUserPackets ==
  ASSUME TypeOK, Grows, PacketInv, NEW n \in Node, MoveUser(n)
  PROVE  PacketInv'
  <1> DEFINE call == calls[made + 1]
  <1>1. /\ QueueInv' /\ ForwardInv' /\ EntryInv' /\ HeardInv'
        /\ AckedWasHandled'
    BY KeptQueues, KeptForwards, KeptEntries, KeptAir, KeptAcks
    DEF MoveUser, PacketInv, tables, waiting, radio, history
  <1>2. connectedUsers \in [Node -> SUBSET User]
    BY DEF TypeOK
  <1>3. \A m \in Node : \A x \in connectedUsers[m] : Hosted(x, m)'
    BY HostedGrows DEF PacketInv, HomeInv
  <1>4. \A m \in Node : \A x \in connectedUsers'[m] : Hosted(x, m)'
    <2>1. CASE /\ Make(n, "AddConnectedUser")
               /\ connectedUsers' = [connectedUsers EXCEPT
                                        ![n] = @ \cup {call.user}]
      <3>1. /\ made' = made + 1 /\ made + 1 \in 1 .. made + 1
            /\ call.call = "AddConnectedUser" /\ call.node = n
        BY <2>1, CallType
      <3>2. ASSUME NEW x, x = call.user
            PROVE  Hosted(x, n)'
        <4>1. calls'[made + 1].user = x
          BY <3>2 DEF Grows
        <4>2. /\ made + 1 \in 1 .. made'
              /\ calls'[made + 1].call = "AddConnectedUser"
              /\ calls'[made + 1].node = n
          BY <3>1 DEF Grows
        <4> QED
          BY <4>1, <4>2 DEF Hosted
      <3>3. \A m \in Node : \A x \in connectedUsers'[m] :
               x \in connectedUsers[m] \/ (m = n /\ x = call.user)
        BY <1>2, <2>1
      <3> QED
        BY <1>3, <3>2, <3>3
    <2>2. CASE connectedUsers' = [connectedUsers EXCEPT ![n] = @ \ {call.user}]
      BY <1>2, <1>3, <2>2
    <2> QED
      BY <2>1, <2>2 DEF MoveUser
  <1>5. \A m \in Node : \A x \in User :
           gut'[m][x] # NullID => Hosted(x, gut[m][x])' /\ gut' = gut
    BY HostedGrows DEF PacketInv, HomeInv, MoveUser, tables
  <1>6. HomeInv'
    BY <1>4, <1>5 DEF HomeInv
  <1> QED
    BY <1>1, <1>6 DEF PacketInv

LEMMA RadioPackets ==
  ASSUME TypeOK, Grows, PacketInv, NEW n \in Node, TxWorker(n) \/ ForwardNow(n)
  PROVE  PacketInv'
  <1>0. /\ txQueue \in [Node -> Seq(FloodPacket)]
        /\ sending \in [Node -> Seq(FloodPacket)]
        /\ jittering \in [Node -> SUBSET FloodPacket]
    BY DEF TypeOK
  <1>1. \A m \in Node : /\ txQueue[m] \in Seq(Carried(m)')
                        /\ sending[m] \in Seq(Carried(m)')
    BY CarriedGrows, SeqGrows DEF PacketInv, QueueInv
  <1>2. EntryInv' /\ HomeInv' /\ AckedWasHandled'
    BY KeptEntries, KeptHomes, KeptAcks
    DEF TxWorker, TakeFromQueue, Transmit, ForwardNow, PacketInv, env, tables,
        waiting, history
  <1>3. CASE TakeFromQueue(n)
    <2>1. /\ Head(txQueue[n]) \in Carried(n)'
          /\ Tail(txQueue[n]) \in Seq(Carried(n)')
      BY <1>1, <1>3, Taken DEF TakeFromQueue
    <2>2. <<Head(txQueue[n])>> \in Seq(Carried(n)')
      BY <2>1
    <2>3. \A m \in Node :
             \/ txQueue'[m] = txQueue[m] /\ sending'[m] = sending[m]
             \/ /\ m = n
                /\ txQueue'[m] = Tail(txQueue[n])
                /\ sending'[m] = <<Head(txQueue[n])>>
      BY <1>0, <1>3 DEF TakeFromQueue
    <2>4. QueueInv'
      BY <1>1, <2>1, <2>2, <2>3 DEF QueueInv
    <2>5. ForwardInv' /\ HeardInv'
      BY <1>3, KeptForwards, KeptAir DEF TakeFromQueue, PacketInv
    <2> QED
      BY <1>2, <2>4, <2>5 DEF PacketInv
  <1>4. CASE Transmit(n)
    <2>1. Head(sending[n]) \in Carried(n)
      BY <1>4, Taken DEF Transmit, PacketInv, QueueInv
    <2>2. HeardInv'
      BY <1>4, <2>1, TransmittedHeard DEF Transmit, PacketInv
    <2>3. \A m \in Node : sending'[m] = sending[m] \/ sending'[m] = <<>>
      BY <1>0, <1>4 DEF Transmit
    <2>4. QueueInv'
      <3>1. \A m \in Node : <<>> \in Seq(Carried(m)')
        OBVIOUS
      <3> QED
        BY <1>1, <1>4, <2>3, <3>1 DEF QueueInv, Transmit
    <2>5. ForwardInv'
      BY <1>4, KeptForwards DEF Transmit, PacketInv
    <2> QED
      BY <1>2, <2>2, <2>4, <2>5 DEF PacketInv
  <1>5. CASE ForwardNow(n)
    <2>1. PICK pkt \in jittering[n] :
             /\ jittering' = [jittering EXCEPT ![n] = @ \ {pkt}]
             /\ BroadcastMessageCSMA(n, pkt)
      BY <1>5 DEF ForwardNow
    <2>2. pkt \in Carried(n)
      BY DEF PacketInv, ForwardInv
    <2>3. HeardInv'
      BY <2>1, <2>2, TransmittedHeard DEF PacketInv
    <2>4. QueueInv'
      BY <1>5, KeptQueues DEF ForwardNow, PacketInv
    <2>5. ForwardInv'
      <3>1. \A m \in Node : jittering'[m] \subseteq jittering[m]
        BY <1>0, <2>1
      <3>2. \A m \in Node : /\ jittering[m] \subseteq Carried(m)'
                            /\ replying[m] \in Seq(Carried(m)')
        BY CarriedGrows, SeqGrows DEF PacketInv, ForwardInv
      <3> QED
        BY <1>5, <3>1, <3>2 DEF ForwardNow, ForwardInv
    <2> QED
      BY <1>2, <2>3, <2>4, <2>5 DEF PacketInv
  <1> QED
    BY <1>3, <1>4, <1>5 DEF TxWorker

LEMMA SendAckPackets ==
  ASSUME TypeOK, Grows, PacketInv, NEW n \in Node, SendAck(n)
  PROVE  PacketInv'
  <1>0. replying \in [Node -> Seq(FloodPacket \cap AckFormat)]
    BY DEF TypeOK
  <1>1. Head(replying[n]) \in Carried(n)
    BY Taken DEF SendAck, PacketInv, ForwardInv
  <1>2. HeardInv'
    BY <1>1, TransmittedHeard DEF SendAck, PacketInv
  <1>3. QueueInv' /\ EntryInv' /\ HomeInv' /\ AckedWasHandled'
    BY KeptQueues, KeptEntries, KeptHomes, KeptAcks
    DEF SendAck, PacketInv, env, tables, waiting
  <1>4. ForwardInv'
    <2>1. \A m \in Node : replying'[m] = replying[m] \/ replying'[m] = <<>>
      BY <1>0 DEF SendAck
    <2>2. \A m \in Node : /\ jittering[m] \subseteq Carried(m)'
                          /\ replying[m] \in Seq(Carried(m)')
                          /\ <<>> \in Seq(Carried(m)')
      BY CarriedGrows, SeqGrows DEF PacketInv, ForwardInv
    <2> QED
      BY <2>1, <2>2 DEF SendAck, ForwardInv
  <1> QED
    BY <1>2, <1>3, <1>4 DEF PacketInv

LEMMA CheckerPackets ==
  ASSUME TypeOK, Grows, PacketInv, NEW n \in Node, PendingTxChecker(n)
  PROVE  PacketInv'
  <1>0. /\ pending \in [Node -> SUBSET PendingTx]
        /\ retries \in [Node -> SUBSET FloodPacket]
    BY DEF TypeOK
  <1>1. \A m \in Node :
           /\ retries[m] \subseteq Carried(m)'
           /\ \A e \in pending[m] \cup registering[m] : e.Pkt \in Carried(m)'
    BY CarriedGrows DEF PacketInv, EntryInv
  <1>2. ForwardInv' /\ HeardInv' /\ HomeInv' /\ AckedWasHandled'
    BY KeptForwards, KeptAir, KeptHomes, KeptAcks
    DEF PendingTxChecker, CheckerTick, CheckerRetry, CheckerQuit, PacketInv,
        env, tables, radio, history
  <1>3. CASE CheckerTick(n)
    <2>1. PICK due \in (SUBSET pending[n]) \ {{}} :
            LET again == {e \in due : e.Attempts < ackMaxRetrans} IN
            /\ pending' = [pending EXCEPT ![n] = AfterTick(n, due, again)]
            /\ retries' = [retries EXCEPT ![n] = {e.Pkt : e \in again}]
      BY <1>3 DEF CheckerTick
    <2> DEFINE again == {e \in due : e.Attempts < ackMaxRetrans}
    <2>2. \A e \in again : e.Pkt \in Carried(n)'
      BY <1>1
    <2>3. \A f \in Counted(again) : f.Pkt \in Carried(n)'
      <3>1. \A e \in again : [e EXCEPT !.Attempts = @ + 1].Pkt = e.Pkt
        BY <1>0 DEF PendingTx
      <3> QED
        BY <2>2, <3>1 DEF Counted
    <2>4. \A e \in AfterTick(n, due, again) : e.Pkt \in Carried(n)'
      BY <1>1, <2>3 DEF AfterTick
    <2>5. \A m \in Node :
             \/ pending'[m] = pending[m] /\ retries'[m] = retries[m]
             \/ /\ m = n
                /\ pending'[m] = AfterTick(n, due, again)
                /\ retries'[m] = {e.Pkt : e \in again}
      BY <1>0, <2>1
    <2> HIDE DEF again
    <2>6. EntryInv'
      <3>1. {e.Pkt : e \in again} \subseteq Carried(n)'
        BY <2>2
      <3>2. \A m \in Node : retries'[m] \subseteq Carried(m)'
        BY <1>1, <2>5, <3>1
      <3>3. \A m \in Node : \A e \in pending'[m] : e.Pkt \in Carried(m)'
        BY <1>1, <2>4, <2>5
      <3>4. \A m \in Node : \A e \in registering'[m] : e.Pkt \in Carried(m)'
        BY <1>1, <1>3 DEF CheckerTick
      <3> QED
        BY <3>2, <3>3, <3>4 DEF EntryInv
    <2>7. QueueInv'
      BY <1>3, KeptQueues DEF CheckerTick, PacketInv, radio
    <2> QED
      BY <1>2, <2>6, <2>7 DEF PacketInv
  <1>4. CASE CheckerRetry(n)
    <2>1. PICK pkt \in retries[n] :
            /\ tryEnqueue(n, pkt)
            /\ retries' = [retries EXCEPT
                              ![n] = IF HasRoom(n) THEN @ \ {pkt} ELSE {}]
      BY <1>4 DEF CheckerRetry
    <2>2. QueueInv'
      BY <1>1, <1>4, <2>1, EnqueuedCarried DEF CheckerRetry, PacketInv
    <2>3. \A m \in Node : retries'[m] \subseteq retries[m]
      BY <1>0, <2>1
    <2>4. EntryInv'
      BY <1>1, <1>4, <2>3 DEF CheckerRetry, EntryInv
    <2> QED
      BY <1>2, <2>2, <2>4 DEF PacketInv
  <1>5. CASE CheckerQuit(n)
    BY <1>2, <1>5, KeptQueues, KeptEntries DEF CheckerQuit, PacketInv, radio
  <1> QED
    BY <1>3, <1>4, <1>5 DEF PendingTxChecker

LEMMA OtherPackets ==
  ASSUME TypeOK, Grows, PacketInv, NEW n \in Node,
         \/ trackIfAckRequested(n) \/ Join(n) \/ Leave(n) \/ Stop(n)
         \/ UNCHANGED vars
  PROVE  PacketInv'
  <1>1. CASE trackIfAckRequested(n)
    <2>1. /\ QueueInv' /\ ForwardInv' /\ HeardInv' /\ HomeInv'
          /\ AckedWasHandled'
      BY <1>1, KeptQueues, KeptForwards, KeptAir, KeptHomes, KeptAcks
      DEF trackIfAckRequested, PacketInv, env, tables, radio, history
    <2>2. \A m \in Node :
             pending'[m] \cup registering'[m] \subseteq
                pending[m] \cup registering[m]
      BY <1>1 DEF trackIfAckRequested, TypeOK
    <2>3. EntryInv'
      BY <1>1, <2>2, CarriedGrows DEF trackIfAckRequested, PacketInv, EntryInv
    <2> QED
      BY <2>1, <2>3 DEF PacketInv
  <1>2. CASE Join(n) \/ Leave(n) \/ Stop(n) \/ UNCHANGED vars
    BY <1>2, KeptQueues, KeptForwards, KeptEntries, KeptAir, KeptHomes, KeptAcks
    DEF Join, Leave, Stop, PacketInv, vars, env, tables, waiting, radio, history
  <1> QED
    BY <1>1, <1>2

\* What a handler has in its hands, and what it does to its node.
LEMMA HandlerEffect ==
  ASSUME TypeOK, NEW n \in Node, HandleMessage(n)
  PROVE  LET p == Head(messages[n]) IN
         /\ Receive(n, {})
         /\ p \in FloodPacket
         /\ UNCHANGED seenMsgIDs \/ markSeen(n, p)
         /\ UNCHANGED jittering \/ (floodAfterJitter(n, p) /\ markSeen(n, p))
         /\ \/ UNCHANGED replying
            \/ replying' = [replying EXCEPT ![n] =
                  <<CreateACKPacket(n, BROADCAST_ADDR, p.PacketID, NewID(n))>>]
         /\ \/ UNCHANGED gut
            \/ /\ p.PacketType = "BROADCAST_INFO"
               /\ gut' = [gut EXCEPT ![n] = [u \in User |->
                             IF u \in p.Added THEN p.OriginNodeID ELSE @[u]]]
  <1> DEFINE p == Head(messages[n])
             answered == {e \in pending[n] : p.DestNodeID = n
                                             /\ e.MsgID = p.OriginalPacketID}
  <1>1. PICK some \in SUBSET pending[n] : Receive(n, some)
    BY DEF HandleMessage, HandleDuplicate, handleData, handleUserMsg,
           handleBroadcastInfo, handleAck
  <1>2. p \in FloodPacket
    BY <1>1, ReceiveType
  <1>3. answered = {}
    BY <1>2, FloodHeader, IDsAssumption
  <1> HIDE DEF p, answered
  <1>4. Receive(n, {})
    BY <1>3 DEF HandleMessage, HandleDuplicate, handleData, handleUserMsg,
           handleBroadcastInfo, handleAck, answered, p
  <1>5. UNCHANGED seenMsgIDs \/ markSeen(n, p)
    BY DEF HandleMessage, HandleDuplicate, handleData, handleUserMsg,
           handleBroadcastInfo, handleAck, tables, p
  <1>6. UNCHANGED jittering \/ (floodAfterJitter(n, p) /\ markSeen(n, p))
    BY DEF HandleMessage, HandleDuplicate, handleData, handleUserMsg,
           handleBroadcastInfo, handleAck, DeliverHere, PassOn, p
  <1>7. \/ UNCHANGED replying
        \/ replying' = [replying EXCEPT ![n] =
              <<CreateACKPacket(n, BROADCAST_ADDR, p.PacketID, NewID(n))>>]
    BY DEF HandleMessage, HandleDuplicate, handleData, handleUserMsg,
           handleBroadcastInfo, handleAck, DeliverHere, PassOn, p
  <1>8. \/ UNCHANGED gut
        \/ /\ p.PacketType = "BROADCAST_INFO"
           /\ gut' = [gut EXCEPT ![n] = [u \in User |->
                         IF u \in p.Added THEN p.OriginNodeID ELSE @[u]]]
    BY DEF HandleMessage, HandleDuplicate, handleData, handleUserMsg,
           handleBroadcastInfo, handleAck, IsNew, tables, p
  <1> QED
    BY <1>2, <1>4, <1>5, <1>6, <1>7, <1>8 DEF p

\* What ends a wait is a neighbour that repeats the packet.
LEMMA AckedByNeighbour ==
  ASSUME TypeOK, Grows, OutcomeInv, PacketInv, NEW n \in Node, Receive(n, {})
  PROVE  AckedWasHandled'
  <1> DEFINE p == Head(messages[n])
             ended == {e \in pending[n] : e.MsgID = p.PacketID
                                          /\ p.PrevHopID # n}
  <1>1. p \in Heard(n)
    BY Taken DEF Receive, PacketInv, HeardInv
  <1>2. /\ p.PrevHopID \in InRange[n] \ {n} /\ p.PrevHopID \in Node
        /\ p.PacketID[1] = p.PrevHopID \/ p.PacketID \in seenMsgIDs[p.PrevHopID]
    BY <1>1, FloodHeader DEF Heard, Carried
  <1> HIDE DEF p
  <1>3. \A e \in ended : e.MsgID[1] = n
    BY DEF OutcomeInv, Clean, Ids
  <1>4. \A e \in ended : \E m \in InRange[n] \ {n} : e.MsgID \in seenMsgIDs'[m]
    BY <1>2, <1>3 DEF Grows, KeepsSeen
  <1>5. acked \in [Node -> SUBSET PacketID]
    BY DEF TypeOK
  <1>6. acked' = [acked EXCEPT ![n] = @ \cup {e.MsgID : e \in ended}]
    BY DEF Receive, p
  <1>7. \A m \in Node : \A id \in acked[m] :
           \E k \in InRange[m] \ {m} : id \in seenMsgIDs'[k]
    BY FloodAssumption DEF PacketInv, AckedWasHandled, Grows, KeepsSeen
  <1> HIDE DEF ended
  <1> QED
    BY <1>4, <1>5, <1>6, <1>7 DEF AckedWasHandled

LEMMA HandlerPackets ==
  ASSUME TypeOK, Grows, OutcomeInv, PacketInv, NEW n \in Node, HandleMessage(n)
  PROVE  PacketInv'
  <1> DEFINE p == Head(messages[n])
             ack == CreateACKPacket(n, BROADCAST_ADDR, p.PacketID, NewID(n))
  <1>0. /\ messages \in [Node -> Seq(FloodPacket)]
        /\ jittering \in [Node -> SUBSET FloodPacket]
        /\ replying \in [Node -> Seq(FloodPacket \cap AckFormat)]
        /\ pending \in [Node -> SUBSET PendingTx]
        /\ gut \in [Node -> [User -> Node \cup {NullID}]]
    BY DEF TypeOK
  <1>1. /\ Receive(n, {})
        /\ p \in FloodPacket
        /\ UNCHANGED jittering \/ (floodAfterJitter(n, p) /\ markSeen(n, p))
        /\ UNCHANGED replying \/ replying' = [replying EXCEPT ![n] = <<ack>>]
        /\ \/ UNCHANGED gut
           \/ /\ p.PacketType = "BROADCAST_INFO"
              /\ gut' = [gut EXCEPT ![n] = [u \in User |->
                            IF u \in p.Added THEN p.OriginNodeID ELSE @[u]]]
    BY HandlerEffect
  <1>2. p \in Heard(n) /\ Tail(messages[n]) \in Seq(Heard(n))
    BY <1>1, Taken DEF Receive, PacketInv, HeardInv
  <1>3. /\ p.PacketType = "BROADCAST_INFO" =>
              \A x \in p.Added : Hosted(x, p.OriginNodeID)
        /\ p.PacketID \in PacketID
    BY <1>2, FloodHeader DEF Heard, Carried
  <1>4. QueueInv'
    BY <1>1, KeptQueues DEF Receive, PacketInv
  <1>5. HeardInv'
    <2>1. \A m \in Node : /\ messages[m] \in Seq(Heard(m)')
                          /\ Tail(messages[n]) \in Seq(Heard(n)')
      BY <1>2, HeardGrows, SeqGrows DEF PacketInv, HeardInv
    <2>2. \A m \in Node : \/ messages'[m] = messages[m]
                          \/ m = n /\ messages'[m] = Tail(messages[n])
      BY <1>0, <1>1 DEF Receive
    <2> QED
      BY <2>1, <2>2 DEF HeardInv
  <1>6. EntryInv'
    <2>1. \A m \in Node : pending'[m] \subseteq pending[m]
      BY <1>0, <1>1 DEF Receive
    <2> QED
      BY <1>1, <2>1, CarriedGrows DEF Receive, PacketInv, EntryInv
  <1>7. AckedWasHandled'
    BY <1>1, AckedByNeighbour
  <1>8. ForwardInv'
    <2>1. \A m \in Node : /\ jittering[m] \subseteq Carried(m)'
                          /\ replying[m] \in Seq(Carried(m)')
      BY CarriedGrows, SeqGrows DEF PacketInv, ForwardInv
    <2>2. ack \in Carried(n)'
      <3>1. ack \in FloodPacket
        BY <1>3, NewIDType, FloodAck
      <3>2. /\ ack.PrevHopID = n /\ ack.PacketID = NewID(n)
            /\ ack.PacketType # "BROADCAST_INFO"
        BY DEF CreateACKPacket
      <3> HIDE DEF ack
      <3> QED
        BY <3>1, <3>2, NewCarried
    <2> HIDE DEF ack
    <2>3. <<ack>> \in Seq(Carried(n)')
      BY <2>2
    <2>4. \A m \in Node : replying'[m] \in Seq(Carried(m)')
      BY <1>0, <1>1, <2>1, <2>3
    <2>5. ASSUME floodAfterJitter(n, p), markSeen(n, p), p.HopCount < defaultTTL
          PROVE  Onward(n, p) \in Carried(n)'
      <3>1. p.PacketID \in seenMsgIDs'[n]
        BY <2>5, markSeenKeeps
      <3>2. /\ Onward(n, p) \in FloodPacket /\ Onward(n, p).PrevHopID = n
            /\ Onward(n, p).PacketID = p.PacketID
            /\ Onward(n, p).PacketType = p.PacketType
            /\ p.PacketType = "BROADCAST_INFO" =>
                  /\ Onward(n, p).OriginNodeID = p.OriginNodeID
                  /\ Onward(n, p).Added = p.Added
        BY <1>1, <2>5, OnwardPacket
      <3>3. ASSUME NEW q, q = Onward(n, p)
            PROVE  q \in Carried(n)'
        <4>1. q.PacketType = "BROADCAST_INFO" =>
                 \A x \in q.Added : Hosted(x, q.OriginNodeID)
          BY <1>3, <3>2, <3>3
        <4>2. q.PacketType = "BROADCAST_INFO" =>
                 \A x \in q.Added : Hosted(x, q.OriginNodeID)'
          BY <4>1, HostedGrows
        <4>3. q \in FloodPacket /\ q.PrevHopID = n /\ q.PacketID \in seenMsgIDs'[n]
          BY <3>1, <3>2, <3>3
        <4> QED
          BY <4>2, <4>3 DEF Carried
      <3> QED
        BY <3>3
    <2>6. \A m \in Node : jittering'[m] \subseteq Carried(m)'
      <3>1. CASE UNCHANGED jittering
        BY <2>1, <3>1
      <3>2. CASE floodAfterJitter(n, p) /\ markSeen(n, p)
        <4>1. p.HopCount >= defaultTTL \/ p.HopCount < defaultTTL
          BY <1>1, FloodHeader, FloodAssumption
        <4>2. CASE p.HopCount >= defaultTTL
          BY <2>1, <3>2, <4>2 DEF floodAfterJitter
        <4>3. CASE p.HopCount < defaultTTL
          <5>1. ~(p.HopCount >= defaultTTL)
            BY <1>1, <4>3, FloodHeader, FloodAssumption
          <5>2. jittering' = [jittering EXCEPT ![n] = @ \cup {Onward(n, p)}]
            BY <3>2, <5>1 DEF floodAfterJitter
          <5>3. Onward(n, p) \in Carried(n)'
            BY <2>5, <3>2, <4>3
          <5> HIDE DEF p
          <5> QED
            BY <1>0, <2>1, <5>2, <5>3
        <4> QED
          BY <4>1, <4>2, <4>3
      <3> QED
        BY <1>1, <3>1, <3>2
    <2> QED
      BY <2>4, <2>6 DEF ForwardInv
  <1>9. HomeInv'
    <2>1. CASE UNCHANGED gut
      BY <1>1, <2>1, KeptHomes DEF Receive, PacketInv, env
    <2>2. CASE /\ p.PacketType = "BROADCAST_INFO"
               /\ gut' = [gut EXCEPT ![n] = [u \in User |->
                             IF u \in p.Added THEN p.OriginNodeID ELSE @[u]]]
      <3>1. \A m \in Node : \A x \in connectedUsers'[m] : Hosted(x, m)'
        BY <1>1, HostedGrows DEF Receive, PacketInv, HomeInv, env
      <3>2. ASSUME NEW m \in Node, NEW x \in User, NEW home,
                   home = gut'[m][x], home # NullID
            PROVE  Hosted(x, home)'
        <4>1. CASE m = n /\ x \in p.Added
          <5>1. home = p.OriginNodeID
            BY <1>0, <2>2, <3>2, <4>1
          <5>2. Hosted(x, home)
            BY <1>3, <2>2, <4>1, <5>1
          <5> QED
            BY <5>2, HostedGrows
        <4>2. CASE ~(m = n /\ x \in p.Added)
          <5>1. home = gut[m][x]
            BY <1>0, <2>2, <3>2, <4>2
          <5>2. Hosted(x, home)
            BY <3>2, <5>1 DEF PacketInv, HomeInv
          <5> QED
            BY <5>2, HostedGrows
        <4> QED
          BY <4>1, <4>2
      <3>3. \A m \in Node : \A x \in User :
               gut'[m][x] # NullID => Hosted(x, gut[m][x])'
        BY <3>2
      <3> QED
        BY <3>1, <3>3 DEF HomeInv
    <2> QED
      BY <1>1, <2>1, <2>2
  <1> QED
    BY <1>4, <1>5, <1>6, <1>7, <1>8, <1>9 DEF PacketInv

LEMMA NextPackets ==
  ASSUME TypeOK, TypeOK', OutcomeInv, PacketInv, [Next]_vars
  PROVE  PacketInv'
  <1>0. Grows
    BY NextGrows
  <1>1. ASSUME NEW n \in Node, NodeGoroutine(n)
        PROVE  PacketInv'
    BY <1>0, <1>1, AnnouncePackets, HandlerPackets, SendAckPackets, OtherPackets
    DEF NodeGoroutine, Start
  <1>2. ASSUME NEW n \in Node, Outside(n)
        PROVE  PacketInv'
    BY <1>0, <1>2, CallPackets, MoveUserPackets, AnnouncePackets, OtherPackets
    DEF Outside, BroadcastTick
  <1>3. CASE UNCHANGED vars
    <2>1. PacketInv' = PacketInv
      BY <1>3 DEF vars, env, tables, waiting, radio, history, PacketInv,
         QueueInv, ForwardInv, EntryInv, HeardInv, HomeInv, AckedWasHandled,
         Carried, Heard, Hosted
    <2> QED
      BY <2>1
  <1> QED
    BY <1>0, <1>1, <1>2, <1>3, RadioPackets, CheckerPackets, OtherPackets
    DEF Next

LEMMA InitPackets == Init => PacketInv
  <1> SUFFICES ASSUME Init
               PROVE  PacketInv
    OBVIOUS
  <1>1. QueueInv /\ ForwardInv /\ EntryInv /\ HeardInv
    BY DEF Init, QueueInv, ForwardInv, EntryInv, HeardInv
  <1>2. HomeInv /\ AckedWasHandled
    BY DEF Init, HomeInv, AckedWasHandled
  <1> QED
    BY <1>1, <1>2 DEF PacketInv

\* The invariants together, which every behaviour keeps.
LEMMA PacketsAlways == Spec => []PacketInv
  <1>1. Init => OutcomeInv /\ PacketInv
    BY OutcomeInit, InitPackets
  <1>2. TypeOK /\ TypeOK' /\ OutcomeInv /\ PacketInv /\ [Next]_vars
           => (OutcomeInv /\ PacketInv)'
    BY OutcomeNext, NextPackets
  <1> QED
    BY <1>1, <1>2, FloodTypeCorrect, PTL DEF Spec

\* A node that takes its packet for acknowledged has a neighbour that has handled
\* the packet, on every mesh where links go both ways: an overheard repetition
\* is the only thing that ends a wait, and a node repeats only what it handled.
THEOREM AcknowledgedWasHandled == Spec => []AckedWasHandled
  <1>1. PacketInv => AckedWasHandled
    BY DEF PacketInv
  <1> QED
    BY <1>1, PacketsAlways, PTL

\* Whatever announcements are lost, late or repeated, also by stopped nodes, the
\* home that a node has for a user is one to which the user has been connected.
THEOREM HomesWereHomes == Spec => []GutSound
  <1>1. PacketInv => GutSound
    BY DEF PacketInv, HomeInv, Hosted, GutSound
  <1> QED
    BY <1>1, PacketsAlways, PTL

=============================================================================
