----------------------------- MODULE AODVProofs -----------------------------
(***************************************************************************)
(* What holds of the routers for every set of nodes and users, every       *)
(* topology and every sequence of calls.                                   *)
(***************************************************************************)
EXTENDS AODVProperties, SequenceTheorems, TLAPS

----------------------------------------------------------------------------
(* Packets                                                                 *)

LEMMA Uint8Type == ASSUME NEW k \in Nat PROVE Uint8(k) \in Nat
  BY DEF Uint8

\* What every packet has, whatever its type.
LEMMA PacketHeader ==
  ASSUME NEW p \in Packet
  PROVE  /\ p.PacketType \in PacketType
         /\ p.PacketID \in PacketID
         /\ p.DestNodeID \in Address
         /\ p.PrevHopID \in Node
         /\ p.OriginNodeID \in Address
         /\ p.HopCount \in Nat
  BY DEF Packet, PacketType, Address, DataFormat, AckFormat, RREQFormat,
         RREPFormat, RERRFormat, InfoFormat, UREQFormat, UREPFormat,
         UERRFormat, UserMessageFormat

\* A packet has the format of its type.
LEMMA PacketFormat ==
  ASSUME NEW p \in Packet
  PROVE  /\ p.PacketType = "DATA" => p \in DataFormat
         /\ p.PacketType = "ACK" => p \in AckFormat
         /\ p.PacketType = "RREQ" => p \in RREQFormat
         /\ p.PacketType = "RREP" => p \in RREPFormat
         /\ p.PacketType = "RERR" => p \in RERRFormat
         /\ p.PacketType = "BROADCAST_INFO" => p \in InfoFormat
         /\ p.PacketType = "UREQ" => p \in UREQFormat
         /\ p.PacketType = "UREP" => p \in UREPFormat
         /\ p.PacketType = "UERR" => p \in UERRFormat
         /\ p.PacketType = "USER_MSG" => p \in UserMessageFormat
  BY DEF Packet, DataFormat, AckFormat, RREQFormat,
         RREPFormat, RERRFormat, InfoFormat, UREQFormat, UREPFormat,
         UERRFormat, UserMessageFormat

LEMMA DataPacket ==
  ASSUME NEW origin \in Node, NEW src \in Node,
         NEW dest \in Node \cup {BROADCAST_ADDR}, NEW nextHop \in Address,
         NEW hops \in Nat, NEW flags \in Flags, NEW pid \in PacketID
  PROVE  CreateDataPacket(origin, src, dest, nextHop, hops, flags, pid)
            \in DataFormat
  BY Uint8Type DEF CreateDataPacket, DataFormat

LEMMA AckPacket ==
  ASSUME NEW src \in Node, NEW nextHop \in Address,
         NEW original \in PacketID, NEW pid \in PacketID
  PROVE  CreateACKPacket(src, nextHop, original, pid) \in AckFormat
  BY DEF CreateACKPacket, AckFormat, Address

LEMMA RREQPacket ==
  ASSUME NEW src \in Node, NEW dest \in Node, NEW origin \in Node,
         NEW hops \in Nat, NEW pid \in PacketID
  PROVE  CreateRREQPacket(src, dest, origin, hops, pid) \in RREQFormat
  BY Uint8Type DEF CreateRREQPacket, RREQFormat, Address

LEMMA RREPPacket ==
  ASSUME NEW src \in Node, NEW destRoute \in Node, NEW nextHop \in Address,
         NEW origin \in Node, NEW hops \in Nat, NEW rrepHops \in Nat,
         NEW pid \in PacketID
  PROVE  CreateRREPPacket(src, destRoute, nextHop, origin, hops, rrepHops, pid)
            \in RREPFormat
  BY Uint8Type DEF CreateRREPPacket, RREPFormat

LEMMA RERRPacket ==
  ASSUME NEW src \in Node, NEW nextHop \in Address, NEW broken \in Node,
         NEW originalDest \in Node, NEW original \in PacketID,
         NEW origin \in Node, NEW hops \in Nat, NEW pid \in PacketID
  PROVE  CreateRERRPacket(src, nextHop, broken, originalDest, original, origin,
                          hops, pid) \in RERRFormat
  BY Uint8Type DEF CreateRERRPacket, RERRFormat

LEMMA InfoPacket ==
  ASSUME NEW src \in Node, NEW origin \in Node, NEW added \in SUBSET User,
         NEW removed \in SUBSET User, NEW hops \in Nat, NEW pid \in PacketID
  PROVE  CreateDiffBroadcastInfoPacket(src, origin, added, removed, hops, pid)
            \in InfoFormat
  BY Uint8Type DEF CreateDiffBroadcastInfoPacket, InfoFormat, Address

LEMMA UREQPacket ==
  ASSUME NEW src \in Node, NEW origin \in Node, NEW user \in User,
         NEW hops \in Nat, NEW pid \in PacketID
  PROVE  CreateUREQPacket(src, origin, user, hops, pid) \in UREQFormat
  BY Uint8Type DEF CreateUREQPacket, UREQFormat, Address

LEMMA UREPPacket ==
  ASSUME NEW src \in Node, NEW dest \in Address, NEW origin \in Node,
         NEW home \in Node, NEW user \in User, NEW hops \in Nat,
         NEW pid \in PacketID
  PROVE  CreateUREPPacket(src, dest, origin, home, user, hops, pid)
            \in UREPFormat
  BY Uint8Type DEF CreateUREPPacket, UREPFormat

LEMMA UERRPacket ==
  ASSUME NEW src \in Node, NEW dest \in Address, NEW user \in User,
         NEW home \in Node, NEW origin \in Address,
         NEW original \in PacketID, NEW pid \in PacketID
  PROVE  CreateUERRPacket(src, dest, user, home, origin, original, pid)
            \in UERRFormat
  BY DEF CreateUERRPacket, UERRFormat

LEMMA UserMessagePacket ==
  ASSUME NEW origin \in Node, NEW src \in Node, NEW from \in User,
         NEW to \in User, NEW toNode \in Node, NEW nextHop \in Address,
         NEW hops \in Nat, NEW flags \in Flags, NEW pid \in PacketID
  PROVE  CreateUSERMessagePacket(origin, src, from, to, toNode, nextHop, hops,
                                 flags, pid) \in UserMessageFormat
  BY Uint8Type DEF CreateUSERMessagePacket, UserMessageFormat

----------------------------------------------------------------------------
(* Tables and queues                                                       *)

Table == [Node -> Route \cup {NoRoute}]

LEMMA AddedRoute ==
  ASSUME NEW table \in Table, NEW dest \in Node, NEW nextHop \in Node,
         NEW hopCount \in Nat
  PROVE  /\ maybeAddRoute(table, dest, nextHop, hopCount) \in Table
         /\ maybeAddRoute(table, dest, nextHop, hopCount)[dest] \in Route
  BY NoRouteAssumption DEF maybeAddRoute, Table, Route

LEMMA InvalidatedRoutes ==
  ASSUME NEW table \in Table, NEW broken, NEW dest, NEW sender
  PROVE  InvalidateRoutes(table, broken, dest, sender) \in Table
  BY DEF InvalidateRoutes, Table

LEMMA FreshIDType ==
  ASSUME TypeOK, NEW n \in Node, NEW k \in Nat
  PROVE  FreshID(n, k) \in PacketID
  BY DEF TypeOK, FreshID, PacketID

LEMMA EnqueueType ==
  ASSUME TypeOK, NEW n \in Node, NEW pkts \in Seq(Packet), NEW fresh \in Nat,
         Enqueue(n, pkts, fresh)
  PROVE  /\ txQueue' \in [Node -> Seq(Packet)]
         /\ nextID' \in [Node -> Nat]
  <1>1. \A m \in Node : txQueue[m] \o pkts \in Seq(Packet)
    BY DEF TypeOK
  <1> QED
    BY <1>1 DEF TypeOK, Enqueue

LEMMA EnqueueOne ==
  ASSUME TypeOK, NEW n \in Node, NEW pkt \in Packet, NEW fresh \in Nat,
         Enqueue(n, <<pkt>>, fresh)
  PROVE  /\ txQueue' \in [Node -> Seq(Packet)]
         /\ nextID' \in [Node -> Nat]
  <1>1. <<pkt>> \in Seq(Packet)
    OBVIOUS
  <1> QED
    BY <1>1, EnqueueType

LEMMA NewPendingTxType ==
  ASSUME NEW pkt \in Packet, NEW dest \in Node, NEW nextHop \in Node,
         NEW origin \in Node
  PROVE  NewPendingTx(pkt, dest, nextHop, origin) \in PendingTx
  BY PacketHeader DEF NewPendingTx, PendingTx

LEMMA RetriedType ==
  ASSUME NEW tx \in PendingTx
  PROVE  Retried(tx) \in PendingTx
  BY DEF Retried, PendingTx

----------------------------------------------------------------------------
(* Type correctness: one lemma per action                                  *)

LEMMA InitType == Init => TypeOK
  BY TrafficAssumption, EmptySeq DEF Init, TypeOK

LEMMA SendAndTrackType ==
  ASSUME TypeOK, NEW n \in Node, NEW pkt \in Packet, pkt.DestNodeID \in Node,
         NEW dest \in Node, NEW inHandler \in BOOLEAN,
         SendAndTrack(n, pkt, dest, inHandler)
  PROVE  /\ txQueue' \in [Node -> Seq(Packet)]
         /\ nextID' \in [Node -> Nat]
         /\ pendingTxs' \in [Node -> SUBSET PendingTx]
         /\ registering' \in [Node -> SUBSET PendingTx]
  <1> DEFINE tx == NewPendingTx(pkt, dest, pkt.DestNodeID, n)
  <1>1. tx \in PendingTx
    BY NewPendingTxType
  <1>2. Enqueue(n, <<pkt>>, 1)
    BY DEF SendAndTrack
  <1>3. PutPending(n, tx) \in SUBSET PendingTx
    BY <1>1 DEF PutPending, WithoutPending, TypeOK
  <1> HIDE DEF tx
  <1>4. /\ pendingTxs' \in [Node -> SUBSET PendingTx]
        /\ registering' \in [Node -> SUBSET PendingTx]
    BY <1>1, <1>3 DEF SendAndTrack, TypeOK, tx
  <1> QED
    BY <1>2, <1>4, EnqueueOne

LEMMA QueueAndRequestRouteType ==
  ASSUME TypeOK, NEW n \in Node, NEW dest \in Node,
         NEW entry \in DataQueueEntry, QueueAndRequestRoute(n, dest, entry)
  PROVE  /\ txQueue' \in [Node -> Seq(Packet)]
         /\ nextID' \in [Node -> Nat]
         /\ dataQueue' \in [Node -> [Node -> Seq(DataQueueEntry)]]
  <1>1. CreateRREQPacket(n, dest, n, 0, FreshID(n, 0)) \in Packet
    BY RREQPacket, FreshIDType DEF Packet
  <1>2. Append(dataQueue[n][dest], entry) \in Seq(DataQueueEntry)
    BY DEF TypeOK
  <1>3. dataQueue' \in [Node -> [Node -> Seq(DataQueueEntry)]]
    BY <1>2 DEF TypeOK, QueueAndRequestRoute
  <1> QED
    BY <1>1, <1>3, EnqueueOne DEF QueueAndRequestRoute

\* The variables that a send changes.
SendState ==
    /\ txQueue \in [Node -> Seq(Packet)]
    /\ nextID \in [Node -> Nat]
    /\ seenMsgIDs \in [Node -> SUBSET PacketID]
    /\ dataQueue \in [Node -> [Node -> Seq(DataQueueEntry)]]
    /\ userMessageQueue \in [Node -> [User -> Seq(QueuedUserMessage)]]
    /\ pendingTxs \in [Node -> SUBSET PendingTx]
    /\ registering \in [Node -> SUBSET PendingTx]

LEMMA SendDataType ==
  ASSUME TypeOK, NEW n \in Node, NEW dest \in Node \cup {BROADCAST_ADDR},
         NEW flags \in Flags, NEW inHandler \in BOOLEAN,
         SendData(n, dest, flags, inHandler)
  PROVE  SendState'
  <1> DEFINE Broadcast == CreateDataPacket(n, n, dest, BROADCAST_ADDR, 0, flags,
                                           FreshID(n, 0))
             Unicast == CreateDataPacket(n, n, dest,
                            RouteTable[n][dest].NextHop, 0, flags,
                            FreshID(n, 0))
             entry == [packetType |-> "DATA", flags |-> flags]
  <1> HIDE DEF Broadcast, Unicast, entry
  <1>0. FreshID(n, 0) \in PacketID /\ SendState /\ brokenNodes[n] \subseteq Node
    BY FreshIDType DEF SendState, TypeOK
  <1>1. CASE dest = BROADCAST_ADDR
    <2>1. Broadcast \in Packet
      BY <1>0, DataPacket DEF Packet, Address, Broadcast
    <2>2. /\ Enqueue(n, <<Broadcast>>, 1)
          /\ seenMsgIDs' = [seenMsgIDs EXCEPT ![n] = @ \cup {FreshID(n, 0)}]
          /\ UNCHANGED <<dataQueue, userMessageQueue, pendingTxs, registering>>
      BY <1>0, <1>1, IDsAssumption DEF SendData, Broadcast
    <2> QED
      BY <1>0, <2>1, <2>2, EnqueueOne DEF SendState
  <1>2. CASE dest \in brokenNodes[n]
    BY <1>0, <1>2, IDsAssumption DEF SendData, SendState, out
  <1>3. CASE dest \in Node \ brokenNodes[n] /\ ~HasRoute(n, dest)
    <2>1. entry \in DataQueueEntry
      BY DEF DataQueueEntry, entry
    <2>2. /\ QueueAndRequestRoute(n, dest, entry)
          /\ UNCHANGED <<userMessageQueue, seenMsgIDs, pendingTxs, registering>>
      BY <1>3, IDsAssumption DEF SendData, entry
    <2> QED
      BY <1>0, <1>3, <2>1, <2>2, QueueAndRequestRouteType DEF SendState
  <1>4. CASE dest \in Node \ brokenNodes[n] /\ HasRoute(n, dest)
    <2>1. RouteTable[n][dest].NextHop \in Node
      BY <1>4 DEF HasRoute, TypeOK, Route
    <2>2. Unicast \in Packet /\ Unicast.DestNodeID \in Node
      BY <1>0, <2>1, DataPacket
      DEF Packet, Address, CreateDataPacket, Unicast
    <2>3. /\ SendAndTrack(n, Unicast, dest, inHandler)
          /\ UNCHANGED <<userMessageQueue, dataQueue, seenMsgIDs>>
      BY <1>4, IDsAssumption DEF SendData, Unicast
    <2>4. /\ txQueue' \in [Node -> Seq(Packet)]
          /\ nextID' \in [Node -> Nat]
          /\ pendingTxs' \in [Node -> SUBSET PendingTx]
          /\ registering' \in [Node -> SUBSET PendingTx]
      BY <1>4, <2>2, <2>3, SendAndTrackType
    <2> QED
      BY <1>0, <2>3, <2>4 DEF SendState
  <1> QED
    BY <1>0, <1>1, <1>2, <1>3, <1>4

LEMMA SendUserMessageType ==
  ASSUME TypeOK, NEW n \in Node, NEW from \in User, NEW to \in User,
         NEW flags \in Flags, NEW inHandler \in BOOLEAN,
         SendUserMessage(n, from, to, flags, inHandler)
  PROVE  SendState'
  <1> DEFINE home == gut[n][to]
             request == CreateUREQPacket(n, n, to, 0, FreshID(n, 0))
             queued == [from |-> from, flags |-> flags]
             entry == [packetType |-> "USER_MSG", from |-> from, to |-> to,
                       flags |-> flags]
             message == CreateUSERMessagePacket(n, n, from, to, home,
                            RouteTable[n][home].NextHop, 0, flags,
                            FreshID(n, 0))
  <1> HIDE DEF home, request, queued, entry, message
  <1>h. gut \in [Node -> [User -> Node \cup {NullID}]]
    BY DEF TypeOK
  <1>f. /\ FreshID(n, 0) \in PacketID
        /\ SendState
        /\ brokenNodes[n] \subseteq Node
    BY FreshIDType DEF TypeOK, SendState
  <1>0. /\ FreshID(n, 0) \in PacketID
        /\ SendState
        /\ brokenNodes[n] \subseteq Node
        /\ home \in Node \cup {NullID}
    BY <1>h, <1>f DEF home
  <1>1. CASE home \in brokenNodes[n]
    BY ZenonT(30), <1>0, <1>1, IDsAssumption
    DEF SendUserMessage, SendState, queues, out, home
  <1>2. CASE home = NullID
    <2>1. request \in Packet
      BY <1>0, UREQPacket DEF Packet, request
    <2>q. userMessageQueue[n][to] \in Seq(QueuedUserMessage)
      BY <1>0 DEF SendState
    <2>2. Append(userMessageQueue[n][to], queued) \in Seq(QueuedUserMessage)
      BY <2>q DEF QueuedUserMessage, queued
    <2>3. /\ Enqueue(n, <<request>>, 1)
          /\ userMessageQueue' = [userMessageQueue EXCEPT
                 ![n][to] = Append(@, queued)]
          /\ UNCHANGED <<seenMsgIDs, dataQueue, pendingTxs, registering>>
      BY <1>0, <1>2, IDsAssumption
      DEF SendUserMessage, home, request, queued
    <2>4. userMessageQueue' \in [Node -> [User -> Seq(QueuedUserMessage)]]
      BY <1>0, <2>2, <2>3 DEF SendState
    <2> QED
      BY <1>0, <2>1, <2>3, <2>4, EnqueueOne DEF SendState
  <1>3. CASE home \in Node \ brokenNodes[n] /\ ~HasRoute(n, home)
    <2>1. entry \in DataQueueEntry
      BY DEF DataQueueEntry, entry
    <2>2. /\ QueueAndRequestRoute(n, home, entry)
          /\ UNCHANGED <<seenMsgIDs, userMessageQueue, pendingTxs, registering>>
      BY <1>3, IDsAssumption DEF SendUserMessage, home, entry
    <2> QED
      BY <1>0, <1>3, <2>1, <2>2, QueueAndRequestRouteType DEF SendState
  <1>4. CASE home \in Node \ brokenNodes[n] /\ HasRoute(n, home)
    <2>1. RouteTable[n][home].NextHop \in Node
      BY <1>4 DEF HasRoute, TypeOK, Route
    <2>2. message \in Packet /\ message.DestNodeID \in Node
      BY <1>0, <1>4, <2>1, UserMessagePacket
      DEF Packet, Address, CreateUSERMessagePacket, message
    <2>3. /\ SendAndTrack(n, message, home, inHandler)
          /\ UNCHANGED <<seenMsgIDs, userMessageQueue, dataQueue>>
      BY <1>4, IDsAssumption DEF SendUserMessage, queues, home, message
    <2>4. /\ txQueue' \in [Node -> Seq(Packet)]
          /\ nextID' \in [Node -> Nat]
          /\ pendingTxs' \in [Node -> SUBSET PendingTx]
          /\ registering' \in [Node -> SUBSET PendingTx]
      BY <1>4, <2>2, <2>3, SendAndTrackType
    <2> QED
      BY <1>0, <2>3, <2>4 DEF SendState
  <1> QED
    BY <1>0, <1>1, <1>2, <1>3, <1>4

\* A call: which one it is, and what is left alone.
LEMMA MadeCall ==
  ASSUME TypeOK, NEW n \in Node, NEW call, Make(n, call)
  PROVE  /\ made' \in 0 .. Len(calls')
         /\ calls' \in Traffic
         /\ made + 1 \in 1 .. Len(calls)
         /\ calls[made + 1] \in DataCall \cup UserCall \cup UserMove \cup Departure
         /\ calls[made + 1].call = call
  <1>1. calls \in Seq(DataCall \cup UserCall \cup UserMove \cup Departure)
    BY TrafficAssumption DEF TypeOK
  <1>2. made \in 0 .. Len(calls) /\ calls \in Traffic
    BY DEF TypeOK
  <1>3. made' = made + 1 /\ calls' = calls /\ made < Len(calls)
    BY DEF Make
  <1>4. Len(calls) \in Nat
    BY <1>1
  <1>5. made + 1 \in 1 .. Len(calls)
    BY <1>2, <1>3, <1>4
  <1>6. calls[made + 1] \in DataCall \cup UserCall \cup UserMove \cup Departure
    BY <1>1, <1>5, ElementOfSeq
  <1> QED
    BY <1>2, <1>3, <1>5, <1>6 DEF Make

LEMMA CallSendDataType ==
  ASSUME TypeOK, NEW n \in Node, CallSendData(n)
  PROVE  TypeOK'
  <1>1. Make(n, "SendData")
    BY DEF CallSendData
  <1>2. calls[made + 1] \in DataCall
    BY <1>1, MadeCall DEF DataCall, UserCall, UserMove, Departure
  <1>3. SendData(n, calls[made + 1].dest, calls[made + 1].flags, FALSE)
    BY DEF CallSendData
  <1>4. SendState'
    BY <1>2, <1>3, SendDataType DEF DataCall
  <1>5. made' \in 0 .. Len(calls') /\ calls' \in Traffic
    BY <1>1, MadeCall
  <1> QED
    BY <1>4, <1>5
    DEF TypeOK, SendState, CallSendData, shadow, checker, history

LEMMA CallSendUserMessageType ==
  ASSUME TypeOK, NEW n \in Node, CallSendUserMessage(n)
  PROVE  TypeOK'
  <1>1. Make(n, "SendUserMessage")
    BY DEF CallSendUserMessage
  <1>2. calls[made + 1] \in UserCall
    BY <1>1, MadeCall DEF DataCall, UserCall, UserMove, Departure
  <1>3. SendUserMessage(n, calls[made + 1].from, calls[made + 1].to,
                        calls[made + 1].flags, FALSE)
    BY DEF CallSendUserMessage
  <1>4. SendState'
    BY <1>2, <1>3, SendUserMessageType DEF UserCall
  <1>5. made' \in 0 .. Len(calls') /\ calls' \in Traffic
    BY <1>1, MadeCall
  <1> QED
    BY <1>4, <1>5
    DEF TypeOK, SendState, CallSendUserMessage, shadow, checker, history

LEMMA RegisterPendingType ==
  ASSUME TypeOK, NEW n \in Node, RegisterPending(n)
  PROVE  TypeOK'
  <1>1. PICK tx \in registering[n] :
           /\ registering' = [registering EXCEPT ![n] = @ \ {tx}]
           /\ pendingTxs' = [pendingTxs EXCEPT ![n] = PutPending(n, tx)]
    BY DEF RegisterPending
  <1>2. /\ pendingTxs \in [Node -> SUBSET PendingTx]
        /\ registering \in [Node -> SUBSET PendingTx]
    BY DEF TypeOK
  <1>3. PutPending(n, tx) \in SUBSET PendingTx
    BY <1>2 DEF PutPending, WithoutPending
  <1>4. /\ pendingTxs' \in [Node -> SUBSET PendingTx]
        /\ registering' \in [Node -> SUBSET PendingTx]
    BY <1>1, <1>2, <1>3
  <1> QED
    BY <1>4 DEF TypeOK, RegisterPending, env, queues, shadow, out, checker,
       history

LEMMA MoveUserType ==
  ASSUME TypeOK, NEW n \in Node, MoveUser(n)
  PROVE  TypeOK'
  <1>1. PICK call \in {"AddConnectedUser", "RemoveConnectedUser"} :
           Make(n, call)
    BY DEF MoveUser
  <1>2. /\ calls[made + 1].user \in User
        /\ made' \in 0 .. Len(calls') /\ calls' \in Traffic
    BY <1>1, MadeCall DEF DataCall, UserCall, UserMove, Departure
  <1>3. connectedUsers \in [Node -> SUBSET User]
    BY DEF TypeOK
  <1>4. connectedUsers' \in [Node -> SUBSET User]
    BY <1>2, <1>3 DEF MoveUser
  <1> QED
    BY <1>2, <1>4 DEF TypeOK, MoveUser, queues, shadow, out, checker, history

LEMMA LeaveType ==
  ASSUME TypeOK, NEW n \in Node, Leave(n)
  PROVE  TypeOK'
  <1>1. made' \in 0 .. Len(calls') /\ calls' \in Traffic
    BY MadeCall DEF Leave
  <1> QED
    BY <1>1 DEF TypeOK, Leave, queues, shadow, out, checker, history

LEMMA StopType ==
  ASSUME TypeOK, NEW n \in Node, Stop(n)
  PROVE  TypeOK'
  BY DEF TypeOK, Stop, queues, shadow, out, checker, history

\* The variables that an announcement changes.
AnnounceState ==
    /\ txQueue \in [Node -> Seq(Packet)]
    /\ nextID \in [Node -> Nat]
    /\ lastUsersShadow \in [Node -> SUBSET User]
    /\ shadowMuHeld \in [Node -> BOOLEAN]

LEMMA SendDiffBroadcastInfoType ==
  ASSUME TypeOK, NEW n \in Node, SendDiffBroadcastInfo(n)
  PROVE  AnnounceState'
  <1> DEFINE added == connectedUsers[n] \ lastUsersShadow[n]
             removed == lastUsersShadow[n] \ connectedUsers[n]
             info == CreateDiffBroadcastInfoPacket(n, n, added, removed, 0,
                                                   FreshID(n, 0))
  <1>0. AnnounceState /\ connectedUsers \in [Node -> SUBSET User]
    BY DEF TypeOK, AnnounceState
  <1>1. info \in Packet
    BY <1>0, FreshIDType, InfoPacket DEF Packet, AnnounceState
  <1> HIDE DEF info
  <1>2. CASE added = {} /\ removed = {}
    BY <1>0, <1>2 DEF SendDiffBroadcastInfo, AnnounceState, out
  <1>3. CASE ~(added = {} /\ removed = {})
    <2>1. Enqueue(n, <<info>>, 1)
      BY <1>3 DEF SendDiffBroadcastInfo, info
    <2>2. txQueue' \in [Node -> Seq(Packet)] /\ nextID' \in [Node -> Nat]
      BY <1>1, <2>1, EnqueueOne
    <2> QED
      BY <1>0, <1>3, <2>2 DEF SendDiffBroadcastInfo, AnnounceState
  <1> QED
    BY <1>2, <1>3

LEMMA StartType ==
  ASSUME TypeOK, NEW n \in Node, Start(n)
  PROVE  TypeOK'
  <1>1. AnnounceState'
    BY SendDiffBroadcastInfoType DEF Start
  <1> QED
    BY <1>1 DEF AnnounceState, TypeOK, Start, queues, checker, history

LEMMA BroadcastTickType ==
  ASSUME TypeOK, NEW n \in Node, BroadcastTick(n)
  PROVE  TypeOK'
  <1>1. AnnounceState'
    BY SendDiffBroadcastInfoType DEF BroadcastTick
  <1> QED
    BY <1>1 DEF AnnounceState, TypeOK, BroadcastTick, env, queues, checker,
       history

LEMMA TransmitType ==
  ASSUME TypeOK, NEW n \in Node, Transmit(n)
  PROVE  TypeOK'
  <1>0. /\ txQueue \in [Node -> Seq(Packet)]
        /\ messages \in [Node -> Seq(Packet)]
        /\ txQueue[n] # <<>>
    BY DEF TypeOK, Transmit
  <1>1. Head(txQueue[n]) \in Packet /\ Tail(txQueue[n]) \in Seq(Packet)
    BY <1>0
  <1>2. txQueue' \in [Node -> Seq(Packet)]
    BY <1>0, <1>1 DEF Transmit
  <1>3. \A m \in Node : Append(messages[m], Head(txQueue[n])) \in Seq(Packet)
    BY <1>0, <1>1
  <1>4. messages' \in [Node -> Seq(Packet)]
    BY <1>0, <1>3 DEF Transmit
  <1> QED
    BY <1>2, <1>4 DEF TypeOK, Transmit, env, queues, shadow, checker, history

(* What every handler does first.                                          *)

LEMMA Received ==
  ASSUME TypeOK, NEW n \in Node, NEW type, Receive(n, type)
  PROVE  /\ Head(messages[n]) \in Packet
         /\ Head(messages[n]).PacketType = type
         /\ messages' \in [Node -> Seq(Packet)]
  <1>0. messages \in [Node -> Seq(Packet)] /\ messages[n] # <<>>
    BY DEF TypeOK, Receive
  <1>1. Head(messages[n]) \in Packet /\ Tail(messages[n]) \in Seq(Packet)
    BY <1>0
  <1> QED
    BY <1>0, <1>1 DEF Receive

LEMMA UnblacklistType ==
  ASSUME TypeOK, NEW n \in Node, NEW p, Unblacklist(n, p)
  PROVE  brokenNodes' \in [Node -> SUBSET Node]
  <1>0. brokenNodes \in [Node -> SUBSET Node]
    BY DEF TypeOK
  <1> QED
    BY <1>0 DEF Unblacklist, unmarkBroken

LEMMA addSeenPacketType ==
  ASSUME TypeOK, NEW n \in Node, NEW p \in Packet, addSeenPacket(n, p)
  PROVE  seenMsgIDs' \in [Node -> SUBSET PacketID]
  <1>0. seenMsgIDs \in [Node -> SUBSET PacketID] /\ p.PacketID \in PacketID
    BY PacketHeader DEF TypeOK
  <1> QED
    BY <1>0 DEF addSeenPacket

LEMMA SetRoutesType ==
  ASSUME TypeOK, NEW n \in Node, NEW table \in Table, SetRoutes(n, table)
  PROVE  RouteTable' \in [Node -> Table]
  <1>0. RouteTable \in [Node -> Table]
    BY DEF TypeOK, Table
  <1> QED
    BY <1>0 DEF SetRoutes

\* The variables that the handlers of a packet that is new to n change.
HandlerState ==
    /\ txQueue \in [Node -> Seq(Packet)]
    /\ nextID \in [Node -> Nat]
    /\ seenMsgIDs \in [Node -> SUBSET PacketID]
    /\ RouteTable \in [Node -> Table]

LEMMA HandlerStateType == TypeOK => HandlerState
  BY DEF TypeOK, HandlerState, Table

LEMMA InfoRoutesType ==
  ASSUME TypeOK, NEW n \in Node, NEW p \in InfoFormat
  PROVE  InfoRoutes(n, p) \in Table
  <1>0. RouteTable[n] \in Table
    BY DEF TypeOK, Table
  <1>1. /\ p.PrevHopID \in Node /\ p.OriginNodeID \in Node
        /\ p.HopCount + 1 \in Nat
    BY DEF InfoFormat
  <1> DEFINE direct == AddDirectNeighbor(RouteTable[n], p.PrevHopID)
  <1>2. direct \in Table
    BY <1>0, <1>1, AddedRoute DEF AddDirectNeighbor
  <1> HIDE DEF direct
  <1>3. maybeAddRoute(direct, p.OriginNodeID, p.PrevHopID, p.HopCount + 1)
          \in Table
    BY <1>1, <1>2, AddedRoute
  <1> QED
    BY <1>2, <1>3 DEF InfoRoutes, direct

LEMMA HandleBroadcastInfoType ==
  ASSUME TypeOK, NEW n \in Node, HandleBroadcastInfo(n)
  PROVE  TypeOK'
  <1> DEFINE p == Head(messages[n])
             copy == CreateDiffBroadcastInfoPacket(n, p.OriginNodeID, p.Added,
                         p.Removed, p.HopCount + 1, p.PacketID)
  <1> HIDE DEF p, copy
  <1>1. /\ p \in Packet /\ p \in InfoFormat
        /\ messages' \in [Node -> Seq(Packet)]
    BY Received, PacketFormat DEF HandleBroadcastInfo, p
  <1>2. brokenNodes' \in [Node -> SUBSET Node]
    BY UnblacklistType DEF HandleBroadcastInfo
  <1>3. /\ gut \in [Node -> [User -> Node \cup {NullID}]]
        /\ HandlerState
    BY HandlerStateType DEF TypeOK
  <1>4. HandlerState' /\ gut' \in [Node -> [User -> Node \cup {NullID}]]
    <2>1. CASE Seen(n, p)
      BY <1>3, <2>1 DEF HandleBroadcastInfo, HandlerState, out, p
    <2>2. CASE ~Seen(n, p)
      <3>1. /\ addSeenPacket(n, p)
            /\ SetRoutes(n, InfoRoutes(n, p))
            /\ gut' = [gut EXCEPT ![n] = InfoUsers(n, p)]
            /\ Enqueue(n, <<copy>>, 0) \/ UNCHANGED out
        BY <2>2 DEF HandleBroadcastInfo, p, copy
      <3>2. InfoUsers(n, p) \in [User -> Node \cup {NullID}]
        BY <1>1, <1>3 DEF InfoUsers, InfoFormat
      <3>3. gut' \in [Node -> [User -> Node \cup {NullID}]]
        BY <1>3, <3>1, <3>2
      <3>4. copy \in Packet
        <4>1. /\ p.OriginNodeID \in Node /\ p.Added \in SUBSET User
              /\ p.Removed \in SUBSET User /\ p.HopCount + 1 \in Nat
              /\ p.PacketID \in PacketID
          BY <1>1 DEF InfoFormat
        <4> QED
          BY <4>1, InfoPacket DEF Packet, copy
      <3>5. txQueue' \in [Node -> Seq(Packet)] /\ nextID' \in [Node -> Nat]
        BY SMTT(30), <1>3, <3>1, <3>4, EnqueueOne DEF HandlerState, out
      <3> QED
        BY <1>1, <3>1, <3>3, <3>5, addSeenPacketType, SetRoutesType,
           InfoRoutesType DEF HandlerState
    <2> QED
      BY <2>1, <2>2
  <1> QED
    BY <1>1, <1>2, <1>4
    DEF TypeOK, HandlerState, Table, HandleBroadcastInfo, HandlerFrame, env,
        queues, shadow, checker, history

LEMMA HandleRREQType ==
  ASSUME TypeOK, NEW n \in Node, HandleRREQ(n)
  PROVE  TypeOK'
  <1> DEFINE p == Head(messages[n])
             dest == p.RREQDestNodeID
             table == maybeAddRoute(RouteTable[n], p.OriginNodeID, p.PrevHopID,
                                    p.HopCount + 1)
             copy == CreateRREQPacket(n, dest, p.OriginNodeID, p.HopCount + 1,
                                      p.PacketID)
             reply(hops) == RREPOf(n, table, dest, p.OriginNodeID, hops)
  <1> HIDE DEF p, dest, table, copy, reply
  <1>1. /\ p \in Packet /\ p \in RREQFormat
        /\ messages' \in [Node -> Seq(Packet)]
    BY Zenon, Received, PacketFormat DEF HandleRREQ, p
  <1>2. brokenNodes' \in [Node -> SUBSET Node]
    BY UnblacklistType DEF HandleRREQ
  <1>3. HandlerState
    BY HandlerStateType
  <1>4. /\ p.OriginNodeID \in Node /\ p.PrevHopID \in Node /\ dest \in Node
        /\ p.HopCount + 1 \in Nat /\ p.PacketID \in PacketID
    BY <1>1 DEF RREQFormat, dest
  <1>5. table \in Table /\ table[p.OriginNodeID] \in Route
    <2>1. RouteTable[n] \in Table
      BY <1>3 DEF HandlerState
    <2> QED
      BY <1>4, <2>1, AddedRoute DEF table
  <1>6. ASSUME NEW hops \in Nat
        PROVE  reply(hops) \in Packet
    <2>1. table[p.OriginNodeID].NextHop \in Node /\ hops \in Nat
      BY <1>5, <1>6 DEF Route
    <2> QED
      BY <1>4, <2>1, FreshIDType, RREPPacket
      DEF reply, RREPOf, Packet, Address
  <1>7. HandlerState'
    <2>1. CASE Seen(n, p)
      BY <1>3, <2>1 DEF HandleRREQ, HandlerState, out, p
    <2>2. CASE ~Seen(n, p)
      <3>1. /\ addSeenPacket(n, p)
            /\ SetRoutes(n, table)
            /\ \/ Enqueue(n, <<reply(0)>>, 1)
               \/ /\ table[dest] # NoRoute
                  /\ Enqueue(n, <<reply(table[dest].HopCount)>>, 1)
               \/ Enqueue(n, <<copy>>, 0)
               \/ UNCHANGED out
        BY <2>2 DEF HandleRREQ, p, dest, table, copy, reply
      <3>2. copy \in Packet
        BY <1>4, RREQPacket DEF Packet, copy
      <3>3. table[dest] # NoRoute => table[dest].HopCount \in Nat
        BY <1>4, <1>5 DEF Table, Route
      <3>4. txQueue' \in [Node -> Seq(Packet)] /\ nextID' \in [Node -> Nat]
        BY <1>3, <1>6, <3>1, <3>2, <3>3, EnqueueOne DEF HandlerState, out
      <3> QED
        BY SMTT(30), <1>1, <1>5, <3>1, <3>4, addSeenPacketType, SetRoutesType
        DEF HandlerState
    <2> QED
      BY <2>1, <2>2
  <1> QED
    BY Zenon, <1>1, <1>2, <1>7
    DEF TypeOK, HandlerState, Table, HandleRREQ, HandlerFrame, env, queues,
        shadow, checker, history

LEMMA FlushOfType ==
  ASSUME TypeOK, NEW n \in Node, NEW dest \in Node
  PROVE  FlushOf(n, dest) \in Seq(QueuedSend)
  <1>1. dataQueue[n][dest] \in Seq(DataQueueEntry)
    BY DEF TypeOK
  <1> DEFINE q == dataQueue[n][dest]
             send(e) == IF e.packetType = "DATA"
                        THEN [packetType |-> "DATA", dest |-> dest,
                              flags |-> e.flags]
                        ELSE e
  <1>2. DOMAIN q = 1 .. Len(q) /\ Len(q) \in Nat
    BY <1>1
  <1>3. \A e \in DataQueueEntry : send(e) \in QueuedSend
    BY DEF DataQueueEntry, QueuedSend
  <1>4. \A i \in 1 .. Len(q) : q[i] \in DataQueueEntry
    BY <1>1, ElementOfSeq
  <1>5. FlushOf(n, dest) = [i \in 1 .. Len(q) |-> send(q[i])]
    BY <1>2 DEF FlushOf
  <1> HIDE DEF q, send
  <1>6. [i \in 1 .. Len(q) |-> send(q[i])] \in [1 .. Len(q) -> QueuedSend]
    BY <1>3, <1>4
  <1> QED
    BY <1>2, <1>5, <1>6, SeqDef

LEMMA HandleRREPType ==
  ASSUME TypeOK, NEW n \in Node, HandleRREP(n)
  PROVE  TypeOK'
  <1> DEFINE p == Head(messages[n])
             dest == p.RREPDestNodeID
             first == maybeAddRoute(RouteTable[n], dest, p.PrevHopID,
                                    p.NumHops + 1)
             table == maybeAddRoute(first, p.PrevHopID, p.PrevHopID, 1)
             copy == CreateRREPPacket(n, dest, table[dest].NextHop,
                         p.OriginNodeID, p.HopCount + 1, p.NumHops + 1,
                         p.PacketID)
  <1> HIDE DEF p, dest, first, table, copy
  <1>1. /\ p \in Packet /\ p \in RREPFormat
        /\ messages' \in [Node -> Seq(Packet)]
    BY Received, PacketFormat DEF HandleRREP, p
  <1>2. brokenNodes' \in [Node -> SUBSET Node]
    BY UnblacklistType DEF HandleRREP
  <1>3. /\ HandlerState
        /\ dataQueue \in [Node -> [Node -> Seq(DataQueueEntry)]]
        /\ flushing \in [Node -> Seq(QueuedSend)]
    BY HandlerStateType DEF TypeOK
  <1>4. /\ p.OriginNodeID \in Node /\ p.PrevHopID \in Node /\ dest \in Node
        /\ p.HopCount + 1 \in Nat /\ p.NumHops + 1 \in Nat
        /\ p.PacketID \in PacketID
    BY <1>1 DEF RREPFormat, dest
  <1>5. table \in Table /\ table[dest] \in Route
    <2>1. RouteTable[n] \in Table
      BY <1>3 DEF HandlerState
    <2>2. first \in Table /\ first[dest] \in Route
      BY <1>4, <2>1, AddedRoute DEF first
    <2>3. table \in Table
      BY <1>4, <2>2, AddedRoute DEF table
    <2>4. table[dest] # NoRoute
      BY <1>4, <2>2, NoRouteAssumption DEF table, maybeAddRoute, Table, Route
    <2> QED
      BY <1>4, <2>3, <2>4 DEF Table
  <1>6. copy \in Packet
    BY <1>4, <1>5, RREPPacket DEF copy, Packet, Route, Address
  <1>7. /\ HandlerState'
        /\ dataQueue' \in [Node -> [Node -> Seq(DataQueueEntry)]]
        /\ flushing' \in [Node -> Seq(QueuedSend)]
    <2>1. CASE p.DestNodeID # n \/ Seen(n, p)
      BY <1>3, <2>1 DEF HandleRREP, HandlerState, out, p
    <2>2. CASE p.DestNodeID = n /\ ~Seen(n, p)
      <3>1. /\ addSeenPacket(n, p)
            /\ SetRoutes(n, table)
        BY <2>2 DEF HandleRREP, p, dest, first, table
      <3>2. CASE n = dest
        <4>1. /\ flushing' = [flushing EXCEPT ![n] = FlushOf(n, p.OriginNodeID)]
              /\ dataQueue' = [dataQueue EXCEPT ![n][p.OriginNodeID] = <<>>]
              /\ UNCHANGED out
          BY <2>2, <3>2 DEF HandleRREP, p, dest
        <4>2. FlushOf(n, p.OriginNodeID) \in Seq(QueuedSend)
          BY <1>4, FlushOfType
        <4>3. flushing' \in [Node -> Seq(QueuedSend)]
          BY <1>3, <4>1, <4>2
        <4>e. <<>> \in Seq(DataQueueEntry)
          OBVIOUS
        <4>4. dataQueue' \in [Node -> [Node -> Seq(DataQueueEntry)]]
          BY <1>3, <1>4, <4>1, <4>e
        <4> QED
          BY <1>1, <1>3, <1>5, <3>1, <4>1, <4>3, <4>4, addSeenPacketType,
             SetRoutesType DEF HandlerState, out
      <3>3. CASE n # dest
        <4>1. Enqueue(n, <<copy>>, 0) /\ UNCHANGED <<dataQueue, flushing>>
          BY <2>2, <3>3 DEF HandleRREP, p, dest, first, table, copy
        <4> QED
          BY <1>1, <1>3, <1>5, <1>6, <3>1, <4>1, addSeenPacketType,
             SetRoutesType, EnqueueOne DEF HandlerState
      <3> QED
        BY <3>2, <3>3
    <2> QED
      BY <2>1, <2>2
  <1> QED
    BY <1>1, <1>2, <1>7
    DEF TypeOK, HandlerState, Table, HandleRREP, HandlerFrame, env, shadow,
        checker, history

LEMMA FlushStepType ==
  ASSUME TypeOK, NEW n \in Node, FlushStep(n)
  PROVE  TypeOK'
  <1> DEFINE e == Head(flushing[n])
  <1>0. flushing \in [Node -> Seq(QueuedSend)] /\ flushing[n] # <<>>
    BY DEF TypeOK, FlushStep
  <1>1. e \in QueuedSend /\ Tail(flushing[n]) \in Seq(QueuedSend)
    BY <1>0
  <1>2. flushing' \in [Node -> Seq(QueuedSend)]
    BY <1>0, <1>1 DEF FlushStep
  <1> HIDE DEF e
  <1>3. SendState'
    <2>1. CASE e.packetType = "DATA"
      <3>1. SendData(n, e.dest, e.flags, TRUE)
        BY <2>1 DEF FlushStep, e
      <3>2. e.dest \in Node /\ e.flags \in Flags
        BY <1>1, <2>1 DEF QueuedSend
      <3> QED
        BY <3>1, <3>2, SendDataType
    <2>2. CASE e.packetType = "USER_MSG"
      <3>1. SendUserMessage(n, e.from, e.to, e.flags, TRUE)
        BY <2>2 DEF FlushStep, e
      <3>2. e.from \in User /\ e.to \in User /\ e.flags \in Flags
        BY <1>1, <2>2 DEF QueuedSend
      <3> QED
        BY <3>1, <3>2, SendUserMessageType
    <2> QED
      BY <2>1, <2>2 DEF FlushStep, e
  <1> QED
    BY <1>2, <1>3
    DEF TypeOK, SendState, FlushStep, env, shadow, checker, history

LEMMA sendRERRType ==
  ASSUME TypeOK, NEW n \in Node, NEW to \in Node, NEW dataDest \in Node,
         NEW brokenNode \in Node, NEW packetId \in PacketID,
         NEW source \in Node, NEW blacklist \in SUBSET Node,
         sendRERR(n, to, dataDest, brokenNode, packetId, source, blacklist)
  PROVE  /\ txQueue' \in [Node -> Seq(Packet)]
         /\ nextID' \in [Node -> Nat]
         /\ brokenNodes' \in [Node -> SUBSET Node]
  <1> DEFINE rerr == CreateRERRPacket(n, to, brokenNode, dataDest, packetId,
                                      source, 0, FreshID(n, 0))
  <1>1. rerr \in Packet
    BY FreshIDType, RERRPacket DEF Packet, Address
  <1>2. Enqueue(n, <<rerr>>, 1)
    BY DEF sendRERR
  <1> HIDE DEF rerr
  <1>3. brokenNodes \in [Node -> SUBSET Node]
    BY DEF TypeOK
  <1>4. brokenNodes' \in [Node -> SUBSET Node]
    BY <1>3 DEF sendRERR
  <1> QED
    BY <1>1, <1>2, <1>4, EnqueueOne

LEMMA HandleRERRType ==
  ASSUME TypeOK, NEW n \in Node, HandleRERR(n)
  PROVE  TypeOK'
  <1> DEFINE p == Head(messages[n])
             table == InvalidateRoutes(RouteTable[n], p.BrokenNodeID,
                                       p.OriginalDestNodeID, p.PrevHopID)
             copy == CreateRERRPacket(n, table[p.OriginNodeID].NextHop,
                         p.BrokenNodeID, p.OriginalDestNodeID,
                         p.OriginalPacketID, p.OriginNodeID, p.HopCount + 1,
                         p.PacketID)
  <1> HIDE DEF p, table, copy
  <1>1. /\ p \in Packet /\ p \in RERRFormat
        /\ messages' \in [Node -> Seq(Packet)]
    BY Received, PacketFormat DEF HandleRERR, p
  <1>2. brokenNodes' \in [Node -> SUBSET Node]
    BY UnblacklistType DEF HandleRERR
  <1>3. HandlerState
    BY HandlerStateType
  <1>4. /\ p.OriginNodeID \in Node /\ p.BrokenNodeID \in Node
        /\ p.OriginalDestNodeID \in Node /\ p.OriginalPacketID \in PacketID
        /\ p.HopCount + 1 \in Nat /\ p.PacketID \in PacketID
    BY <1>1 DEF RERRFormat
  <1>5. table \in Table
    BY <1>3, InvalidatedRoutes DEF HandlerState, table
  <1>6. HandlerState'
    <2>1. CASE Seen(n, p)
      BY <1>3, <2>1 DEF HandleRERR, HandlerState, out, p
    <2>2. CASE ~Seen(n, p)
      <3>1. /\ addSeenPacket(n, p)
            /\ SetRoutes(n, table)
            /\ \/ /\ table[p.OriginNodeID] # NoRoute
                  /\ Enqueue(n, <<copy>>, 0)
               \/ UNCHANGED out
        BY <2>2 DEF HandleRERR, p, table, copy
      <3>2. table[p.OriginNodeID] # NoRoute => copy \in Packet
        BY <1>4, <1>5, RERRPacket DEF copy, Packet, Table, Route, Address
      <3>3. txQueue' \in [Node -> Seq(Packet)] /\ nextID' \in [Node -> Nat]
        BY <1>3, <3>1, <3>2, EnqueueOne DEF HandlerState, out
      <3> QED
        BY <1>1, <1>5, <3>1, <3>3, addSeenPacketType, SetRoutesType
        DEF HandlerState
    <2> QED
      BY <2>1, <2>2
  <1> QED
    BY <1>1, <1>2, <1>6
    DEF TypeOK, HandlerState, Table, HandleRERR, HandlerFrame, env, queues,
        shadow, checker, history

LEMMA AcknowledgeType ==
  ASSUME TypeOK, NEW n \in Node, NEW ids, Acknowledge(n, ids)
  PROVE  acked' \in [Node -> SUBSET [MsgID : PacketID, NextHop : Node]]
  <1>0. /\ acked \in [Node -> SUBSET [MsgID : PacketID, NextHop : Node]]
        /\ pendingTxs[n] \subseteq PendingTx
    BY DEF TypeOK
  <1> DEFINE new == {[MsgID |-> tx.MsgID, NextHop |-> tx.NextHop] :
                        tx \in {t \in pendingTxs[n] : t.MsgID \in ids}}
  <1>1. new \subseteq [MsgID : PacketID, NextHop : Node]
    BY <1>0 DEF PendingTx
  <1>2. acked' = [acked EXCEPT ![n] = @ \cup new]
    BY DEF Acknowledge
  <1> HIDE DEF new
  <1> QED
    BY <1>0, <1>1, <1>2

LEMMA RemovedPendingType ==
  ASSUME TypeOK, NEW n \in Node, NEW ids
  PROVE  [pendingTxs EXCEPT ![n] = WithoutPending(n, ids)]
            \in [Node -> SUBSET PendingTx]
  <1>0. pendingTxs \in [Node -> SUBSET PendingTx]
    BY DEF TypeOK
  <1> QED
    BY <1>0 DEF WithoutPending

LEMMA HandleDataAckType ==
  ASSUME TypeOK, NEW n \in Node, HandleDataAck(n)
  PROVE  TypeOK'
  <1> DEFINE p == Head(messages[n])
  <1> HIDE DEF p
  <1>1. /\ p \in Packet
        /\ messages' \in [Node -> Seq(Packet)]
    BY Received DEF HandleDataAck, p
  <1>2. brokenNodes' \in [Node -> SUBSET Node]
    BY UnblacklistType DEF HandleDataAck
  <1>3. /\ seenMsgIDs' \in [Node -> SUBSET PacketID]
        /\ pendingTxs' \in [Node -> SUBSET PendingTx]
        /\ acked' \in [Node -> SUBSET [MsgID : PacketID, NextHop : Node]]
    <2>1. CASE p.DestNodeID # n \/ Seen(n, p)
      <3>1. /\ seenMsgIDs \in [Node -> SUBSET PacketID]
            /\ pendingTxs \in [Node -> SUBSET PendingTx]
            /\ acked \in [Node -> SUBSET [MsgID : PacketID, NextHop : Node]]
        BY DEF TypeOK
      <3> QED
        BY <2>1, <3>1 DEF HandleDataAck, p
    <2>2. CASE ~(p.DestNodeID # n \/ Seen(n, p))
      <3>1. /\ addSeenPacket(n, p)
            /\ Acknowledge(n, {p.OriginalPacketID})
            /\ pendingTxs' = [pendingTxs EXCEPT
                   ![n] = WithoutPending(n, {p.OriginalPacketID})]
        BY <2>2 DEF HandleDataAck, p
      <3>2. seenMsgIDs' \in [Node -> SUBSET PacketID]
        BY <1>1, <3>1, addSeenPacketType
      <3>3. acked' \in [Node -> SUBSET [MsgID : PacketID, NextHop : Node]]
        BY <3>1, AcknowledgeType
      <3>4. pendingTxs' \in [Node -> SUBSET PendingTx]
        BY <3>1, RemovedPendingType
      <3> QED
        BY <3>2, <3>3, <3>4
    <2> QED
      BY <2>1, <2>2
  <1> QED
    BY <1>1, <1>2, <1>3
    DEF TypeOK, HandleDataAck, HandlerFrame, env, queues, out, shadow, checker

\* The variables that the handlers of DATA and USER_MSG change.
DeliveryState ==
    /\ txQueue \in [Node -> Seq(Packet)]
    /\ nextID \in [Node -> Nat]
    /\ seenMsgIDs \in [Node -> SUBSET PacketID]
    /\ pendingTxs \in [Node -> SUBSET PendingTx]
    /\ brokenNodes \in [Node -> SUBSET Node]
    /\ delivered \in [Node -> Seq(PacketID)]

LEMMA DeliveryStateType == TypeOK => DeliveryState
  BY DEF TypeOK, DeliveryState

LEMMA AckOfType ==
  ASSUME TypeOK, NEW n \in Node, NEW p \in Packet, NEW k \in Nat
  PROVE  AckOf(n, p, k) \in Packet
  BY FreshIDType, PacketHeader, AckPacket DEF AckOf, Packet, Address

LEMMA FinalAckType ==
  ASSUME TypeOK, NEW n \in Node, NEW p \in Packet, NEW final
  PROVE  /\ FinalAck(n, p, final) \in Seq(Packet)
         /\ Len(FinalAck(n, p, final)) \in {0, 1}
  BY AckOfType DEF FinalAck

LEMMA DuplicateAcksType ==
  ASSUME TypeOK, NEW n \in Node, NEW p \in Packet, NEW final
  PROVE  /\ DuplicateAcks(n, p, final) \in Seq(Packet)
         /\ Len(DuplicateAcks(n, p, final)) \in Nat
  <1> DEFINE first == FinalAck(n, p, final)
             second == AckOf(n, p, Len(first))
  <1>1. first \in Seq(Packet) /\ Len(first) \in Nat
    BY FinalAckType
  <1>2. second \in Packet
    BY <1>1, AckOfType
  <1> HIDE DEF second
  <1>3. DuplicateAcks(n, p, final) \in {Append(first, second), <<>>}
    BY DEF DuplicateAcks, second
  <1> HIDE DEF first
  <1>4. Append(first, second) \in Seq(Packet)
    BY <1>1, <1>2
  <1> QED
    BY <1>3, <1>4, EmptySeq, LenProperties

LEMMA DeliverType ==
  ASSUME TypeOK, NEW n \in Node, NEW p \in Packet, Deliver(n, p)
  PROVE  delivered' \in [Node -> Seq(PacketID)]
  <1>0. delivered \in [Node -> Seq(PacketID)] /\ p.PacketID \in PacketID
    BY PacketHeader DEF TypeOK
  <1>1. Append(delivered[n], p.PacketID) \in Seq(PacketID)
    BY <1>0
  <1> QED
    BY <1>0, <1>1 DEF Deliver

LEMMA ForwardType ==
  ASSUME TypeOK, NEW n \in Node, NEW pkt \in Packet, pkt.DestNodeID \in Node,
         NEW dest \in Node, NEW origin \in Node, Forward(n, pkt, dest, origin)
  PROVE  /\ txQueue' \in [Node -> Seq(Packet)]
         /\ nextID' \in [Node -> Nat]
         /\ pendingTxs' \in [Node -> SUBSET PendingTx]
  <1> DEFINE tx == NewPendingTx(pkt, dest, pkt.DestNodeID, origin)
  <1>1. tx \in PendingTx
    BY NewPendingTxType
  <1>2. Enqueue(n, <<pkt>>, 0)
    BY DEF Forward
  <1>3. pendingTxs \in [Node -> SUBSET PendingTx]
    BY DEF TypeOK
  <1> HIDE DEF tx
  <1>4. pendingTxs' \in [Node -> SUBSET PendingTx]
    BY <1>1, <1>3 DEF Forward, WithoutPending, tx
  <1> QED
    BY <1>2, <1>4, EnqueueOne

LEMMA ReportNoRouteType ==
  ASSUME TypeOK, NEW n \in Node, NEW p \in Packet, p.OriginNodeID \in Node,
         NEW dest \in Node, ReportNoRoute(n, p, dest)
  PROVE  /\ txQueue' \in [Node -> Seq(Packet)]
         /\ nextID' \in [Node -> Nat]
         /\ brokenNodes' \in [Node -> SUBSET Node]
  <1>1. unmarkBroken(n, p) \in SUBSET Node
    BY DEF TypeOK, unmarkBroken
  <1>2. p.PrevHopID \in Node /\ p.PacketID \in PacketID
    BY PacketHeader
  <1> QED
    BY <1>1, <1>2, sendRERRType DEF ReportNoRoute

LEMMA HandleDataType ==
  ASSUME TypeOK, NEW n \in Node, HandleData(n)
  PROVE  TypeOK'
  <1> DEFINE p == Head(messages[n])
             dest == p.FinalDestID
             mine == p.DestNodeID \in {n, BROADCAST_ADDR}
             overheard == [pendingTxs EXCEPT
                              ![n] = WithoutPending(n, {p.PacketID})]
             shout == CreateDataPacket(p.OriginNodeID, n, dest, NullID,
                          p.HopCount + 1, NoFlags, p.PacketID)
             copy == CreateDataPacket(p.OriginNodeID, n, dest,
                         RouteTable[n][dest].NextHop, p.HopCount + 1, p.Flags,
                         p.PacketID)
  <1> HIDE DEF p, dest, mine, overheard, shout, copy
  <1>1. /\ p \in Packet /\ p \in DataFormat
        /\ messages' \in [Node -> Seq(Packet)]
    BY Received, PacketFormat DEF HandleData, p
  <1>2. /\ acked' \in [Node -> SUBSET [MsgID : PacketID, NextHop : Node]]
        /\ DeliveryState
        /\ overheard \in [Node -> SUBSET PendingTx]
    BY AcknowledgeType, DeliveryStateType, RemovedPendingType
    DEF HandleData, overheard
  <1>3. /\ p.OriginNodeID \in Node /\ dest \in Node \cup {BROADCAST_ADDR}
        /\ p.HopCount + 1 \in Nat /\ p.PacketID \in PacketID
        /\ p.Flags \in Flags
    BY <1>1 DEF DataFormat, dest
  <1>4. DeliveryState'
    <2>1. CASE ~mine
      <3>1. /\ Unblacklist(n, p)
            /\ pendingTxs' = overheard
            /\ UNCHANGED <<seenMsgIDs, out, delivered>>
        BY <2>1 DEF HandleData, p, mine, overheard
      <3> QED
        BY <1>2, <3>1, UnblacklistType DEF DeliveryState, out
    <2>2. CASE mine /\ Seen(n, p)
      <3>1. /\ Enqueue(n, DuplicateAcks(n, p, dest),
                       Len(DuplicateAcks(n, p, dest)))
            /\ Unblacklist(n, p)
            /\ pendingTxs' = overheard
            /\ UNCHANGED <<seenMsgIDs, delivered>>
        BY <2>2 DEF HandleData, p, dest, mine, overheard
      <3>2. txQueue' \in [Node -> Seq(Packet)] /\ nextID' \in [Node -> Nat]
        BY <1>1, <3>1, DuplicateAcksType, EnqueueType
      <3> QED
        BY <1>2, <3>1, <3>2, UnblacklistType DEF DeliveryState
    <2>3. CASE mine /\ ~Seen(n, p) /\ dest = BROADCAST_ADDR
      <3>1. /\ addSeenPacket(n, p)
            /\ Deliver(n, p)
            /\ Enqueue(n, <<shout>>, 0) \/ UNCHANGED out
            /\ Unblacklist(n, p)
            /\ pendingTxs' = overheard
        BY <2>3, IDsAssumption DEF HandleData, p, dest, mine, overheard, shout
      <3>2. shout \in Packet
        BY <1>3, DataPacket DEF Packet, Address, NoFlags, Flags, shout
      <3>3. txQueue' \in [Node -> Seq(Packet)] /\ nextID' \in [Node -> Nat]
        BY <1>2, <3>1, <3>2, EnqueueOne DEF DeliveryState, out
      <3> QED
        BY <1>1, <1>2, <3>1, <3>3, UnblacklistType, addSeenPacketType,
           DeliverType DEF DeliveryState
    <2>4. CASE mine /\ ~Seen(n, p) /\ dest = n
      <3>1. /\ addSeenPacket(n, p)
            /\ Deliver(n, p)
            /\ Enqueue(n, FinalAck(n, p, dest), Len(FinalAck(n, p, dest)))
            /\ Unblacklist(n, p)
            /\ pendingTxs' = overheard
        BY <2>4, IDsAssumption DEF HandleData, p, dest, mine, overheard
      <3>2. txQueue' \in [Node -> Seq(Packet)] /\ nextID' \in [Node -> Nat]
        BY <1>1, <3>1, FinalAckType, EnqueueType
      <3> QED
        BY <1>1, <1>2, <3>1, <3>2, UnblacklistType, addSeenPacketType,
           DeliverType DEF DeliveryState
    <2>5. CASE mine /\ ~Seen(n, p) /\ dest \in Node \ {n} /\ ~HasRoute(n, dest)
      <3>1. /\ addSeenPacket(n, p)
            /\ ReportNoRoute(n, p, dest)
            /\ pendingTxs' = overheard
            /\ UNCHANGED delivered
        BY <2>5, IDsAssumption DEF HandleData, p, dest, mine, overheard
      <3> QED
        BY <1>1, <1>2, <1>3, <2>5, <3>1, addSeenPacketType, ReportNoRouteType
        DEF DeliveryState
    <2>6. CASE mine /\ ~Seen(n, p) /\ dest \in Node \ {n} /\ HasRoute(n, dest)
      <3>1. /\ addSeenPacket(n, p)
            /\ Forward(n, copy, dest, p.OriginNodeID)
            /\ Unblacklist(n, p)
            /\ UNCHANGED delivered
        BY <2>6, IDsAssumption DEF HandleData, p, dest, mine, copy
      <3>2. RouteTable[n][dest].NextHop \in Node
        BY <2>6 DEF HasRoute, TypeOK, Route
      <3>3. copy \in Packet /\ copy.DestNodeID \in Node
        BY <1>3, <3>2, DataPacket DEF Packet, Address, copy, CreateDataPacket
      <3> QED
        BY <1>1, <1>2, <1>3, <2>6, <3>1, <3>3, addSeenPacketType,
           UnblacklistType, ForwardType DEF DeliveryState
    <2> QED
      BY <1>3, <2>1, <2>2, <2>3, <2>4, <2>5, <2>6
  <1> QED
    BY <1>1, <1>2, <1>4
    DEF TypeOK, DeliveryState, HandleData, HandlerFrame, env, queues, shadow,
        checker

LEMMA UserNotAtNodeType ==
  ASSUME TypeOK, NEW n \in Node, NEW p \in UserMessageFormat
  PROVE  /\ UserNotAtNode(n, p) \in Seq(Packet)
         /\ Len(UserNotAtNode(n, p)) \in Nat
  <1> DEFINE k == Len(FinalAck(n, p, p.ToNodeID))
             uerr == CreateUERRPacket(n, RouteTable[n][p.OriginNodeID].NextHop,
                         p.ToUserID, n, p.OriginNodeID, p.PacketID,
                         FreshID(n, k))
  <1>1. k \in Nat
    BY FinalAckType DEF Packet
  <1>2. /\ p.OriginNodeID \in Node /\ p.ToUserID \in User
        /\ p.PacketID \in PacketID
    BY DEF UserMessageFormat
  <1>3. FreshID(n, k) \in PacketID
    BY <1>1, FreshIDType
  <1> HIDE DEF k
  <1>4. CASE HasRoute(n, p.OriginNodeID)
    <2>1. RouteTable[n][p.OriginNodeID].NextHop \in Node
      BY SMTT(30), <1>2, <1>4 DEF HasRoute, TypeOK, Route
    <2>2. uerr \in Packet
      BY <1>2, <1>3, <2>1, UERRPacket DEF Packet, Address
    <2>3. UserNotAtNode(n, p) = <<uerr>>
      BY <1>4 DEF UserNotAtNode, k
    <2> HIDE DEF uerr
    <2> QED
      BY <2>2, <2>3
  <1>5. CASE ~HasRoute(n, p.OriginNodeID)
    BY <1>5 DEF UserNotAtNode
  <1> QED
    BY <1>4, <1>5

LEMMA HandleUserMessageType ==
  ASSUME TypeOK, NEW n \in Node, HandleUserMessage(n)
  PROVE  TypeOK'
  <1> DEFINE p == Head(messages[n])
             dest == p.ToNodeID
             overheard == [pendingTxs EXCEPT
                              ![n] = WithoutPending(n, {p.PacketID})]
             answer == FinalAck(n, p, dest) \o UserNotAtNode(n, p)
             copy == CreateUSERMessagePacket(p.OriginNodeID, n, p.FromUserID,
                         p.ToUserID, dest, RouteTable[n][dest].NextHop,
                         p.HopCount + 1, p.Flags, p.PacketID)
  <1> HIDE DEF p, dest, overheard, answer, copy
  <1>1. /\ p \in Packet /\ p \in UserMessageFormat
        /\ messages' \in [Node -> Seq(Packet)]
    BY Received, PacketFormat DEF HandleUserMessage, p
  <1>2. /\ acked' \in [Node -> SUBSET [MsgID : PacketID, NextHop : Node]]
        /\ DeliveryState
        /\ overheard \in [Node -> SUBSET PendingTx]
    BY AcknowledgeType, DeliveryStateType, RemovedPendingType
    DEF HandleUserMessage, overheard
  <1>3. /\ p.OriginNodeID \in Node /\ dest \in Node
        /\ p.FromUserID \in User /\ p.ToUserID \in User
        /\ p.HopCount + 1 \in Nat /\ p.PacketID \in PacketID
        /\ p.Flags \in Flags
    BY <1>1 DEF UserMessageFormat, dest
  <1>4. DeliveryState'
    <2>1. CASE p.DestNodeID # n
      <3>1. /\ Unblacklist(n, p)
            /\ pendingTxs' = overheard
            /\ UNCHANGED <<seenMsgIDs, out, delivered>>
        BY <2>1 DEF HandleUserMessage, p, overheard
      <3> QED
        BY <1>2, <3>1, UnblacklistType DEF DeliveryState, out
    <2>2. CASE p.DestNodeID = n /\ Seen(n, p)
      <3>1. /\ Enqueue(n, DuplicateAcks(n, p, dest),
                       Len(DuplicateAcks(n, p, dest)))
            /\ Unblacklist(n, p)
            /\ pendingTxs' = overheard
            /\ UNCHANGED <<seenMsgIDs, delivered>>
        BY <2>2 DEF HandleUserMessage, p, dest, overheard
      <3>2. txQueue' \in [Node -> Seq(Packet)] /\ nextID' \in [Node -> Nat]
        BY <1>1, <3>1, DuplicateAcksType, EnqueueType
      <3> QED
        BY <1>2, <3>1, <3>2, UnblacklistType DEF DeliveryState
    <2>3. CASE /\ p.DestNodeID = n /\ ~Seen(n, p) /\ dest = n
               /\ p.ToUserID \in connectedUsers[n]
      <3>1. /\ addSeenPacket(n, p)
            /\ Deliver(n, p)
            /\ Enqueue(n, FinalAck(n, p, dest), Len(FinalAck(n, p, dest)))
            /\ Unblacklist(n, p)
            /\ pendingTxs' = overheard
        BY <2>3 DEF HandleUserMessage, p, dest, overheard
      <3>2. txQueue' \in [Node -> Seq(Packet)] /\ nextID' \in [Node -> Nat]
        BY <1>1, <3>1, FinalAckType, EnqueueType
      <3> QED
        BY <1>1, <1>2, <3>1, <3>2, UnblacklistType, addSeenPacketType,
           DeliverType DEF DeliveryState
    <2>4. CASE /\ p.DestNodeID = n /\ ~Seen(n, p) /\ dest = n
               /\ p.ToUserID \notin connectedUsers[n]
      <3>1. /\ addSeenPacket(n, p)
            /\ Enqueue(n, answer, Len(answer))
            /\ Unblacklist(n, p)
            /\ pendingTxs' = overheard
            /\ UNCHANGED delivered
        BY <2>4 DEF HandleUserMessage, p, dest, overheard, answer
      <3>2. answer \in Seq(Packet)
        BY <1>1, FinalAckType, UserNotAtNodeType, ConcatProperties DEF answer
      <3>3. Len(answer) \in Nat
        BY <3>2, LenProperties
      <3>4. txQueue' \in [Node -> Seq(Packet)] /\ nextID' \in [Node -> Nat]
        BY <3>1, <3>2, <3>3, EnqueueType
      <3> QED
        BY <1>1, <1>2, <3>1, <3>4, UnblacklistType, addSeenPacketType
        DEF DeliveryState
    <2>5. CASE /\ p.DestNodeID = n /\ ~Seen(n, p) /\ dest # n
               /\ ~HasRoute(n, dest)
      <3>1. /\ addSeenPacket(n, p)
            /\ ReportNoRoute(n, p, dest)
            /\ pendingTxs' = overheard
            /\ UNCHANGED delivered
        BY <2>5 DEF HandleUserMessage, p, dest, overheard
      <3> QED
        BY <1>1, <1>2, <1>3, <3>1, addSeenPacketType, ReportNoRouteType
        DEF DeliveryState
    <2>6. CASE /\ p.DestNodeID = n /\ ~Seen(n, p) /\ dest # n
               /\ HasRoute(n, dest)
      <3>1. /\ addSeenPacket(n, p)
            /\ Forward(n, copy, dest, p.OriginNodeID)
            /\ Unblacklist(n, p)
            /\ UNCHANGED delivered
        BY <2>6 DEF HandleUserMessage, p, dest, copy
      <3>2. RouteTable[n][dest].NextHop \in Node
        BY <1>3, <2>6 DEF HasRoute, TypeOK, Route
      <3>3. copy \in Packet /\ copy.DestNodeID \in Node
        BY <1>3, <3>2, UserMessagePacket
        DEF Packet, Address, copy, CreateUSERMessagePacket
      <3> QED
        BY <1>1, <1>2, <1>3, <3>1, <3>3, addSeenPacketType,
           UnblacklistType, ForwardType DEF DeliveryState
    <2> QED
      BY <2>1, <2>2, <2>3, <2>4, <2>5, <2>6
  <1> QED
    BY <1>1, <1>2, <1>4
    DEF TypeOK, DeliveryState, HandleUserMessage, HandlerFrame, env, queues,
        shadow, checker

LEMMA HandleUREQType ==
  ASSUME TypeOK, NEW n \in Node, HandleUREQ(n)
  PROVE  TypeOK'
  <1> DEFINE p == Head(messages[n])
             user == p.UREQUserID
             home == gut[n][user]
             direct == maybeAddRoute(RouteTable[n], p.PrevHopID, p.PrevHopID, 1)
             table == maybeAddRoute(direct, p.OriginNodeID, p.PrevHopID,
                                    p.HopCount + 1)
             copy == CreateUREQPacket(n, p.OriginNodeID, user, p.HopCount + 1,
                                      p.PacketID)
             reply(h, hops) == CreateUREPPacket(n, p.PrevHopID, p.OriginNodeID,
                                   h, user, hops, FreshID(n, 0))
  <1> HIDE DEF p, user, home, direct, table, copy, reply
  <1>1. /\ p \in Packet /\ p \in UREQFormat
        /\ messages' \in [Node -> Seq(Packet)]
    BY Zenon, Received, PacketFormat DEF HandleUREQ, p
  <1>2. brokenNodes' \in [Node -> SUBSET Node]
    BY Zenon, UnblacklistType DEF HandleUREQ
  <1>3. /\ HandlerState
        /\ gut \in [Node -> [User -> Node \cup {NullID}]]
    BY HandlerStateType DEF TypeOK
  <1>4. /\ p.OriginNodeID \in Node /\ p.PrevHopID \in Node /\ user \in User
        /\ p.HopCount + 1 \in Nat /\ p.PacketID \in PacketID
    BY <1>1 DEF UREQFormat, user
  <1>5. home \in Node \cup {NullID}
    BY <1>3, <1>4 DEF home
  <1>6. table \in Table
    <2>1. RouteTable[n] \in Table
      BY <1>3 DEF HandlerState
    <2>2. direct \in Table
      BY <1>4, <2>1, AddedRoute DEF direct
    <2> QED
      BY <1>4, <2>2, AddedRoute DEF table
  <1>7. ASSUME NEW h \in Node, NEW hops \in Nat
        PROVE  reply(h, hops) \in Packet
    BY <1>4, FreshIDType, UREPPacket DEF reply, Packet, Address
  <1>8. HandlerState'
    <2>1. CASE Seen(n, p)
      BY Zenon, <1>3, <2>1 DEF HandleUREQ, HandlerState, out, p
    <2>2. CASE ~Seen(n, p)
      <3>1. /\ addSeenPacket(n, p)
            /\ SetRoutes(n, table)
            /\ \/ Enqueue(n, <<reply(n, 0)>>, 1)
               \/ /\ home # NullID /\ table[home] # NoRoute
                  /\ Enqueue(n, <<reply(home, table[home].HopCount)>>, 1)
               \/ Enqueue(n, <<copy>>, 0)
               \/ UNCHANGED out
        BY Zenon, <2>2 DEF HandleUREQ, p, user, home, direct, table, copy, reply
      <3>2. copy \in Packet
        BY <1>4, UREQPacket DEF Packet, copy
      <3>3. home # NullID /\ table[home] # NoRoute
            => home \in Node /\ table[home].HopCount \in Nat
        BY <1>5, <1>6 DEF Table, Route
      <3>4. txQueue' \in [Node -> Seq(Packet)] /\ nextID' \in [Node -> Nat]
        <4>1. reply(n, 0) \in Packet
          BY <1>7
        <4>2. home # NullID /\ table[home] # NoRoute
              => reply(home, table[home].HopCount) \in Packet
          BY <1>7, <3>3
        <4> QED
          BY <1>3, <3>1, <3>2, <4>1, <4>2, EnqueueOne DEF HandlerState, out
      <3> QED
        BY <1>1, <1>6, <3>1, <3>4, addSeenPacketType, SetRoutesType
        DEF HandlerState
    <2> QED
      BY <2>1, <2>2
  <1> QED
    BY Zenon, <1>1, <1>2, <1>8
    DEF TypeOK, HandlerState, Table, HandleUREQ, HandlerFrame, env, queues,
        shadow, checker, history

LEMMA QueuedMessagesType ==
  ASSUME NEW q \in Seq(QueuedUserMessage), NEW user \in User
  PROVE  [i \in DOMAIN q |-> [packetType |-> "USER_MSG", to |-> user,
                              from |-> q[i].from, flags |-> q[i].flags]]
            \in Seq(QueuedSend)
  <1> DEFINE send(e) == [packetType |-> "USER_MSG", to |-> user,
                         from |-> e.from, flags |-> e.flags]
  <1>1. \A e \in QueuedUserMessage : send(e) \in QueuedSend
    BY DEF QueuedUserMessage, QueuedSend
  <1>2. \A i \in 1 .. Len(q) : q[i] \in QueuedUserMessage
    BY ElementOfSeq
  <1>3. DOMAIN q = 1 .. Len(q) /\ Len(q) \in Nat
    OBVIOUS
  <1> HIDE DEF send
  <1>4. [i \in 1 .. Len(q) |-> send(q[i])] \in [1 .. Len(q) -> QueuedSend]
    BY <1>1, <1>2
  <1>5. [i \in DOMAIN q |-> send(q[i])] \in Seq(QueuedSend)
    BY <1>3, <1>4, SeqDef
  <1> QED
    BY <1>5 DEF send

LEMMA HandleUREPType ==
  ASSUME TypeOK, NEW n \in Node, HandleUREP(n)
  PROVE  TypeOK'
  <1> DEFINE p == Head(messages[n])
             home == p.UREPDestNodeID
             user == p.UREPUserID
             q == userMessageQueue[n][user]
             sends == [i \in DOMAIN q |->
                         [packetType |-> "USER_MSG", to |-> user,
                          from |-> q[i].from, flags |-> q[i].flags]]
             table == maybeAddRoute(RouteTable[n], home, p.PrevHopID,
                                    p.HopCount + 1)
             copy == CreateUREPPacket(n, RouteTable[n][home].NextHop,
                         p.OriginNodeID, home, user, p.HopCount + 1,
                         p.PacketID)
  <1> HIDE DEF p, home, user, q, sends, table, copy
  <1>1. /\ p \in Packet /\ p \in UREPFormat
        /\ messages' \in [Node -> Seq(Packet)]
    BY Zenon, Received, PacketFormat DEF HandleUREP, p
  <1>2. brokenNodes' \in [Node -> SUBSET Node]
    BY Zenon, UnblacklistType DEF HandleUREP
  <1>3. /\ HandlerState
        /\ gut \in [Node -> [User -> Node \cup {NullID}]]
        /\ userMessageQueue \in [Node -> [User -> Seq(QueuedUserMessage)]]
        /\ flushing \in [Node -> Seq(QueuedSend)]
    BY Zenon, HandlerStateType DEF TypeOK
  <1>4. /\ p.OriginNodeID \in Node /\ p.PrevHopID \in Node /\ user \in User
        /\ home \in Node /\ p.HopCount + 1 \in Nat /\ p.PacketID \in PacketID
    BY <1>1 DEF UREPFormat, user, home
  <1>5. /\ HandlerState'
        /\ gut' \in [Node -> [User -> Node \cup {NullID}]]
        /\ userMessageQueue' \in [Node -> [User -> Seq(QueuedUserMessage)]]
        /\ flushing' \in [Node -> Seq(QueuedSend)]
    <2>1. CASE Seen(n, p)
      BY Zenon, <1>3, <2>1 DEF HandleUREP, HandlerState, out, p
    <2>2. CASE ~Seen(n, p) /\ p.OriginNodeID = n
      <3>1. /\ addSeenPacket(n, p)
            /\ gut' = [gut EXCEPT ![n][user] = home]
            /\ SetRoutes(n, table)
            /\ flushing' = [flushing EXCEPT ![n] = sends]
            /\ userMessageQueue' = [userMessageQueue EXCEPT ![n][user] = <<>>]
            /\ UNCHANGED out
        BY Zenon, <2>2 DEF HandleUREP, p, home, user, q, sends, table
      <3>2. RouteTable[n] \in Table /\ q \in Seq(QueuedUserMessage)
        BY <1>3, <1>4 DEF HandlerState, q
      <3>3. table \in Table
        BY <1>4, <3>2, AddedRoute DEF table
      <3>4. sends \in Seq(QueuedSend)
        BY <1>4, <3>2, QueuedMessagesType DEF sends
      <3>5. <<>> \in Seq(QueuedUserMessage)
        OBVIOUS
      <3>6. userMessageQueue' \in [Node -> [User -> Seq(QueuedUserMessage)]]
        BY <1>3, <1>4, <3>1, <3>5
      <3>7. flushing' \in [Node -> Seq(QueuedSend)]
        BY <1>3, <3>1, <3>4
      <3>8. gut' \in [Node -> [User -> Node \cup {NullID}]]
        BY <1>3, <1>4, <3>1
      <3> QED
        BY <1>1, <1>3, <3>1, <3>3, <3>6, <3>7, <3>8, addSeenPacketType,
           SetRoutesType DEF HandlerState, out
    <2>3. CASE ~Seen(n, p) /\ p.OriginNodeID # n
      <3>1. /\ addSeenPacket(n, p)
            /\ \/ HasRoute(n, home) /\ Enqueue(n, <<copy>>, 0)
               \/ UNCHANGED out
            /\ UNCHANGED <<RouteTable, gut, userMessageQueue, flushing>>
        BY Zenon, <2>3 DEF HandleUREP, p, home, user, copy
      <3>2. HasRoute(n, home) => RouteTable[n][home].NextHop \in Node
        BY <1>3, <1>4 DEF HasRoute, HandlerState, Table, Route
      <3>3. HasRoute(n, home) => copy \in Packet
        BY <1>4, <3>2, UREPPacket DEF Packet, Address, copy
      <3>4. txQueue' \in [Node -> Seq(Packet)] /\ nextID' \in [Node -> Nat]
        BY <1>3, <3>1, <3>3, EnqueueOne DEF HandlerState, out
      <3> QED
        BY <1>1, <1>3, <3>1, <3>4, addSeenPacketType DEF HandlerState
    <2> QED
      BY <2>1, <2>2, <2>3
  <1> QED
    BY Zenon, <1>1, <1>2, <1>5
    DEF TypeOK, HandlerState, Table, HandleUREP, HandlerFrame, env, shadow,
        checker, history

LEMMA HandleUERRType ==
  ASSUME TypeOK, NEW n \in Node, HandleUERR(n)
  PROVE  TypeOK'
  <1> DEFINE p == Head(messages[n])
             copy == CreateUERRPacket(n, RouteTable[n][p.OriginNodeID].NextHop,
                         p.UserID, p.NodeID, NullID, p.PacketID, FreshID(n, 0))
             Removed == [pendingTxs EXCEPT
                            ![n] = WithoutPending(n, {p.OriginalPacketID})]
  <1> HIDE DEF p, copy, Removed
  <1>1. /\ p \in Packet /\ p \in UERRFormat
        /\ messages' \in [Node -> Seq(Packet)]
    BY Received, PacketFormat DEF HandleUERR, p
  <1>2. brokenNodes' \in [Node -> SUBSET Node]
    BY UnblacklistType DEF HandleUERR
  <1>3. /\ HandlerState
        /\ gut \in [Node -> [User -> Node \cup {NullID}]]
        /\ pendingTxs \in [Node -> SUBSET PendingTx]
        /\ Removed \in [Node -> SUBSET PendingTx]
    BY HandlerStateType, RemovedPendingType DEF TypeOK, Removed
  <1>4. /\ p.UserID \in User /\ p.NodeID \in Node /\ p.PacketID \in PacketID
    BY <1>1 DEF UERRFormat
  <1>5. /\ HandlerState'
        /\ gut' \in [Node -> [User -> Node \cup {NullID}]]
        /\ pendingTxs' \in [Node -> SUBSET PendingTx]
    <2>1. CASE Seen(n, p)
      BY <1>3, <2>1 DEF HandleUERR, HandlerState, out, p
    <2>2. CASE ~Seen(n, p) /\ p.OriginNodeID = n
      <3>1. /\ addSeenPacket(n, p)
            /\ \/ gut' = [gut EXCEPT ![n][p.UserID] = NullID]
               \/ gut' = gut
            /\ pendingTxs' = Removed
            /\ UNCHANGED <<RouteTable, out>>
        BY <2>2 DEF HandleUERR, p, Removed
      <3>u. [gut[n] EXCEPT ![p.UserID] = NullID] \in [User -> Node \cup {NullID}]
        BY <1>3, <1>4
      <3>2. gut' \in [Node -> [User -> Node \cup {NullID}]]
        BY <1>3, <3>1, <3>u
      <3> QED
        BY <1>1, <1>3, <3>1, <3>2, addSeenPacketType DEF HandlerState, out
    <2>3. CASE ~Seen(n, p) /\ p.OriginNodeID # n
      <3>1. /\ addSeenPacket(n, p)
            /\ \/ /\ p.OriginNodeID \in Node /\ HasRoute(n, p.OriginNodeID)
                  /\ Enqueue(n, <<copy>>, 1)
               \/ UNCHANGED out
            /\ UNCHANGED <<RouteTable, gut, pendingTxs>>
        BY <2>3 DEF HandleUERR, p, copy
      <3>2. p.OriginNodeID \in Node /\ HasRoute(n, p.OriginNodeID)
            => RouteTable[n][p.OriginNodeID].NextHop \in Node
        BY <1>3 DEF HasRoute, HandlerState, Table, Route
      <3>3. p.OriginNodeID \in Node /\ HasRoute(n, p.OriginNodeID)
            => copy \in Packet
        BY <1>4, <3>2, FreshIDType, UERRPacket DEF Packet, Address, copy
      <3>4. txQueue' \in [Node -> Seq(Packet)] /\ nextID' \in [Node -> Nat]
        BY <1>3, <3>1, <3>3, EnqueueOne DEF HandlerState, out
      <3> QED
        BY <1>1, <1>3, <3>1, <3>4, addSeenPacketType DEF HandlerState
    <2> QED
      BY <2>1, <2>2, <2>3
  <1> QED
    BY <1>1, <1>2, <1>5
    DEF TypeOK, HandlerState, Table, HandleUERR, HandlerFrame, env, queues,
        shadow, checker, history

LEMMA CheckerTickType ==
  ASSUME TypeOK, NEW n \in Node, CheckerTick(n)
  PROVE  TypeOK'
  <1>0. /\ pendingTxs \in [Node -> SUBSET PendingTx]
        /\ expired \in [Node -> SUBSET PendingTx]
        /\ checking \in [Node -> BOOLEAN]
    BY DEF TypeOK
  <1>1. /\ expired' \in [Node -> SUBSET PendingTx]
        /\ checking' \in [Node -> BOOLEAN]
    BY <1>0 DEF CheckerTick
  <1> QED
    BY <1>1 DEF TypeOK, CheckerTick, env, queues, shadow, out, history

LEMMA CheckerRetryType ==
  ASSUME TypeOK, NEW n \in Node, CheckerRetry(n)
  PROVE  TypeOK'
  <1>0. /\ pendingTxs \in [Node -> SUBSET PendingTx]
        /\ expired \in [Node -> SUBSET PendingTx]
        /\ txQueue \in [Node -> Seq(Packet)] /\ nextID \in [Node -> Nat]
    BY DEF TypeOK
  <1>1. PICK tx \in expired[n] :
           /\ expired' = [expired EXCEPT ![n] = @ \ {tx}]
           /\ pendingTxs' =
                 [pendingTxs EXCEPT ![n] = PutPending(n, Retried(tx))]
           /\ \/ Enqueue(n, <<tx.Pkt>>, 0)
              \/ UNCHANGED out
              \/ Enqueue(n, <<CreateRREQPacket(n, tx.Dest, n, 0,
                                               FreshID(n, 0))>>, 1)
           /\ UNCHANGED <<env, RouteTable, seenMsgIDs, queues, brokenNodes, gut,
                          shadow, messages, flushing, registering, checking,
                          deleteIds, history>>
    BY DEF CheckerRetry
  <1>2. /\ tx \in PendingTx /\ tx.Pkt \in Packet /\ tx.Dest \in Node
        /\ Retried(tx) \in PendingTx
    BY <1>0, RetriedType DEF PendingTx
  <1>3. CreateRREQPacket(n, tx.Dest, n, 0, FreshID(n, 0)) \in Packet
    BY <1>2, FreshIDType, RREQPacket DEF Packet
  <1>4. txQueue' \in [Node -> Seq(Packet)] /\ nextID' \in [Node -> Nat]
    BY <1>0, <1>1, <1>2, <1>3, EnqueueOne DEF out
  <1>5. PutPending(n, Retried(tx)) \in SUBSET PendingTx
    BY <1>0, <1>2 DEF PutPending, WithoutPending
  <1>6. /\ pendingTxs' \in [Node -> SUBSET PendingTx]
        /\ expired' \in [Node -> SUBSET PendingTx]
    BY <1>0, <1>1, <1>5
  <1> QED
    BY <1>1, <1>4, <1>6 DEF TypeOK, env, queues, shadow, history

LEMMA CheckerGiveUpType ==
  ASSUME TypeOK, NEW n \in Node, CheckerGiveUp(n)
  PROVE  TypeOK'
  <1>0. /\ expired \in [Node -> SUBSET PendingTx]
        /\ deleteIds \in [Node -> SUBSET PacketID]
        /\ brokenNodes \in [Node -> SUBSET Node]
        /\ RouteTable[n] \in Table
        /\ txQueue \in [Node -> Seq(Packet)] /\ nextID \in [Node -> Nat]
    BY DEF TypeOK, Table
  <1> DEFINE table(tx) == InvalidateRoutes(RouteTable[n], tx.NextHop, tx.Dest,
                                           NullID)
  <1> HIDE DEF table
  <1>1. PICK tx \in expired[n] :
           /\ expired' = [expired EXCEPT ![n] = @ \ {tx}]
           /\ deleteIds' = [deleteIds EXCEPT ![n] = @ \cup {tx.MsgID}]
           /\ SetRoutes(n, table(tx))
           /\ \/ /\ table(tx)[tx.Origin] # NoRoute
                 /\ sendRERR(n, table(tx)[tx.Origin].NextHop, tx.Dest,
                             tx.NextHop, tx.MsgID, tx.Origin, brokenNodes[n])
              \/ UNCHANGED <<brokenNodes, out>>
           /\ UNCHANGED <<env, seenMsgIDs, queues, pendingTxs, gut, shadow,
                          messages, flushing, registering, checking, history>>
    BY DEF CheckerGiveUp, table
  <1>2. /\ tx.MsgID \in PacketID /\ tx.Dest \in Node /\ tx.NextHop \in Node
        /\ tx.Origin \in Node
    BY <1>0 DEF PendingTx
  <1>3. table(tx) \in Table
    BY <1>0, InvalidatedRoutes DEF table
  <1>4. RouteTable' \in [Node -> Table]
    BY <1>1, <1>3, SetRoutesType
  <1>5. /\ txQueue' \in [Node -> Seq(Packet)] /\ nextID' \in [Node -> Nat]
        /\ brokenNodes' \in [Node -> SUBSET Node]
    <2>1. CASE UNCHANGED <<brokenNodes, out>>
      BY <1>0, <2>1 DEF out
    <2>2. CASE /\ table(tx)[tx.Origin] # NoRoute
               /\ sendRERR(n, table(tx)[tx.Origin].NextHop, tx.Dest, tx.NextHop,
                           tx.MsgID, tx.Origin, brokenNodes[n])
      <3>1. table(tx)[tx.Origin].NextHop \in Node /\ brokenNodes[n] \in SUBSET Node
        BY <1>0, <1>2, <1>3, <2>2 DEF Table, Route
      <3> QED
        BY <1>2, <2>2, <3>1, sendRERRType
    <2> QED
      BY <1>1, <2>1, <2>2
  <1>6. /\ expired' \in [Node -> SUBSET PendingTx]
        /\ deleteIds' \in [Node -> SUBSET PacketID]
    BY <1>0, <1>1, <1>2
  <1> QED
    BY <1>1, <1>4, <1>5, <1>6
    DEF TypeOK, Table, env, queues, shadow, history

LEMMA CheckerDoneType ==
  ASSUME TypeOK, NEW n \in Node, CheckerDone(n)
  PROVE  TypeOK'
  <1>0. /\ deleteIds \in [Node -> SUBSET PacketID]
        /\ checking \in [Node -> BOOLEAN]
    BY DEF TypeOK
  <1>1. pendingTxs' \in [Node -> SUBSET PendingTx]
    BY RemovedPendingType DEF CheckerDone
  <1>2. /\ deleteIds' \in [Node -> SUBSET PacketID]
        /\ checking' \in [Node -> BOOLEAN]
    BY <1>0 DEF CheckerDone
  <1> QED
    BY <1>1, <1>2 DEF TypeOK, CheckerDone, env, queues, shadow, out, history

LEMMA NextType == TypeOK /\ [Next]_vars => TypeOK'
  <1> SUFFICES ASSUME TypeOK, [Next]_vars
               PROVE  TypeOK'
    OBVIOUS
  <1>1. CASE UNCHANGED vars
    BY <1>1 DEF TypeOK, vars, env, queues, shadow, checker, out, history
  <1>2. ASSUME NEW n \in Node, NodeGoroutine(n)
        PROVE  TypeOK'
    BY <1>2, StartType, FlushStepType, HandleBroadcastInfoType, HandleRREQType,
       HandleRREPType, HandleRERRType, HandleDataAckType, HandleDataType,
       HandleUserMessageType, HandleUREQType, HandleUREPType, HandleUERRType
    DEF NodeGoroutine, HandleMessage
  <1>3. ASSUME NEW n \in Node, PendingTxChecker(n)
        PROVE  TypeOK'
    BY <1>3, CheckerTickType, CheckerRetryType, CheckerGiveUpType,
       CheckerDoneType DEF PendingTxChecker
  <1>4. ASSUME NEW n \in Node, Application(n)
        PROVE  TypeOK'
    BY <1>4, CallSendDataType, CallSendUserMessageType, MoveUserType, LeaveType
    DEF Application
  <1> QED
    BY <1>1, <1>2, <1>3, <1>4, TransmitType, RegisterPendingType,
       BroadcastTickType, StopType DEF Next

\* Every handler, goroutine and call keeps the variables of the routers within
\* their types: for one, a packet is only ever forwarded to a next hop that the
\* routing table holds, whatever was invalidated before.
THEOREM TypeCorrect == Spec => []TypeOK
  BY InitType, NextType, PTL DEF Spec

=============================================================================
