-------------------------- MODULE AODVSafetyProofs --------------------------
(***************************************************************************)
(* Safety of the routers for every topology: duplicates are not delivered, *)
(* every packet, route and pending entry stays within one hop of the node  *)
(* that holds it, and no route is too short.                               *)
(***************************************************************************)
EXTENDS AODVProofs

----------------------------------------------------------------------------
(* At most one delivery.  The inductive invariant adds that what was       *)
(* delivered was seen: no handler takes anything out of seenMsgIDs.        *)

DeliveredWasSeen ==
    \A n \in Node : \A i \in DOMAIN delivered[n] :
        delivered[n][i] \in seenMsgIDs[n]

DeliveryInv == AtMostOnceDelivery /\ DeliveredWasSeen

\* What a step does to the two variables.
KeepsSeen == \A m \in Node : seenMsgIDs[m] \subseteq seenMsgIDs'[m]

DeliversNew(n) ==
    \E id \in PacketID :
        /\ id \notin seenMsgIDs[n]
        /\ id \in seenMsgIDs'[n]
        /\ delivered' = [delivered EXCEPT ![n] = Append(@, id)]

DeliveryStep(n) == KeepsSeen /\ (UNCHANGED delivered \/ DeliversNew(n))

LEMMA addSeenPacketKeeps ==
  ASSUME TypeOK, NEW n \in Node, NEW p, addSeenPacket(n, p)
  PROVE  KeepsSeen /\ p.PacketID \in seenMsgIDs'[n]
  <1>1. seenMsgIDs \in [Node -> SUBSET PacketID]
    BY DEF TypeOK
  <1> QED
    BY <1>1 DEF addSeenPacket, KeepsSeen

LEMMA NewDelivery ==
  ASSUME TypeOK, NEW n \in Node, NEW p \in Packet, ~Seen(n, p),
         addSeenPacket(n, p), Deliver(n, p)
  PROVE  DeliveryStep(n)
  BY addSeenPacketKeeps, PacketHeader
  DEF Seen, Deliver, DeliversNew, DeliveryStep

LEMMA SendKeeps ==
  ASSUME TypeOK, NEW n \in Node,
         \/ \E dest, flags, inHandler : SendData(n, dest, flags, inHandler)
         \/ \E from, to, flags, inHandler :
               SendUserMessage(n, from, to, flags, inHandler)
  PROVE  KeepsSeen
  <1>1. seenMsgIDs \in [Node -> SUBSET PacketID]
    BY DEF TypeOK
  <1>2. \/ UNCHANGED seenMsgIDs
        \/ seenMsgIDs' = [seenMsgIDs EXCEPT ![n] = @ \cup {FreshID(n, 0)}]
    BY DEF SendData, SendUserMessage
  <1> QED
    BY <1>1, <1>2 DEF KeepsSeen

LEMMA HandlerDelivery ==
  ASSUME TypeOK, NEW n \in Node, HandleMessage(n)
  PROVE  DeliveryStep(n)
  <1> DEFINE p == Head(messages[n])
  <1> HIDE DEF p
  <1>1. ASSUME UNCHANGED seenMsgIDs \/ addSeenPacket(n, p), UNCHANGED delivered
        PROVE  DeliveryStep(n)
    BY <1>1, addSeenPacketKeeps DEF KeepsSeen, DeliveryStep
  <1>2. CASE HandleBroadcastInfo(n)
    BY <1>1, <1>2 DEF HandleBroadcastInfo, history, p
  <1>3. CASE HandleRREQ(n)
    BY <1>1, <1>3 DEF HandleRREQ, history, p
  <1>4. CASE HandleRREP(n)
    BY <1>1, <1>4 DEF HandleRREP, history, p
  <1>5. CASE HandleRERR(n)
    BY <1>1, <1>5 DEF HandleRERR, history, p
  <1>6. CASE HandleDataAck(n)
    BY <1>1, <1>6 DEF HandleDataAck, p
  <1>7. CASE HandleData(n)
    <2>1. p \in Packet
      BY <1>7, Received DEF HandleData, p
    <2>2. \/ /\ UNCHANGED seenMsgIDs \/ addSeenPacket(n, p)
             /\ UNCHANGED delivered
          \/ ~Seen(n, p) /\ addSeenPacket(n, p) /\ Deliver(n, p)
      BY <1>7 DEF HandleData, p
    <2> QED
      BY <1>1, <2>1, <2>2, NewDelivery
  <1>8. CASE HandleUserMessage(n)
    <2>1. p \in Packet
      BY <1>8, Received DEF HandleUserMessage, p
    <2>2. \/ /\ UNCHANGED seenMsgIDs \/ addSeenPacket(n, p)
             /\ UNCHANGED delivered
          \/ ~Seen(n, p) /\ addSeenPacket(n, p) /\ Deliver(n, p)
      BY <1>8 DEF HandleUserMessage, p
    <2> QED
      BY <1>1, <2>1, <2>2, NewDelivery
  <1>9. CASE HandleUREQ(n)
    BY Zenon, <1>1, <1>9 DEF HandleUREQ, history, p
  <1>10. CASE HandleUREP(n)
    BY Zenon, <1>1, <1>10 DEF HandleUREP, history, p
  <1>11. CASE HandleUERR(n)
    BY <1>1, <1>11 DEF HandleUERR, history, p
  <1> QED
    BY <1>2, <1>3, <1>4, <1>5, <1>6, <1>7, <1>8, <1>9, <1>10, <1>11
    DEF HandleMessage

LEMMA NextDelivery ==
  ASSUME TypeOK, [Next]_vars
  PROVE  \/ \E n \in Node : DeliveryStep(n)
         \/ UNCHANGED <<seenMsgIDs, delivered>>
  <1>1. CASE UNCHANGED vars
    BY <1>1 DEF vars, history
  <1>2. ASSUME NEW n \in Node, NodeGoroutine(n)
        PROVE  DeliveryStep(n) \/ UNCHANGED <<seenMsgIDs, delivered>>
    <2>1. CASE Start(n)
      BY <2>1 DEF Start, history
    <2>2. CASE FlushStep(n)
      BY <2>2, SendKeeps DEF FlushStep, history, DeliveryStep
    <2> QED
      BY <1>2, <2>1, <2>2, HandlerDelivery DEF NodeGoroutine
  <1>3. ASSUME NEW n \in Node, PendingTxChecker(n)
        PROVE  UNCHANGED <<seenMsgIDs, delivered>>
    BY <1>3 DEF PendingTxChecker, CheckerTick, CheckerRetry, CheckerGiveUp,
                CheckerDone, history
  <1>4. ASSUME NEW n \in Node, Application(n)
        PROVE  DeliveryStep(n) \/ UNCHANGED <<seenMsgIDs, delivered>>
    BY <1>4, SendKeeps DEF Application, CallSendData, CallSendUserMessage,
       MoveUser, Leave, history, DeliveryStep
  <1>5. ASSUME NEW n \in Node,
               \/ Transmit(n) \/ RegisterPending(n) \/ BroadcastTick(n)
               \/ Stop(n)
        PROVE  UNCHANGED <<seenMsgIDs, delivered>>
    BY <1>5 DEF Transmit, RegisterPending, BroadcastTick, Stop, history
  <1> QED
    BY <1>1, <1>2, <1>3, <1>4, <1>5 DEF Next

LEMMA DeliveryStepInv ==
  ASSUME TypeOK, DeliveryInv, NEW n \in Node, DeliveryStep(n)
  PROVE  DeliveryInv'
  <1>0. /\ delivered \in [Node -> Seq(PacketID)]
        /\ KeepsSeen
    BY DEF TypeOK, DeliveryStep
  <1>1. CASE UNCHANGED delivered
    BY <1>0, <1>1
    DEF DeliveryInv, AtMostOnceDelivery, DeliveredWasSeen, KeepsSeen
  <1>2. CASE DeliversNew(n)
    <2>1. PICK id \in PacketID :
             /\ id \notin seenMsgIDs[n]
             /\ id \in seenMsgIDs'[n]
             /\ delivered' = [delivered EXCEPT ![n] = Append(@, id)]
      BY <1>2 DEF DeliversNew
    <2> DEFINE s == delivered[n]
    <2>2. /\ delivered'[n] = Append(s, id)
          /\ \A m \in Node \ {n} : delivered'[m] = delivered[m]
      BY <1>0, <2>1
    <2>3. s \in Seq(PacketID)
      BY <1>0
    <2>4. /\ DOMAIN Append(s, id) = 1 .. Len(s) + 1
          /\ DOMAIN s = 1 .. Len(s)
          /\ Len(s) \in Nat
          /\ \A i \in 1 .. Len(s) : Append(s, id)[i] = s[i]
          /\ Append(s, id)[Len(s) + 1] = id
      BY <2>3
    <2>5. \A i \in DOMAIN s : s[i] \in seenMsgIDs[n]
      BY DEF DeliveryInv, DeliveredWasSeen
    <2>6. \A i, j \in DOMAIN s : s[i] = s[j] => i = j
      BY DEF DeliveryInv, AtMostOnceDelivery
    <2> HIDE DEF s
    <2>7. \A i \in DOMAIN delivered'[n] : delivered'[n][i] \in seenMsgIDs'[n]
      BY <1>0, <2>1, <2>2, <2>4, <2>5 DEF KeepsSeen
    <2>8. \A i, j \in DOMAIN delivered'[n] :
             delivered'[n][i] = delivered'[n][j] => i = j
      BY <2>1, <2>2, <2>4, <2>5, <2>6
    <2>9. \A m \in Node \ {n} :
             /\ \A i \in DOMAIN delivered'[m] : delivered'[m][i] \in seenMsgIDs'[m]
             /\ \A i, j \in DOMAIN delivered'[m] :
                   delivered'[m][i] = delivered'[m][j] => i = j
      BY <1>0, <2>2
      DEF DeliveryInv, AtMostOnceDelivery, DeliveredWasSeen, KeepsSeen
    <2> QED
      BY <2>7, <2>8, <2>9 DEF DeliveryInv, AtMostOnceDelivery, DeliveredWasSeen
  <1> QED
    BY <1>1, <1>2 DEF DeliveryStep

\* Retries, false timeouts and copies from several neighbours notwithstanding,
\* no node publishes EventMessageDelivered twice for a packet.
THEOREM DeliveredAtMostOnce == Spec => []AtMostOnceDelivery
  <1>1. Init => DeliveryInv
    BY DEF Init, DeliveryInv, AtMostOnceDelivery, DeliveredWasSeen
  <1>2. TypeOK /\ DeliveryInv /\ [Next]_vars => DeliveryInv'
    <2> SUFFICES ASSUME TypeOK, DeliveryInv, [Next]_vars
                 PROVE  DeliveryInv'
      OBVIOUS
    <2>1. CASE UNCHANGED <<seenMsgIDs, delivered>>
      BY <2>1 DEF DeliveryInv, AtMostOnceDelivery, DeliveredWasSeen
    <2> QED
      BY <2>1, NextDelivery, DeliveryStepInv
  <1>3. DeliveryInv => AtMostOnceDelivery
    BY DEF DeliveryInv
  <1> QED
    BY <1>1, <1>2, <1>3, TypeCorrect, PTL DEF Spec

----------------------------------------------------------------------------
(* One hop, and no fewer.  What n sends names n as its previous hop; what  *)
(* n hears and every next hop it knows of is in range; what it tracks is   *)
(* its own copy of a packet, addressed to the hop it waits for.  When hop  *)
(* counts fit their byte (`fit'), none of them is too low either.          *)

SoundHops(p) ==
    /\ p.PacketType \in {"RREQ", "BROADCAST_INFO", "UREQ"} =>
          p.HopCount >= Dist[p.PrevHopID][p.OriginNodeID]
    /\ p.PacketType = "RREP" =>
          p.NumHops >= Dist[p.PrevHopID][p.RREPDestNodeID]
    /\ p.PacketType = "UREP" =>
          p.HopCount >= Dist[p.PrevHopID][p.UREPDestNodeID]

Sent(n, fit) ==
    {p \in Packet : p.PrevHopID = n /\ (fit => SoundHops(p))}

Heard(n, fit) ==
    {p \in Packet : p.PrevHopID \in InRange[n] /\ (fit => SoundHops(p))}

GoodTable(n, fit) ==
    {table \in Table : \A d \in Node : table[d] # NoRoute =>
        /\ table[d].NextHop \in InRange[n]
        /\ fit => table[d].HopCount >= Dist[n][d]}

Tracked(n) ==
    {tx \in PendingTx :
        /\ tx.Pkt.PacketType \in {"DATA", "USER_MSG"}
        /\ tx.Pkt.PacketID = tx.MsgID
        /\ tx.Pkt.PrevHopID = n
        /\ tx.Pkt.DestNodeID = tx.NextHop
        /\ tx.NextHop \in InRange[n]}

OutLinks(fit) == \A n \in Node : txQueue[n] \in Seq(Sent(n, fit))

InLinks(fit) == \A n \in Node : messages[n] \in Seq(Heard(n, fit))

TableLinks(fit) == \A n \in Node : RouteTable[n] \in GoodTable(n, fit)

PendingLinks ==
    \A n \in Node :
        /\ pendingTxs[n] \subseteq Tracked(n)
        /\ registering[n] \subseteq Tracked(n)
        /\ expired[n] \subseteq Tracked(n)

LinkInv(fit) ==
    /\ OutLinks(fit)
    /\ InLinks(fit)
    /\ TableLinks(fit)
    /\ PendingLinks
    /\ BlacklistSound

(* Hops and tables.                                                        *)

LEMMA OneHopFurther ==
  ASSUME NEW n \in Node, NEW m \in InRange[n], NEW d \in Node, NEW k \in Nat,
         k >= Dist[m][d]
  PROVE  k + 1 >= Dist[n][d]
  <1>1. m \in Node
    BY RouterAssumption
  <1>2. Dist[n][d] \in Nat /\ Dist[m][d] \in Nat
    BY <1>1, DistAssumption
  <1>3. Dist[n][d] <= Dist[m][d] + 1
    BY <1>1, DistAssumption
  <1> QED
    BY <1>2, <1>3

LEMMA NeighbourIsNear ==
  ASSUME NEW n \in Node, NEW m \in InRange[n]
  PROVE  m \in Node /\ 1 >= Dist[n][m]
  <1>1. m \in Node
    BY RouterAssumption
  <1>2. Dist[m][m] = 0
    BY <1>1, DistAssumption
  <1> QED
    BY <1>1, <1>2, OneHopFurther

LEMMA AddedGoodRoute ==
  ASSUME NEW fit \in BOOLEAN, NEW n \in Node, NEW table \in GoodTable(n, fit),
         NEW dest \in Node, NEW hop \in InRange[n], NEW hops \in Nat,
         fit => hops >= Dist[n][dest]
  PROVE  maybeAddRoute(table, dest, hop, hops) \in GoodTable(n, fit)
  <1> DEFINE new == maybeAddRoute(table, dest, hop, hops)
  <1>1. hop \in Node
    BY RouterAssumption
  <1>2. table \in Table
    BY DEF GoodTable
  <1>3. new \in Table
    BY <1>1, <1>2, AddedRoute
  <1>4. ASSUME NEW d \in Node, new[d] # NoRoute
        PROVE  /\ new[d].NextHop \in InRange[n]
               /\ fit => new[d].HopCount >= Dist[n][d]
    <2>1. CASE new[d] = table[d]
      BY <1>4, <2>1 DEF GoodTable
    <2>2. CASE new[d] # table[d]
      BY <1>2, <2>2 DEF maybeAddRoute, Table
    <2> QED
      BY <2>1, <2>2
  <1> HIDE DEF new
  <1>5. \A d \in Node : new[d] # NoRoute =>
           /\ new[d].NextHop \in InRange[n]
           /\ fit => new[d].HopCount >= Dist[n][d]
    BY <1>4
  <1>6. new \in GoodTable(n, fit)
    BY <1>3, <1>5, Zenon DEF GoodTable
  <1> QED
    BY <1>6 DEF new

LEMMA InvalidatedGoodRoutes ==
  ASSUME NEW fit \in BOOLEAN, NEW n \in Node, NEW table \in GoodTable(n, fit),
         NEW broken, NEW dest, NEW sender
  PROVE  InvalidateRoutes(table, broken, dest, sender) \in GoodTable(n, fit)
  BY InvalidatedRoutes DEF InvalidateRoutes, GoodTable, Table

(* Packets that n may send.                                                *)

LEMMA DataSent ==
  ASSUME NEW fit \in BOOLEAN, NEW origin \in Node, NEW src \in Node,
         NEW dest \in Node \cup {BROADCAST_ADDR}, NEW nextHop \in Address,
         NEW hops \in Nat, NEW flags \in Flags, NEW pid \in PacketID
  PROVE  CreateDataPacket(origin, src, dest, nextHop, hops, flags, pid)
            \in Sent(src, fit)
  BY DataPacket DEF CreateDataPacket, Sent, SoundHops, Packet

LEMMA AckSent ==
  ASSUME NEW fit \in BOOLEAN, NEW src \in Node, NEW nextHop \in Address,
         NEW original \in PacketID, NEW pid \in PacketID
  PROVE  CreateACKPacket(src, nextHop, original, pid) \in Sent(src, fit)
  BY AckPacket DEF CreateACKPacket, Sent, SoundHops, Packet

LEMMA RREQSent ==
  ASSUME NEW fit \in BOOLEAN, NEW src \in Node, NEW dest \in Node,
         NEW origin \in Node, NEW hops \in Nat, NEW pid \in PacketID,
         fit => hops <= 255 /\ hops >= Dist[src][origin]
  PROVE  CreateRREQPacket(src, dest, origin, hops, pid) \in Sent(src, fit)
  BY RREQPacket DEF CreateRREQPacket, Sent, SoundHops, Packet, Uint8

LEMMA RREPSent ==
  ASSUME NEW fit \in BOOLEAN, NEW src \in Node, NEW destRoute \in Node,
         NEW nextHop \in Address, NEW origin \in Node, NEW hops \in Nat,
         NEW rrepHops \in Nat, NEW pid \in PacketID,
         fit => rrepHops <= 255 /\ rrepHops >= Dist[src][destRoute]
  PROVE  CreateRREPPacket(src, destRoute, nextHop, origin, hops, rrepHops, pid)
            \in Sent(src, fit)
  BY RREPPacket DEF CreateRREPPacket, Sent, SoundHops, Packet, Uint8

LEMMA RERRSent ==
  ASSUME NEW fit \in BOOLEAN, NEW src \in Node, NEW nextHop \in Address,
         NEW broken \in Node, NEW originalDest \in Node,
         NEW original \in PacketID, NEW origin \in Node, NEW hops \in Nat,
         NEW pid \in PacketID
  PROVE  CreateRERRPacket(src, nextHop, broken, originalDest, original, origin,
                          hops, pid) \in Sent(src, fit)
  BY RERRPacket DEF CreateRERRPacket, Sent, SoundHops, Packet

LEMMA InfoSent ==
  ASSUME NEW fit \in BOOLEAN, NEW src \in Node, NEW origin \in Node,
         NEW added \in SUBSET User, NEW removed \in SUBSET User,
         NEW hops \in Nat, NEW pid \in PacketID,
         fit => hops <= 255 /\ hops >= Dist[src][origin]
  PROVE  CreateDiffBroadcastInfoPacket(src, origin, added, removed, hops, pid)
            \in Sent(src, fit)
  BY InfoPacket DEF CreateDiffBroadcastInfoPacket, Sent, SoundHops, Packet, Uint8

LEMMA UREQSent ==
  ASSUME NEW fit \in BOOLEAN, NEW src \in Node, NEW origin \in Node,
         NEW user \in User, NEW hops \in Nat, NEW pid \in PacketID,
         fit => hops <= 255 /\ hops >= Dist[src][origin]
  PROVE  CreateUREQPacket(src, origin, user, hops, pid) \in Sent(src, fit)
  BY UREQPacket DEF CreateUREQPacket, Sent, SoundHops, Packet, Uint8

LEMMA UREPSent ==
  ASSUME NEW fit \in BOOLEAN, NEW src \in Node, NEW dest \in Address,
         NEW origin \in Node, NEW home \in Node, NEW user \in User,
         NEW hops \in Nat, NEW pid \in PacketID,
         fit => hops <= 255 /\ hops >= Dist[src][home]
  PROVE  CreateUREPPacket(src, dest, origin, home, user, hops, pid)
            \in Sent(src, fit)
  BY UREPPacket DEF CreateUREPPacket, Sent, SoundHops, Packet, Uint8

LEMMA UERRSent ==
  ASSUME NEW fit \in BOOLEAN, NEW src \in Node, NEW dest \in Address,
         NEW user \in User, NEW home \in Node, NEW origin \in Address,
         NEW original \in PacketID, NEW pid \in PacketID
  PROVE  CreateUERRPacket(src, dest, user, home, origin, original, pid)
            \in Sent(src, fit)
  BY UERRPacket DEF CreateUERRPacket, Sent, SoundHops, Packet

LEMMA UserMessageSent ==
  ASSUME NEW fit \in BOOLEAN, NEW origin \in Node, NEW src \in Node,
         NEW from \in User, NEW to \in User, NEW toNode \in Node,
         NEW nextHop \in Address, NEW hops \in Nat, NEW flags \in Flags,
         NEW pid \in PacketID
  PROVE  CreateUSERMessagePacket(origin, src, from, to, toNode, nextHop, hops,
                                 flags, pid) \in Sent(src, fit)
  BY UserMessagePacket DEF CreateUSERMessagePacket, Sent, SoundHops, Packet

(* What the actions are made of.                                           *)

LEMMA EnqueueLinks ==
  ASSUME NEW fit \in BOOLEAN, TypeOK, OutLinks(fit), NEW n \in Node,
         NEW pkts \in Seq(Sent(n, fit)), NEW fresh, Enqueue(n, pkts, fresh)
  PROVE  OutLinks(fit)'
  <1>0. txQueue \in [Node -> Seq(Packet)]
    BY DEF TypeOK
  <1>1. txQueue[n] \o pkts \in Seq(Sent(n, fit))
    BY DEF OutLinks
  <1>2. /\ txQueue'[n] = txQueue[n] \o pkts
        /\ \A m \in Node \ {n} : txQueue'[m] = txQueue[m]
    BY <1>0 DEF Enqueue
  <1> QED
    BY <1>1, <1>2 DEF OutLinks

LEMMA EnqueueOneLinks ==
  ASSUME NEW fit \in BOOLEAN, TypeOK, OutLinks(fit), NEW n \in Node,
         NEW pkt \in Sent(n, fit), NEW fresh, Enqueue(n, <<pkt>>, fresh)
  PROVE  OutLinks(fit)'
  <1>1. <<pkt>> \in Seq(Sent(n, fit))
    OBVIOUS
  <1> QED
    BY <1>1, EnqueueLinks

\* Nothing is queued, or one packet that n may send.
LEMMA AtMostOnePacket ==
  ASSUME NEW fit \in BOOLEAN, OutLinks(fit), UNCHANGED out
  PROVE  OutLinks(fit)'
  BY DEF OutLinks, out

LEMMA ReceivedLinks ==
  ASSUME NEW fit \in BOOLEAN, TypeOK, InLinks(fit), fit => HopsFit,
         NEW n \in Node, NEW type, Receive(n, type)
  PROVE  /\ Head(messages[n]) \in Heard(n, fit)
         /\ Head(messages[n]) \in Packet
         /\ Head(messages[n]).PacketType = type
         /\ fit => /\ Head(messages[n]).HopCount < 255
                   /\ type = "RREP" => Head(messages[n]).NumHops < 255
         /\ InLinks(fit)'
  <1>0. messages \in [Node -> Seq(Packet)] /\ messages[n] # <<>>
    BY DEF TypeOK, Receive
  <1>1. messages[n] \in Seq(Heard(n, fit))
    BY DEF InLinks
  <1>2. /\ Head(messages[n]) \in Heard(n, fit)
        /\ Tail(messages[n]) \in Seq(Heard(n, fit))
    BY <1>0, <1>1
  <1>3. /\ Head(messages[n]) \in Packet
        /\ Head(messages[n]).PacketType = type
    BY Received
  <1>4. 1 \in DOMAIN messages[n] /\ Head(messages[n]) = messages[n][1]
    BY <1>0
  <1>5. HopsFit => /\ Head(messages[n]).HopCount < 255
                   /\ type = "RREP" => Head(messages[n]).NumHops < 255
    BY <1>3, <1>4 DEF HopsFit
  <1>6. /\ messages'[n] = Tail(messages[n])
        /\ \A m \in Node \ {n} : messages'[m] = messages[m]
    BY <1>0 DEF Receive
  <1>7. InLinks(fit)'
    BY <1>2, <1>6 DEF InLinks
  <1> QED
    BY <1>2, <1>3, <1>5, <1>7

LEMMA UnblacklistLinks ==
  ASSUME TypeOK, BlacklistSound, NEW n \in Node, NEW p, Unblacklist(n, p)
  PROVE  BlacklistSound'
  <1>0. brokenNodes \in [Node -> SUBSET Node]
    BY DEF TypeOK
  <1> QED
    BY <1>0 DEF Unblacklist, unmarkBroken, BlacklistSound

LEMMA SetRoutesLinks ==
  ASSUME NEW fit \in BOOLEAN, TypeOK, TableLinks(fit), NEW n \in Node,
         NEW table \in GoodTable(n, fit), SetRoutes(n, table)
  PROVE  TableLinks(fit)'
  <1>0. RouteTable \in [Node -> Table]
    BY DEF TypeOK, Table
  <1>1. /\ RouteTable'[n] = table
        /\ \A m \in Node \ {n} : RouteTable'[m] = RouteTable[m]
    BY <1>0 DEF SetRoutes
  <1> QED
    BY <1>1 DEF TableLinks

LEMMA NewPendingTxLinks ==
  ASSUME NEW fit \in BOOLEAN, NEW n \in Node, NEW pkt \in Sent(n, fit),
         pkt.PacketType \in {"DATA", "USER_MSG"},
         pkt.DestNodeID \in InRange[n], NEW dest \in Node, NEW origin \in Node
  PROVE  NewPendingTx(pkt, dest, pkt.DestNodeID, origin) \in Tracked(n)
  <1>1. pkt \in Packet /\ pkt.PrevHopID = n /\ pkt.DestNodeID \in Node
    BY RouterAssumption DEF Sent
  <1>2. NewPendingTx(pkt, dest, pkt.DestNodeID, origin) \in PendingTx
    BY <1>1, NewPendingTxType
  <1> QED
    BY <1>1, <1>2 DEF Tracked, NewPendingTx

LEMMA RemovedPendingLinks ==
  ASSUME TypeOK, PendingLinks, NEW n \in Node, NEW ids,
         pendingTxs' = [pendingTxs EXCEPT ![n] = WithoutPending(n, ids)],
         UNCHANGED <<registering, expired>>
  PROVE  PendingLinks'
  <1>0. pendingTxs \in [Node -> SUBSET PendingTx]
    BY DEF TypeOK
  <1> QED
    BY <1>0 DEF PendingLinks, WithoutPending

LEMMA RouteLinks ==
  ASSUME NEW fit \in BOOLEAN, TypeOK, TableLinks(fit), NEW n \in Node,
         NEW d \in Node, HasRoute(n, d)
  PROVE  /\ RouteTable[n][d].NextHop \in InRange[n]
         /\ RouteTable[n][d].NextHop \in Node
  BY RouterAssumption DEF TableLinks, GoodTable, HasRoute

(* Sends.                                                                  *)

LEMMA SendAndTrackLinks ==
  ASSUME NEW fit \in BOOLEAN, TypeOK, OutLinks(fit), PendingLinks,
         NEW n \in Node, NEW pkt \in Sent(n, fit),
         pkt.PacketType \in {"DATA", "USER_MSG"},
         pkt.DestNodeID \in InRange[n], NEW dest \in Node,
         NEW inHandler \in BOOLEAN, SendAndTrack(n, pkt, dest, inHandler),
         UNCHANGED expired
  PROVE  OutLinks(fit)' /\ PendingLinks'
  <1> DEFINE tx == NewPendingTx(pkt, dest, pkt.DestNodeID, n)
  <1>0. /\ pendingTxs \in [Node -> SUBSET PendingTx]
        /\ registering \in [Node -> SUBSET PendingTx]
    BY DEF TypeOK
  <1>1. tx \in Tracked(n)
    BY NewPendingTxLinks
  <1>2. OutLinks(fit)'
    BY EnqueueOneLinks DEF SendAndTrack
  <1> HIDE DEF tx
  <1>3. /\ \/ pendingTxs' = [pendingTxs EXCEPT ![n] = PutPending(n, tx)]
           \/ UNCHANGED pendingTxs
        /\ \/ registering' = [registering EXCEPT ![n] = @ \cup {tx}]
           \/ UNCHANGED registering
    BY DEF SendAndTrack, tx
  <1>4. PendingLinks'
    BY <1>0, <1>1, <1>3 DEF PendingLinks, PutPending, WithoutPending
  <1> QED
    BY <1>2, <1>4

LEMMA OwnRREQ ==
  ASSUME NEW fit \in BOOLEAN, TypeOK, NEW n \in Node, NEW dest \in Node
  PROVE  CreateRREQPacket(n, dest, n, 0, FreshID(n, 0)) \in Sent(n, fit)
  BY FreshIDType, RREQSent, DistAssumption

LEMMA SendDataLinks ==
  ASSUME NEW fit \in BOOLEAN, TypeOK, OutLinks(fit), TableLinks(fit),
         PendingLinks, NEW n \in Node,
         NEW dest \in Node \cup {BROADCAST_ADDR}, NEW flags \in Flags,
         NEW inHandler \in BOOLEAN, SendData(n, dest, flags, inHandler),
         UNCHANGED expired
  PROVE  OutLinks(fit)' /\ PendingLinks'
  <1> DEFINE Broadcast == CreateDataPacket(n, n, dest, BROADCAST_ADDR, 0, flags,
                                           FreshID(n, 0))
             request == CreateRREQPacket(n, dest, n, 0, FreshID(n, 0))
             Unicast == CreateDataPacket(n, n, dest,
                            RouteTable[n][dest].NextHop, 0, flags,
                            FreshID(n, 0))
  <1> HIDE DEF Broadcast, request, Unicast
  <1>0. FreshID(n, 0) \in PacketID
    BY FreshIDType
  <1>1. \/ /\ Enqueue(n, <<Broadcast>>, 1)
           /\ UNCHANGED <<pendingTxs, registering>>
        \/ UNCHANGED <<out, pendingTxs, registering>>
        \/ /\ dest \in Node
           /\ Enqueue(n, <<request>>, 1)
           /\ UNCHANGED <<pendingTxs, registering>>
        \/ /\ dest \in Node /\ HasRoute(n, dest)
           /\ SendAndTrack(n, Unicast, dest, inHandler)
    BY DEF SendData, QueueAndRequestRoute, Broadcast, request, Unicast
  <1>2. CASE UNCHANGED <<pendingTxs, registering>>
    <2>1. PendingLinks'
      BY <1>2 DEF PendingLinks
    <2>2. CASE UNCHANGED out
      BY <2>1, <2>2, AtMostOnePacket
    <2>3. CASE Enqueue(n, <<Broadcast>>, 1)
      <3>1. Broadcast \in Sent(n, fit)
        BY <1>0, DataSent DEF Broadcast, Address
      <3> QED
        BY <2>1, <2>3, <3>1, EnqueueOneLinks
    <2>4. CASE dest \in Node /\ Enqueue(n, <<request>>, 1)
      <3>1. request \in Sent(n, fit)
        BY <2>4, OwnRREQ DEF request
      <3> QED
        BY <2>1, <2>4, <3>1, EnqueueOneLinks
    <2>5. CASE /\ dest \in Node /\ HasRoute(n, dest)
               /\ SendAndTrack(n, Unicast, dest, inHandler)
      <3>1. Enqueue(n, <<Unicast>>, 1)
        BY <2>5 DEF SendAndTrack
      <3>2. RouteTable[n][dest].NextHop \in Node
        BY <2>5, RouteLinks
      <3>3. Unicast \in Sent(n, fit)
        BY <1>0, <3>2, DataSent DEF Unicast, Address
      <3> QED
        BY <2>1, <3>1, <3>3, EnqueueOneLinks
    <2> QED
      BY <1>1, <2>2, <2>3, <2>4, <2>5
  <1>3. CASE /\ dest \in Node /\ HasRoute(n, dest)
             /\ SendAndTrack(n, Unicast, dest, inHandler)
    <2>1. /\ RouteTable[n][dest].NextHop \in Node
          /\ RouteTable[n][dest].NextHop \in InRange[n]
      BY <1>3, RouteLinks
    <2>2. Unicast \in Sent(n, fit)
      BY <1>0, <2>1, DataSent DEF Unicast, Address
    <2>3. Unicast.DestNodeID \in InRange[n] /\ Unicast.PacketType = "DATA"
      BY <2>1 DEF Unicast, CreateDataPacket
    <2> QED
      BY <1>3, <2>2, <2>3, SendAndTrackLinks
  <1> QED
    BY <1>1, <1>2, <1>3

LEMMA SendUserMessageLinks ==
  ASSUME NEW fit \in BOOLEAN, TypeOK, OutLinks(fit), TableLinks(fit),
         PendingLinks, NEW n \in Node, NEW from \in User, NEW to \in User,
         NEW flags \in Flags, NEW inHandler \in BOOLEAN,
         SendUserMessage(n, from, to, flags, inHandler),
         UNCHANGED expired
  PROVE  OutLinks(fit)' /\ PendingLinks'
  <1> DEFINE home == gut[n][to]
             lookup == CreateUREQPacket(n, n, to, 0, FreshID(n, 0))
             request == CreateRREQPacket(n, home, n, 0, FreshID(n, 0))
             message == CreateUSERMessagePacket(n, n, from, to, home,
                            RouteTable[n][home].NextHop, 0, flags,
                            FreshID(n, 0))
  <1> HIDE DEF home, lookup, request, message
  <1>0. FreshID(n, 0) \in PacketID
    BY FreshIDType
  <1>1. \/ UNCHANGED <<out, pendingTxs, registering>>
        \/ /\ Enqueue(n, <<lookup>>, 1)
           /\ UNCHANGED <<pendingTxs, registering>>
        \/ /\ home \in Node
           /\ Enqueue(n, <<request>>, 1)
           /\ UNCHANGED <<pendingTxs, registering>>
        \/ /\ home \in Node /\ HasRoute(n, home)
           /\ SendAndTrack(n, message, home, inHandler)
    BY DEF SendUserMessage, QueueAndRequestRoute, home, lookup, request, message
  <1>2. CASE UNCHANGED <<out, pendingTxs, registering>>
    BY <1>2, AtMostOnePacket DEF PendingLinks
  <1>3. CASE /\ Enqueue(n, <<lookup>>, 1)
             /\ UNCHANGED <<pendingTxs, registering>>
    <2>1. lookup \in Sent(n, fit)
      BY <1>0, UREQSent, DistAssumption DEF lookup
    <2> QED
      BY <1>3, <2>1, EnqueueOneLinks DEF PendingLinks
  <1>4. CASE /\ home \in Node
             /\ Enqueue(n, <<request>>, 1)
             /\ UNCHANGED <<pendingTxs, registering>>
    <2>1. request \in Sent(n, fit)
      BY <1>4, OwnRREQ DEF request
    <2> QED
      BY <1>4, <2>1, EnqueueOneLinks DEF PendingLinks
  <1>5. CASE /\ home \in Node /\ HasRoute(n, home)
             /\ SendAndTrack(n, message, home, inHandler)
    <2>1. /\ RouteTable[n][home].NextHop \in Node
          /\ RouteTable[n][home].NextHop \in InRange[n]
      BY <1>5, RouteLinks
    <2>2. message \in Sent(n, fit)
      BY <1>0, <1>5, <2>1, UserMessageSent DEF message, Address
    <2>3. /\ message.DestNodeID \in InRange[n]
          /\ message.PacketType = "USER_MSG"
      BY <2>1 DEF message, CreateUSERMessagePacket
    <2> QED
      BY <1>5, <2>2, <2>3, SendAndTrackLinks
  <1> QED
    BY <1>1, <1>2, <1>3, <1>4, <1>5

(* One lemma per action.                                                   *)

LEMMA ApplicationLinks ==
  ASSUME NEW fit \in BOOLEAN, TypeOK, LinkInv(fit), NEW n \in Node,
         Application(n)
  PROVE  LinkInv(fit)'
  <1>1. CASE CallSendData(n)
    <2>1. Make(n, "SendData")
      BY <1>1 DEF CallSendData
    <2>2. calls[made + 1] \in DataCall
      BY <2>1, MadeCall DEF DataCall, UserCall, UserMove, Departure
    <2>3. /\ SendData(n, calls[made + 1].dest, calls[made + 1].flags, FALSE)
          /\ UNCHANGED <<RouteTable, messages, brokenNodes, expired>>
      BY <1>1 DEF CallSendData, checker
    <2>4. OutLinks(fit)' /\ PendingLinks'
      BY <2>2, <2>3, SendDataLinks DEF DataCall, LinkInv
    <2> QED
      BY <2>3, <2>4 DEF LinkInv, InLinks, TableLinks, BlacklistSound
  <1>2. CASE CallSendUserMessage(n)
    <2>1. Make(n, "SendUserMessage")
      BY <1>2 DEF CallSendUserMessage
    <2>2. calls[made + 1] \in UserCall
      BY <2>1, MadeCall DEF DataCall, UserCall, UserMove, Departure
    <2>3. /\ SendUserMessage(n, calls[made + 1].from, calls[made + 1].to,
                             calls[made + 1].flags, FALSE)
          /\ UNCHANGED <<RouteTable, messages, brokenNodes, expired>>
      BY <1>2 DEF CallSendUserMessage, checker
    <2>4. OutLinks(fit)' /\ PendingLinks'
      BY <2>2, <2>3, SendUserMessageLinks DEF UserCall, LinkInv
    <2> QED
      BY <2>3, <2>4 DEF LinkInv, InLinks, TableLinks, BlacklistSound
  <1>3. CASE MoveUser(n) \/ Leave(n)
    BY <1>3 DEF MoveUser, Leave, out, checker, LinkInv, OutLinks, InLinks,
                TableLinks, PendingLinks, BlacklistSound
  <1> QED
    BY <1>1, <1>2, <1>3 DEF Application

LEMMA RegisterPendingLinks ==
  ASSUME NEW fit \in BOOLEAN, TypeOK, LinkInv(fit), NEW n \in Node,
         RegisterPending(n)
  PROVE  LinkInv(fit)'
  <1>1. PICK tx \in registering[n] :
           /\ registering' = [registering EXCEPT ![n] = @ \ {tx}]
           /\ pendingTxs' = [pendingTxs EXCEPT ![n] = PutPending(n, tx)]
           /\ UNCHANGED <<RouteTable, brokenNodes, out, messages, checker>>
    BY DEF RegisterPending
  <1>2. /\ pendingTxs \in [Node -> SUBSET PendingTx]
        /\ registering \in [Node -> SUBSET PendingTx]
    BY DEF TypeOK
  <1>3. PendingLinks'
    BY <1>1, <1>2 DEF LinkInv, PendingLinks, PutPending, WithoutPending, checker
  <1> QED
    BY <1>1, <1>3 DEF LinkInv, OutLinks, InLinks, TableLinks, BlacklistSound, out

LEMMA SendDiffBroadcastInfoLinks ==
  ASSUME NEW fit \in BOOLEAN, TypeOK, OutLinks(fit), NEW n \in Node,
         SendDiffBroadcastInfo(n)
  PROVE  OutLinks(fit)'
  <1> DEFINE added == connectedUsers[n] \ lastUsersShadow[n]
             removed == lastUsersShadow[n] \ connectedUsers[n]
             info == CreateDiffBroadcastInfoPacket(n, n, added, removed, 0,
                                                   FreshID(n, 0))
  <1>0. /\ connectedUsers \in [Node -> SUBSET User]
        /\ lastUsersShadow \in [Node -> SUBSET User]
    BY DEF TypeOK
  <1>1. info \in Sent(n, fit)
    BY <1>0, FreshIDType, InfoSent, DistAssumption
  <1> HIDE DEF info
  <1>2. UNCHANGED out \/ Enqueue(n, <<info>>, 1)
    BY DEF SendDiffBroadcastInfo, info
  <1> QED
    BY <1>1, <1>2, AtMostOnePacket, EnqueueOneLinks

LEMMA AnnounceLinks ==
  ASSUME NEW fit \in BOOLEAN, TypeOK, LinkInv(fit), NEW n \in Node,
         Start(n) \/ BroadcastTick(n)
  PROVE  LinkInv(fit)'
  <1>1. OutLinks(fit)'
    BY SendDiffBroadcastInfoLinks DEF LinkInv, Start, BroadcastTick
  <1>2. UNCHANGED <<RouteTable, brokenNodes, messages, pendingTxs, registering,
                    checker>>
    BY DEF Start, BroadcastTick
  <1> QED
    BY <1>1, <1>2
    DEF LinkInv, InLinks, TableLinks, PendingLinks, BlacklistSound, checker

\* A neighbour of n hears what n sends.
LEMMA TransmitLinks ==
  ASSUME NEW fit \in BOOLEAN, TypeOK, LinkInv(fit), NEW n \in Node, Transmit(n)
  PROVE  LinkInv(fit)'
  <1> DEFINE p == Head(txQueue[n])
  <1>0. /\ txQueue \in [Node -> Seq(Packet)]
        /\ messages \in [Node -> Seq(Packet)]
        /\ txQueue[n] # <<>>
    BY DEF TypeOK, Transmit
  <1>1. txQueue[n] \in Seq(Sent(n, fit))
    BY DEF LinkInv, OutLinks
  <1>2. p \in Sent(n, fit) /\ Tail(txQueue[n]) \in Seq(Sent(n, fit))
    BY <1>0, <1>1
  <1>3. OutLinks(fit)'
    <2>1. /\ txQueue'[n] = Tail(txQueue[n])
          /\ \A m \in Node \ {n} : txQueue'[m] = txQueue[m]
      BY <1>0 DEF Transmit
    <2> QED
      BY <1>2, <2>1 DEF LinkInv, OutLinks
  <1> HIDE DEF p
  <1>4. ASSUME NEW m \in Reach(n)
        PROVE  m \in Node /\ Append(messages[m], p) \in Seq(Heard(m, fit))
    <2>1. m \in Node /\ n \in InRange[m]
      BY RouterAssumption DEF Reach
    <2>2. p \in Heard(m, fit)
      BY <1>2, <2>1 DEF Sent, Heard
    <2>3. messages[m] \in Seq(Heard(m, fit))
      BY <2>1 DEF LinkInv, InLinks
    <2> QED
      BY <2>1, <2>2, <2>3
  <1>5. InLinks(fit)'
    <2>1. ASSUME NEW m \in Node
          PROVE  messages'[m] = messages[m] \/
                 (m \in Reach(n) /\ messages'[m] = Append(messages[m], p))
      BY <1>0 DEF Transmit, p
    <2> QED
      BY <1>4, <2>1 DEF LinkInv, InLinks
  <1> QED
    BY <1>3, <1>5
    DEF Transmit, checker, LinkInv, TableLinks, PendingLinks, BlacklistSound

LEMMA HandleBroadcastInfoLinks ==
  ASSUME NEW fit \in BOOLEAN, TypeOK, LinkInv(fit), fit => HopsFit,
         NEW n \in Node, HandleBroadcastInfo(n)
  PROVE  LinkInv(fit)'
  <1> DEFINE p == Head(messages[n])
             direct == AddDirectNeighbor(RouteTable[n], p.PrevHopID)
             copy == CreateDiffBroadcastInfoPacket(n, p.OriginNodeID, p.Added,
                         p.Removed, p.HopCount + 1, p.PacketID)
  <1> HIDE DEF p, direct, copy
  <1>1. /\ p \in Heard(n, fit) /\ p \in Packet
        /\ p.PacketType = "BROADCAST_INFO" /\ p \in InfoFormat
        /\ fit => p.HopCount < 255
        /\ InLinks(fit)'
    BY ReceivedLinks, PacketFormat DEF HandleBroadcastInfo, LinkInv, p
  <1>2. BlacklistSound'
    BY UnblacklistLinks DEF HandleBroadcastInfo, LinkInv
  <1>3. /\ p.OriginNodeID \in Node /\ p.PrevHopID \in InRange[n]
        /\ p.Added \in SUBSET User /\ p.Removed \in SUBSET User
        /\ p.HopCount \in Nat /\ p.PacketID \in PacketID
    BY <1>1 DEF InfoFormat, Heard
  <1>4. fit => p.HopCount + 1 >= Dist[n][p.OriginNodeID]
    BY <1>1, <1>3, OneHopFurther DEF Heard, SoundHops
  <1>5. OutLinks(fit)' /\ TableLinks(fit)'
    <2>1. CASE Seen(n, p)
      BY <2>1, AtMostOnePacket DEF HandleBroadcastInfo, LinkInv, TableLinks, p
    <2>2. CASE ~Seen(n, p)
      <3>1. /\ SetRoutes(n, InfoRoutes(n, p))
            /\ Enqueue(n, <<copy>>, 0) \/ UNCHANGED out
        BY <2>2 DEF HandleBroadcastInfo, p, copy
      <3>2. RouteTable[n] \in GoodTable(n, fit)
        BY DEF LinkInv, TableLinks
      <3>3. direct \in GoodTable(n, fit)
        BY <1>3, <3>2, NeighbourIsNear, AddedGoodRoute
        DEF direct, AddDirectNeighbor
      <3>4. p.HopCount + 1 \in Nat
        BY <1>3
      <3>5. maybeAddRoute(direct, p.OriginNodeID, p.PrevHopID, p.HopCount + 1)
              \in GoodTable(n, fit)
        BY <1>3, <1>4, <3>3, <3>4, AddedGoodRoute
      <3>6. InfoRoutes(n, p) \in GoodTable(n, fit)
        BY <3>3, <3>5 DEF InfoRoutes, direct
      <3>7. fit => p.HopCount + 1 <= 255
        BY <1>1, <1>3
      <3>8. copy \in Sent(n, fit)
        BY SMTT(30), <1>3, <1>4, <3>4, <3>7, InfoSent DEF copy
      <3> QED
        BY <3>1, <3>6, <3>8, AtMostOnePacket, EnqueueOneLinks, SetRoutesLinks
        DEF LinkInv
    <2> QED
      BY <2>1, <2>2
  <1> QED
    BY <1>1, <1>2, <1>5
    DEF LinkInv, PendingLinks, HandleBroadcastInfo, HandlerFrame, checker

LEMMA HandleRREQLinks ==
  ASSUME NEW fit \in BOOLEAN, TypeOK, LinkInv(fit), fit => HopsFit,
         NEW n \in Node, HandleRREQ(n)
  PROVE  LinkInv(fit)'
  <1> DEFINE p == Head(messages[n])
             dest == p.RREQDestNodeID
             table == maybeAddRoute(RouteTable[n], p.OriginNodeID, p.PrevHopID,
                                    p.HopCount + 1)
             copy == CreateRREQPacket(n, dest, p.OriginNodeID, p.HopCount + 1,
                                      p.PacketID)
             reply(hops) == RREPOf(n, table, dest, p.OriginNodeID, hops)
  <1> HIDE DEF p, dest, table, copy, reply
  <1>1. /\ p \in Heard(n, fit) /\ p \in Packet
        /\ p.PacketType = "RREQ" /\ p \in RREQFormat
        /\ fit => p.HopCount < 255
        /\ InLinks(fit)'
    BY Zenon, ReceivedLinks, PacketFormat DEF HandleRREQ, LinkInv, p
  <1>2. BlacklistSound'
    BY UnblacklistLinks DEF HandleRREQ, LinkInv
  <1>3. /\ p.OriginNodeID \in Node /\ p.PrevHopID \in InRange[n]
        /\ p.PrevHopID \in Node /\ dest \in Node
        /\ p.HopCount \in Nat /\ p.HopCount + 1 \in Nat
        /\ p.PacketID \in PacketID
    BY <1>1 DEF RREQFormat, Heard, dest
  <1>4. fit => /\ p.HopCount + 1 >= Dist[n][p.OriginNodeID]
               /\ p.HopCount + 1 <= 255
    BY <1>1, <1>3, OneHopFurther DEF Heard, SoundHops
  <1>5. table \in GoodTable(n, fit)
    <2>1. RouteTable[n] \in GoodTable(n, fit)
      BY DEF LinkInv, TableLinks
    <2> QED
      BY <1>3, <1>4, <2>1, AddedGoodRoute DEF table
  <1>6. table \in Table /\ table[p.OriginNodeID] \in Route
    <2>1. RouteTable[n] \in Table
      BY DEF TypeOK, Table
    <2> QED
      BY <1>3, <2>1, AddedRoute DEF table
  <1>7. ASSUME NEW hops \in Nat, fit => hops <= 255 /\ hops >= Dist[n][dest]
        PROVE  reply(hops) \in Sent(n, fit)
    <2>1. table[p.OriginNodeID].NextHop \in Address
      BY <1>6 DEF Route, Address
    <2>2. FreshID(n, 0) \in PacketID
      BY FreshIDType
    <2> QED
      BY <1>3, <1>7, <2>1, <2>2, RREPSent DEF reply, RREPOf
  <1>8. table[dest] # NoRoute =>
           /\ table[dest].HopCount \in Nat
           /\ fit => /\ table[dest].HopCount <= 255
                     /\ table[dest].HopCount >= Dist[n][dest]
    <2> SUFFICES ASSUME table[dest] # NoRoute
                 PROVE  /\ table[dest].HopCount \in Nat
                        /\ fit => /\ table[dest].HopCount <= 255
                                  /\ table[dest].HopCount >= Dist[n][dest]
      OBVIOUS
    <2>1. table[dest].HopCount \in Nat
      BY <1>3, <1>6 DEF Table, Route
    <2>2. fit => table[dest].HopCount >= Dist[n][dest]
      BY <1>3, <1>5 DEF GoodTable
    <2>3. RouteTable[n] \in Table
      BY DEF TypeOK, Table
    <2>4. \/ table[dest] = RouteTable[n][dest]
          \/ table[dest].HopCount = p.HopCount + 1
      BY <1>3, <2>3 DEF table, maybeAddRoute, Table
    <2>5. HopsFit => (RouteTable[n][dest] # NoRoute =>
                         RouteTable[n][dest].HopCount <= 255)
      BY <1>3 DEF HopsFit, HasRoute
    <2>6. fit => table[dest].HopCount <= 255
      BY SMTT(30), <1>4, <2>4, <2>5
    <2> QED
      BY <2>1, <2>2, <2>6
  <1>9. OutLinks(fit)' /\ TableLinks(fit)'
    <2>1. CASE Seen(n, p)
      BY <2>1, AtMostOnePacket DEF HandleRREQ, LinkInv, TableLinks, p
    <2>2. CASE ~Seen(n, p)
      <3>1. /\ SetRoutes(n, table)
            /\ \/ /\ n = dest
                  /\ Enqueue(n, <<reply(0)>>, 1)
               \/ /\ table[dest] # NoRoute
                  /\ Enqueue(n, <<reply(table[dest].HopCount)>>, 1)
               \/ Enqueue(n, <<copy>>, 0)
               \/ UNCHANGED out
        BY <2>2 DEF HandleRREQ, p, dest, table, copy, reply
      <3>2. copy \in Sent(n, fit)
        BY <1>3, <1>4, RREQSent DEF copy
      <3>3. n = dest => reply(0) \in Sent(n, fit)
        BY <1>7, DistAssumption
      <3>4. table[dest] # NoRoute =>
               reply(table[dest].HopCount) \in Sent(n, fit)
        BY <1>7, <1>8
      <3>5. OutLinks(fit)'
        BY <3>1, <3>2, <3>3, <3>4, AtMostOnePacket, EnqueueOneLinks DEF LinkInv
      <3> QED
        BY SMTT(30), <1>5, <3>1, <3>5, SetRoutesLinks DEF LinkInv
    <2> QED
      BY <2>1, <2>2
  <1> QED
    BY <1>1, <1>2, <1>9
    DEF LinkInv, PendingLinks, HandleRREQ, HandlerFrame, checker

LEMMA HandleRREPLinks ==
  ASSUME NEW fit \in BOOLEAN, TypeOK, LinkInv(fit), fit => HopsFit,
         NEW n \in Node, HandleRREP(n)
  PROVE  LinkInv(fit)'
  <1> DEFINE p == Head(messages[n])
             dest == p.RREPDestNodeID
             first == maybeAddRoute(RouteTable[n], dest, p.PrevHopID,
                                    p.NumHops + 1)
             table == maybeAddRoute(first, p.PrevHopID, p.PrevHopID, 1)
             copy == CreateRREPPacket(n, dest, table[dest].NextHop,
                         p.OriginNodeID, p.HopCount + 1, p.NumHops + 1,
                         p.PacketID)
  <1> HIDE DEF p, dest, first, table, copy
  <1>1. /\ p \in Heard(n, fit) /\ p \in Packet
        /\ p.PacketType = "RREP" /\ p \in RREPFormat
        /\ fit => p.NumHops < 255
        /\ InLinks(fit)'
    BY ReceivedLinks, PacketFormat DEF HandleRREP, LinkInv, p
  <1>2. BlacklistSound'
    BY UnblacklistLinks DEF HandleRREP, LinkInv
  <1>3. /\ p.OriginNodeID \in Node /\ p.PrevHopID \in InRange[n]
        /\ p.PrevHopID \in Node /\ dest \in Node
        /\ p.NumHops \in Nat /\ p.NumHops + 1 \in Nat
        /\ p.HopCount + 1 \in Nat /\ p.PacketID \in PacketID
    BY <1>1 DEF RREPFormat, Heard, dest
  <1>4. fit => /\ p.NumHops + 1 >= Dist[n][dest]
               /\ p.NumHops + 1 <= 255
    BY <1>1, <1>3, OneHopFurther DEF Heard, SoundHops, dest
  <1>5. table \in GoodTable(n, fit) /\ table[dest].NextHop \in Address
    <2>1. RouteTable[n] \in GoodTable(n, fit) /\ RouteTable[n] \in Table
      BY DEF LinkInv, TableLinks, TypeOK, Table
    <2>2. first \in GoodTable(n, fit)
      BY <1>3, <1>4, <2>1, AddedGoodRoute DEF first
    <2>3. table \in GoodTable(n, fit)
      BY <1>3, <2>2, NeighbourIsNear, AddedGoodRoute DEF table
    <2>4. first \in Table /\ first[dest] \in Route
      BY <1>3, <2>1, AddedRoute DEF first
    <2>5. table \in Table
      BY <2>3 DEF GoodTable
    <2>6. table[dest] # NoRoute
      BY <1>3, <2>4, NoRouteAssumption DEF table, maybeAddRoute, Table, Route
    <2> QED
      BY <1>3, <2>3, <2>5, <2>6 DEF Table, Route, Address
  <1>6. OutLinks(fit)' /\ TableLinks(fit)'
    <2>1. CASE p.DestNodeID # n \/ Seen(n, p)
      BY <2>1, AtMostOnePacket DEF HandleRREP, LinkInv, TableLinks, p
    <2>2. CASE ~(p.DestNodeID # n \/ Seen(n, p))
      <3>1. /\ SetRoutes(n, table)
            /\ Enqueue(n, <<copy>>, 0) \/ UNCHANGED out
        BY <2>2 DEF HandleRREP, p, dest, first, table, copy
      <3>2. copy \in Sent(n, fit)
        BY <1>3, <1>4, <1>5, RREPSent DEF copy
      <3> QED
        BY <1>5, <3>1, <3>2, AtMostOnePacket, EnqueueOneLinks, SetRoutesLinks
        DEF LinkInv
    <2> QED
      BY <2>1, <2>2
  <1> QED
    BY SMTT(30), <1>1, <1>2, <1>6
    DEF LinkInv, PendingLinks, HandleRREP, HandlerFrame, checker

LEMMA FlushStepLinks ==
  ASSUME NEW fit \in BOOLEAN, TypeOK, LinkInv(fit), NEW n \in Node,
         FlushStep(n)
  PROVE  LinkInv(fit)'
  <1> DEFINE e == Head(flushing[n])
  <1>0. flushing \in [Node -> Seq(QueuedSend)] /\ flushing[n] # <<>>
    BY DEF TypeOK, FlushStep
  <1>1. e \in QueuedSend
    BY <1>0
  <1> HIDE DEF e
  <1>2. UNCHANGED <<RouteTable, brokenNodes, messages, expired>>
    BY DEF FlushStep, checker
  <1>3. OutLinks(fit)' /\ PendingLinks'
    <2>1. CASE e.packetType = "DATA"
      <3>1. SendData(n, e.dest, e.flags, TRUE)
        BY <2>1 DEF FlushStep, e
      <3>2. e.dest \in Node /\ e.flags \in Flags
        BY <1>1, <2>1 DEF QueuedSend
      <3> QED
        BY <1>2, <3>1, <3>2, SendDataLinks DEF LinkInv
    <2>2. CASE e.packetType = "USER_MSG"
      <3>1. SendUserMessage(n, e.from, e.to, e.flags, TRUE)
        BY <2>2 DEF FlushStep, e
      <3>2. e.from \in User /\ e.to \in User /\ e.flags \in Flags
        BY <1>1, <2>2 DEF QueuedSend
      <3> QED
        BY <1>2, <3>1, <3>2, SendUserMessageLinks DEF LinkInv
    <2> QED
      BY <2>1, <2>2 DEF FlushStep, e
  <1> QED
    BY <1>2, <1>3 DEF LinkInv, InLinks, TableLinks, BlacklistSound

\* What goes on the blacklist is a neighbour, or the node itself.
LEMMA sendRERRLinks ==
  ASSUME NEW fit \in BOOLEAN, TypeOK, OutLinks(fit), BlacklistSound,
         NEW n \in Node, NEW to \in Node, NEW dataDest \in Node,
         NEW brokenNode \in Node, brokenNode \in InRange[n] \cup {n},
         NEW packetId \in PacketID, NEW source \in Node,
         NEW blacklist \in SUBSET brokenNodes[n],
         sendRERR(n, to, dataDest, brokenNode, packetId, source, blacklist)
  PROVE  OutLinks(fit)' /\ BlacklistSound'
  <1> DEFINE rerr == CreateRERRPacket(n, to, brokenNode, dataDest, packetId,
                                      source, 0, FreshID(n, 0))
  <1>1. rerr \in Sent(n, fit)
    BY FreshIDType, RERRSent DEF Address
  <1>2. Enqueue(n, <<rerr>>, 1)
    BY DEF sendRERR
  <1> HIDE DEF rerr
  <1>3. brokenNodes \in [Node -> SUBSET Node]
    BY DEF TypeOK
  <1>4. BlacklistSound'
    BY <1>3 DEF sendRERR, BlacklistSound
  <1> QED
    BY <1>1, <1>2, <1>4, EnqueueOneLinks

LEMMA HandleRERRLinks ==
  ASSUME NEW fit \in BOOLEAN, TypeOK, LinkInv(fit), fit => HopsFit,
         NEW n \in Node, HandleRERR(n)
  PROVE  LinkInv(fit)'
  <1> DEFINE p == Head(messages[n])
             table == InvalidateRoutes(RouteTable[n], p.BrokenNodeID,
                                       p.OriginalDestNodeID, p.PrevHopID)
             copy == CreateRERRPacket(n, table[p.OriginNodeID].NextHop,
                         p.BrokenNodeID, p.OriginalDestNodeID,
                         p.OriginalPacketID, p.OriginNodeID, p.HopCount + 1,
                         p.PacketID)
  <1> HIDE DEF p, table, copy
  <1>1. /\ p \in Packet /\ p \in RERRFormat /\ InLinks(fit)'
    BY ReceivedLinks, PacketFormat DEF HandleRERR, LinkInv, p
  <1>2. BlacklistSound'
    BY UnblacklistLinks DEF HandleRERR, LinkInv
  <1>3. /\ p.OriginNodeID \in Node /\ p.BrokenNodeID \in Node
        /\ p.OriginalDestNodeID \in Node /\ p.OriginalPacketID \in PacketID
        /\ p.HopCount + 1 \in Nat /\ p.PacketID \in PacketID
    BY <1>1 DEF RERRFormat
  <1>4. table \in GoodTable(n, fit) /\ table \in Table
    <2>1. RouteTable[n] \in GoodTable(n, fit)
      BY DEF LinkInv, TableLinks
    <2>2. table \in GoodTable(n, fit)
      BY <2>1, InvalidatedGoodRoutes DEF table
    <2> QED
      BY <2>2 DEF GoodTable
  <1>5. OutLinks(fit)' /\ TableLinks(fit)'
    <2>1. CASE Seen(n, p)
      BY <2>1, AtMostOnePacket DEF HandleRERR, LinkInv, TableLinks, p
    <2>2. CASE ~Seen(n, p)
      <3>1. /\ SetRoutes(n, table)
            /\ \/ /\ table[p.OriginNodeID] # NoRoute
                  /\ Enqueue(n, <<copy>>, 0)
               \/ UNCHANGED out
        BY <2>2 DEF HandleRERR, p, table, copy
      <3>2. table[p.OriginNodeID] # NoRoute => copy \in Sent(n, fit)
        BY <1>3, <1>4, RERRSent DEF copy, Table, Route, Address
      <3> QED
        BY <1>4, <3>1, <3>2, AtMostOnePacket, EnqueueOneLinks, SetRoutesLinks
        DEF LinkInv
    <2> QED
      BY <2>1, <2>2
  <1> QED
    BY <1>1, <1>2, <1>5
    DEF LinkInv, PendingLinks, HandleRERR, HandlerFrame, checker

LEMMA HandleDataAckLinks ==
  ASSUME NEW fit \in BOOLEAN, TypeOK, LinkInv(fit), fit => HopsFit,
         NEW n \in Node, HandleDataAck(n)
  PROVE  LinkInv(fit)'
  <1> DEFINE p == Head(messages[n])
  <1>1. InLinks(fit)'
    BY ReceivedLinks DEF HandleDataAck, LinkInv
  <1>2. BlacklistSound'
    BY UnblacklistLinks DEF HandleDataAck, LinkInv
  <1>3. UNCHANGED <<RouteTable, txQueue, registering, expired>>
    BY DEF HandleDataAck, HandlerFrame, out, checker
  <1>4. \/ UNCHANGED pendingTxs
        \/ pendingTxs' = [pendingTxs EXCEPT
               ![n] = WithoutPending(n, {p.OriginalPacketID})]
    BY DEF HandleDataAck
  <1>5. PendingLinks'
    BY <1>3, <1>4, RemovedPendingLinks DEF LinkInv, PendingLinks
  <1> QED
    BY <1>1, <1>2, <1>3, <1>5 DEF LinkInv, OutLinks, TableLinks

(* DATA and USER_MSG.                                                      *)

LEMMA FinalAckLinks ==
  ASSUME NEW fit \in BOOLEAN, TypeOK, NEW n \in Node, NEW p \in Packet,
         NEW final
  PROVE  /\ FinalAck(n, p, final) \in Seq(Sent(n, fit))
         /\ DuplicateAcks(n, p, final) \in Seq(Sent(n, fit))
  <1> DEFINE first == FinalAck(n, p, final)
             second == AckOf(n, p, Len(first))
  <1>1. ASSUME NEW k \in Nat
        PROVE  AckOf(n, p, k) \in Sent(n, fit)
    BY FreshIDType, PacketHeader, AckSent DEF AckOf, Address
  <1>2. first \in Seq(Sent(n, fit))
    BY <1>1 DEF FinalAck
  <1>3. second \in Sent(n, fit)
    BY <1>1, FinalAckType
  <1> HIDE DEF second
  <1>4. DuplicateAcks(n, p, final) \in {Append(first, second), <<>>}
    BY DEF DuplicateAcks, second
  <1> HIDE DEF first
  <1>5. Append(first, second) \in Seq(Sent(n, fit))
    BY <1>2, <1>3
  <1>6. DuplicateAcks(n, p, final) \in Seq(Sent(n, fit))
    BY <1>4, <1>5, EmptySeq
  <1> QED
    BY <1>2, <1>6 DEF first

LEMMA ForwardLinks ==
  ASSUME NEW fit \in BOOLEAN, TypeOK, OutLinks(fit), PendingLinks,
         NEW n \in Node, NEW pkt \in Sent(n, fit),
         pkt.PacketType \in {"DATA", "USER_MSG"},
         pkt.DestNodeID \in InRange[n], NEW dest \in Node,
         NEW origin \in Node, Forward(n, pkt, dest, origin),
         UNCHANGED <<registering, expired>>
  PROVE  OutLinks(fit)' /\ PendingLinks'
  <1> DEFINE tx == NewPendingTx(pkt, dest, pkt.DestNodeID, origin)
  <1>0. pendingTxs \in [Node -> SUBSET PendingTx]
    BY DEF TypeOK
  <1>1. tx \in Tracked(n)
    BY NewPendingTxLinks
  <1>2. OutLinks(fit)'
    BY EnqueueOneLinks DEF Forward
  <1> HIDE DEF tx
  <1>3. \E more \in SUBSET {tx} :
           pendingTxs' = [pendingTxs EXCEPT
               ![n] = WithoutPending(n, {pkt.PacketID}) \cup more]
    BY DEF Forward, tx
  <1>4. PendingLinks'
    BY <1>0, <1>1, <1>3 DEF PendingLinks, WithoutPending
  <1> QED
    BY <1>2, <1>4

LEMMA ReportNoRouteLinks ==
  ASSUME NEW fit \in BOOLEAN, TypeOK, OutLinks(fit), BlacklistSound,
         NEW n \in Node, NEW p \in Packet, p.OriginNodeID \in Node,
         NEW dest \in Node, ReportNoRoute(n, p, dest)
  PROVE  OutLinks(fit)' /\ BlacklistSound'
  <1>1. unmarkBroken(n, p) \in SUBSET brokenNodes[n]
    BY DEF unmarkBroken
  <1>2. p.PrevHopID \in Node /\ p.PacketID \in PacketID
    BY PacketHeader
  <1> QED
    BY <1>1, <1>2, sendRERRLinks DEF ReportNoRoute

LEMMA HandleDataLinks ==
  ASSUME NEW fit \in BOOLEAN, TypeOK, LinkInv(fit), fit => HopsFit,
         NEW n \in Node, HandleData(n)
  PROVE  LinkInv(fit)'
  <1> DEFINE p == Head(messages[n])
             dest == p.FinalDestID
             overheard == [pendingTxs EXCEPT
                              ![n] = WithoutPending(n, {p.PacketID})]
             shout == CreateDataPacket(p.OriginNodeID, n, dest, NullID,
                          p.HopCount + 1, NoFlags, p.PacketID)
             copy == CreateDataPacket(p.OriginNodeID, n, dest,
                         RouteTable[n][dest].NextHop, p.HopCount + 1, p.Flags,
                         p.PacketID)
  <1> HIDE DEF p, dest, overheard, shout, copy
  <1>1. /\ p \in Packet /\ p \in DataFormat /\ InLinks(fit)'
    BY ReceivedLinks, PacketFormat DEF HandleData, LinkInv, p
  <1>2. UNCHANGED <<RouteTable, registering, expired>>
    BY DEF HandleData, HandlerFrame, checker
  <1>3. /\ p.OriginNodeID \in Node /\ dest \in Node \cup {BROADCAST_ADDR}
        /\ p.HopCount + 1 \in Nat /\ p.PacketID \in PacketID
        /\ p.Flags \in Flags
    BY <1>1 DEF DataFormat, dest
  <1>4. /\ OutLinks(fit) /\ PendingLinks /\ TableLinks(fit) /\ BlacklistSound
    BY DEF LinkInv
  <1>5. \/ UNCHANGED out /\ Unblacklist(n, p) /\ pendingTxs' = overheard
        \/ /\ \/ Enqueue(n, DuplicateAcks(n, p, dest),
                         Len(DuplicateAcks(n, p, dest)))
              \/ Enqueue(n, FinalAck(n, p, dest), Len(FinalAck(n, p, dest)))
              \/ Enqueue(n, <<shout>>, 0)
           /\ Unblacklist(n, p)
           /\ pendingTxs' = overheard
        \/ /\ dest \in Node
           /\ ReportNoRoute(n, p, dest)
           /\ pendingTxs' = overheard
        \/ /\ dest \in Node /\ HasRoute(n, dest)
           /\ Forward(n, copy, dest, p.OriginNodeID)
           /\ Unblacklist(n, p)
    BY DEF HandleData, p, dest, overheard, shout, copy
  <1>6. /\ Unblacklist(n, p) => BlacklistSound'
        /\ pendingTxs' = overheard => PendingLinks'
    BY <1>2, <1>4, UnblacklistLinks, RemovedPendingLinks DEF overheard
  <1>7. OutLinks(fit)' /\ PendingLinks' /\ BlacklistSound'
    <2>1. CASE UNCHANGED out /\ Unblacklist(n, p) /\ pendingTxs' = overheard
      BY <1>4, <1>6, <2>1, AtMostOnePacket
    <2>2. CASE /\ \/ Enqueue(n, DuplicateAcks(n, p, dest),
                             Len(DuplicateAcks(n, p, dest)))
                  \/ Enqueue(n, FinalAck(n, p, dest), Len(FinalAck(n, p, dest)))
                  \/ Enqueue(n, <<shout>>, 0)
               /\ Unblacklist(n, p)
               /\ pendingTxs' = overheard
      <3>1. shout \in Sent(n, fit)
        BY <1>3, DataSent DEF shout, Address, NoFlags, Flags
      <3>2. /\ FinalAck(n, p, dest) \in Seq(Sent(n, fit))
            /\ DuplicateAcks(n, p, dest) \in Seq(Sent(n, fit))
        BY <1>1, FinalAckLinks
      <3>3. OutLinks(fit)'
        BY <1>4, <2>2, <3>1, <3>2, EnqueueLinks, EnqueueOneLinks
      <3> QED
        BY <1>6, <2>2, <3>3
    <2>3. CASE /\ dest \in Node
               /\ ReportNoRoute(n, p, dest)
               /\ pendingTxs' = overheard
      BY <1>1, <1>3, <1>4, <1>6, <2>3, ReportNoRouteLinks
    <2>4. CASE /\ dest \in Node /\ HasRoute(n, dest)
               /\ Forward(n, copy, dest, p.OriginNodeID)
               /\ Unblacklist(n, p)
      <3>1. /\ RouteTable[n][dest].NextHop \in InRange[n]
            /\ RouteTable[n][dest].NextHop \in Node
        BY <1>4, <2>4, RouteLinks
      <3>2. copy \in Sent(n, fit)
        BY <1>3, <3>1, DataSent DEF copy, Address
      <3>3. copy.DestNodeID \in InRange[n] /\ copy.PacketType = "DATA"
        BY <3>1 DEF copy, CreateDataPacket
      <3>4. OutLinks(fit)' /\ PendingLinks'
        BY <1>2, <1>3, <1>4, <2>4, <3>2, <3>3, ForwardLinks
      <3> QED
        BY <1>6, <2>4, <3>4
    <2> QED
      BY <1>5, <2>1, <2>2, <2>3, <2>4
  <1> QED
    BY <1>1, <1>2, <1>4, <1>7 DEF LinkInv, TableLinks

LEMMA UserNotAtNodeLinks ==
  ASSUME NEW fit \in BOOLEAN, TypeOK, NEW n \in Node,
         NEW p \in UserMessageFormat
  PROVE  UserNotAtNode(n, p) \in Seq(Sent(n, fit))
  <1> DEFINE k == Len(FinalAck(n, p, p.ToNodeID))
             uerr == CreateUERRPacket(n, RouteTable[n][p.OriginNodeID].NextHop,
                         p.ToUserID, n, p.OriginNodeID, p.PacketID,
                         FreshID(n, k))
  <1>1. k \in Nat
    BY FinalAckType DEF Packet
  <1>2. /\ p.OriginNodeID \in Node /\ p.ToUserID \in User
        /\ p.PacketID \in PacketID
    BY DEF UserMessageFormat
  <1>3. FreshID(n, k) \in PacketID
    BY <1>1, FreshIDType
  <1> HIDE DEF k
  <1>4. CASE HasRoute(n, p.OriginNodeID)
    <2>1. RouteTable[n][p.OriginNodeID].NextHop \in Node
      BY SMTT(30), <1>2, <1>4 DEF HasRoute, TypeOK, Route
    <2>2. uerr \in Sent(n, fit)
      BY <1>2, <1>3, <2>1, UERRSent DEF Address
    <2>3. UserNotAtNode(n, p) = <<uerr>>
      BY <1>4 DEF UserNotAtNode, k
    <2> HIDE DEF uerr
    <2> QED
      BY <2>2, <2>3
  <1>5. CASE ~HasRoute(n, p.OriginNodeID)
    BY <1>5 DEF UserNotAtNode
  <1> QED
    BY <1>4, <1>5

LEMMA HandleUserMessageLinks ==
  ASSUME NEW fit \in BOOLEAN, TypeOK, LinkInv(fit), fit => HopsFit,
         NEW n \in Node, HandleUserMessage(n)
  PROVE  LinkInv(fit)'
  <1> DEFINE p == Head(messages[n])
             dest == p.ToNodeID
             overheard == [pendingTxs EXCEPT
                              ![n] = WithoutPending(n, {p.PacketID})]
             answer == FinalAck(n, p, dest) \o UserNotAtNode(n, p)
             copy == CreateUSERMessagePacket(p.OriginNodeID, n, p.FromUserID,
                         p.ToUserID, dest, RouteTable[n][dest].NextHop,
                         p.HopCount + 1, p.Flags, p.PacketID)
  <1> HIDE DEF p, dest, overheard, answer, copy
  <1>1. /\ p \in Packet /\ p \in UserMessageFormat /\ InLinks(fit)'
    BY ReceivedLinks, PacketFormat DEF HandleUserMessage, LinkInv, p
  <1>2. UNCHANGED <<RouteTable, registering, expired>>
    BY DEF HandleUserMessage, HandlerFrame, checker
  <1>3. /\ p.OriginNodeID \in Node /\ dest \in Node
        /\ p.FromUserID \in User /\ p.ToUserID \in User
        /\ p.HopCount + 1 \in Nat /\ p.PacketID \in PacketID
        /\ p.Flags \in Flags
    BY <1>1 DEF UserMessageFormat, dest
  <1>4. /\ OutLinks(fit) /\ PendingLinks /\ TableLinks(fit) /\ BlacklistSound
    BY DEF LinkInv
  <1>5. \/ UNCHANGED out /\ Unblacklist(n, p) /\ pendingTxs' = overheard
        \/ /\ \/ Enqueue(n, DuplicateAcks(n, p, dest),
                         Len(DuplicateAcks(n, p, dest)))
              \/ Enqueue(n, FinalAck(n, p, dest), Len(FinalAck(n, p, dest)))
              \/ Enqueue(n, answer, Len(answer))
           /\ Unblacklist(n, p)
           /\ pendingTxs' = overheard
        \/ ReportNoRoute(n, p, dest) /\ pendingTxs' = overheard
        \/ /\ HasRoute(n, dest)
           /\ Forward(n, copy, dest, p.OriginNodeID)
           /\ Unblacklist(n, p)
    BY DEF HandleUserMessage, p, dest, overheard, answer, copy
  <1>6. /\ Unblacklist(n, p) => BlacklistSound'
        /\ pendingTxs' = overheard => PendingLinks'
    BY <1>2, <1>4, UnblacklistLinks, RemovedPendingLinks DEF overheard
  <1>7. OutLinks(fit)' /\ PendingLinks' /\ BlacklistSound'
    <2>1. CASE UNCHANGED out /\ Unblacklist(n, p) /\ pendingTxs' = overheard
      BY <1>4, <1>6, <2>1, AtMostOnePacket
    <2>2. CASE /\ \/ Enqueue(n, DuplicateAcks(n, p, dest),
                             Len(DuplicateAcks(n, p, dest)))
                  \/ Enqueue(n, FinalAck(n, p, dest), Len(FinalAck(n, p, dest)))
                  \/ Enqueue(n, answer, Len(answer))
               /\ Unblacklist(n, p)
               /\ pendingTxs' = overheard
      <3>1. /\ FinalAck(n, p, dest) \in Seq(Sent(n, fit))
            /\ DuplicateAcks(n, p, dest) \in Seq(Sent(n, fit))
        BY <1>1, FinalAckLinks
      <3>2. answer \in Seq(Sent(n, fit))
        BY <1>1, <3>1, UserNotAtNodeLinks, ConcatProperties DEF answer
      <3>3. OutLinks(fit)'
        BY <1>4, <2>2, <3>1, <3>2, EnqueueLinks
      <3> QED
        BY <1>6, <2>2, <3>3
    <2>3. CASE ReportNoRoute(n, p, dest) /\ pendingTxs' = overheard
      BY <1>1, <1>3, <1>4, <1>6, <2>3, ReportNoRouteLinks
    <2>4. CASE /\ HasRoute(n, dest)
               /\ Forward(n, copy, dest, p.OriginNodeID)
               /\ Unblacklist(n, p)
      <3>1. /\ RouteTable[n][dest].NextHop \in InRange[n]
            /\ RouteTable[n][dest].NextHop \in Node
        BY <1>3, <1>4, <2>4, RouteLinks
      <3>2. copy \in Sent(n, fit)
        BY <1>3, <3>1, UserMessageSent DEF copy, Address
      <3>3. copy.DestNodeID \in InRange[n] /\ copy.PacketType = "USER_MSG"
        BY <3>1 DEF copy, CreateUSERMessagePacket
      <3>4. OutLinks(fit)' /\ PendingLinks'
        BY <1>2, <1>3, <1>4, <2>4, <3>2, <3>3, ForwardLinks
      <3> QED
        BY <1>6, <2>4, <3>4
    <2> QED
      BY <1>5, <2>1, <2>2, <2>3, <2>4
  <1> QED
    BY <1>1, <1>2, <1>4, <1>7 DEF LinkInv, TableLinks

(* The lookup of users.                                                    *)

LEMMA HandleUREQLinks ==
  ASSUME NEW fit \in BOOLEAN, TypeOK, LinkInv(fit), fit => HopsFit,
         NEW n \in Node, HandleUREQ(n)
  PROVE  LinkInv(fit)'
  <1> DEFINE p == Head(messages[n])
             user == p.UREQUserID
             home == gut[n][user]
             direct == maybeAddRoute(RouteTable[n], p.PrevHopID, p.PrevHopID, 1)
             table == maybeAddRoute(direct, p.OriginNodeID, p.PrevHopID,
                                    p.HopCount + 1)
             copy == CreateUREQPacket(n, p.OriginNodeID, user, p.HopCount + 1,
                                      p.PacketID)
             reply(h, hops) == CreateUREPPacket(n, p.PrevHopID, p.OriginNodeID,
                                   h, user, hops, FreshID(n, 0))
  <1> HIDE DEF p, user, home, direct, table, copy, reply
  <1>1. /\ p \in Heard(n, fit) /\ p \in Packet
        /\ p.PacketType = "UREQ" /\ p \in UREQFormat
        /\ fit => p.HopCount < 255
        /\ InLinks(fit)'
    BY Zenon, ReceivedLinks, PacketFormat DEF HandleUREQ, LinkInv, p
  <1>2. BlacklistSound'
    BY Zenon, UnblacklistLinks DEF HandleUREQ, LinkInv
  <1>3. /\ p.OriginNodeID \in Node /\ p.PrevHopID \in InRange[n]
        /\ p.PrevHopID \in Node /\ user \in User
        /\ p.HopCount \in Nat /\ p.HopCount + 1 \in Nat
        /\ p.PacketID \in PacketID
    BY <1>1 DEF UREQFormat, Heard, user
  <1>h. gut \in [Node -> [User -> Node \cup {NullID}]]
    BY DEF TypeOK
  <1>g. home \in Node \cup {NullID}
    BY <1>3, <1>h DEF home
  <1>4. fit => /\ p.HopCount + 1 >= Dist[n][p.OriginNodeID]
               /\ p.HopCount + 1 <= 255
    BY <1>1, <1>3, OneHopFurther DEF Heard, SoundHops
  <1>t. RouteTable[n] \in GoodTable(n, fit) /\ RouteTable[n] \in Table
    BY DEF LinkInv, TableLinks, TypeOK, Table
  <1>d. direct \in GoodTable(n, fit)
    BY <1>3, <1>t, NeighbourIsNear, AddedGoodRoute DEF direct
  <1>5. table \in GoodTable(n, fit)
    BY <1>3, <1>4, <1>d, AddedGoodRoute DEF table
  <1>6. ASSUME NEW h \in Node, NEW hops \in Nat,
               fit => hops <= 255 /\ hops >= Dist[n][h]
        PROVE  reply(h, hops) \in Sent(n, fit)
    <2>1. FreshID(n, 0) \in PacketID
      BY FreshIDType
    <2> QED
      BY <1>3, <1>6, <2>1, UREPSent DEF reply, Address
  <1>7. home \in Node /\ table[home] # NoRoute =>
           /\ table[home].HopCount \in Nat
           /\ fit => /\ table[home].HopCount <= 255
                     /\ table[home].HopCount >= Dist[n][home]
    <2> SUFFICES ASSUME home \in Node, table[home] # NoRoute
                 PROVE  /\ table[home].HopCount \in Nat
                        /\ fit => /\ table[home].HopCount <= 255
                                  /\ table[home].HopCount >= Dist[n][home]
      OBVIOUS
    <2>0. table \in Table /\ direct \in Table
      BY <1>5, <1>d DEF GoodTable
    <2>1. table[home].HopCount \in Nat
      BY <2>0 DEF Table, Route
    <2>2. fit => table[home].HopCount >= Dist[n][home]
      BY <1>5 DEF GoodTable
    <2>3. \/ table[home] = direct[home]
          \/ table[home].HopCount = p.HopCount + 1
      BY <1>3, <2>0 DEF table, maybeAddRoute, Table
    <2>4. \/ direct[home] = RouteTable[n][home]
          \/ direct[home].HopCount = 1
      BY <1>3, <1>t DEF direct, maybeAddRoute, Table
    <2>5. HopsFit => (RouteTable[n][home] # NoRoute =>
                         RouteTable[n][home].HopCount <= 255)
      BY DEF HopsFit, HasRoute
    <2>6. fit => table[home].HopCount <= 255
      BY <1>4, <2>3, <2>4, <2>5
    <2> QED
      BY <2>1, <2>2, <2>6
  <1>8. OutLinks(fit)' /\ TableLinks(fit)'
    <2>1. CASE Seen(n, p)
      BY Zenon, <2>1, AtMostOnePacket DEF HandleUREQ, LinkInv, TableLinks, p
    <2>2. CASE ~Seen(n, p)
      <3>1. /\ SetRoutes(n, table)
            /\ \/ Enqueue(n, <<reply(n, 0)>>, 1)
               \/ /\ home # NullID /\ table[home] # NoRoute
                  /\ Enqueue(n, <<reply(home, table[home].HopCount)>>, 1)
               \/ Enqueue(n, <<copy>>, 0)
               \/ UNCHANGED out
        BY Zenon, <2>2 DEF HandleUREQ, p, user, home, direct, table, copy, reply
      <3>2. copy \in Sent(n, fit)
        BY <1>3, <1>4, UREQSent DEF copy
      <3>3. reply(n, 0) \in Sent(n, fit)
        BY <1>6, DistAssumption
      <3>4. home # NullID /\ table[home] # NoRoute =>
               reply(home, table[home].HopCount) \in Sent(n, fit)
        BY <1>6, <1>7, <1>g
      <3>5. OutLinks(fit)'
        BY <3>1, <3>2, <3>3, <3>4, AtMostOnePacket, EnqueueOneLinks DEF LinkInv
      <3> QED
        BY <1>5, <3>1, <3>5, SetRoutesLinks DEF LinkInv
    <2> QED
      BY <2>1, <2>2
  <1> QED
    BY Zenon, <1>1, <1>2, <1>8
    DEF LinkInv, PendingLinks, HandleUREQ, HandlerFrame, checker

LEMMA HandleUREPLinks ==
  ASSUME NEW fit \in BOOLEAN, TypeOK, LinkInv(fit), fit => HopsFit,
         NEW n \in Node, HandleUREP(n)
  PROVE  LinkInv(fit)'
  <1> DEFINE p == Head(messages[n])
             home == p.UREPDestNodeID
             user == p.UREPUserID
             table == maybeAddRoute(RouteTable[n], home, p.PrevHopID,
                                    p.HopCount + 1)
             copy == CreateUREPPacket(n, RouteTable[n][home].NextHop,
                         p.OriginNodeID, home, user, p.HopCount + 1,
                         p.PacketID)
  <1> HIDE DEF p, home, user, table, copy
  <1>1. /\ p \in Heard(n, fit) /\ p \in Packet
        /\ p.PacketType = "UREP" /\ p \in UREPFormat
        /\ fit => p.HopCount < 255
        /\ InLinks(fit)'
    BY Zenon, ReceivedLinks, PacketFormat DEF HandleUREP, LinkInv, p
  <1>2. BlacklistSound'
    BY Zenon, UnblacklistLinks DEF HandleUREP, LinkInv
  <1>3. /\ p.OriginNodeID \in Node /\ p.PrevHopID \in InRange[n]
        /\ home \in Node /\ user \in User
        /\ p.HopCount \in Nat /\ p.HopCount + 1 \in Nat
        /\ p.PacketID \in PacketID
    BY <1>1 DEF UREPFormat, Heard, user, home
  <1>4. fit => /\ p.HopCount + 1 >= Dist[n][home]
               /\ p.HopCount + 1 <= 255
    BY <1>1, <1>3, OneHopFurther DEF Heard, SoundHops, home
  <1>5. table \in GoodTable(n, fit)
    <2>1. RouteTable[n] \in GoodTable(n, fit)
      BY DEF LinkInv, TableLinks
    <2> QED
      BY <1>3, <1>4, <2>1, AddedGoodRoute DEF table
  <1>6. HasRoute(n, home) => copy \in Sent(n, fit)
    <2> SUFFICES ASSUME HasRoute(n, home)
                 PROVE  copy \in Sent(n, fit)
      OBVIOUS
    <2>1. RouteTable[n][home].NextHop \in Address
      BY <1>3, RouteLinks DEF LinkInv, Address
    <2> QED
      BY <1>3, <1>4, <2>1, UREPSent DEF copy
  <1>7. /\ \/ UNCHANGED RouteTable
           \/ SetRoutes(n, table)
        /\ \/ UNCHANGED out
           \/ HasRoute(n, home) /\ Enqueue(n, <<copy>>, 0)
    BY Zenon DEF HandleUREP, p, home, user, table, copy
  <1>8. OutLinks(fit)'
    BY <1>6, <1>7, AtMostOnePacket, EnqueueOneLinks DEF LinkInv
  <1>9. TableLinks(fit)'
    BY <1>5, <1>7, SetRoutesLinks DEF LinkInv, TableLinks
  <1> QED
    BY Zenon, <1>1, <1>2, <1>8, <1>9
    DEF LinkInv, PendingLinks, HandleUREP, HandlerFrame, checker

LEMMA HandleUERRLinks ==
  ASSUME NEW fit \in BOOLEAN, TypeOK, LinkInv(fit), fit => HopsFit,
         NEW n \in Node, HandleUERR(n)
  PROVE  LinkInv(fit)'
  <1> DEFINE p == Head(messages[n])
             copy == CreateUERRPacket(n, RouteTable[n][p.OriginNodeID].NextHop,
                         p.UserID, p.NodeID, NullID, p.PacketID, FreshID(n, 0))
             forward == p.OriginNodeID \in Node /\ HasRoute(n, p.OriginNodeID)
  <1> HIDE DEF p, copy, forward
  <1>1. /\ p \in Packet /\ p \in UERRFormat /\ InLinks(fit)'
    BY ReceivedLinks, PacketFormat DEF HandleUERR, LinkInv, p
  <1>2. BlacklistSound'
    BY UnblacklistLinks DEF HandleUERR, LinkInv
  <1>3. /\ p.UserID \in User /\ p.NodeID \in Node /\ p.PacketID \in PacketID
        /\ FreshID(n, 0) \in PacketID
    BY <1>1, FreshIDType DEF UERRFormat
  <1>4. UNCHANGED <<RouteTable, registering, expired>>
    BY DEF HandleUERR, HandlerFrame, checker
  <1>5. /\ \/ UNCHANGED out
           \/ forward /\ Enqueue(n, <<copy>>, 1)
        /\ \/ UNCHANGED pendingTxs
           \/ pendingTxs' = [pendingTxs EXCEPT
                  ![n] = WithoutPending(n, {p.OriginalPacketID})]
    BY DEF HandleUERR, p, copy, forward
  <1>6. forward => copy \in Sent(n, fit)
    <2> SUFFICES ASSUME forward
                 PROVE  copy \in Sent(n, fit)
      OBVIOUS
    <2>1. RouteTable[n][p.OriginNodeID].NextHop \in Address
      BY RouteLinks DEF LinkInv, Address, forward
    <2> QED
      BY <1>3, <2>1, UERRSent DEF copy, Address
  <1>7. OutLinks(fit)'
    BY <1>5, <1>6, AtMostOnePacket, EnqueueOneLinks DEF LinkInv
  <1>8. PendingLinks'
    BY <1>4, <1>5, RemovedPendingLinks DEF LinkInv, PendingLinks
  <1> QED
    BY <1>1, <1>2, <1>4, <1>7, <1>8 DEF LinkInv, TableLinks

(* The checker.                                                            *)

LEMMA CheckerRetryLinks ==
  ASSUME NEW fit \in BOOLEAN, TypeOK, LinkInv(fit), NEW n \in Node,
         CheckerRetry(n)
  PROVE  LinkInv(fit)'
  <1>0. /\ pendingTxs \in [Node -> SUBSET PendingTx]
        /\ expired \in [Node -> SUBSET PendingTx]
    BY DEF TypeOK
  <1>1. PICK tx \in expired[n] :
           /\ expired' = [expired EXCEPT ![n] = @ \ {tx}]
           /\ pendingTxs' =
                 [pendingTxs EXCEPT ![n] = PutPending(n, Retried(tx))]
           /\ \/ Enqueue(n, <<tx.Pkt>>, 0)
              \/ UNCHANGED out
              \/ Enqueue(n, <<CreateRREQPacket(n, tx.Dest, n, 0,
                                               FreshID(n, 0))>>, 1)
           /\ UNCHANGED <<RouteTable, brokenNodes, messages, registering>>
    BY DEF CheckerRetry
  <1>2. tx \in Tracked(n) /\ tx \in PendingTx
    BY DEF LinkInv, PendingLinks, Tracked
  <1>3. /\ tx.Pkt \in Packet /\ tx.Dest \in Node
        /\ Retried(tx) \in PendingTx
        /\ Retried(tx).Pkt = tx.Pkt /\ Retried(tx).MsgID = tx.MsgID
        /\ Retried(tx).NextHop = tx.NextHop
    BY <1>2, RetriedType DEF PendingTx, Retried
  <1>4. tx.Pkt \in Sent(n, fit)
    BY <1>2, <1>3 DEF Tracked, Sent, SoundHops
  <1>5. CreateRREQPacket(n, tx.Dest, n, 0, FreshID(n, 0)) \in Sent(n, fit)
    BY <1>3, OwnRREQ
  <1>6. OutLinks(fit)'
    BY <1>1, <1>4, <1>5, AtMostOnePacket, EnqueueOneLinks DEF LinkInv
  <1>7. Retried(tx) \in Tracked(n)
    BY <1>2, <1>3 DEF Tracked
  <1>8. PendingLinks'
    BY <1>0, <1>1, <1>7 DEF LinkInv, PendingLinks, PutPending, WithoutPending
  <1> QED
    BY <1>1, <1>6, <1>8 DEF LinkInv, InLinks, TableLinks, BlacklistSound

LEMMA CheckerGiveUpLinks ==
  ASSUME NEW fit \in BOOLEAN, TypeOK, LinkInv(fit), NEW n \in Node,
         CheckerGiveUp(n)
  PROVE  LinkInv(fit)'
  <1>0. /\ expired \in [Node -> SUBSET PendingTx]
        /\ brokenNodes \in [Node -> SUBSET Node]
    BY DEF TypeOK
  <1> DEFINE table(tx) == InvalidateRoutes(RouteTable[n], tx.NextHop, tx.Dest,
                                           NullID)
  <1> HIDE DEF table
  <1>1. PICK tx \in expired[n] :
           /\ expired' = [expired EXCEPT ![n] = @ \ {tx}]
           /\ SetRoutes(n, table(tx))
           /\ \/ /\ table(tx)[tx.Origin] # NoRoute
                 /\ sendRERR(n, table(tx)[tx.Origin].NextHop, tx.Dest,
                             tx.NextHop, tx.MsgID, tx.Origin, brokenNodes[n])
              \/ UNCHANGED <<brokenNodes, out>>
           /\ UNCHANGED <<pendingTxs, registering, messages>>
    BY DEF CheckerGiveUp, table
  <1>2. /\ tx.MsgID \in PacketID /\ tx.Dest \in Node /\ tx.NextHop \in Node
        /\ tx.Origin \in Node /\ tx.NextHop \in InRange[n]
    BY <1>0 DEF LinkInv, PendingLinks, Tracked, PendingTx
  <1>3. table(tx) \in GoodTable(n, fit) /\ table(tx) \in Table
    <2>1. RouteTable[n] \in GoodTable(n, fit)
      BY DEF LinkInv, TableLinks
    <2>2. table(tx) \in GoodTable(n, fit)
      BY <2>1, InvalidatedGoodRoutes DEF table
    <2> QED
      BY <2>2 DEF GoodTable
  <1>4. TableLinks(fit)'
    BY <1>1, <1>3, SetRoutesLinks DEF LinkInv
  <1>5. OutLinks(fit)' /\ BlacklistSound'
    <2>1. CASE UNCHANGED <<brokenNodes, out>>
      BY <2>1, AtMostOnePacket DEF LinkInv, BlacklistSound
    <2>2. CASE /\ table(tx)[tx.Origin] # NoRoute
               /\ sendRERR(n, table(tx)[tx.Origin].NextHop, tx.Dest, tx.NextHop,
                           tx.MsgID, tx.Origin, brokenNodes[n])
      <3>1. table(tx)[tx.Origin].NextHop \in Node
        BY <1>2, <1>3, <2>2 DEF Table, Route
      <3> QED
        BY <1>2, <2>2, <3>1, sendRERRLinks DEF LinkInv
    <2> QED
      BY <1>1, <2>1, <2>2
  <1>6. PendingLinks'
    BY <1>0, <1>1 DEF LinkInv, PendingLinks
  <1> QED
    BY <1>1, <1>4, <1>5, <1>6 DEF LinkInv, InLinks

LEMMA CheckerLinks ==
  ASSUME NEW fit \in BOOLEAN, TypeOK, LinkInv(fit), NEW n \in Node,
         PendingTxChecker(n)
  PROVE  LinkInv(fit)'
  <1>1. CASE CheckerTick(n)
    <2>0. expired \in [Node -> SUBSET PendingTx]
      BY DEF TypeOK
    <2>1. /\ \E due \in SUBSET pendingTxs[n] :
                expired' = [expired EXCEPT ![n] = due]
          /\ UNCHANGED <<RouteTable, brokenNodes, out, messages, pendingTxs,
                         registering>>
      BY <1>1 DEF CheckerTick
    <2>2. PendingLinks'
      BY <2>0, <2>1 DEF LinkInv, PendingLinks
    <2> QED
      BY <2>1, <2>2
      DEF LinkInv, OutLinks, InLinks, TableLinks, BlacklistSound, out
  <1>2. CASE CheckerDone(n)
    <2>1. /\ pendingTxs' = [pendingTxs EXCEPT
                               ![n] = WithoutPending(n, deleteIds[n])]
          /\ UNCHANGED <<RouteTable, brokenNodes, out, messages, registering,
                         expired>>
      BY <1>2 DEF CheckerDone
    <2>2. PendingLinks'
      BY <2>1, RemovedPendingLinks DEF LinkInv
    <2> QED
      BY <2>1, <2>2
      DEF LinkInv, OutLinks, InLinks, TableLinks, BlacklistSound, out
  <1> QED
    BY <1>1, <1>2, CheckerRetryLinks, CheckerGiveUpLinks DEF PendingTxChecker

LEMMA InitLinks ==
  ASSUME NEW fit \in BOOLEAN, Init
  PROVE  LinkInv(fit)
  <1>1. OutLinks(fit) /\ InLinks(fit)
    BY EmptySeq DEF Init, OutLinks, InLinks
  <1>2. TableLinks(fit)
    BY DEF Init, TableLinks, GoodTable, Table
  <1> QED
    BY <1>1, <1>2 DEF Init, LinkInv, PendingLinks, BlacklistSound

LEMMA NextLinks ==
  ASSUME NEW fit \in BOOLEAN, TypeOK, LinkInv(fit), fit => HopsFit, [Next]_vars
  PROVE  LinkInv(fit)'
  <1>1. CASE UNCHANGED vars
    BY <1>1 DEF vars, out, checker, LinkInv, OutLinks, InLinks, TableLinks,
                PendingLinks, BlacklistSound
  <1>2. ASSUME NEW n \in Node, HandleMessage(n)
        PROVE  LinkInv(fit)'
    BY <1>2, HandleBroadcastInfoLinks, HandleRREQLinks, HandleRREPLinks,
       HandleRERRLinks, HandleDataAckLinks, HandleDataLinks,
       HandleUserMessageLinks, HandleUREQLinks, HandleUREPLinks,
       HandleUERRLinks DEF HandleMessage
  <1>3. ASSUME NEW n \in Node, NodeGoroutine(n) \/ BroadcastTick(n)
        PROVE  LinkInv(fit)'
    BY <1>2, <1>3, AnnounceLinks, FlushStepLinks DEF NodeGoroutine
  <1>4. ASSUME NEW n \in Node, Stop(n)
        PROVE  LinkInv(fit)'
    BY <1>4 DEF Stop, out, checker, LinkInv, OutLinks, InLinks, TableLinks,
                PendingLinks, BlacklistSound
  <1> QED
    BY <1>1, <1>3, <1>4, TransmitLinks, CheckerLinks, RegisterPendingLinks,
       ApplicationLinks DEF Next

----------------------------------------------------------------------------
(* The theorems.                                                           *)

LEMMA LinksStay == Spec => []LinkInv(FALSE)
  <1>1. Init => LinkInv(FALSE)
    BY InitLinks
  <1>2. TypeOK /\ LinkInv(FALSE) /\ [Next]_vars => LinkInv(FALSE)'
    BY NextLinks
  <1> QED
    BY <1>1, <1>2, TypeCorrect, PTL DEF Spec

\* A retry transmits what is being waited for: this node's own copy of the
\* packet, addressed to the neighbour that is blamed if no acknowledgement
\* comes, whatever the node goroutine and the application did to pendingTxs
\* since the checker took its snapshot.
THEOREM PendingIsConsistent == Spec => []PendingConsistent
  <1>1. LinkInv(FALSE) => PendingConsistent
    BY DEF LinkInv, PendingLinks, Tracked, PendingConsistent
  <1> QED
    BY <1>1, LinksStay, PTL

\* Whatever is lost and whoever leaves, a node blacklists only neighbours and
\* itself.
THEOREM BlacklistIsLocal == Spec => []BlacklistSound
  <1>1. LinkInv(FALSE) => BlacklistSound
    BY DEF LinkInv
  <1> QED
    BY <1>1, LinksStay, PTL

\* In a mesh whose hop counts fit their byte, no route promises fewer hops
\* than there are, for any lower bound Dist on distances and so for the
\* length of the shortest path; and every next hop is a neighbour.
THEOREM HopsAreSound == Spec /\ []HopsFit => []HopSound
  <1>1. Init => LinkInv(TRUE)
    BY InitLinks
  <1>2. TypeOK /\ LinkInv(TRUE) /\ HopsFit /\ [Next]_vars => LinkInv(TRUE)'
    BY NextLinks
  <1>3. LinkInv(TRUE) => HopSound
    BY DEF LinkInv, TableLinks, GoodTable, HopSound, HasRoute
  <1> QED
    BY <1>1, <1>2, <1>3, TypeCorrect, PTL DEF Spec

=============================================================================
