-------------------------- MODULE AODVRoutesProofs --------------------------
(***************************************************************************)
(* What the routers of a mesh know of each other, for every topology: that *)
(* what one of them was told was once so, and that a next hop can go on.   *)
(***************************************************************************)
EXTENDS AODVSafetyProofs

----------------------------------------------------------------------------
(* The packets that are on their way, and what a step adds to them.        *)

In(p, queue) == \E i \in DOMAIN queue : queue[i] = p

Air == {p \in Packet :
          \E n \in Node : In(p, txQueue[n]) \/ In(p, messages[n])}

\* A step sends no other packet than those of pkts.
Adds(pkts) == Air' \subseteq Air \cup pkts

AddsTypes(types) == \A q \in Air' : q \in Air \/ q.PacketType \in types

LEMMA TailIn ==
  ASSUME NEW queue \in Seq(Packet), queue # <<>>, NEW q, In(q, Tail(queue))
  PROVE  In(q, queue)
  <1>1. PICK i \in DOMAIN Tail(queue) : Tail(queue)[i] = q
    BY DEF In
  <1>2. /\ Len(queue) \in Nat /\ DOMAIN queue = 1 .. Len(queue)
        /\ DOMAIN Tail(queue) = 1 .. Len(queue) - 1
        /\ Tail(queue)[i] = queue[i + 1]
    BY <1>1
  <1>3. i + 1 \in DOMAIN queue
    BY <1>1, <1>2
  <1> QED
    BY <1>1, <1>2, <1>3 DEF In

\* The node goroutine only takes packets from its channel.
LEMMA MessagesLeft ==
  ASSUME TypeOK, NEW n \in Node,
         UNCHANGED messages \/ \E type : Receive(n, type),
         NEW q, NEW m \in Node, In(q, messages'[m])
  PROVE  In(q, messages[m])
  <1>0. messages \in [Node -> Seq(Packet)]
    BY DEF TypeOK
  <1>1. CASE UNCHANGED messages
    BY <1>1
  <1>2. CASE \E type : Receive(n, type)
    <2>1. /\ messages[n] \in Seq(Packet) /\ messages[n] # <<>>
          /\ messages'[n] = Tail(messages[n])
          /\ \A k \in Node \ {n} : messages'[k] = messages[k]
      BY <1>0, <1>2 DEF Receive
    <2>2. CASE m = n
      BY <2>1, <2>2, TailIn
    <2>3. CASE m # n
      BY <2>1, <2>3
    <2> QED
      BY <2>2, <2>3
  <1> QED
    BY <1>1, <1>2

LEMMA AirEnqueued ==
  ASSUME TypeOK, NEW n \in Node, NEW S, NEW pkts \in Seq(S), NEW fresh,
         Enqueue(n, pkts, fresh),
         UNCHANGED messages \/ \E type : Receive(n, type)
  PROVE  Adds({pkts[i] : i \in DOMAIN pkts})
  <1>0. /\ txQueue \in [Node -> Seq(Packet)]
        /\ messages \in [Node -> Seq(Packet)]
    BY DEF TypeOK
  <1>1. /\ txQueue'[n] = txQueue[n] \o pkts
        /\ \A m \in Node \ {n} : txQueue'[m] = txQueue[m]
    BY <1>0 DEF Enqueue
  <1>2. ASSUME NEW q, In(q, txQueue'[n])
        PROVE  In(q, txQueue[n]) \/ In(q, pkts)
    <2>1. txQueue[n] \in Seq(Packet \cup S) /\ pkts \in Seq(Packet \cup S)
      BY <1>0
    <2> QED
      BY <1>1, <1>2, <2>1 DEF In
  <1>3. \A q : \A m \in Node : In(q, messages'[m]) => In(q, messages[m])
    BY MessagesLeft
  <1>4. ASSUME NEW q \in Air'
        PROVE  q \in Air \/ In(q, pkts)
    <2>1. PICK m \in Node : In(q, txQueue'[m]) \/ In(q, messages'[m])
      BY <1>4 DEF Air, In
    <2>2. q \in Packet
      BY <1>4 DEF Air
    <2> QED
      BY <1>1, <1>2, <1>3, <2>1, <2>2 DEF Air
  <1> QED
    BY <1>4 DEF Adds, In

LEMMA AirOne ==
  ASSUME TypeOK, NEW n \in Node, NEW pkt, NEW fresh,
         Enqueue(n, <<pkt>>, fresh),
         UNCHANGED messages \/ \E type : Receive(n, type)
  PROVE  Adds({pkt})
  <1>1. /\ <<pkt>> \in Seq({pkt})
        /\ {<<pkt>>[i] : i \in DOMAIN <<pkt>>} = {pkt}
    OBVIOUS
  <1> QED
    BY <1>1, AirEnqueued

LEMMA AirNone ==
  ASSUME TypeOK, NEW n \in Node, UNCHANGED txQueue,
         UNCHANGED messages \/ \E type : Receive(n, type)
  PROVE  Adds({})
  <1>1. \A q : \A m \in Node : In(q, messages'[m]) => In(q, messages[m])
    BY MessagesLeft
  <1> QED
    BY <1>1 DEF Adds, Air, In

LEMMA AirTransmit ==
  ASSUME TypeOK, NEW n \in Node, Transmit(n)
  PROVE  Adds({})
  <1> DEFINE p == Head(txQueue[n])
  <1>0. /\ txQueue \in [Node -> Seq(Packet)]
        /\ messages \in [Node -> Seq(Packet)]
        /\ txQueue[n] # <<>>
    BY DEF TypeOK, Transmit
  <1>1. /\ txQueue[n] \in Seq(Packet)
        /\ txQueue'[n] = Tail(txQueue[n])
        /\ \A m \in Node \ {n} : txQueue'[m] = txQueue[m]
    BY <1>0 DEF Transmit
  <1>2. /\ 1 \in DOMAIN txQueue[n] /\ txQueue[n][1] = p
    BY <1>0, <1>1
  <1> HIDE DEF p
  <1>3. ASSUME NEW q, NEW m \in Node, In(q, txQueue'[m])
        PROVE  In(q, txQueue[m])
    BY <1>0, <1>1, <1>3, TailIn
  <1>4. ASSUME NEW q, NEW m \in Node, In(q, messages'[m])
        PROVE  In(q, messages[m]) \/ q = p
    <2>1. messages'[m] \in {messages[m], Append(messages[m], p)}
      BY <1>0 DEF Transmit, p
    <2>2. messages[m] \in Seq(Packet)
      BY <1>0
    <2> QED
      BY <1>4, <2>1, <2>2 DEF In
  <1>5. In(p, txQueue[n])
    BY <1>2 DEF In
  <1>6. ASSUME NEW q \in Air'
        PROVE  q \in Air
    <2>1. PICK m \in Node : In(q, txQueue'[m]) \/ In(q, messages'[m])
      BY <1>6 DEF Air, In
    <2>2. q \in Packet
      BY <1>6 DEF Air
    <2> QED
      BY <1>3, <1>4, <1>5, <2>1, <2>2 DEF Air
  <1> QED
    BY <1>6 DEF Adds

\* What the node goroutine takes was on its way.
LEMMA AirReceived ==
  ASSUME TypeOK, NEW n \in Node, NEW type, Receive(n, type)
  PROVE  /\ Head(messages[n]) \in Air
         /\ Head(messages[n]) \in Packet
         /\ Head(messages[n]).PacketType = type
  <1>1. messages \in [Node -> Seq(Packet)] /\ messages[n] # <<>>
    BY DEF TypeOK, Receive
  <1>2. 1 \in DOMAIN messages[n] /\ messages[n][1] = Head(messages[n])
    BY <1>1
  <1>3. In(Head(messages[n]), messages[n])
    BY <1>2 DEF In
  <1> QED
    BY <1>3, Received DEF Air

LEMMA AirOneOf ==
  ASSUME TypeOK, NEW n \in Node, NEW types, NEW pkt, NEW fresh,
         Enqueue(n, <<pkt>>, fresh), pkt.PacketType \in types,
         UNCHANGED messages \/ \E type : Receive(n, type)
  PROVE  AddsTypes(types)
  BY AirOne DEF Adds, AddsTypes

LEMMA AirNoneOf ==
  ASSUME Adds({})
  PROVE  \A types : AddsTypes(types)
  BY DEF Adds, AddsTypes

LEMMA NewPacketTypes ==
  ASSUME NEW n, NEW to, NEW dest, NEW origin, NEW hops, NEW num, NEW pid,
         NEW flags, NEW user, NEW from, NEW failed, NEW broken
  PROVE  /\ CreateDataPacket(origin, n, dest, to, hops, flags, pid).PacketType
               = "DATA"
         /\ CreateACKPacket(n, to, failed, pid).PacketType = "ACK"
         /\ CreateRREQPacket(n, dest, origin, hops, pid).PacketType = "RREQ"
         /\ CreateRREPPacket(n, dest, to, origin, hops, num, pid).PacketType
               = "RREP"
         /\ CreateRERRPacket(n, to, broken, dest, failed, origin, hops,
                             pid).PacketType = "RERR"
         /\ CreateUREQPacket(n, origin, user, hops, pid).PacketType = "UREQ"
         /\ CreateUREPPacket(n, to, origin, dest, user, hops, pid).PacketType
               = "UREP"
         /\ CreateUERRPacket(n, to, user, dest, origin, failed, pid).PacketType
               = "UERR"
         /\ CreateUSERMessagePacket(origin, n, from, user, dest, to, hops,
                                    flags, pid).PacketType = "USER_MSG"
  BY DEF CreateDataPacket, CreateACKPacket, CreateRREQPacket, CreateRREPPacket,
         CreateRERRPacket, CreateUREQPacket, CreateUREPPacket,
         CreateUERRPacket, CreateUSERMessagePacket

\* Which types of packets each kind of step sends.
LEMMA QuietStep ==
  ASSUME TypeOK, NEW n \in Node,
         \/ MoveUser(n) \/ Leave(n) \/ Stop(n) \/ RegisterPending(n)
         \/ Transmit(n) \/ CheckerTick(n) \/ CheckerDone(n)
         \/ HandleDataAck(n)
  PROVE  Adds({})
  <1>1. CASE Transmit(n)
    BY <1>1, AirTransmit
  <1>2. CASE HandleDataAck(n)
    BY <1>2, AirNone DEF HandleDataAck, out
  <1> QED
    BY <1>1, <1>2, AirNone DEF MoveUser, Leave, Stop, RegisterPending,
       CheckerTick, CheckerDone, out

LEMMA SendDataTypes ==
  ASSUME TypeOK, NEW n \in Node, NEW dest, NEW flags, NEW inHandler,
         SendData(n, dest, flags, inHandler), UNCHANGED messages
  PROVE  AddsTypes({"DATA", "RREQ"})
  <1>1. CASE UNCHANGED txQueue
    BY <1>1, AirNone, AirNoneOf
  <1>2. ASSUME NEW hop,
               Enqueue(n, <<CreateDataPacket(n, n, dest, hop, 0, flags,
                                             FreshID(n, 0))>>, 1)
        PROVE  AddsTypes({"DATA", "RREQ"})
    BY <1>2, AirOneOf, NewPacketTypes
  <1>3. CASE Enqueue(n, <<CreateRREQPacket(n, dest, n, 0, FreshID(n, 0))>>, 1)
    BY <1>3, AirOneOf, NewPacketTypes
  <1> QED
    BY <1>1, <1>2, <1>3 DEF SendData, SendAndTrack, QueueAndRequestRoute, out

LEMMA SendUserMessageTypes ==
  ASSUME TypeOK, NEW n \in Node, NEW from, NEW to, NEW flags, NEW inHandler,
         SendUserMessage(n, from, to, flags, inHandler), UNCHANGED messages
  PROVE  AddsTypes({"USER_MSG", "RREQ", "UREQ"})
  <1> DEFINE home == gut[n][to]
  <1>1. CASE UNCHANGED txQueue
    BY <1>1, AirNone, AirNoneOf
  <1>2. CASE Enqueue(n, <<CreateUREQPacket(n, n, to, 0, FreshID(n, 0))>>, 1)
    BY <1>2, AirOneOf, NewPacketTypes
  <1>3. ASSUME NEW hop,
               Enqueue(n, <<CreateUSERMessagePacket(n, n, from, to, home, hop,
                               0, flags, FreshID(n, 0))>>, 1)
        PROVE  AddsTypes({"USER_MSG", "RREQ", "UREQ"})
    BY <1>3, AirOneOf, NewPacketTypes
  <1>4. CASE Enqueue(n, <<CreateRREQPacket(n, home, n, 0, FreshID(n, 0))>>, 1)
    BY <1>4, AirOneOf, NewPacketTypes
  <1> QED
    BY <1>1, <1>2, <1>3, <1>4
    DEF SendUserMessage, SendAndTrack, QueueAndRequestRoute, out

LEMMA SendTypes ==
  ASSUME TypeOK, NEW n \in Node,
         CallSendData(n) \/ CallSendUserMessage(n) \/ FlushStep(n)
  PROVE  AddsTypes({"DATA", "USER_MSG", "RREQ", "UREQ"})
  <1>1. UNCHANGED messages
    BY DEF CallSendData, CallSendUserMessage, FlushStep
  <1>2. \/ \E dest, flags, inHandler : SendData(n, dest, flags, inHandler)
        \/ \E from, to, flags, inHandler :
              SendUserMessage(n, from, to, flags, inHandler)
    BY DEF CallSendData, CallSendUserMessage, FlushStep
  <1> QED
    BY <1>1, <1>2, SendDataTypes, SendUserMessageTypes DEF AddsTypes

LEMMA HandleRREQTypes ==
  ASSUME TypeOK, NEW n \in Node, HandleRREQ(n)
  PROVE  AddsTypes({"RREQ", "RREP"})
  <1>1. \E type : Receive(n, type)
    BY DEF HandleRREQ
  <1>2. CASE UNCHANGED txQueue
    BY <1>1, <1>2, AirNone, AirNoneOf
  <1>3. ASSUME NEW table, NEW dest, NEW origin, NEW hops,
               Enqueue(n, <<RREPOf(n, table, dest, origin, hops)>>, 1)
        PROVE  AddsTypes({"RREQ", "RREP"})
    BY <1>1, <1>3, AirOneOf, NewPacketTypes DEF RREPOf
  <1>4. ASSUME NEW dest, NEW origin, NEW hops, NEW pid,
               Enqueue(n, <<CreateRREQPacket(n, dest, origin, hops, pid)>>, 0)
        PROVE  AddsTypes({"RREQ", "RREP"})
    BY <1>1, <1>4, AirOneOf, NewPacketTypes
  <1> QED
    BY <1>2, <1>3, <1>4 DEF HandleRREQ, out

LEMMA HandleRREPTypes ==
  ASSUME TypeOK, NEW n \in Node, HandleRREP(n)
  PROVE  AddsTypes({"RREP"})
  <1>1. \E type : Receive(n, type)
    BY DEF HandleRREP
  <1>2. CASE UNCHANGED txQueue
    BY <1>1, <1>2, AirNone, AirNoneOf
  <1>3. ASSUME NEW dest, NEW hop, NEW origin, NEW hops, NEW num, NEW pid,
               Enqueue(n, <<CreateRREPPacket(n, dest, hop, origin, hops, num,
                                             pid)>>, 0)
        PROVE  AddsTypes({"RREP"})
    BY <1>1, <1>3, AirOneOf, NewPacketTypes
  <1> QED
    BY <1>2, <1>3 DEF HandleRREP, out

LEMMA HandleRERRTypes ==
  ASSUME TypeOK, NEW n \in Node, HandleRERR(n)
  PROVE  AddsTypes({"RERR"})
  <1>1. \E type : Receive(n, type)
    BY DEF HandleRERR
  <1>2. CASE UNCHANGED txQueue
    BY <1>1, <1>2, AirNone, AirNoneOf
  <1>3. ASSUME NEW hop, NEW broken, NEW dest, NEW failed, NEW origin, NEW hops,
               NEW pid,
               Enqueue(n, <<CreateRERRPacket(n, hop, broken, dest, failed,
                                             origin, hops, pid)>>, 0)
        PROVE  AddsTypes({"RERR"})
    BY <1>1, <1>3, AirOneOf, NewPacketTypes
  <1> QED
    BY <1>2, <1>3 DEF HandleRERR, out

LEMMA HandleUERRTypes ==
  ASSUME TypeOK, NEW n \in Node, HandleUERR(n)
  PROVE  AddsTypes({"UERR"})
  <1>1. \E type : Receive(n, type)
    BY DEF HandleUERR
  <1>2. CASE UNCHANGED txQueue
    BY <1>1, <1>2, AirNone, AirNoneOf
  <1>3. ASSUME NEW hop, NEW user, NEW home, NEW failed,
               Enqueue(n, <<CreateUERRPacket(n, hop, user, home, NullID, failed,
                                             FreshID(n, 0))>>, 1)
        PROVE  AddsTypes({"UERR"})
    BY <1>1, <1>3, AirOneOf, NewPacketTypes
  <1> QED
    BY <1>2, <1>3 DEF HandleUERR, out

LEMMA GiveUpTypes ==
  ASSUME TypeOK, NEW n \in Node, CheckerGiveUp(n)
  PROVE  AddsTypes({"RERR"})
  <1>1. UNCHANGED messages
    BY DEF CheckerGiveUp
  <1>2. CASE UNCHANGED txQueue
    BY <1>1, <1>2, AirNone, AirNoneOf
  <1>3. ASSUME NEW to, NEW broken, NEW dest, NEW failed, NEW source,
               Enqueue(n, <<CreateRERRPacket(n, to, broken, dest, failed,
                               source, 0, FreshID(n, 0))>>, 1)
        PROVE  AddsTypes({"RERR"})
    BY <1>1, <1>3, AirOneOf, NewPacketTypes
  <1> QED
    BY <1>2, <1>3 DEF CheckerGiveUp, sendRERR, out

LEMMA RetryTypes ==
  ASSUME TypeOK, PendingLinks, NEW n \in Node, CheckerRetry(n)
  PROVE  AddsTypes({"DATA", "USER_MSG", "RREQ"})
  <1>1. PICK tx \in expired[n] :
           \/ UNCHANGED txQueue
           \/ Enqueue(n, <<tx.Pkt>>, 0)
           \/ Enqueue(n, <<CreateRREQPacket(n, tx.Dest, n, 0,
                                            FreshID(n, 0))>>, 1)
    BY DEF CheckerRetry, out
  <1>2. tx.Pkt.PacketType \in {"DATA", "USER_MSG"}
    BY DEF PendingLinks, Tracked
  <1>3. UNCHANGED messages
    BY DEF CheckerRetry
  <1>4. CASE UNCHANGED txQueue
    BY <1>3, <1>4, AirNone, AirNoneOf
  <1>5. CASE Enqueue(n, <<tx.Pkt>>, 0)
    BY <1>2, <1>3, <1>5, AirOneOf
  <1>6. CASE Enqueue(n, <<CreateRREQPacket(n, tx.Dest, n, 0,
                                           FreshID(n, 0))>>, 1)
    BY <1>3, <1>6, AirOneOf, NewPacketTypes
  <1> QED
    BY <1>1, <1>4, <1>5, <1>6

LEMMA SeqOfThose ==
  ASSUME NEW S, NEW T, NEW s \in Seq(S), \A i \in DOMAIN s : s[i] \in T
  PROVE  s \in Seq(T)
  OBVIOUS

LEMMA AirAllOf ==
  ASSUME TypeOK, NEW n \in Node, NEW S, NEW pkts \in Seq(S), NEW fresh,
         NEW types, \A q \in S : q.PacketType \in types,
         Enqueue(n, pkts, fresh),
         UNCHANGED messages \/ \E type : Receive(n, type)
  PROVE  AddsTypes(types)
  <1>1. \A i \in DOMAIN pkts : pkts[i].PacketType \in types
    OBVIOUS
  <1> QED
    BY <1>1, AirEnqueued DEF Adds, AddsTypes

\* The acknowledgements that n sends of p.
AcksOf(n, p) ==
    {q \in Packet : /\ q.PacketType = "ACK"
                    /\ q.OriginalPacketID = p.PacketID
                    /\ q.PrevHopID = n}

LEMMA AcksSent ==
  ASSUME TypeOK, NEW n \in Node, NEW p \in Packet, NEW final
  PROVE  /\ FinalAck(n, p, final) \in Seq(AcksOf(n, p))
         /\ DuplicateAcks(n, p, final) \in Seq(AcksOf(n, p))
  <1> DEFINE first == FinalAck(n, p, final)
             second == AckOf(n, p, Len(first))
  <1>1. ASSUME NEW k \in Nat
        PROVE  AckOf(n, p, k) \in AcksOf(n, p)
    <2>1. AckOf(n, p, k) \in Packet
      BY FreshIDType, PacketHeader, AckPacket DEF AckOf, Address, Packet
    <2> QED
      BY <2>1 DEF AckOf, AcksOf, CreateACKPacket
  <1>2. first \in Seq(AcksOf(n, p))
    BY <1>1 DEF FinalAck
  <1>3. second \in AcksOf(n, p)
    BY <1>1, <1>2
  <1> HIDE DEF second
  <1>4. DuplicateAcks(n, p, final) \in {Append(first, second), <<>>}
    BY DEF DuplicateAcks, second
  <1> HIDE DEF first
  <1>5. Append(first, second) \in Seq(AcksOf(n, p))
    BY <1>2, <1>3
  <1>6. DuplicateAcks(n, p, final) \in Seq(AcksOf(n, p))
    BY <1>4, <1>5, EmptySeq
  <1> QED
    BY <1>2, <1>6 DEF first

LEMMA HandleDataTypes ==
  ASSUME TypeOK, NEW n \in Node, HandleData(n)
  PROVE  AddsTypes({"DATA", "ACK", "RERR"})
  <1> DEFINE p == Head(messages[n])
             dest == p.FinalDestID
  <1>1. p \in Packet /\ \E type : Receive(n, type)
    BY Received DEF HandleData
  <1>a. /\ FinalAck(n, p, dest) \in Seq(AcksOf(n, p))
        /\ DuplicateAcks(n, p, dest) \in Seq(AcksOf(n, p))
    BY <1>1, AcksSent
  <1> HIDE DEF p, dest
  <1>2. CASE UNCHANGED txQueue
    BY <1>1, <1>2, AirNone, AirNoneOf
  <1>3. ASSUME NEW pkts \in Seq(AcksOf(n, p)), Enqueue(n, pkts, Len(pkts))
        PROVE  AddsTypes({"DATA", "ACK", "RERR"})
    <2>1. \A q \in AcksOf(n, p) : q.PacketType \in {"DATA", "ACK", "RERR"}
      BY DEF AcksOf
    <2> QED
      BY <1>1, <1>3, <2>1, AirAllOf
  <1>4. ASSUME NEW hop, NEW flags,
               Enqueue(n, <<CreateDataPacket(p.OriginNodeID, n, dest, hop,
                               p.HopCount + 1, flags, p.PacketID)>>, 0)
        PROVE  AddsTypes({"DATA", "ACK", "RERR"})
    BY <1>1, <1>4, AirOneOf, NewPacketTypes
  <1>5. CASE Enqueue(n, <<CreateRERRPacket(n, p.PrevHopID, n, dest, p.PacketID,
                             p.OriginNodeID, 0, FreshID(n, 0))>>, 1)
    BY <1>1, <1>5, AirOneOf, NewPacketTypes
  <1> QED
    BY <1>a, <1>2, <1>3, <1>4, <1>5
    DEF HandleData, Forward, ReportNoRoute, sendRERR, out, p, dest

LEMMA HandleUserMessageTypes ==
  ASSUME TypeOK, NEW n \in Node, HandleUserMessage(n)
  PROVE  AddsTypes({"USER_MSG", "ACK", "RERR", "UERR"})
  <1> DEFINE p == Head(messages[n])
             dest == p.ToNodeID
             answer == FinalAck(n, p, dest) \o UserNotAtNode(n, p)
             types == {"USER_MSG", "ACK", "RERR", "UERR"}
             Answers == {q \in Packet : q.PacketType \in types}
  <1>1. /\ p \in Packet /\ p \in UserMessageFormat
        /\ \E type : Receive(n, type)
    BY Received, PacketFormat DEF HandleUserMessage
  <1>a. /\ FinalAck(n, p, dest) \in Seq(Answers)
        /\ DuplicateAcks(n, p, dest) \in Seq(Answers)
    <2>1. AcksOf(n, p) \subseteq Answers
      BY DEF AcksOf
    <2> QED
      BY <1>1, <2>1, AcksSent
  <1>b. UserNotAtNode(n, p) \in Seq(Answers)
    <2>1. UserNotAtNode(n, p) \in Seq(Sent(n, FALSE))
      BY <1>1, UserNotAtNodeLinks
    <2>2. \A i \in DOMAIN UserNotAtNode(n, p) :
             UserNotAtNode(n, p)[i].PacketType = "UERR"
      BY NewPacketTypes DEF UserNotAtNode
    <2>3. \A i \in DOMAIN UserNotAtNode(n, p) :
             UserNotAtNode(n, p)[i] \in Answers
      BY <2>1, <2>2 DEF Sent
    <2> QED
      BY <2>1, <2>3, SeqOfThose
  <1>c. answer \in Seq(Answers)
    BY <1>a, <1>b, ConcatProperties
  <1> HIDE DEF p, dest, answer
  <1>2. CASE UNCHANGED txQueue
    BY <1>1, <1>2, AirNone, AirNoneOf
  <1>3. ASSUME NEW pkts \in Seq(Answers), Enqueue(n, pkts, Len(pkts))
        PROVE  AddsTypes(types)
    BY <1>1, <1>3, AirAllOf
  <1>4. ASSUME NEW hop,
               Enqueue(n, <<CreateUSERMessagePacket(p.OriginNodeID, n,
                               p.FromUserID, p.ToUserID, dest, hop,
                               p.HopCount + 1, p.Flags, p.PacketID)>>, 0)
        PROVE  AddsTypes(types)
    BY <1>1, <1>4, AirOneOf, NewPacketTypes
  <1>5. CASE Enqueue(n, <<CreateRERRPacket(n, p.PrevHopID, n, dest, p.PacketID,
                             p.OriginNodeID, 0, FreshID(n, 0))>>, 1)
    BY <1>1, <1>5, AirOneOf, NewPacketTypes
  <1> QED
    BY <1>a, <1>c, <1>2, <1>3, <1>4, <1>5
    DEF HandleUserMessage, Forward, ReportNoRoute, sendRERR, out, p, dest,
        answer

----------------------------------------------------------------------------
(* Homes.  Whatever a node or a packet calls the home of a user was given  *)
(* that user by a call; the calls that were made stay made.                *)

WasHome(n, user) ==
    \E i \in 1 .. made :
        /\ calls[i].call = "AddConnectedUser"
        /\ calls[i].node = n
        /\ calls[i].user = user

UsersWereAdded == \A n \in Node : \A x \in connectedUsers[n] : WasHome(n, x)

TellsHomes(p) ==
    /\ p.PacketType = "BROADCAST_INFO" =>
          \A x \in p.Added : WasHome(p.OriginNodeID, x)
    /\ p.PacketType = "UREP" => WasHome(p.UREPDestNodeID, p.UREPUserID)

PacketsTellHomes == \A p \in Air : TellsHomes(p)

GutWasHome ==
    \A n \in Node, x \in User : gut[n][x] # NullID => WasHome(gut[n][x], x)

HomeInv == UsersWereAdded /\ PacketsTellHomes /\ GutWasHome

\* No step takes a call back.
KeepsCalls ==
    /\ calls' = calls
    /\ \A i \in 1 .. made : i \in 1 .. made'

LEMMA CallsKept ==
  ASSUME TypeOK, [Next]_vars
  PROVE  KeepsCalls
  <1>1. made \in Nat
    BY TrafficAssumption DEF TypeOK
  <1>2. calls' = calls /\ (made' = made \/ made' = made + 1)
    <2>1. CASE UNCHANGED vars
      BY <2>1 DEF vars, env
    <2>2. ASSUME NEW n \in Node, HandleMessage(n)
          PROVE  UNCHANGED <<calls, made>>
      BY Zenon, <2>2 DEF HandleMessage, HandleBroadcastInfo, HandleRREQ,
         HandleRREP, HandleRERR, HandleDataAck, HandleData, HandleUserMessage,
         HandleUREQ, HandleUREP, HandleUERR, HandlerFrame, env
    <2>3. ASSUME NEW n \in Node, Start(n) \/ FlushStep(n) \/ BroadcastTick(n)
          PROVE  UNCHANGED <<calls, made>>
      BY <2>3 DEF Start, FlushStep, BroadcastTick, env
    <2>4. ASSUME NEW n \in Node, PendingTxChecker(n)
          PROVE  UNCHANGED <<calls, made>>
      BY <2>4 DEF PendingTxChecker, CheckerTick, CheckerRetry, CheckerGiveUp,
         CheckerDone, env
    <2>5. ASSUME NEW n \in Node, Application(n)
          PROVE  calls' = calls /\ made' = made + 1
      BY <2>5 DEF Application, CallSendData, CallSendUserMessage, MoveUser,
         Leave, Make
    <2>6. ASSUME NEW n \in Node, Transmit(n) \/ RegisterPending(n) \/ Stop(n)
          PROVE  UNCHANGED <<calls, made>>
      BY <2>6 DEF Transmit, RegisterPending, Stop, env
    <2> QED
      BY <2>1, <2>2, <2>3, <2>4, <2>5, <2>6 DEF Next, NodeGoroutine
  <1> QED
    BY <1>1, <1>2 DEF KeepsCalls

LEMMA HomesKept ==
  ASSUME KeepsCalls, NEW n, NEW x, WasHome(n, x)
  PROVE  WasHome(n, x)'
  BY DEF KeepsCalls, WasHome

LEMMA HomesTold ==
  ASSUME KeepsCalls, PacketsTellHomes,
         \A q \in Air' : q \in Air \/ TellsHomes(q)
  PROVE  PacketsTellHomes'
  <1>1. ASSUME NEW q \in Air'
        PROVE  TellsHomes(q)'
    BY <1>1, HomesKept DEF PacketsTellHomes, TellsHomes
  <1> QED
    BY <1>1 DEF PacketsTellHomes

LEMMA HomeFrame ==
  ASSUME KeepsCalls, HomeInv, UNCHANGED <<connectedUsers, gut>>,
         AddsTypes(PacketType \ {"BROADCAST_INFO", "UREP"})
  PROVE  HomeInv'
  <1>1. PacketsTellHomes'
    BY HomesTold DEF AddsTypes, HomeInv, TellsHomes
  <1> QED
    BY <1>1, HomesKept DEF HomeInv, UsersWereAdded, GutWasHome

LEMMA MoveUserHomes ==
  ASSUME TypeOK, KeepsCalls, HomeInv, NEW n \in Node, MoveUser(n)
  PROVE  HomeInv'
  <1>1. PacketsTellHomes'
    BY QuietStep, HomesTold DEF Adds, HomeInv
  <1>2. UNCHANGED gut
    BY DEF MoveUser
  <1>3. UsersWereAdded'
    <2>0. connectedUsers \in [Node -> SUBSET User]
      BY DEF TypeOK
    <2>1. CASE Make(n, "AddConnectedUser") /\
               connectedUsers' = [connectedUsers EXCEPT
                                     ![n] = @ \cup {calls[made + 1].user}]
      <3>1. PICK i, x : i = made + 1 /\ x = calls[i].user
        OBVIOUS
      <3>2. i \in 1 .. made'
        BY <2>1, <3>1, TrafficAssumption DEF Make, TypeOK
      <3>3. /\ calls' = calls
            /\ calls[i].call = "AddConnectedUser" /\ calls[i].node = n
        BY <2>1, <3>1 DEF Make
      <3>4. WasHome(n, x)'
        BY <3>1, <3>2, <3>3 DEF WasHome
      <3>5. connectedUsers' = [connectedUsers EXCEPT ![n] = @ \cup {x}]
        BY <2>1, <3>1
      <3> QED
        BY <2>0, <3>4, <3>5, HomesKept DEF HomeInv, UsersWereAdded
    <2>2. CASE connectedUsers' = [connectedUsers EXCEPT
                                     ![n] = @ \ {calls[made + 1].user}]
      BY <2>0, <2>2, HomesKept DEF HomeInv, UsersWereAdded
    <2> QED
      BY <2>1, <2>2 DEF MoveUser
  <1> QED
    BY <1>1, <1>2, <1>3, HomesKept DEF HomeInv, GutWasHome

LEMMA AnnounceHomes ==
  ASSUME TypeOK, KeepsCalls, HomeInv, NEW n \in Node,
         Start(n) \/ BroadcastTick(n)
  PROVE  HomeInv'
  <1> DEFINE added == connectedUsers[n] \ lastUsersShadow[n]
             removed == lastUsersShadow[n] \ connectedUsers[n]
             info == CreateDiffBroadcastInfoPacket(n, n, added, removed, 0,
                                                   FreshID(n, 0))
  <1>1. TellsHomes(info)
    BY DEF TellsHomes, CreateDiffBroadcastInfoPacket, HomeInv, UsersWereAdded
  <1> HIDE DEF info
  <1>2. /\ UNCHANGED <<connectedUsers, gut, messages>>
        /\ UNCHANGED txQueue \/ Enqueue(n, <<info>>, 1)
    BY DEF Start, BroadcastTick, SendDiffBroadcastInfo, info, env, out
  <1>3. Adds({info})
    BY <1>2, AirNone, AirOne DEF Adds
  <1>4. PacketsTellHomes'
    BY <1>1, <1>3, HomesTold DEF Adds, HomeInv
  <1> QED
    BY <1>2, <1>4, HomesKept DEF HomeInv, UsersWereAdded, GutWasHome

LEMMA HandleBroadcastInfoHomes ==
  ASSUME TypeOK, KeepsCalls, HomeInv, NEW n \in Node, HandleBroadcastInfo(n)
  PROVE  HomeInv'
  <1> DEFINE p == Head(messages[n])
             copy == CreateDiffBroadcastInfoPacket(n, p.OriginNodeID, p.Added,
                         p.Removed, p.HopCount + 1, p.PacketID)
  <1>1. /\ p \in Air /\ p \in InfoFormat /\ p.PacketType = "BROADCAST_INFO"
        /\ \E type : Receive(n, type)
    BY AirReceived, PacketFormat DEF HandleBroadcastInfo
  <1>2. TellsHomes(p)
    BY <1>1 DEF HomeInv, PacketsTellHomes
  <1>3. TellsHomes(copy)
    BY <1>1, <1>2 DEF TellsHomes, CreateDiffBroadcastInfoPacket
  <1> HIDE DEF p, copy
  <1>4. /\ UNCHANGED connectedUsers
        /\ UNCHANGED txQueue \/ Enqueue(n, <<copy>>, 0)
        /\ UNCHANGED gut \/ gut' = [gut EXCEPT ![n] = InfoUsers(n, p)]
    BY DEF HandleBroadcastInfo, HandlerFrame, env, out, p, copy
  <1>5. Adds({copy})
    BY <1>1, <1>4, AirNone, AirOne DEF Adds
  <1>6. PacketsTellHomes'
    BY <1>3, <1>5, HomesTold DEF Adds, HomeInv
  <1>7. ASSUME NEW m \in Node, NEW x \in User, gut'[m][x] # NullID
        PROVE  WasHome(gut'[m][x], x)
    <2>1. gut \in [Node -> [User -> Node \cup {NullID}]]
      BY DEF TypeOK
    <2>2. CASE gut'[m][x] = gut[m][x]
      BY <1>7, <2>2 DEF HomeInv, GutWasHome
    <2>3. CASE gut'[m][x] # gut[m][x]
      <3>1. m = n /\ gut'[m][x] = InfoUsers(n, p)[x]
        BY <1>4, <2>1, <2>3
      <3>2. x \in p.Added /\ InfoUsers(n, p)[x] = p.OriginNodeID
        BY <1>7, <2>3, <3>1 DEF InfoUsers
      <3> QED
        BY <1>1, <1>2, <3>1, <3>2 DEF TellsHomes
    <2> QED
      BY <2>2, <2>3
  <1>8. GutWasHome'
    BY <1>7, HomesKept DEF GutWasHome
  <1> QED
    BY <1>4, <1>6, <1>8, HomesKept DEF HomeInv, UsersWereAdded

LEMMA HandleUREQHomes ==
  ASSUME TypeOK, KeepsCalls, HomeInv, NEW n \in Node, HandleUREQ(n)
  PROVE  HomeInv'
  <1> DEFINE p == Head(messages[n])
             user == p.UREQUserID
             home == gut[n][user]
             reply(h, hops) == CreateUREPPacket(n, p.PrevHopID, p.OriginNodeID,
                                   h, user, hops, FreshID(n, 0))
             copy == CreateUREQPacket(n, p.OriginNodeID, user, p.HopCount + 1,
                                      p.PacketID)
  <1>1. p \in UREQFormat /\ \E type : Receive(n, type)
    BY Zenon, AirReceived, PacketFormat DEF HandleUREQ
  <1>2. user \in User
    BY <1>1 DEF UREQFormat
  <1>3. TellsHomes(copy)
    BY DEF TellsHomes, CreateUREQPacket
  <1>4. ASSUME NEW h, NEW hops, WasHome(h, user)
        PROVE  TellsHomes(reply(h, hops))
    BY <1>4 DEF TellsHomes, CreateUREPPacket
  <1> HIDE DEF p, user, home, reply, copy
  <1>5. /\ UNCHANGED <<connectedUsers, gut>>
        /\ \/ UNCHANGED txQueue
           \/ Enqueue(n, <<copy>>, 0)
           \/ \E hops : user \in connectedUsers[n] /\ Enqueue(n, <<reply(n, hops)>>, 1)
           \/ \E hops : home # NullID /\ Enqueue(n, <<reply(home, hops)>>, 1)
    BY Zenon DEF HandleUREQ, HandlerFrame, env, out, p, user, home, reply, copy
  <1>6. PacketsTellHomes'
    <2>1. ASSUME NEW pkt, TellsHomes(pkt), Adds({pkt})
          PROVE  PacketsTellHomes'
      BY <2>1, HomesTold DEF Adds, HomeInv
    <2>2. CASE UNCHANGED txQueue
      BY <1>1, <2>2, AirNone, HomesTold DEF Adds, HomeInv
    <2>3. CASE Enqueue(n, <<copy>>, 0)
      BY <1>1, <1>3, <2>1, <2>3, AirOne
    <2>4. ASSUME NEW hops, user \in connectedUsers[n],
                 Enqueue(n, <<reply(n, hops)>>, 1)
          PROVE  PacketsTellHomes'
      BY <1>1, <1>4, <2>1, <2>4, AirOne DEF HomeInv, UsersWereAdded
    <2>5. ASSUME NEW hops, home # NullID, Enqueue(n, <<reply(home, hops)>>, 1)
          PROVE  PacketsTellHomes'
      <3>1. WasHome(home, user)
        BY <1>2, <2>5 DEF HomeInv, GutWasHome, home
      <3> QED
        BY <1>1, <1>4, <2>1, <2>5, <3>1, AirOne
    <2> QED
      BY <1>5, <2>2, <2>3, <2>4, <2>5
  <1> QED
    BY <1>5, <1>6, HomesKept DEF HomeInv, UsersWereAdded, GutWasHome

LEMMA HandleUREPHomes ==
  ASSUME TypeOK, KeepsCalls, HomeInv, NEW n \in Node, HandleUREP(n)
  PROVE  HomeInv'
  <1> DEFINE p == Head(messages[n])
             home == p.UREPDestNodeID
             user == p.UREPUserID
             copy == CreateUREPPacket(n, RouteTable[n][home].NextHop,
                         p.OriginNodeID, home, user, p.HopCount + 1,
                         p.PacketID)
  <1>1. /\ p \in Air /\ p.PacketType = "UREP"
        /\ \E type : Receive(n, type)
    BY Zenon, AirReceived DEF HandleUREP
  <1>2. WasHome(home, user)
    BY <1>1 DEF HomeInv, PacketsTellHomes, TellsHomes
  <1>3. TellsHomes(copy)
    BY <1>2 DEF TellsHomes, CreateUREPPacket
  <1> HIDE DEF p, home, user, copy
  <1>4. /\ UNCHANGED connectedUsers
        /\ UNCHANGED txQueue \/ Enqueue(n, <<copy>>, 0)
        /\ UNCHANGED gut \/ gut' = [gut EXCEPT ![n][user] = home]
    BY Zenon DEF HandleUREP, HandlerFrame, env, out, p, home, user, copy
  <1>5. Adds({copy})
    BY <1>1, <1>4, AirNone, AirOne DEF Adds
  <1>6. PacketsTellHomes'
    BY <1>3, <1>5, HomesTold DEF Adds, HomeInv
  <1>7. GutWasHome'
    <2>1. gut \in [Node -> [User -> Node \cup {NullID}]]
      BY DEF TypeOK
    <2>2. \A m \in Node, x \in User :
             \/ gut'[m][x] = gut[m][x]
             \/ x = user /\ gut'[m][x] = home
      BY <1>4, <2>1
    <2> QED
      BY <1>2, <2>2, HomesKept DEF HomeInv, GutWasHome
  <1> QED
    BY <1>4, <1>6, <1>7, HomesKept DEF HomeInv, UsersWereAdded

LEMMA HandleUERRHomes ==
  ASSUME TypeOK, KeepsCalls, HomeInv, NEW n \in Node, HandleUERR(n)
  PROVE  HomeInv'
  <1>1. PacketsTellHomes'
    BY HandleUERRTypes, HomesTold DEF AddsTypes, HomeInv, TellsHomes
  <1>2. /\ UNCHANGED connectedUsers
        /\ \/ UNCHANGED gut
           \/ \E x : gut' = [gut EXCEPT ![n][x] = NullID]
    BY DEF HandleUERR, HandlerFrame, env
  <1>3. gut \in [Node -> [User -> Node \cup {NullID}]]
    BY DEF TypeOK
  <1>4. \A m \in Node, x \in User : gut'[m][x] \in {gut[m][x], NullID}
    BY <1>2, <1>3
  <1> QED
    BY <1>1, <1>2, <1>4, HomesKept DEF HomeInv, UsersWereAdded, GutWasHome

LEMMA NextHomes ==
  ASSUME TypeOK, PendingLinks, HomeInv, [Next]_vars
  PROVE  HomeInv'
  <1>0. KeepsCalls
    BY CallsKept
  <1> DEFINE others == PacketType \ {"BROADCAST_INFO", "UREP"}
  <1>1. CASE UNCHANGED vars
    BY <1>0, <1>1, HomesKept
    DEF vars, env, out, HomeInv, UsersWereAdded, GutWasHome, PacketsTellHomes,
        TellsHomes, Air
  <1>2. ASSUME NEW n \in Node, HandleMessage(n)
        PROVE  HomeInv'
    <2>1. ASSUME \/ HandleRREQ(n) \/ HandleRREP(n) \/ HandleRERR(n)
                 \/ HandleDataAck(n) \/ HandleData(n) \/ HandleUserMessage(n)
          PROVE  HomeInv'
      <3>1. AddsTypes(others)
        BY <2>1, HandleRREQTypes, HandleRREPTypes, HandleRERRTypes, QuietStep,
           HandleDataTypes, HandleUserMessageTypes
        DEF AddsTypes, Adds, PacketType
      <3>2. UNCHANGED <<connectedUsers, gut>>
        BY <2>1 DEF HandleRREQ, HandleRREP, HandleRERR, HandleDataAck,
           HandleData, HandleUserMessage, HandlerFrame, env
      <3> QED
        BY <1>0, <3>1, <3>2, HomeFrame
    <2> QED
      BY <1>0, <1>2, <2>1, HandleBroadcastInfoHomes, HandleUREQHomes,
         HandleUREPHomes, HandleUERRHomes DEF HandleMessage
  <1>3. ASSUME NEW n \in Node,
               \/ FlushStep(n) \/ CallSendData(n) \/ CallSendUserMessage(n)
        PROVE  HomeInv'
    <2>1. AddsTypes(others)
      BY <1>3, SendTypes DEF AddsTypes, PacketType
    <2>2. UNCHANGED <<connectedUsers, gut>>
      BY <1>3 DEF FlushStep, CallSendData, CallSendUserMessage, env
    <2> QED
      BY <1>0, <2>1, <2>2, HomeFrame
  <1>4. ASSUME NEW n \in Node,
               \/ Leave(n) \/ Stop(n) \/ RegisterPending(n) \/ Transmit(n)
               \/ PendingTxChecker(n)
        PROVE  HomeInv'
    <2>1. AddsTypes(others)
      BY <1>4, QuietStep, RetryTypes, GiveUpTypes
      DEF PendingTxChecker, AddsTypes, Adds, PacketType
    <2>2. UNCHANGED <<connectedUsers, gut>>
      BY <1>4 DEF Leave, Stop, RegisterPending, Transmit, PendingTxChecker,
         CheckerTick, CheckerRetry, CheckerGiveUp, CheckerDone, env
    <2> QED
      BY <1>0, <2>1, <2>2, HomeFrame
  <1> QED
    BY <1>0, <1>1, <1>2, <1>3, <1>4, MoveUserHomes, AnnounceHomes
    DEF Next, NodeGoroutine, Application

\* Whatever is lost, late or learned second-hand, a node that is known as the
\* home of a user was given that user by the application before.
THEOREM HomesWereGiven == Spec => []GutSound
  <1>1. Init => HomeInv
    BY DEF Init, HomeInv, UsersWereAdded, PacketsTellHomes, GutWasHome, Air, In
  <1>2. TypeOK /\ LinkInv(FALSE) /\ HomeInv /\ [Next]_vars => HomeInv'
    BY NextHomes DEF LinkInv
  <1>3. HomeInv => GutSound
    BY DEF HomeInv, GutWasHome, WasHome, GutSound
  <1> QED
    BY <1>1, <1>2, <1>3, TypeCorrect, LinksStay, PTL DEF Spec

----------------------------------------------------------------------------
(* Routes while none is withdrawn.  Nobody waits for an acknowledgement,   *)
(* so that no link is taken for broken; and what a packet says of the way  *)
(* to a node, the one who sent it can hold.  When nobody looked up a user  *)
(* either (`strict'), nor is its own way longer than it said.              *)

Calm(strict) == NothingWithdrawn /\ (strict => NothingLookedUp)

NobodyWaits ==
    \A n \in Node : /\ pendingTxs[n] = {}
                    /\ registering[n] = {}
                    /\ expired[n] = {}

PlainEntries(strict) ==
    {e \in DataQueueEntry :
        e.flags = NoFlags /\ (strict => e.packetType = "DATA")}

PlainMessages(strict) == {e \in QueuedUserMessage : e.flags = NoFlags /\ ~strict}

PlainSends(strict) ==
    {e \in QueuedSend : e.flags = NoFlags /\ (strict => e.packetType = "DATA")}

EntriesPlain(strict) ==
    \A n \in Node :
        /\ \A d \in Node : dataQueue[n][d] \in Seq(PlainEntries(strict))
        /\ \A x \in User : userMessageQueue[n][x] \in Seq(PlainMessages(strict))

SendsPlain(strict) ==
    \A n \in Node : flushing[n] \in Seq(PlainSends(strict))

QueuesPlain(strict) == EntriesPlain(strict) /\ SendsPlain(strict)

\* m can reach d, in at most k hops if it matters.
Knows(m, d, k, strict) ==
    \/ m = d
    \/ HasRoute(m, d) /\ (strict => RouteTable[m][d].HopCount <= k)

\* The next hop of the route r to d can go on.
Leads(r, d, strict) ==
    \/ r.NextHop = d
    \/ /\ HasRoute(r.NextHop, d)
       /\ strict => RouteTable[r.NextHop][d].HopCount < r.HopCount

RoutesLead(strict) ==
    \A n, d \in Node : HasRoute(n, d) => Leads(RouteTable[n][d], d, strict)

PacketLeads(p, strict) ==
    /\ p.PacketType # "RERR"
    /\ p.PacketType \in {"RREQ", "BROADCAST_INFO", "UREQ"} =>
          Knows(p.PrevHopID, p.OriginNodeID, p.HopCount, strict)
    /\ p.PacketType = "RREP" =>
          Knows(p.PrevHopID, p.RREPDestNodeID, p.NumHops, strict)
    /\ p.PacketType = "UREP" => Knows(p.PrevHopID, p.UREPDestNodeID, 0, FALSE)
    /\ p.PacketType \in {"UREQ", "UREP"} => ~strict
    /\ p.PacketType \in {"DATA", "USER_MSG"} =>
          /\ p.Flags = NoFlags
          /\ p.DestNodeID \in Node =>
                /\ FinalNode(p) \in Node
                /\ Knows(p.DestNodeID, FinalNode(p), 0, FALSE)
    /\ p.PacketType = "DATA" /\ p.DestNodeID = BROADCAST_ADDR =>
          p.FinalDestID = BROADCAST_ADDR

PacketsLead(strict) == \A p \in Air : PacketLeads(p, strict)

RouteInv(strict) ==
    /\ NobodyWaits
    /\ QueuesPlain(strict)
    /\ RoutesLead(strict)
    /\ PacketsLead(strict)

(* Routes that are replaced by shorter ones.                               *)

RoutesImprove ==
    \A n, d \in Node : HasRoute(n, d) =>
        /\ HasRoute(n, d)'
        /\ RouteTable'[n][d].HopCount <= RouteTable[n][d].HopCount

\* The tables that n may have next.
Learned(n, strict) ==
    {table \in Table : \A d \in Node :
        /\ HasRoute(n, d) => /\ table[d] # NoRoute
                             /\ table[d].HopCount <= RouteTable[n][d].HopCount
        /\ table[d] # NoRoute => Leads(table[d], d, strict)}

LEMMA RouteHops ==
  ASSUME TypeOK, NEW n \in Node, NEW d \in Node, HasRoute(n, d)
  PROVE  RouteTable[n][d].HopCount \in Nat /\ RouteTable[n][d].NextHop \in Node
  <1>1. RouteTable \in [Node -> [Node -> Route \cup {NoRoute}]]
    BY DEF TypeOK
  <1> QED
    BY <1>1 DEF HasRoute, Route

\* The same of the state after a step.
LEMMA NewRouteHops ==
  ASSUME TypeOK', NEW n \in Node, NEW d \in Node, HasRoute(n, d)'
  PROVE  RouteTable'[n][d].HopCount \in Nat /\ RouteTable'[n][d].NextHop \in Node
  <1>1. RouteTable' \in [Node -> [Node -> Route \cup {NoRoute}]]
    BY DEF TypeOK
  <1> QED
    BY <1>1 DEF HasRoute, Route

LEMMA OwnTable ==
  ASSUME NEW strict \in BOOLEAN, TypeOK, RoutesLead(strict), NEW n \in Node
  PROVE  RouteTable[n] \in Learned(n, strict)
  <1>1. RouteTable[n] \in Table
    BY DEF TypeOK, Table
  <1>2. \A d \in Node :
           HasRoute(n, d) => RouteTable[n][d].HopCount <= RouteTable[n][d].HopCount
    BY RouteHops
  <1> QED
    BY <1>1, <1>2 DEF Learned, RoutesLead, HasRoute

\* What a neighbour says it knows is a good route, one hop longer.
LEMMA RouteThrough ==
  ASSUME NEW strict \in BOOLEAN, TypeOK, NEW hop \in Node, NEW d \in Node,
         NEW k \in Nat, Knows(hop, d, k, strict)
  PROVE  Leads([NextHop |-> hop, HopCount |-> k + 1], d, strict)
  <1>1. HasRoute(hop, d) => RouteTable[hop][d].HopCount \in Nat
    BY RouteHops
  <1> QED
    BY <1>1 DEF Knows, Leads

LEMMA LearnedRoute ==
  ASSUME NEW strict \in BOOLEAN, TypeOK, NEW n \in Node,
         NEW table \in Learned(n, strict), NEW dest \in Node, NEW hop \in Node,
         NEW k \in Nat, Knows(hop, dest, k, strict)
  PROVE  /\ maybeAddRoute(table, dest, hop, k + 1) \in Learned(n, strict)
         /\ maybeAddRoute(table, dest, hop, k + 1)[dest] \in Route
         /\ maybeAddRoute(table, dest, hop, k + 1)[dest] # NoRoute
         /\ maybeAddRoute(table, dest, hop, k + 1)[dest].HopCount <= k + 1
         /\ \A d \in Node : table[d] # NoRoute =>
               /\ maybeAddRoute(table, dest, hop, k + 1)[d] # NoRoute
               /\ maybeAddRoute(table, dest, hop, k + 1)[d].HopCount
                     <= table[d].HopCount
  <1> DEFINE r == [NextHop |-> hop, HopCount |-> k + 1]
             new == maybeAddRoute(table, dest, hop, k + 1)
  <1>1. table \in Table
    BY DEF Learned
  <1>2. new \in Table /\ new[dest] \in Route
    BY <1>1, AddedRoute
  <1>r. r \in Route
    BY DEF Route
  <1>3. Leads(r, dest, strict)
    BY RouteThrough
  <1>4. /\ \A d \in Node : new[d] = table[d] \/ (d = dest /\ new[d] = r)
        /\ \/ new[dest] = r /\ (table[dest] # NoRoute =>
                                    k + 1 < table[dest].HopCount)
           \/ /\ table[dest] # NoRoute /\ new[dest] = table[dest]
              /\ ~(k + 1 < table[dest].HopCount)
    <2>0. DOMAIN table = Node
      BY <1>1 DEF Table
    <2>1. CASE table[dest] = NoRoute \/ k + 1 < table[dest].HopCount
      <3>1. new = [table EXCEPT ![dest] = r]
        BY <2>1 DEF maybeAddRoute
      <3> HIDE DEF r, new
      <3>2. /\ new[dest] = r
            /\ \A d \in Node : d # dest => new[d] = table[d]
        BY <2>0, <3>1
      <3> QED
        BY <2>1, <3>2
    <2>2. CASE ~(table[dest] = NoRoute \/ k + 1 < table[dest].HopCount)
      <3>1. new = table
        BY <2>2 DEF maybeAddRoute
      <3> HIDE DEF r, new
      <3> QED
        BY <2>2, <3>1
    <2> QED
      BY <2>1, <2>2
  <1>5. /\ r.HopCount = k + 1
        /\ r # NoRoute
        /\ \A d \in Node : table[d] # NoRoute => table[d].HopCount \in Nat
    BY <1>1, <1>r, NoRouteAssumption DEF Table, Route
  <1> HIDE DEF r, new
  <1>6. \A d \in Node : table[d] # NoRoute =>
           new[d] # NoRoute /\ new[d].HopCount <= table[d].HopCount
    BY <1>4, <1>5
  <1>7. new[dest] # NoRoute /\ new[dest].HopCount <= k + 1
    BY <1>4, <1>5
  <1>8. ASSUME NEW d \in Node
        PROVE  /\ HasRoute(n, d) =>
                     /\ new[d] # NoRoute
                     /\ new[d].HopCount <= RouteTable[n][d].HopCount
               /\ new[d] # NoRoute => Leads(new[d], d, strict)
    <2>1. HasRoute(n, d) =>
             /\ table[d] # NoRoute
             /\ table[d].HopCount <= RouteTable[n][d].HopCount
      BY DEF Learned
    <2>2. HasRoute(n, d) => RouteTable[n][d].HopCount \in Nat
      BY RouteHops
    <2>3. new[d] # NoRoute => new[d].HopCount \in Nat
      BY <1>4, <1>5
    <2>4. HasRoute(n, d) => /\ new[d] # NoRoute
                            /\ new[d].HopCount <= RouteTable[n][d].HopCount
      BY <1>5, <1>6, <2>1, <2>2, <2>3
    <2>5. new[d] # NoRoute => Leads(new[d], d, strict)
      BY <1>3, <1>4 DEF Learned
    <2> QED
      BY <2>4, <2>5
  <1>9. new \in Learned(n, strict)
    BY <1>2, <1>8 DEF Learned
  <1> QED
    BY <1>2, <1>6, <1>7, <1>9 DEF new

LEMMA LearnedTable ==
  ASSUME NEW strict \in BOOLEAN, TypeOK, TypeOK', RoutesLead(strict),
         NEW n \in Node, NEW table \in Learned(n, strict), SetRoutes(n, table)
  PROVE  RoutesImprove /\ RoutesLead(strict)'
  <1>0. RouteTable \in [Node -> Table]
    BY DEF TypeOK, Table
  <1>1. /\ RouteTable'[n] = table
        /\ \A m \in Node \ {n} : RouteTable'[m] = RouteTable[m]
    BY <1>0 DEF SetRoutes
  <1>2. RoutesImprove
    <2>1. \A m, d \in Node : HasRoute(m, d) => RouteTable[m][d].HopCount \in Nat
      BY RouteHops
    <2> QED
      BY <1>1, <2>1 DEF RoutesImprove, HasRoute, Learned
  <1>3. ASSUME NEW m \in Node, NEW d \in Node, HasRoute(m, d)'
        PROVE  Leads(RouteTable[m][d], d, strict)'
    <2>1. PICK r \in {RouteTable'[m][d]}, hop \in Node :
             r = RouteTable'[m][d] /\ hop = r.NextHop /\ r.HopCount \in Nat
      BY <1>3, NewRouteHops
    <2>2. Leads(r, d, strict)
      <3>1. CASE m = n
        BY <1>1, <1>3, <2>1, <3>1 DEF HasRoute, Learned
      <3>2. CASE m # n
        BY <1>1, <1>3, <2>1, <3>2 DEF HasRoute, RoutesLead
      <3> QED
        BY <3>1, <3>2
    <2>3. HasRoute(hop, d) =>
             /\ RouteTable[hop][d].HopCount \in Nat
             /\ HasRoute(hop, d)'
             /\ RouteTable'[hop][d].HopCount <= RouteTable[hop][d].HopCount
      BY <1>2, RouteHops DEF RoutesImprove
    <2>4. HasRoute(hop, d)' => RouteTable'[hop][d].HopCount \in Nat
      BY NewRouteHops
    <2>5. \/ hop = d
          \/ /\ HasRoute(hop, d)'
             /\ strict => RouteTable'[hop][d].HopCount < r.HopCount
      BY <2>1, <2>2, <2>3, <2>4 DEF Leads
    <2> QED
      BY <2>1, <2>5 DEF Leads
  <1>4. RoutesLead(strict)'
    BY <1>3 DEF RoutesLead
  <1> QED
    BY <1>2, <1>4

LEMMA StillKnows ==
  ASSUME NEW strict \in BOOLEAN, TypeOK, TypeOK', RoutesImprove,
         NEW m \in Node, NEW d \in Node, NEW k \in Nat, Knows(m, d, k, strict)
  PROVE  Knows(m, d, k, strict)'
  <1>1. HasRoute(m, d) =>
           /\ RouteTable[m][d].HopCount \in Nat
           /\ RouteTable'[m][d].HopCount \in Nat
           /\ HasRoute(m, d)'
           /\ RouteTable'[m][d].HopCount <= RouteTable[m][d].HopCount
    BY RouteHops, NewRouteHops DEF RoutesImprove
  <1> QED
    BY <1>1 DEF Knows

LEMMA RoutesStay ==
  ASSUME NEW strict \in BOOLEAN, TypeOK, RoutesLead(strict),
         UNCHANGED RouteTable
  PROVE  RoutesImprove /\ RoutesLead(strict)'
  <1>1. \A n, d \in Node : HasRoute(n, d) => RouteTable[n][d].HopCount \in Nat
    BY RouteHops
  <1> QED
    BY <1>1 DEF RoutesImprove, RoutesLead, Leads, HasRoute

\* What was on its way still leads on.
LEMMA StillLeads ==
  ASSUME NEW strict \in BOOLEAN, TypeOK, TypeOK', RoutesImprove,
         NEW p \in Packet, PacketLeads(p, strict)
  PROVE  PacketLeads(p, strict)'
  <1>1. /\ p.PrevHopID \in Node /\ p.HopCount \in Nat
        /\ p.PacketType \in {"RREQ", "BROADCAST_INFO", "UREQ"} =>
              p.OriginNodeID \in Node
        /\ p.PacketType = "RREP" => p.RREPDestNodeID \in Node /\ p.NumHops \in Nat
        /\ p.PacketType = "UREP" => p.UREPDestNodeID \in Node
    BY PacketHeader, PacketFormat
    DEF RREQFormat, InfoFormat, UREQFormat, RREPFormat, UREPFormat
  <1>2. ASSUME p.PacketType \in {"DATA", "USER_MSG"}, p.DestNodeID \in Node
        PROVE  /\ FinalNode(p) \in Node
               /\ Knows(p.DestNodeID, FinalNode(p), 0, FALSE)'
    BY <1>2, StillKnows DEF PacketLeads
  <1> QED
    BY <1>1, <1>2, StillKnows DEF PacketLeads, FinalNode

LEMMA PacketsStillLead ==
  ASSUME NEW strict \in BOOLEAN, TypeOK, TypeOK', RoutesImprove,
         PacketsLead(strict),
         \A q \in Air' : q \in Air \/ PacketLeads(q, strict)'
  PROVE  PacketsLead(strict)'
  <1>1. ASSUME NEW q \in Air'
        PROVE  PacketLeads(q, strict)'
    BY <1>1, StillLeads DEF PacketsLead, Air
  <1> QED
    BY <1>1 DEF PacketsLead

(* One step.                                                               *)

RouteHyp(strict) ==
    /\ TypeOK /\ TypeOK'
    /\ LinkInv(FALSE)
    /\ RouteInv(strict)
    /\ strict => HopsFit /\ HopsFit'

LEMMA RouteStep ==
  ASSUME NEW strict \in BOOLEAN, RouteHyp(strict), NEW n \in Node,
         \/ UNCHANGED RouteTable
         \/ \E table \in Learned(n, strict) : SetRoutes(n, table),
         \A q \in Air' : q \in Air \/ PacketLeads(q, strict)',
         NobodyWaits', QueuesPlain(strict)'
  PROVE  RouteInv(strict)'
  <1>0. TypeOK /\ TypeOK' /\ RoutesLead(strict) /\ PacketsLead(strict)
    BY DEF RouteHyp, RouteInv
  <1>1. RoutesImprove /\ RoutesLead(strict)'
    BY <1>0, RoutesStay, LearnedTable
  <1>2. PacketsLead(strict)'
    BY <1>0, <1>1, PacketsStillLead
  <1> QED
    BY <1>1, <1>2 DEF RouteInv

\* At most one packet is sent.
LEMMA OneSent ==
  ASSUME NEW strict \in BOOLEAN, RouteHyp(strict), NEW n \in Node,
         UNCHANGED messages \/ \E type : Receive(n, type),
         \/ UNCHANGED RouteTable
         \/ \E table \in Learned(n, strict) : SetRoutes(n, table),
         \/ UNCHANGED txQueue
         \/ \E q, fresh : Enqueue(n, <<q>>, fresh) /\ PacketLeads(q, strict)',
         NobodyWaits', QueuesPlain(strict)'
  PROVE  RouteInv(strict)'
  <1>0. TypeOK
    BY DEF RouteHyp
  <1>1. CASE UNCHANGED txQueue
    <2>1. \A q \in Air' : q \in Air \/ PacketLeads(q, strict)'
      BY <1>0, <1>1, AirNone DEF Adds
    <2> QED
      BY <2>1, RouteStep
  <1>2. ASSUME NEW q, NEW fresh,
               Enqueue(n, <<q>>, fresh), PacketLeads(q, strict)'
        PROVE  RouteInv(strict)'
    <2>1. Air' \subseteq Air \cup {q}
      BY <1>0, <1>2, AirOne DEF Adds
    <2>2. \A r \in Air' : r \in Air \/ PacketLeads(r, strict)'
      BY <1>2, <2>1
    <2> QED
      BY <2>2, RouteStep
  <1> QED
    BY <1>1, <1>2

\* Packets that say nothing of routes.
LEMMA OthersLead ==
  ASSUME NEW strict \in BOOLEAN, AddsTypes({"ACK", "UERR"})
  PROVE  \A q \in Air' : q \in Air \/ PacketLeads(q, strict)'
  BY DEF AddsTypes, PacketLeads

LEMMA ReceivedLeads ==
  ASSUME NEW strict \in BOOLEAN, RouteHyp(strict), NEW n \in Node, NEW type,
         Receive(n, type), NEW p, p = Head(messages[n])
  PROVE  /\ p \in Packet /\ p.PacketType = type
         /\ PacketLeads(p, strict)
         /\ p.PrevHopID \in Node /\ p.HopCount \in Nat
         /\ p.PacketID \in PacketID
         /\ strict => /\ p.HopCount < 255
                      /\ type = "RREP" => p.NumHops < 255
  <1>0. TypeOK /\ PacketsLead(strict) /\ (strict => HopsFit)
    BY DEF RouteHyp, RouteInv
  <1>1. p \in Air /\ p \in Packet /\ p.PacketType = type
    BY <1>0, AirReceived
  <1>2. PacketLeads(p, strict)
    BY <1>0, <1>1 DEF PacketsLead
  <1>3. messages \in [Node -> Seq(Packet)] /\ messages[n] # <<>>
    BY <1>0 DEF TypeOK, Receive
  <1>4. 1 \in DOMAIN messages[n] /\ p = messages[n][1]
    BY <1>3
  <1>5. HopsFit => p.HopCount < 255 /\ (type = "RREP" => p.NumHops < 255)
    BY <1>1, <1>4 DEF HopsFit
  <1> QED
    BY <1>0, <1>1, <1>2, <1>5, PacketHeader

LEMMA NothingHeld ==
  ASSUME NEW strict \in BOOLEAN, RouteHyp(strict), NEW n \in Node,
         \/ UNCHANGED pendingTxs
         \/ \E ids : pendingTxs' =
                        [pendingTxs EXCEPT ![n] = WithoutPending(n, ids)],
         UNCHANGED registering, UNCHANGED expired
  PROVE  NobodyWaits'
  <1>1. NobodyWaits /\ pendingTxs \in [Node -> SUBSET PendingTx]
    BY DEF RouteHyp, RouteInv, TypeOK
  <1>2. \A m \in Node : pendingTxs'[m] = {}
    BY <1>1 DEF NobodyWaits, WithoutPending
  <1> QED
    BY <1>1, <1>2 DEF NobodyWaits

LEMMA QueuesKept ==
  ASSUME NEW strict \in BOOLEAN, RouteHyp(strict),
         UNCHANGED queues, UNCHANGED flushing
  PROVE  QueuesPlain(strict)'
  BY DEF RouteHyp, RouteInv, QueuesPlain, EntriesPlain, SendsPlain, queues

\* What n knows after a step that learned table.
LEMMA KnowsNow ==
  ASSUME NEW strict \in BOOLEAN, RouteHyp(strict), NEW n \in Node,
         NEW table \in Learned(n, strict), SetRoutes(n, table),
         NEW d \in Node, table[d] # NoRoute, NEW k \in Nat,
         strict => table[d].HopCount <= k
  PROVE  /\ Knows(n, d, k, strict)'
         /\ table[d].HopCount \in Nat
         /\ strict => table[d].HopCount <= 255
  <1>1. RouteTable \in [Node -> Table] /\ table \in Table
    BY DEF RouteHyp, TypeOK, Table, Learned
  <1>2. RouteTable'[n] = table
    BY <1>1 DEF SetRoutes
  <1>3. table[d].HopCount \in Nat
    BY <1>1 DEF Table, Route
  <1>4. HasRoute(n, d)'
    BY <1>2 DEF HasRoute
  <1>5. strict => table[d].HopCount <= 255
    BY <1>2, <1>4 DEF RouteHyp, HopsFit
  <1> QED
    BY <1>2, <1>3, <1>4, <1>5 DEF Knows

\* A hop count that fits its byte survives the wire.
LEMMA KnowsByte ==
  ASSUME NEW strict \in BOOLEAN, NEW n, NEW d, NEW k \in Nat,
         strict => k <= 255, Knows(n, d, k, strict)'
  PROVE  Knows(n, d, Uint8(k), strict)'
  <1>1. k <= 255 => Uint8(k) = k
    BY DEF Uint8
  <1> QED
    BY <1>1 DEF Knows

LEMMA HandleRREQRoutes ==
  ASSUME NEW strict \in BOOLEAN, RouteHyp(strict), NEW n \in Node,
         HandleRREQ(n)
  PROVE  RouteInv(strict)'
  <1>1. PICK p, fid : p = Head(messages[n]) /\ fid = FreshID(n, 0)
    OBVIOUS
  <1>r. Receive(n, "RREQ")
    BY DEF HandleRREQ
  <1>2. /\ p \in RREQFormat /\ PacketLeads(p, strict)
        /\ p.PacketType = "RREQ"
        /\ strict => p.HopCount < 255
    BY <1>1, <1>r, ReceivedLeads, PacketFormat
  <1>3. PICK dest \in Node, o \in Node, hop \in Node, k \in Nat :
           /\ dest = p.RREQDestNodeID /\ o = p.OriginNodeID
           /\ hop = p.PrevHopID /\ k = p.HopCount
    BY <1>2 DEF RREQFormat
  <1>4. PICK table : table = maybeAddRoute(RouteTable[n], o, hop, k + 1)
    OBVIOUS
  <1>5. /\ table \in Learned(n, strict)
        /\ table[o] # NoRoute /\ table[o].HopCount <= k + 1
    <2>1. RouteTable[n] \in Learned(n, strict) /\ TypeOK
      BY OwnTable DEF RouteHyp, RouteInv
    <2>2. Knows(hop, o, k, strict)
      BY <1>2, <1>3 DEF PacketLeads
    <2> QED
      BY <1>4, <2>1, <2>2, LearnedRoute
  <1>6. NobodyWaits' /\ QueuesPlain(strict)'
    BY NothingHeld, QueuesKept DEF HandleRREQ, HandlerFrame, checker
  <1>7. CASE Seen(n, p)
    <2>1. UNCHANGED RouteTable /\ UNCHANGED txQueue
      BY <1>1, <1>7 DEF HandleRREQ, out
    <2> QED
      BY <1>r, <1>6, <2>1, OneSent
  <1>8. CASE ~Seen(n, p)
    <2> DEFINE reply(num) == CreateRREPPacket(n, dest, table[o].NextHop, o, 0,
                                              num, fid)
               copy == CreateRREQPacket(n, dest, o, k + 1, p.PacketID)
    <2>1. /\ SetRoutes(n, table)
          /\ \/ n = dest /\ Enqueue(n, <<reply(0)>>, 1)
             \/ /\ table[dest] # NoRoute
                /\ Enqueue(n, <<reply(table[dest].HopCount)>>, 1)
             \/ Enqueue(n, <<copy>>, 0)
             \/ UNCHANGED txQueue
      BY <1>1, <1>3, <1>4, <1>8 DEF HandleRREQ, RREPOf, out
    <2>2. ASSUME NEW num \in Nat, strict => num <= 255,
                 Knows(n, dest, num, strict)'
          PROVE  PacketLeads(reply(num), strict)'
      BY <2>2, KnowsByte DEF PacketLeads, CreateRREPPacket
    <2>3. n = dest => PacketLeads(reply(0), strict)'
      BY <2>2 DEF Knows
    <2>4. table[dest] # NoRoute =>
             PacketLeads(reply(table[dest].HopCount), strict)'
      <3>1. table[dest] # NoRoute =>
               /\ table[dest].HopCount \in Nat
               /\ table[dest].HopCount <= table[dest].HopCount
        BY <1>5 DEF Learned, Table, Route
      <3> QED
        BY <1>5, <2>1, <2>2, <3>1, KnowsNow
    <2>5. PacketLeads(copy, strict)'
      <3>1. Knows(n, o, Uint8(k + 1), strict)'
        BY <1>2, <1>3, <1>5, <2>1, KnowsNow, KnowsByte
      <3> QED
        BY <3>1 DEF PacketLeads, CreateRREQPacket
    <2> HIDE DEF reply, copy
    <2> QED
      BY <1>r, <1>5, <1>6, <2>1, <2>3, <2>4, <2>5, OneSent
  <1> QED
    BY <1>7, <1>8

LEMMA HandleBroadcastInfoRoutes ==
  ASSUME NEW strict \in BOOLEAN, RouteHyp(strict), NEW n \in Node,
         HandleBroadcastInfo(n)
  PROVE  RouteInv(strict)'
  <1>1. PICK p : p = Head(messages[n])
    OBVIOUS
  <1>r. Receive(n, "BROADCAST_INFO")
    BY DEF HandleBroadcastInfo
  <1>2. /\ p \in InfoFormat /\ PacketLeads(p, strict)
        /\ p.PacketType = "BROADCAST_INFO"
        /\ strict => p.HopCount < 255
    BY <1>1, <1>r, ReceivedLeads, PacketFormat
  <1>3. PICK o \in Node, hop \in Node, k \in Nat :
           o = p.OriginNodeID /\ hop = p.PrevHopID /\ k = p.HopCount
    BY <1>2 DEF InfoFormat
  <1>4. PICK direct, table :
           /\ direct = maybeAddRoute(RouteTable[n], hop, hop, 1)
           /\ table = maybeAddRoute(direct, o, hop, k + 1)
    OBVIOUS
  <1>5. /\ direct \in Learned(n, strict) /\ table \in Learned(n, strict)
        /\ table[o] # NoRoute /\ table[o].HopCount <= k + 1
    <2>1. RouteTable[n] \in Learned(n, strict) /\ TypeOK
      BY OwnTable DEF RouteHyp, RouteInv
    <2>2. Knows(hop, o, k, strict)
      BY <1>2, <1>3 DEF PacketLeads
    <2>3. Knows(hop, hop, 0, strict)
      BY DEF Knows
    <2>4. direct \in Learned(n, strict)
      <3>1. maybeAddRoute(RouteTable[n], hop, hop, 0 + 1) \in Learned(n, strict)
        BY <2>1, <2>3, LearnedRoute
      <3> QED
        BY <1>4, <3>1
    <2> QED
      BY <1>4, <2>1, <2>2, <2>4, LearnedRoute
  <1>6. NobodyWaits' /\ QueuesPlain(strict)'
    BY NothingHeld, QueuesKept DEF HandleBroadcastInfo, HandlerFrame, checker
  <1>7. CASE Seen(n, p)
    <2>1. UNCHANGED RouteTable /\ UNCHANGED txQueue
      BY <1>1, <1>7 DEF HandleBroadcastInfo, out
    <2> QED
      BY <1>r, <1>6, <2>1, OneSent
  <1>8. CASE ~Seen(n, p)
    <2> DEFINE copy == CreateDiffBroadcastInfoPacket(n, o, p.Added, p.Removed,
                                                     k + 1, p.PacketID)
    <2>1. \/ SetRoutes(n, direct) /\ UNCHANGED txQueue
          \/ SetRoutes(n, table) /\ UNCHANGED txQueue
          \/ SetRoutes(n, table) /\ Enqueue(n, <<copy>>, 0)
      BY <1>1, <1>3, <1>4, <1>8
      DEF HandleBroadcastInfo, InfoRoutes, AddDirectNeighbor, out
    <2>2. SetRoutes(n, table) => PacketLeads(copy, strict)'
      <3>1. SetRoutes(n, table) => Knows(n, o, Uint8(k + 1), strict)'
        BY <1>2, <1>3, <1>5, KnowsNow, KnowsByte
      <3> QED
        BY <3>1 DEF PacketLeads, CreateDiffBroadcastInfoPacket
    <2> HIDE DEF copy
    <2> QED
      BY <1>r, <1>5, <1>6, <2>1, <2>2, OneSent
  <1> QED
    BY <1>7, <1>8

LEMMA FlushOfPlain ==
  ASSUME NEW strict \in BOOLEAN, TypeOK, EntriesPlain(strict),
         NEW n \in Node, NEW dest \in Node
  PROVE  FlushOf(n, dest) \in Seq(PlainSends(strict))
  <1> DEFINE q == dataQueue[n][dest]
             send(e) == IF e.packetType = "DATA"
                        THEN [packetType |-> "DATA", dest |-> dest,
                              flags |-> e.flags]
                        ELSE e
  <1>1. q \in Seq(PlainEntries(strict))
    BY DEF EntriesPlain
  <1>2. DOMAIN q = 1 .. Len(q) /\ Len(q) \in Nat
    BY <1>1
  <1>3. \A e \in PlainEntries(strict) : send(e) \in PlainSends(strict)
    BY DEF PlainEntries, PlainSends, DataQueueEntry, QueuedSend
  <1>4. \A i \in 1 .. Len(q) : q[i] \in PlainEntries(strict)
    BY <1>1, ElementOfSeq
  <1>5. FlushOf(n, dest) = [i \in 1 .. Len(q) |-> send(q[i])]
    BY <1>2 DEF FlushOf
  <1> HIDE DEF q, send
  <1>6. [i \in 1 .. Len(q) |-> send(q[i])]
           \in [1 .. Len(q) -> PlainSends(strict)]
    BY <1>3, <1>4
  <1> QED
    BY <1>2, <1>5, <1>6, SeqDef

LEMMA HandleRREPRoutes ==
  ASSUME NEW strict \in BOOLEAN, RouteHyp(strict), NEW n \in Node,
         HandleRREP(n)
  PROVE  RouteInv(strict)'
  <1>1. PICK p : p = Head(messages[n])
    OBVIOUS
  <1>r. Receive(n, "RREP")
    BY DEF HandleRREP
  <1>2. /\ p \in RREPFormat /\ PacketLeads(p, strict)
        /\ p.PacketType = "RREP"
        /\ strict => p.NumHops < 255
    BY <1>1, <1>r, ReceivedLeads, PacketFormat
  <1>3. PICK dest \in Node, o \in Node, hop \in Node, k \in Nat :
           /\ dest = p.RREPDestNodeID /\ o = p.OriginNodeID
           /\ hop = p.PrevHopID /\ k = p.NumHops
    BY <1>2 DEF RREPFormat
  <1>4. PICK first, table :
           /\ first = maybeAddRoute(RouteTable[n], dest, hop, k + 1)
           /\ table = maybeAddRoute(first, hop, hop, 1)
    OBVIOUS
  <1>5. /\ table \in Learned(n, strict)
        /\ table[dest] # NoRoute
        /\ strict => table[dest].HopCount <= k + 1
    <2>1. RouteTable[n] \in Learned(n, strict) /\ TypeOK
      BY OwnTable DEF RouteHyp, RouteInv
    <2>2. Knows(hop, dest, k, strict)
      BY <1>2, <1>3 DEF PacketLeads
    <2>3. Knows(hop, hop, 0, strict)
      BY DEF Knows
    <2>4. /\ first \in Learned(n, strict) /\ first[dest] # NoRoute
          /\ first[dest] \in Route /\ first[dest].HopCount <= k + 1
      BY <1>4, <2>1, <2>2, LearnedRoute
    <2>5. /\ maybeAddRoute(first, hop, hop, 0 + 1) \in Learned(n, strict)
          /\ maybeAddRoute(first, hop, hop, 0 + 1)[dest] # NoRoute
          /\ maybeAddRoute(first, hop, hop, 0 + 1)[dest].HopCount
                <= first[dest].HopCount
      BY <2>1, <2>3, <2>4, LearnedRoute
    <2>6. maybeAddRoute(first, hop, hop, 0 + 1) = table
      BY <1>4
    <2>7. table \in Table
      BY <2>5, <2>6 DEF Learned
    <2>8. table[dest].HopCount \in Nat /\ first[dest].HopCount \in Nat
      BY <2>4, <2>5, <2>6, <2>7 DEF Table, Route
    <2> QED
      BY <2>4, <2>5, <2>6, <2>8
  <1>6. NobodyWaits' /\ EntriesPlain(strict) /\ SendsPlain(strict) /\ TypeOK
    BY NothingHeld
    DEF HandleRREP, HandlerFrame, checker, RouteHyp, RouteInv, QueuesPlain
  <1>q. UNCHANGED dataQueue /\ UNCHANGED flushing => QueuesPlain(strict)'
    BY QueuesKept DEF HandleRREP, queues
  <1>7. CASE p.DestNodeID # n \/ Seen(n, p)
    <2>1. /\ UNCHANGED RouteTable /\ UNCHANGED txQueue
          /\ UNCHANGED dataQueue /\ UNCHANGED flushing
      BY <1>1, <1>7 DEF HandleRREP, out
    <2> QED
      BY <1>r, <1>6, <1>q, <2>1, OneSent
  <1>8. CASE ~(p.DestNodeID # n \/ Seen(n, p)) /\ n = dest
    <2>1. /\ SetRoutes(n, table) /\ UNCHANGED txQueue
          /\ flushing' = [flushing EXCEPT ![n] = FlushOf(n, o)]
          /\ dataQueue' = [dataQueue EXCEPT ![n][o] = <<>>]
          /\ UNCHANGED userMessageQueue
      BY <1>1, <1>3, <1>4, <1>8 DEF HandleRREP, out
    <2>2. FlushOf(n, o) \in Seq(PlainSends(strict))
      BY <1>6, FlushOfPlain
    <2>3. SendsPlain(strict)'
      <3>1. flushing \in [Node -> Seq(QueuedSend)]
        BY <1>6 DEF TypeOK
      <3> QED
        BY <1>6, <2>1, <2>2, <3>1 DEF SendsPlain
    <2>4. EntriesPlain(strict)'
      <3>1. dataQueue \in [Node -> [Node -> Seq(DataQueueEntry)]]
        BY <1>6 DEF TypeOK
      <3>2. <<>> \in Seq(PlainEntries(strict))
        BY EmptySeq
      <3>3. \A m, d \in Node : \/ dataQueue'[m][d] = dataQueue[m][d]
                               \/ dataQueue'[m][d] = <<>>
        BY <2>1, <3>1
      <3> QED
        BY <1>6, <2>1, <3>2, <3>3 DEF EntriesPlain
    <2> QED
      BY <1>r, <1>5, <1>6, <2>1, <2>3, <2>4, OneSent DEF QueuesPlain
  <1>9. CASE ~(p.DestNodeID # n \/ Seen(n, p)) /\ n # dest
    <2> DEFINE copy == CreateRREPPacket(n, dest, table[dest].NextHop, o,
                           p.HopCount + 1, k + 1, p.PacketID)
    <2>1. /\ SetRoutes(n, table) /\ Enqueue(n, <<copy>>, 0)
          /\ UNCHANGED dataQueue /\ UNCHANGED flushing
      BY <1>1, <1>3, <1>4, <1>9 DEF HandleRREP
    <2>2. PacketLeads(copy, strict)'
      <3>1. Knows(n, dest, Uint8(k + 1), strict)'
        BY <1>2, <1>3, <1>5, <2>1, KnowsNow, KnowsByte
      <3> QED
        BY <3>1 DEF PacketLeads, CreateRREPPacket
    <2> HIDE DEF copy
    <2> QED
      BY <1>r, <1>5, <1>6, <1>q, <2>1, <2>2, OneSent
  <1> QED
    BY <1>7, <1>8, <1>9

(* DATA and USER_MSG.                                                      *)

\* The next hop of a route of n finds a route too.
LEMMA HopKnows ==
  ASSUME NEW strict \in BOOLEAN, RouteHyp(strict), UNCHANGED RouteTable,
         NEW n \in Node, NEW dest \in Node, HasRoute(n, dest),
         NEW hop, hop = RouteTable[n][dest].NextHop
  PROVE  /\ hop \in Node
         /\ Knows(hop, dest, 0, FALSE)'
         /\ Knows(n, dest, 0, FALSE)'
  <1>1. hop \in Node
    BY RouteHops DEF RouteHyp
  <1>2. hop = dest \/ HasRoute(hop, dest)
    BY DEF RouteHyp, RouteInv, RoutesLead, Leads
  <1>3. hop = dest \/ HasRoute(hop, dest)'
    BY <1>2 DEF HasRoute
  <1>4. HasRoute(n, dest)'
    BY DEF HasRoute
  <1> QED
    BY <1>1, <1>3, <1>4 DEF Knows

LEMMA NewDataLeads ==
  ASSUME NEW strict \in BOOLEAN, NEW n, NEW hop \in Node, NEW dest \in Node,
         NEW origin, NEW hops, NEW pid, NEW from, NEW to,
         Knows(hop, dest, 0, FALSE)'
  PROVE  /\ PacketLeads(CreateDataPacket(origin, n, dest, hop, hops, NoFlags,
                                         pid), strict)'
         /\ PacketLeads(CreateUSERMessagePacket(origin, n, from, to, dest, hop,
                                                hops, NoFlags, pid), strict)'
  <1>1. hop # BROADCAST_ADDR
    BY IDsAssumption
  <1> QED
    BY <1>1 DEF PacketLeads, FinalNode, CreateDataPacket,
                CreateUSERMessagePacket

LEMMA OwnRequestLeads ==
  ASSUME NEW strict \in BOOLEAN, NEW n, NEW dest, NEW pid, NEW user
  PROVE  /\ PacketLeads(CreateRREQPacket(n, dest, n, 0, pid), strict)'
         /\ ~strict =>
               PacketLeads(CreateUREQPacket(n, n, user, 0, pid), strict)'
  BY DEF PacketLeads, Knows, CreateRREQPacket, CreateUREQPacket

\* A send that wants no acknowledgement is not tracked.
LEMMA SentUntracked ==
  ASSUME NEW n, NEW pkt, NEW dest, NEW inHandler,
         SendAndTrack(n, pkt, dest, inHandler), pkt.Flags = NoFlags
  PROVE  Enqueue(n, <<pkt>>, 1) /\ UNCHANGED <<pendingTxs, registering>>
  BY DEF SendAndTrack, NoFlags, REQ_ACK

LEMMA QueuedForRoute ==
  ASSUME NEW strict \in BOOLEAN, RouteHyp(strict), NEW n \in Node,
         NEW dest \in Node, NEW entry \in PlainEntries(strict),
         QueueAndRequestRoute(n, dest, entry), UNCHANGED userMessageQueue
  PROVE  /\ EntriesPlain(strict)'
         /\ \E q, fresh : Enqueue(n, <<q>>, fresh) /\ PacketLeads(q, strict)'
  <1>1. /\ dataQueue \in [Node -> [Node -> Seq(DataQueueEntry)]]
        /\ EntriesPlain(strict)
    BY DEF RouteHyp, RouteInv, QueuesPlain, TypeOK
  <1>2. dataQueue' = [dataQueue EXCEPT ![n][dest] = Append(@, entry)]
    BY DEF QueueAndRequestRoute
  <1>3. \A m, d \in Node :
           \/ dataQueue'[m][d] = dataQueue[m][d]
           \/ dataQueue'[m][d] = Append(dataQueue[m][d], entry)
    BY <1>1, <1>2
  <1>4. \A m, d \in Node :
           Append(dataQueue[m][d], entry) \in Seq(PlainEntries(strict))
    BY <1>1 DEF EntriesPlain
  <1>5. EntriesPlain(strict)'
    BY <1>1, <1>3, <1>4 DEF EntriesPlain
  <1>6. PICK fid : fid = FreshID(n, 0)
    OBVIOUS
  <1>7. Enqueue(n, <<CreateRREQPacket(n, dest, n, 0, fid)>>, 1)
    BY <1>6 DEF QueueAndRequestRoute
  <1> QED
    BY <1>5, <1>7, OwnRequestLeads

\* What a plain send leaves behind.
PlainSend(n, strict) ==
    /\ UNCHANGED <<pendingTxs, registering>>
    /\ EntriesPlain(strict)'
    /\ \/ UNCHANGED txQueue
       \/ \E q, fresh : Enqueue(n, <<q>>, fresh) /\ PacketLeads(q, strict)'

LEMMA SendDataPlain ==
  ASSUME NEW strict \in BOOLEAN, RouteHyp(strict), UNCHANGED RouteTable,
         NEW n \in Node, NEW dest \in Node \cup {BROADCAST_ADDR},
         NEW inHandler, SendData(n, dest, NoFlags, inHandler)
  PROVE  PlainSend(n, strict)
  <1>1. PICK fid, hop : fid = FreshID(n, 0) /\ hop = RouteTable[n][dest].NextHop
    OBVIOUS
  <1>2. UNCHANGED dataQueue => EntriesPlain(strict)'
    BY DEF RouteHyp, RouteInv, QueuesPlain, EntriesPlain, SendData
  <1>3. CASE dest = BROADCAST_ADDR
    <2> DEFINE pkt == CreateDataPacket(n, n, dest, BROADCAST_ADDR, 0, NoFlags,
                                       fid)
    <2>1. /\ Enqueue(n, <<pkt>>, 1)
          /\ UNCHANGED <<dataQueue, pendingTxs, registering>>
      <3>1. dest \notin Node
        BY <1>3, IDsAssumption
      <3>2. dest \notin brokenNodes[n]
        BY <3>1 DEF RouteHyp, TypeOK
      <3> QED
        BY <1>1, <3>1, <3>2 DEF SendData
    <2>2. PacketLeads(pkt, strict)'
      BY <1>3, IDsAssumption DEF PacketLeads, CreateDataPacket
    <2> HIDE DEF pkt
    <2> QED
      BY <1>2, <2>1, <2>2 DEF PlainSend
  <1>4. CASE dest \in Node /\ dest \in brokenNodes[n]
    <2>1. UNCHANGED <<dataQueue, txQueue, pendingTxs, registering>>
      BY <1>4, IDsAssumption DEF SendData, out
    <2> QED
      BY <1>2, <2>1 DEF PlainSend
  <1>5. CASE dest \in Node \ brokenNodes[n] /\ ~HasRoute(n, dest)
    <2> DEFINE entry == [packetType |-> "DATA", flags |-> NoFlags]
    <2>1. entry \in PlainEntries(strict)
      BY DEF PlainEntries, DataQueueEntry, Flags
    <2>2. /\ QueueAndRequestRoute(n, dest, entry)
          /\ UNCHANGED <<userMessageQueue, pendingTxs, registering>>
      BY <1>5, IDsAssumption DEF SendData
    <2> HIDE DEF entry
    <2> QED
      BY <1>5, <2>1, <2>2, QueuedForRoute DEF PlainSend
  <1>6. CASE dest \in Node \ brokenNodes[n] /\ HasRoute(n, dest)
    <2> DEFINE pkt == CreateDataPacket(n, n, dest, hop, 0, NoFlags, fid)
    <2>1. SendAndTrack(n, pkt, dest, inHandler) /\ UNCHANGED dataQueue
      BY <1>1, <1>6, IDsAssumption DEF SendData
    <2>2. pkt.Flags = NoFlags
      BY DEF CreateDataPacket
    <2>3. PacketLeads(pkt, strict)'
      BY <1>1, <1>6, HopKnows, NewDataLeads
    <2> HIDE DEF pkt
    <2> QED
      BY <1>2, <2>1, <2>2, <2>3, SentUntracked DEF PlainSend
  <1> QED
    BY <1>3, <1>4, <1>5, <1>6

LEMMA SendUserMessagePlain ==
  ASSUME NEW strict \in BOOLEAN, ~strict, RouteHyp(strict),
         UNCHANGED RouteTable, NEW n \in Node, NEW from \in User,
         NEW to \in User, NEW inHandler,
         SendUserMessage(n, from, to, NoFlags, inHandler)
  PROVE  PlainSend(n, strict)
  <1>0. /\ gut \in [Node -> [User -> Node \cup {NullID}]]
        /\ brokenNodes \in [Node -> SUBSET Node]
        /\ userMessageQueue \in [Node -> [User -> Seq(QueuedUserMessage)]]
        /\ EntriesPlain(strict)
    BY DEF RouteHyp, RouteInv, QueuesPlain, TypeOK
  <1>1. PICK home, fid, hop :
           /\ home = gut[n][to] /\ fid = FreshID(n, 0)
           /\ hop = RouteTable[n][home].NextHop
    OBVIOUS
  <1>2. home \in Node \cup {NullID}
    BY <1>0, <1>1
  <1>3. UNCHANGED queues => EntriesPlain(strict)'
    BY <1>0 DEF EntriesPlain, queues
  <1>4. CASE home \in brokenNodes[n]
    <2>1. UNCHANGED <<queues, txQueue, pendingTxs, registering>>
      <3>1. home \in Node
        BY <1>0, <1>4
      <3> QED
        BY <1>1, <1>4, <3>1, IDsAssumption DEF SendUserMessage, out
    <2> QED
      BY <1>3, <2>1 DEF PlainSend
  <1>5. CASE home = NullID
    <2> DEFINE entry == [from |-> from, flags |-> NoFlags]
               pkt == CreateUREQPacket(n, n, to, 0, fid)
    <2>1. /\ userMessageQueue' =
                [userMessageQueue EXCEPT ![n][to] = Append(@, entry)]
          /\ Enqueue(n, <<pkt>>, 1)
          /\ UNCHANGED <<dataQueue, pendingTxs, registering>>
      <3>1. home \notin brokenNodes[n] /\ home \notin Node
        BY <1>0, <1>5, IDsAssumption
      <3> QED
        BY <1>1, <1>5, <3>1 DEF SendUserMessage
    <2>2. PacketLeads(pkt, strict)'
      BY OwnRequestLeads
    <2>3. entry \in PlainMessages(strict)
      BY DEF PlainMessages, QueuedUserMessage, Flags
    <2> HIDE DEF entry, pkt
    <2>4. \A m \in Node, x \in User :
             \/ userMessageQueue'[m][x] = userMessageQueue[m][x]
             \/ userMessageQueue'[m][x] = Append(userMessageQueue[m][x], entry)
      BY <1>0, <2>1
    <2>5. \A m \in Node, x \in User :
             Append(userMessageQueue[m][x], entry) \in Seq(PlainMessages(strict))
      BY <1>0, <2>3 DEF EntriesPlain
    <2>6. EntriesPlain(strict)'
      BY <1>0, <2>1, <2>4, <2>5 DEF EntriesPlain
    <2> QED
      BY <2>1, <2>2, <2>6 DEF PlainSend
  <1>6. CASE home \in Node \ brokenNodes[n] /\ ~HasRoute(n, home)
    <2> DEFINE entry == [packetType |-> "USER_MSG", from |-> from, to |-> to,
                         flags |-> NoFlags]
    <2>1. entry \in PlainEntries(strict)
      BY DEF PlainEntries, DataQueueEntry, Flags
    <2>2. /\ QueueAndRequestRoute(n, home, entry)
          /\ UNCHANGED <<userMessageQueue, pendingTxs, registering>>
      BY <1>1, <1>6, IDsAssumption DEF SendUserMessage
    <2> HIDE DEF entry
    <2> QED
      BY <1>6, <2>1, <2>2, QueuedForRoute DEF PlainSend
  <1>7. CASE home \in Node \ brokenNodes[n] /\ HasRoute(n, home)
    <2> DEFINE pkt == CreateUSERMessagePacket(n, n, from, to, home, hop, 0,
                                              NoFlags, fid)
    <2>1. SendAndTrack(n, pkt, home, inHandler) /\ UNCHANGED queues
      BY <1>1, <1>7, IDsAssumption DEF SendUserMessage
    <2>2. pkt.Flags = NoFlags
      BY DEF CreateUSERMessagePacket
    <2>3. PacketLeads(pkt, strict)'
      BY <1>1, <1>7, HopKnows, NewDataLeads
    <2> HIDE DEF pkt
    <2> QED
      BY <1>3, <2>1, <2>2, <2>3, SentUntracked DEF PlainSend
  <1> QED
    BY <1>2, <1>4, <1>5, <1>6, <1>7

LEMMA PlainSendRoutes ==
  ASSUME NEW strict \in BOOLEAN, RouteHyp(strict), NEW n \in Node,
         PlainSend(n, strict), SendsPlain(strict)',
         UNCHANGED <<RouteTable, messages, checker>>
  PROVE  RouteInv(strict)'
  <1>1. NobodyWaits'
    BY NothingHeld DEF PlainSend, checker
  <1> QED
    BY <1>1, OneSent DEF PlainSend, QueuesPlain

LEMMA FlushStepRoutes ==
  ASSUME NEW strict \in BOOLEAN, RouteHyp(strict), NEW n \in Node,
         FlushStep(n)
  PROVE  RouteInv(strict)'
  <1>1. /\ flushing \in [Node -> Seq(QueuedSend)] /\ flushing[n] # <<>>
        /\ flushing[n] \in Seq(PlainSends(strict))
        /\ SendsPlain(strict)
    BY DEF RouteHyp, RouteInv, QueuesPlain, SendsPlain, TypeOK, FlushStep
  <1>2. PICK e : e = Head(flushing[n])
    OBVIOUS
  <1>3. e \in PlainSends(strict) /\ Tail(flushing[n]) \in Seq(PlainSends(strict))
    BY <1>1, <1>2
  <1>4. SendsPlain(strict)'
    BY <1>1, <1>3 DEF FlushStep, SendsPlain
  <1>5. UNCHANGED <<RouteTable, messages, checker>>
    BY DEF FlushStep
  <1>6. CASE e.packetType = "DATA"
    <2>1. SendData(n, e.dest, e.flags, TRUE)
      BY <1>2, <1>6 DEF FlushStep
    <2>2. e.dest \in Node /\ e.flags = NoFlags
      BY <1>3, <1>6 DEF PlainSends, QueuedSend
    <2>3. PlainSend(n, strict)
      BY <1>5, <2>1, <2>2, SendDataPlain
    <2> QED
      BY <1>4, <1>5, <2>3, PlainSendRoutes
  <1>7. CASE e.packetType # "DATA"
    <2>1. e.packetType = "USER_MSG" /\ SendUserMessage(n, e.from, e.to, e.flags, TRUE)
      BY <1>2, <1>7 DEF FlushStep
    <2>2. e.from \in User /\ e.to \in User /\ e.flags = NoFlags /\ ~strict
      BY <1>3, <1>7 DEF PlainSends, QueuedSend
    <2>3. PlainSend(n, strict)
      BY <1>5, <2>1, <2>2, SendUserMessagePlain
    <2> QED
      BY <1>4, <1>5, <2>3, PlainSendRoutes
  <1> QED
    BY <1>6, <1>7

\* A call that asks for no acknowledgement, as the call was.
LEMMA PlainCall ==
  ASSUME NEW strict \in BOOLEAN, TypeOK, Calm(strict)', NEW n \in Node,
         NEW call, Make(n, call), NEW c, c = calls[made + 1]
  PROVE  /\ c \in DataCall \cup UserCall \cup UserMove \cup Departure
         /\ c.call = call
         /\ "flags" \in DOMAIN c => c.flags # REQ_ACK
         /\ strict => call # "SendUserMessage"
  <1>1. /\ made + 1 \in 1 .. Len(calls)
        /\ c \in DataCall \cup UserCall \cup UserMove \cup Departure
        /\ c.call = call
    BY MadeCall
  <1>2. made + 1 \in 1 .. made' /\ calls' = calls
    BY DEF Make, TypeOK
  <1> QED
    BY <1>1, <1>2 DEF Calm, NothingWithdrawn, NothingLookedUp

LEMMA CallRoutes ==
  ASSUME NEW strict \in BOOLEAN, RouteHyp(strict), Calm(strict)',
         NEW n \in Node, CallSendData(n) \/ CallSendUserMessage(n)
  PROVE  RouteInv(strict)'
  <1>0. TypeOK /\ SendsPlain(strict)
    BY DEF RouteHyp, RouteInv, QueuesPlain
  <1>1. PICK c : c = calls[made + 1]
    OBVIOUS
  <1>2. UNCHANGED <<RouteTable, messages, checker>> /\ UNCHANGED flushing
    BY DEF CallSendData, CallSendUserMessage
  <1>3. SendsPlain(strict)'
    BY <1>0, <1>2 DEF SendsPlain
  <1>4. CASE CallSendData(n)
    <2>1. Make(n, "SendData") /\ SendData(n, c.dest, c.flags, FALSE)
      BY <1>1, <1>4 DEF CallSendData
    <2>2. c \in DataCall /\ ("flags" \in DOMAIN c => c.flags # REQ_ACK)
      BY <1>0, <1>1, <2>1, PlainCall
      DEF DataCall, UserCall, UserMove, Departure
    <2>3. c.dest \in Node \cup {BROADCAST_ADDR} /\ c.flags = NoFlags
      BY <2>2 DEF DataCall, Flags
    <2>4. PlainSend(n, strict)
      BY <1>2, <2>1, <2>3, SendDataPlain
    <2> QED
      BY <1>2, <1>3, <2>4, PlainSendRoutes
  <1>5. CASE CallSendUserMessage(n)
    <2>1. Make(n, "SendUserMessage") /\ SendUserMessage(n, c.from, c.to, c.flags, FALSE)
      BY <1>1, <1>5 DEF CallSendUserMessage
    <2>2. /\ c \in UserCall /\ ("flags" \in DOMAIN c => c.flags # REQ_ACK)
          /\ ~strict
      BY <1>0, <1>1, <2>1, PlainCall
      DEF DataCall, UserCall, UserMove, Departure
    <2>3. c.from \in User /\ c.to \in User /\ c.flags = NoFlags
      BY <2>2 DEF UserCall, Flags
    <2>4. PlainSend(n, strict)
      BY <1>2, <2>1, <2>2, <2>3, SendUserMessagePlain
    <2> QED
      BY <1>2, <1>3, <2>4, PlainSendRoutes
  <1> QED
    BY <1>4, <1>5

\* Acknowledgements and reports of absent users are all that is sent.
LEMMA AnswerRoutes ==
  ASSUME NEW strict \in BOOLEAN, RouteHyp(strict), NEW n \in Node,
         NEW S, \A q \in S : q.PacketType \in {"ACK", "UERR"},
         NEW pkts \in Seq(S), NEW fresh, Enqueue(n, pkts, fresh),
         UNCHANGED messages \/ \E type : Receive(n, type),
         UNCHANGED RouteTable, NobodyWaits', QueuesPlain(strict)'
  PROVE  RouteInv(strict)'
  <1>1. AddsTypes({"ACK", "UERR"})
    BY AirAllOf DEF RouteHyp
  <1> QED
    BY <1>1, OthersLead, RouteStep

LEMMA ForwardPlain ==
  ASSUME NEW n, NEW pkt, NEW dest, NEW origin,
         Forward(n, pkt, dest, origin), pkt.Flags = NoFlags
  PROVE  /\ Enqueue(n, <<pkt>>, 0)
         /\ pendingTxs' = [pendingTxs EXCEPT
                               ![n] = WithoutPending(n, {pkt.PacketID})]
  BY DEF Forward, NoFlags, REQ_ACK

LEMMA HandleDataRoutes ==
  ASSUME NEW strict \in BOOLEAN, RouteHyp(strict), NEW n \in Node,
         HandleData(n)
  PROVE  RouteInv(strict)'
  <1>1. PICK p : p = Head(messages[n])
    OBVIOUS
  <1>r. Receive(n, "DATA") /\ UNCHANGED RouteTable
    BY DEF HandleData
  <1>2. /\ p \in DataFormat /\ p \in Packet /\ PacketLeads(p, strict)
        /\ p.PacketType = "DATA"
    BY <1>1, <1>r, ReceivedLeads, PacketFormat
  <1>3. PICK dest \in Node \cup {BROADCAST_ADDR} : dest = p.FinalDestID
    BY <1>2 DEF DataFormat
  <1> DEFINE mine == p.DestNodeID \in {n, BROADCAST_ADDR}
             overheard == [pendingTxs EXCEPT
                              ![n] = WithoutPending(n, {p.PacketID})]
  <1>4. QueuesPlain(strict)' /\ (pendingTxs' = overheard => NobodyWaits')
    BY QueuesKept, NothingHeld DEF HandleData, HandlerFrame, checker
  <1>5. p.Flags = NoFlags
    BY <1>2 DEF PacketLeads
  <1>6. mine /\ dest \in Node \ {n} => Knows(n, dest, 0, FALSE)
    BY <1>2, <1>3, IDsAssumption DEF PacketLeads, FinalNode
  <1>7. CASE ~mine
    <2>1. pendingTxs' = overheard /\ UNCHANGED txQueue
      BY <1>1, <1>7 DEF HandleData, out
    <2> QED
      BY <1>r, <1>4, <2>1, OneSent
  <1>8. CASE mine /\ Seen(n, p)
    <2>1. PICK acks : acks = DuplicateAcks(n, p, dest)
      OBVIOUS
    <2>2. acks \in Seq(AcksOf(n, p))
      BY <1>2, <2>1, AcksSent DEF RouteHyp
    <2>3. pendingTxs' = overheard /\ Enqueue(n, acks, Len(acks))
      BY <1>1, <1>3, <1>8, <2>1 DEF HandleData
    <2>4. \A q \in AcksOf(n, p) : q.PacketType \in {"ACK", "UERR"}
      BY DEF AcksOf
    <2> QED
      BY <1>r, <1>4, <2>2, <2>3, <2>4, AnswerRoutes
  <1>9. CASE mine /\ ~Seen(n, p) /\ dest = BROADCAST_ADDR
    <2> DEFINE copy == CreateDataPacket(p.OriginNodeID, n, dest, NullID,
                           p.HopCount + 1, NoFlags, p.PacketID)
    <2>1. /\ pendingTxs' = overheard
          /\ UNCHANGED txQueue \/ Enqueue(n, <<copy>>, 0)
      BY <1>1, <1>3, <1>9, IDsAssumption DEF HandleData, out
    <2>2. PacketLeads(copy, strict)'
      BY IDsAssumption DEF PacketLeads, CreateDataPacket
    <2> HIDE DEF copy
    <2> QED
      BY <1>r, <1>4, <2>1, <2>2, OneSent
  <1>10. CASE mine /\ ~Seen(n, p) /\ dest = n
    <2>1. PICK acks : acks = FinalAck(n, p, dest)
      OBVIOUS
    <2>2. acks \in Seq(AcksOf(n, p))
      BY <1>2, <2>1, AcksSent DEF RouteHyp
    <2>3. pendingTxs' = overheard /\ Enqueue(n, acks, Len(acks))
      BY <1>1, <1>3, <1>10, <2>1, IDsAssumption DEF HandleData
    <2>4. \A q \in AcksOf(n, p) : q.PacketType \in {"ACK", "UERR"}
      BY DEF AcksOf
    <2> QED
      BY <1>r, <1>4, <2>2, <2>3, <2>4, AnswerRoutes
  <1>11. CASE mine /\ ~Seen(n, p) /\ dest \in Node \ {n}
    <2>1. HasRoute(n, dest)
      BY <1>6, <1>11 DEF Knows
    <2>2. PICK hop : hop = RouteTable[n][dest].NextHop
      OBVIOUS
    <2> DEFINE copy == CreateDataPacket(p.OriginNodeID, n, dest, hop,
                           p.HopCount + 1, NoFlags, p.PacketID)
    <2>3. Forward(n, copy, dest, p.OriginNodeID)
      BY <1>1, <1>3, <1>5, <1>11, <2>1, <2>2, IDsAssumption DEF HandleData
    <2>4. copy.Flags = NoFlags /\ copy.PacketID = p.PacketID
      BY DEF CreateDataPacket
    <2>5. PacketLeads(copy, strict)'
      BY <1>r, <1>11, <2>1, <2>2, HopKnows, NewDataLeads
    <2> HIDE DEF copy
    <2>6. pendingTxs' = overheard /\ Enqueue(n, <<copy>>, 0)
      BY <2>3, <2>4, ForwardPlain
    <2> QED
      BY <1>r, <1>4, <2>5, <2>6, OneSent
  <1> QED
    BY <1>3, <1>7, <1>8, <1>9, <1>10, <1>11

LEMMA HandleUserMessageRoutes ==
  ASSUME NEW strict \in BOOLEAN, RouteHyp(strict), NEW n \in Node,
         HandleUserMessage(n)
  PROVE  RouteInv(strict)'
  <1>1. PICK p : p = Head(messages[n])
    OBVIOUS
  <1>r. Receive(n, "USER_MSG") /\ UNCHANGED RouteTable
    BY DEF HandleUserMessage
  <1>2. /\ p \in UserMessageFormat /\ p \in Packet /\ PacketLeads(p, strict)
        /\ p.PacketType = "USER_MSG"
    BY <1>1, <1>r, ReceivedLeads, PacketFormat
  <1>3. PICK dest \in Node : dest = p.ToNodeID
    BY <1>2 DEF UserMessageFormat
  <1> DEFINE overheard == [pendingTxs EXCEPT
                              ![n] = WithoutPending(n, {p.PacketID})]
             Answers == {q \in Packet : q.PacketType \in {"ACK", "UERR"}}
  <1>4. QueuesPlain(strict)' /\ (pendingTxs' = overheard => NobodyWaits')
    BY QueuesKept, NothingHeld DEF HandleUserMessage, HandlerFrame, checker
  <1>5. p.Flags = NoFlags
    BY <1>2 DEF PacketLeads
  <1>6. p.DestNodeID = n /\ dest # n => HasRoute(n, dest)
    BY <1>2, <1>3 DEF PacketLeads, FinalNode, Knows
  <1>7. CASE p.DestNodeID # n
    <2>1. pendingTxs' = overheard /\ UNCHANGED txQueue
      BY <1>1, <1>7 DEF HandleUserMessage, out
    <2> QED
      BY <1>r, <1>4, <2>1, OneSent
  <1>8. CASE p.DestNodeID = n /\ (Seen(n, p) \/ dest = n)
    <2>1. PICK again, final, absent :
             /\ again = DuplicateAcks(n, p, dest)
             /\ final = FinalAck(n, p, dest)
             /\ absent = UserNotAtNode(n, p)
      OBVIOUS
    <2>2. again \in Seq(Answers) /\ final \in Seq(Answers)
      <3>1. AcksOf(n, p) \subseteq Answers
        BY DEF AcksOf
      <3> QED
        BY <1>2, <2>1, <3>1, AcksSent DEF RouteHyp
    <2>3. absent \in Seq(Answers)
      <3>1. absent \in Seq(Sent(n, FALSE))
        BY <1>2, <2>1, UserNotAtNodeLinks DEF RouteHyp, LinkInv
      <3>2. \A i \in DOMAIN absent : absent[i].PacketType = "UERR"
        BY <2>1, NewPacketTypes DEF UserNotAtNode
      <3>3. \A i \in DOMAIN absent : absent[i] \in Answers
        BY <3>1, <3>2 DEF Sent
      <3> QED
        BY <3>1, <3>3, SeqOfThose
    <2>4. /\ pendingTxs' = overheard
          /\ \E pkts \in {again, final, final \o absent} :
                Enqueue(n, pkts, Len(pkts))
      BY <1>1, <1>3, <1>8, <2>1 DEF HandleUserMessage
    <2>5. final \o absent \in Seq(Answers)
      BY <2>2, <2>3, ConcatProperties
    <2>6. PICK pkts \in Seq(Answers) : Enqueue(n, pkts, Len(pkts))
      BY <2>2, <2>4, <2>5
    <2> QED
      BY <1>r, <1>4, <2>4, <2>6, AnswerRoutes
  <1>9. CASE p.DestNodeID = n /\ ~Seen(n, p) /\ dest # n
    <2>1. PICK hop : hop = RouteTable[n][dest].NextHop
      OBVIOUS
    <2> DEFINE copy == CreateUSERMessagePacket(p.OriginNodeID, n, p.FromUserID,
                           p.ToUserID, dest, hop, p.HopCount + 1, NoFlags,
                           p.PacketID)
    <2>2. Forward(n, copy, dest, p.OriginNodeID)
      BY <1>1, <1>3, <1>5, <1>6, <1>9, <2>1 DEF HandleUserMessage
    <2>3. copy.Flags = NoFlags /\ copy.PacketID = p.PacketID
      BY DEF CreateUSERMessagePacket
    <2>4. PacketLeads(copy, strict)'
      BY <1>r, <1>6, <1>9, <2>1, HopKnows, NewDataLeads
    <2> HIDE DEF copy
    <2>5. pendingTxs' = overheard /\ Enqueue(n, <<copy>>, 0)
      BY <2>2, <2>3, ForwardPlain
    <2> QED
      BY <1>r, <1>4, <2>4, <2>5, OneSent
  <1> QED
    BY <1>7, <1>8, <1>9

(* The lookup of a home.                                                   *)

LEMMA HandleUREQRoutes ==
  ASSUME NEW strict \in BOOLEAN, RouteHyp(strict), NEW n \in Node,
         HandleUREQ(n)
  PROVE  RouteInv(strict)'
  <1>0. gut \in [Node -> [User -> Node \cup {NullID}]]
    BY DEF RouteHyp, TypeOK
  <1>1. PICK p, fid : p = Head(messages[n]) /\ fid = FreshID(n, 0)
    OBVIOUS
  <1>r. Receive(n, "UREQ")
    BY Zenon DEF HandleUREQ
  <1>2. /\ p \in UREQFormat /\ PacketLeads(p, strict)
        /\ p.PacketType = "UREQ"
    BY <1>1, <1>r, ReceivedLeads, PacketFormat
  <1>3. PICK user \in User, o \in Node, hop \in Node, k \in Nat :
           /\ user = p.UREQUserID /\ o = p.OriginNodeID
           /\ hop = p.PrevHopID /\ k = p.HopCount
    BY <1>2 DEF UREQFormat
  <1>s. ~strict
    BY <1>2 DEF PacketLeads
  <1>4. PICK home, direct, table :
           /\ home = gut[n][user]
           /\ direct = maybeAddRoute(RouteTable[n], hop, hop, 1)
           /\ table = maybeAddRoute(direct, o, hop, k + 1)
    OBVIOUS
  <1>h. home # NullID => home \in Node
    BY <1>0, <1>4
  <1>5. /\ table \in Learned(n, strict)
        /\ table[o] # NoRoute
    <2>1. RouteTable[n] \in Learned(n, strict) /\ TypeOK
      BY OwnTable DEF RouteHyp, RouteInv
    <2>2. Knows(hop, o, k, strict)
      BY <1>2, <1>3 DEF PacketLeads
    <2>3. Knows(hop, hop, 0, strict)
      BY DEF Knows
    <2>4. maybeAddRoute(RouteTable[n], hop, hop, 0 + 1) \in Learned(n, strict)
      BY <2>1, <2>3, LearnedRoute
    <2>5. direct \in Learned(n, strict)
      BY <1>4, <2>4
    <2> QED
      BY <1>4, <2>1, <2>2, <2>5, LearnedRoute
  <1>6. NobodyWaits' /\ QueuesPlain(strict)'
    <2>1. UNCHANGED <<pendingTxs, queues, flushing, registering, expired>>
      BY Zenon DEF HandleUREQ, HandlerFrame, checker
    <2> QED
      BY <2>1, NothingHeld, QueuesKept
  <1>7. CASE Seen(n, p)
    <2>1. UNCHANGED RouteTable /\ UNCHANGED txQueue
      BY Zenon, <1>1, <1>7 DEF HandleUREQ, out
    <2> QED
      BY <1>r, <1>6, <2>1, OneSent
  <1>8. CASE ~Seen(n, p)
    <2> DEFINE reply(h, hops) == CreateUREPPacket(n, hop, o, h, user, hops, fid)
               copy == CreateUREQPacket(n, o, user, k + 1, p.PacketID)
    <2>1. /\ SetRoutes(n, table)
          /\ \/ Enqueue(n, <<reply(n, 0)>>, 1)
             \/ /\ home # NullID /\ table[home] # NoRoute
                /\ Enqueue(n, <<reply(home, table[home].HopCount)>>, 1)
             \/ Enqueue(n, <<copy>>, 0)
             \/ UNCHANGED txQueue
      BY Zenon, <1>1, <1>3, <1>4, <1>8 DEF HandleUREQ, out
    <2>2. ASSUME NEW h, NEW hops, Knows(n, h, 0, FALSE)'
          PROVE  PacketLeads(reply(h, hops), strict)'
      BY <1>s, <2>2 DEF PacketLeads, CreateUREPPacket
    <2>3. PacketLeads(reply(n, 0), strict)'
      BY <2>2 DEF Knows
    <2>4. ASSUME NEW d \in Node, table[d] # NoRoute
          PROVE  Knows(n, d, 0, FALSE)'
      BY <1>5, <1>s, <2>1, <2>4, KnowsNow DEF Knows
    <2>5. home # NullID /\ table[home] # NoRoute =>
             PacketLeads(reply(home, table[home].HopCount), strict)'
      BY <1>h, <2>2, <2>4
    <2>6. PacketLeads(copy, strict)'
      BY <1>5, <1>s, <2>4 DEF PacketLeads, CreateUREQPacket, Knows
    <2> HIDE DEF reply, copy
    <2> QED
      BY <1>r, <1>5, <1>6, <2>1, <2>3, <2>5, <2>6, OneSent
  <1> QED
    BY <1>7, <1>8

LEMMA QueuedMessagesPlain ==
  ASSUME NEW strict \in BOOLEAN, NEW q \in Seq(PlainMessages(strict)),
         NEW user \in User
  PROVE  [i \in DOMAIN q |-> [packetType |-> "USER_MSG", to |-> user,
                              from |-> q[i].from, flags |-> q[i].flags]]
            \in Seq(PlainSends(strict))
  <1> DEFINE send(e) == [packetType |-> "USER_MSG", to |-> user,
                         from |-> e.from, flags |-> e.flags]
  <1>1. \A e \in PlainMessages(strict) : send(e) \in PlainSends(strict)
    BY DEF PlainMessages, PlainSends, QueuedUserMessage, QueuedSend
  <1>2. \A i \in 1 .. Len(q) : q[i] \in PlainMessages(strict)
    BY ElementOfSeq
  <1>3. DOMAIN q = 1 .. Len(q) /\ Len(q) \in Nat
    OBVIOUS
  <1> HIDE DEF send
  <1>4. [i \in 1 .. Len(q) |-> send(q[i])]
           \in [1 .. Len(q) -> PlainSends(strict)]
    BY <1>1, <1>2
  <1>5. [i \in DOMAIN q |-> send(q[i])] \in Seq(PlainSends(strict))
    BY <1>3, <1>4, SeqDef
  <1> QED
    BY <1>5 DEF send

LEMMA HandleUREPRoutes ==
  ASSUME NEW strict \in BOOLEAN, RouteHyp(strict), NEW n \in Node,
         HandleUREP(n)
  PROVE  RouteInv(strict)'
  <1>1. PICK p : p = Head(messages[n])
    OBVIOUS
  <1>r. Receive(n, "UREP")
    BY Zenon DEF HandleUREP
  <1>2. /\ p \in UREPFormat /\ PacketLeads(p, strict)
        /\ p.PacketType = "UREP"
    BY <1>1, <1>r, ReceivedLeads, PacketFormat
  <1>3. PICK home \in Node, user \in User, o \in Node, hop \in Node, k \in Nat :
           /\ home = p.UREPDestNodeID /\ user = p.UREPUserID
           /\ o = p.OriginNodeID /\ hop = p.PrevHopID /\ k = p.HopCount
    BY <1>2 DEF UREPFormat
  <1>s. ~strict
    BY <1>2 DEF PacketLeads
  <1>4. PICK table, q, sends :
           /\ table = maybeAddRoute(RouteTable[n], home, hop, k + 1)
           /\ q = userMessageQueue[n][user]
           /\ sends = [i \in DOMAIN q |->
                          [packetType |-> "USER_MSG", to |-> user,
                           from |-> q[i].from, flags |-> q[i].flags]]
    OBVIOUS
  <1>5. table \in Learned(n, strict)
    <2>1. RouteTable[n] \in Learned(n, strict) /\ TypeOK
      BY OwnTable DEF RouteHyp, RouteInv
    <2>2. Knows(hop, home, k, strict)
      BY <1>2, <1>3, <1>s DEF PacketLeads, Knows
    <2> QED
      BY <1>4, <2>1, <2>2, LearnedRoute
  <1>6. /\ NobodyWaits' /\ EntriesPlain(strict) /\ SendsPlain(strict)
        /\ TypeOK /\ UNCHANGED dataQueue
    <2>1. UNCHANGED <<pendingTxs, dataQueue, registering, expired>>
      BY Zenon DEF HandleUREP, HandlerFrame, checker
    <2> QED
      BY <2>1, NothingHeld DEF RouteHyp, RouteInv, QueuesPlain
  <1>q. UNCHANGED userMessageQueue /\ UNCHANGED flushing => QueuesPlain(strict)'
    BY <1>6, QueuesKept DEF queues
  <1>7. CASE Seen(n, p)
    <2>1. /\ UNCHANGED RouteTable /\ UNCHANGED txQueue
          /\ UNCHANGED userMessageQueue /\ UNCHANGED flushing
      BY Zenon, <1>1, <1>7 DEF HandleUREP, out
    <2> QED
      BY <1>r, <1>6, <1>q, <2>1, OneSent
  <1>8. CASE ~Seen(n, p) /\ o = n
    <2>1. /\ SetRoutes(n, table) /\ UNCHANGED txQueue
          /\ flushing' = [flushing EXCEPT ![n] = sends]
          /\ userMessageQueue' = [userMessageQueue EXCEPT ![n][user] = <<>>]
      BY Zenon, <1>1, <1>3, <1>4, <1>8 DEF HandleUREP, out
    <2>2. sends \in Seq(PlainSends(strict))
      BY <1>4, <1>6, QueuedMessagesPlain DEF EntriesPlain
    <2>3. SendsPlain(strict)'
      <3>1. flushing \in [Node -> Seq(QueuedSend)]
        BY <1>6 DEF TypeOK
      <3> QED
        BY <1>6, <2>1, <2>2, <3>1 DEF SendsPlain
    <2>4. EntriesPlain(strict)'
      <3>1. userMessageQueue \in [Node -> [User -> Seq(QueuedUserMessage)]]
        BY <1>6 DEF TypeOK
      <3>2. <<>> \in Seq(PlainMessages(strict))
        BY EmptySeq
      <3>3. \A m \in Node, x \in User :
               \/ userMessageQueue'[m][x] = userMessageQueue[m][x]
               \/ userMessageQueue'[m][x] = <<>>
        BY <2>1, <3>1
      <3> QED
        BY <1>6, <3>2, <3>3 DEF EntriesPlain
    <2> QED
      BY <1>r, <1>5, <1>6, <2>1, <2>3, <2>4, OneSent DEF QueuesPlain
  <1>9. CASE ~Seen(n, p) /\ o # n
    <2>1. PICK to : to = RouteTable[n][home].NextHop
      OBVIOUS
    <2> DEFINE copy == CreateUREPPacket(n, to, o, home, user, k + 1, p.PacketID)
    <2>2. /\ UNCHANGED RouteTable
          /\ \/ UNCHANGED txQueue
             \/ HasRoute(n, home) /\ Enqueue(n, <<copy>>, 0)
          /\ UNCHANGED userMessageQueue /\ UNCHANGED flushing
      BY Zenon, <1>1, <1>3, <1>9, <2>1 DEF HandleUREP, out
    <2>3. HasRoute(n, home) => PacketLeads(copy, strict)'
      <3>1. HasRoute(n, home) => Knows(n, home, 0, FALSE)'
        BY <2>2, HopKnows
      <3> QED
        BY <1>s, <3>1 DEF PacketLeads, CreateUREPPacket
    <2> HIDE DEF copy
    <2> QED
      BY <1>r, <1>6, <1>q, <2>2, <2>3, OneSent
  <1> QED
    BY <1>7, <1>8, <1>9

LEMMA HandleUERRRoutes ==
  ASSUME NEW strict \in BOOLEAN, RouteHyp(strict), NEW n \in Node,
         HandleUERR(n)
  PROVE  RouteInv(strict)'
  <1>1. AddsTypes({"ACK", "UERR"})
    BY HandleUERRTypes DEF AddsTypes, RouteHyp
  <1>2. NobodyWaits' /\ QueuesPlain(strict)'
    <2>1. \/ UNCHANGED pendingTxs
          \/ \E ids : pendingTxs' =
                         [pendingTxs EXCEPT ![n] = WithoutPending(n, ids)]
      BY DEF HandleUERR
    <2> QED
      BY <2>1, NothingHeld, QueuesKept DEF HandleUERR, HandlerFrame, checker
  <1>3. UNCHANGED RouteTable
    BY DEF HandleUERR
  <1> QED
    BY <1>1, <1>2, <1>3, OthersLead, RouteStep

(* The other steps, most of which need somebody who waits.                 *)

LEMMA QuietRoutes ==
  ASSUME NEW strict \in BOOLEAN, RouteHyp(strict), NEW n \in Node,
         \/ MoveUser(n) \/ Leave(n) \/ Stop(n) \/ RegisterPending(n)
         \/ Transmit(n) \/ PendingTxChecker(n) \/ HandleDataAck(n)
         \/ HandleRERR(n)
  PROVE  RouteInv(strict)'
  <1>0. NobodyWaits /\ TypeOK
    BY DEF RouteHyp, RouteInv
  <1>1. CASE HandleRERR(n)
    <2>1. Receive(n, "RERR")
      BY <1>1 DEF HandleRERR
    <2> QED
      BY <2>1, ReceivedLeads DEF PacketLeads
  <1>2. ~RegisterPending(n) /\ ~CheckerTick(n)
        /\ ~CheckerRetry(n) /\ ~CheckerGiveUp(n)
    <2>1. pendingTxs[n] = {} /\ registering[n] = {} /\ expired[n] = {}
      BY <1>0 DEF NobodyWaits
    <2>2. ~CheckerTick(n)
      <3>1. (SUBSET pendingTxs[n]) \ {{}} = {}
        BY <2>1
      <3> QED
        BY <3>1 DEF CheckerTick
    <2>3. ~RegisterPending(n) /\ ~CheckerRetry(n) /\ ~CheckerGiveUp(n)
      BY <2>1 DEF RegisterPending, CheckerRetry, CheckerGiveUp
    <2> QED
      BY <2>2, <2>3
  <1>3. CASE \/ MoveUser(n) \/ Leave(n) \/ Stop(n) \/ Transmit(n)
             \/ CheckerDone(n) \/ HandleDataAck(n)
    <2>1. Adds({})
      BY <1>0, <1>3, QuietStep
    <2>2. /\ UNCHANGED <<RouteTable, queues, registering, expired>>
          /\ UNCHANGED flushing
          /\ \/ UNCHANGED pendingTxs
             \/ \E ids : pendingTxs' =
                            [pendingTxs EXCEPT ![n] = WithoutPending(n, ids)]
      BY <1>3 DEF MoveUser, Leave, Stop, Transmit, CheckerDone, HandleDataAck,
                  HandlerFrame, checker
    <2>3. NobodyWaits' /\ QueuesPlain(strict)'
      BY <2>2, NothingHeld, QueuesKept
    <2>4. \A q \in Air' : q \in Air \/ PacketLeads(q, strict)'
      BY <2>1 DEF Adds
    <2> QED
      BY <2>2, <2>3, <2>4, RouteStep
  <1> QED
    BY <1>1, <1>2, <1>3 DEF PendingTxChecker

LEMMA AnnounceRoutes ==
  ASSUME NEW strict \in BOOLEAN, RouteHyp(strict), NEW n \in Node,
         Start(n) \/ BroadcastTick(n)
  PROVE  RouteInv(strict)'
  <1>1. PICK added, removed, fid :
           /\ added = connectedUsers[n] \ lastUsersShadow[n]
           /\ removed = lastUsersShadow[n] \ connectedUsers[n]
           /\ fid = FreshID(n, 0)
    OBVIOUS
  <1> DEFINE info == CreateDiffBroadcastInfoPacket(n, n, added, removed, 0, fid)
  <1>2. UNCHANGED txQueue \/ Enqueue(n, <<info>>, 1)
    BY <1>1 DEF Start, BroadcastTick, SendDiffBroadcastInfo, out
  <1>3. PacketLeads(info, strict)'
    BY DEF PacketLeads, Knows, CreateDiffBroadcastInfoPacket
  <1> HIDE DEF info
  <1>4. /\ UNCHANGED <<RouteTable, messages>>
        /\ NobodyWaits' /\ QueuesPlain(strict)'
    BY NothingHeld, QueuesKept DEF Start, BroadcastTick, checker
  <1> QED
    BY <1>2, <1>3, <1>4, OneSent

LEMMA NextRoutes ==
  ASSUME NEW strict \in BOOLEAN, RouteHyp(strict), Calm(strict)', [Next]_vars
  PROVE  RouteInv(strict)'
  <1>1. CASE UNCHANGED vars
    BY <1>1
    DEF vars, queues, checker, out, RouteHyp, RouteInv, NobodyWaits,
        QueuesPlain, EntriesPlain, SendsPlain, RoutesLead, Leads, PacketsLead,
        PacketLeads, Knows, HasRoute, Air
  <1>2. ASSUME NEW n \in Node, HandleMessage(n)
        PROVE  RouteInv(strict)'
    BY <1>2, HandleBroadcastInfoRoutes, HandleRREQRoutes, HandleRREPRoutes,
       HandleDataRoutes, HandleUserMessageRoutes, HandleUREQRoutes,
       HandleUREPRoutes, HandleUERRRoutes, QuietRoutes DEF HandleMessage
  <1> QED
    BY <1>1, <1>2, QuietRoutes, AnnounceRoutes, FlushStepRoutes, CallRoutes
    DEF Next, NodeGoroutine, Application

LEMMA WasCalm ==
  ASSUME NEW strict \in BOOLEAN, TypeOK, [Next]_vars, Calm(strict)'
  PROVE  Calm(strict)
  <1>1. KeepsCalls
    BY CallsKept
  <1> QED
    BY <1>1 DEF KeepsCalls, Calm, NothingWithdrawn, NothingLookedUp

LEMMA InitRoutes ==
  ASSUME NEW strict \in BOOLEAN, Init
  PROVE  RouteInv(strict)
  <1>1. EntriesPlain(strict) /\ SendsPlain(strict)
    BY EmptySeq DEF Init, EntriesPlain, SendsPlain
  <1>2. PacketsLead(strict)
    BY DEF Init, PacketsLead, Air, In
  <1> QED
    BY <1>1, <1>2
    DEF Init, RouteInv, NobodyWaits, QueuesPlain, RoutesLead, HasRoute

LEMMA CalmRoutes == Spec => [](Calm(FALSE) => RouteInv(FALSE))
  <1>1. Init => (Calm(FALSE) => RouteInv(FALSE))
    BY InitRoutes
  <1>2. TypeOK /\ LinkInv(FALSE) /\ (Calm(FALSE) => RouteInv(FALSE))
           /\ [Next]_vars => (Calm(FALSE) => RouteInv(FALSE))'
    <2> SUFFICES ASSUME TypeOK, LinkInv(FALSE),
                        Calm(FALSE) => RouteInv(FALSE), [Next]_vars,
                        Calm(FALSE)'
                 PROVE  RouteInv(FALSE)'
      OBVIOUS
    <2>1. TypeOK' /\ RouteInv(FALSE)
      BY NextType, WasCalm
    <2>2. RouteHyp(FALSE)
      BY <2>1 DEF RouteHyp
    <2> QED
      BY <2>2, NextRoutes
  <1> QED
    BY <1>1, <1>2, TypeCorrect, LinksStay, PTL DEF Spec

LEMMA StrictRoutes == Spec /\ []HopsFit => [](Calm(TRUE) => RouteInv(TRUE))
  <1>1. Init => (Calm(TRUE) => RouteInv(TRUE))
    BY InitRoutes
  <1>2. TypeOK /\ LinkInv(FALSE) /\ HopsFit /\ HopsFit'
           /\ (Calm(TRUE) => RouteInv(TRUE))
           /\ [Next]_vars => (Calm(TRUE) => RouteInv(TRUE))'
    <2> SUFFICES ASSUME TypeOK, LinkInv(FALSE), HopsFit, HopsFit',
                        Calm(TRUE) => RouteInv(TRUE), [Next]_vars,
                        Calm(TRUE)'
                 PROVE  RouteInv(TRUE)'
      OBVIOUS
    <2>1. TypeOK' /\ RouteInv(TRUE)
      BY NextType, WasCalm
    <2>2. RouteHyp(TRUE)
      BY <2>1 DEF RouteHyp
    <2> QED
      BY <2>2, NextRoutes
  <1> QED
    BY <1>1, <1>2, TypeCorrect, LinksStay, PTL DEF Spec

\* While no route is withdrawn, a DATA or USER_MSG packet that arrives at the
\* next hop its sender chose finds a route there, whatever was lost, delayed or
\* learned in between.
THEOREM NextHopsForward == Spec => []NextHopCanForward
  <1>1. TypeOK /\ (Calm(FALSE) => RouteInv(FALSE)) => NextHopCanForward
    <2> SUFFICES ASSUME TypeOK, RouteInv(FALSE), NEW n \in Node,
                        NEW i \in DOMAIN messages[n], NEW p,
                        p = messages[n][i],
                        p.PacketType \in {"DATA", "USER_MSG"},
                        p.DestNodeID = n
                 PROVE  FinalNode(p) = n \/ HasRoute(n, FinalNode(p))
      BY DEF Calm, NextHopCanForward
    <2>1. messages \in [Node -> Seq(Packet)]
      BY DEF TypeOK
    <2>2. p \in Packet
      BY <2>1
    <2>3. p \in Air
      BY <2>2 DEF Air, In
    <2> QED
      BY <2>3 DEF RouteInv, PacketsLead, PacketLeads, Knows
  <1> QED
    BY <1>1, TypeCorrect, CalmRoutes, PTL

\* While no route is withdrawn, the next hop of a route has a route, in every
\* topology; and where nobody looked up a user and hop counts fit their byte,
\* a shorter one, so that no packet goes round in a circle.
THEOREM RoutesDescend == Spec /\ []HopsFit => []RouteDescends
  <1>1. /\ Calm(FALSE) => RouteInv(FALSE)
        /\ Calm(TRUE) => RouteInv(TRUE)
        => RouteDescends
    <2> SUFFICES ASSUME RouteInv(FALSE), NothingLookedUp => RouteInv(TRUE),
                        NEW n \in Node, NEW d \in Node, HasRoute(n, d), NEW r,
                        r = RouteTable[n][d], r.NextHop # d
                 PROVE  /\ HasRoute(r.NextHop, d)
                        /\ NothingLookedUp =>
                              RouteTable[r.NextHop][d].HopCount < r.HopCount
      BY DEF Calm, RouteDescends
    <2> QED
      BY DEF RouteInv, RoutesLead, Leads
  <1> QED
    BY <1>1, CalmRoutes, StrictRoutes, PTL

=============================================================================
