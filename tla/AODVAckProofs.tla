--------------------------- MODULE AODVAckProofs ---------------------------
(***************************************************************************)
(* What an acknowledgement tells the node that created a packet, for every *)
(* topology, loss and timing: that the next hop has processed the packet,  *)
(* unless it came back to its creator.                                     *)
(***************************************************************************)
EXTENDS AODVRoutesProofs

----------------------------------------------------------------------------
(* The inductive invariant.  As long as a packet has not come back to the  *)
(* node that created it, all the copies that node made of it go to one     *)
(* neighbour, and nobody else has a copy, acknowledges one or counts as    *)
(* acknowledged before that neighbour has processed it.                    *)

\* The entries of n that a retry may transmit again.
Held(n) == pendingTxs[n] \cup registering[n] \cup expired[n]

HeldAnywhere(q) == \E m \in Node : \E tx \in Held(m) : tx.Pkt = q

\* The copies of DATA and USER_MSG packets, on their way or to be sent again.
Copies ==
    {q \in Packet : /\ q.PacketType \in {"DATA", "USER_MSG"}
                    /\ q \in Air \/ HeldAnywhere(q)}

Acks == {q \in Air : q.PacketType = "ACK"}

\* h is the neighbour that every copy of pid went through.
FirstHop(pid, h) ==
    /\ \A q \in Copies : q.PacketID = pid =>
          IF q.PrevHopID = pid[1] THEN q.DestNodeID = h
          ELSE pid \in seenMsgIDs[h]
    /\ \A q \in Acks : q.OriginalPacketID = pid => pid \in seenMsgIDs[h]
    /\ \A e \in acked[pid[1]] :
          e.MsgID = pid => e.NextHop = h /\ pid \in seenMsgIDs[h]

CameBack(pid) == pid \in seenMsgIDs[pid[1]]

OneFirstHop ==
    \A pid \in PacketID : CameBack(pid) \/ \E h \in Node : FirstHop(pid, h)

Given(pid) == pid[2] < nextID[pid[1]]

\* No identifier is in use that its creator will give to another packet.
IDsGiven ==
    /\ \A q \in Copies : Given(q.PacketID)
    /\ \A q \in Acks : Given(q.OriginalPacketID)
    /\ \A n \in Node : \A e \in acked[n] : Given(e.MsgID)

\* A node does not hear itself.
NotOwn == \A n \in Node, q \in Packet : In(q, messages[n]) => q.PrevHopID # n

AckInv == OneFirstHop /\ IDsGiven /\ NotOwn

(* What a step of n does to copies and acknowledgements.                   *)

NumbersGrow ==
    \A m \in Node : nextID'[m] \in Nat /\ nextID[m] <= nextID'[m]

\* A copy of packet id was for n, and n has processed one.
Reached(n, id) ==
    /\ \E p \in Copies : /\ p.PacketID = id
                         /\ p.DestNodeID \in {n, BROADCAST_ADDR}
    /\ id \in seenMsgIDs'[n]

Relayed(n, q) == q.PrevHopID = n /\ Reached(n, q.PacketID)

Created(n, q) ==
    /\ q.PacketID = FreshID(n, 0)
    /\ nextID[n] < nextID'[n]
    /\ q.PrevHopID = n
    /\ q.DestNodeID \in Node \/ q.PacketID \in seenMsgIDs'[n]

CopiesStep(n) ==
    \E pkt : \A q \in Copies' :
        \/ q \in Copies
        \/ Relayed(n, q)
        \/ q = pkt /\ Created(n, pkt)

AcksStep(n) ==
    \A q \in Acks' : q \in Acks \/ Reached(n, q.OriginalPacketID)

\* m has heard a copy or an acknowledgement of packet id.
HeardOf(m, id) ==
    \/ \E p \in Copies : p.PacketID = id /\ p.PrevHopID # m
    \/ \E p \in Acks : p.OriginalPacketID = id

AckedStep ==
    \A m \in Node : \A e \in acked'[m] :
        \/ e \in acked[m]
        \/ \E tx \in pendingTxs[m] : /\ tx.MsgID = e.MsgID
                                     /\ tx.NextHop = e.NextHop
                                     /\ HeardOf(m, e.MsgID)

AckStep(n) ==
    /\ KeepsSeen
    /\ NumbersGrow
    /\ CopiesStep(n)
    /\ AcksStep(n)
    /\ AckedStep

LEMMA StaysGiven ==
  ASSUME TypeOK, NumbersGrow, NEW pid \in PacketID, Given(pid)
  PROVE  Given(pid)'
  <1>1. pid[1] \in Node /\ pid[2] \in Nat
    BY DEF PacketID
  <1>2. nextID[pid[1]] \in Nat
    BY <1>1 DEF TypeOK
  <1> QED
    BY <1>1, <1>2 DEF Given, NumbersGrow

\* The identifiers that are in use are identifiers.
LEMMA IDTypes ==
  ASSUME TypeOK
  PROVE  /\ \A q \in Copies : q.PacketID \in PacketID
         /\ \A q \in Acks : q.OriginalPacketID \in PacketID
         /\ \A n \in Node : \A e \in acked[n] :
               e.MsgID \in PacketID /\ e.NextHop \in Node
         /\ \A n \in Node : \A tx \in Held(n) :
               /\ tx.Pkt \in Packet
               /\ tx.MsgID \in PacketID
  <1>1. \A q \in Copies : q.PacketID \in PacketID
    BY PacketHeader DEF Copies
  <1>2. \A q \in Acks : q.OriginalPacketID \in PacketID
    <2>1. ASSUME NEW q \in Acks
          PROVE  q.OriginalPacketID \in PacketID
      <3>1. q \in AckFormat
        BY PacketFormat DEF Acks, Air
      <3> QED
        BY <3>1 DEF AckFormat
    <2> QED
      BY <2>1
  <1>3. \A n \in Node : \A e \in acked[n] :
           e.MsgID \in PacketID /\ e.NextHop \in Node
    BY DEF TypeOK
  <1>4. \A n \in Node : Held(n) \subseteq PendingTx
    BY DEF TypeOK, Held
  <1> QED
    BY <1>1, <1>2, <1>3, <1>4 DEF PendingTx

LEMMA IDsStayGiven ==
  ASSUME TypeOK, TypeOK', IDsGiven, NEW n \in Node, AckStep(n)
  PROVE  IDsGiven'
  <1>0. \A pid \in PacketID : Given(pid) => Given(pid)'
    BY StaysGiven DEF AckStep
  <1>1. FreshID(n, 0) = <<n, nextID[n]>> /\ nextID[n] \in Nat
    BY DEF FreshID, TypeOK
  <1>2. \A id : Reached(n, id) => id \in PacketID /\ Given(id)
    BY IDTypes DEF Reached, IDsGiven
  <1>3. ASSUME NEW q \in Copies'
        PROVE  Given(q.PacketID)'
    <2>1. CASE q \in Copies
      BY <1>0, <2>1, IDTypes DEF IDsGiven
    <2>2. CASE Relayed(n, q)
      BY <1>0, <1>2, <2>2 DEF Relayed
    <2>3. CASE Created(n, q)
      BY <1>1, <2>3 DEF Created, Given
    <2> QED
      BY <1>3, <2>1, <2>2, <2>3 DEF AckStep, CopiesStep
  <1>4. ASSUME NEW q \in Acks'
        PROVE  Given(q.OriginalPacketID)'
    BY <1>0, <1>2, <1>4, IDTypes DEF AckStep, AcksStep, IDsGiven
  <1>5. ASSUME NEW m \in Node, NEW e \in acked'[m]
        PROVE  Given(e.MsgID)'
    BY <1>0, <1>5, IDTypes DEF AckStep, AckedStep, HeardOf, IDsGiven
  <1> QED
    BY <1>3, <1>4, <1>5 DEF IDsGiven

\* The packet that a step creates goes to the one neighbour it is addressed to.
LEMMA NewFirstHop ==
  ASSUME TypeOK, TypeOK', IDsGiven, NEW n \in Node, AckStep(n), NEW pkt,
         pkt \in Copies', Created(n, pkt)
  PROVE  LET pid == pkt.PacketID IN
         CameBack(pid)' \/ \E h \in Node : FirstHop(pid, h)'
  <1> DEFINE pid == pkt.PacketID
  <1>1. pid = <<n, nextID[n]>> /\ nextID[n] \in Nat /\ pid[1] = n
    BY DEF FreshID, TypeOK, Created
  <1>2. ~Given(pid)
    BY <1>1 DEF Given
  <1> HIDE DEF pid
  <1>3. ASSUME ~CameBack(pid)'
        PROVE  FirstHop(pid, pkt.DestNodeID)' /\ pkt.DestNodeID \in Node
    <2>1. pkt.DestNodeID \in Node /\ pkt.PrevHopID = n
      BY <1>1, <1>3 DEF Created, CameBack, pid
    <2>2. ~Reached(n, pid)
      BY <1>2 DEF Reached, IDsGiven
    <2>3. \A q \in Copies' : q.PacketID = pid => q = pkt
      <3>1. PICK r : \A q \in Copies' :
               q \in Copies \/ Relayed(n, q) \/ (q = r /\ Created(n, r))
        BY DEF AckStep, CopiesStep
      <3>2. \A q \in Copies' : q.PacketID = pid => q = r
        BY <1>2, <2>2, <3>1 DEF IDsGiven, Relayed
      <3>3. pkt = r
        BY <3>2 DEF pid
      <3> QED
        BY <3>2, <3>3
    <2>4. \A q \in Acks' : q.OriginalPacketID # pid
      BY <1>2, <2>2 DEF AckStep, AcksStep, IDsGiven
    <2>5. \A e \in acked'[n] : e.MsgID # pid
      BY <1>2 DEF AckStep, AckedStep, HeardOf, IDsGiven
    <2> QED
      BY <1>1, <2>1, <2>3, <2>4, <2>5 DEF FirstHop
  <1> QED
    BY <1>3 DEF pid

\* The first hop of an older packet is the same after the step.
LEMMA FirstHopStays ==
  ASSUME TypeOK, TypeOK', PendingLinks, NEW n \in Node, AckStep(n),
         NEW pid \in PacketID, NEW h \in Node, FirstHop(pid, h),
         ~CameBack(pid)',
         ~\E pkt \in Copies' : pkt.PacketID = pid /\ Created(n, pkt)
  PROVE  FirstHop(pid, h)'
  <1>1. pid[1] \in Node
    BY DEF PacketID
  <1>2. KeepsSeen /\ (pid \in seenMsgIDs[h] => pid \in seenMsgIDs'[h])
    BY DEF AckStep, KeepsSeen
  <1>3. Reached(n, pid) => pid \in seenMsgIDs'[h] /\ n # pid[1]
    BY <1>2, IDsAssumption DEF Reached, FirstHop, CameBack
  <1>4. ASSUME NEW q \in Copies', q.PacketID = pid
        PROVE  IF q.PrevHopID = pid[1] THEN q.DestNodeID = h
               ELSE pid \in seenMsgIDs'[h]
    <2>1. q \in Copies \/ Relayed(n, q)
      BY <1>4 DEF AckStep, CopiesStep
    <2>2. CASE q \in Copies
      BY <1>2, <1>4, <2>2 DEF FirstHop
    <2>3. CASE Relayed(n, q)
      BY <1>3, <1>4, <2>3 DEF Relayed
    <2> QED
      BY <2>1, <2>2, <2>3
  <1>5. ASSUME NEW q \in Acks', q.OriginalPacketID = pid
        PROVE  pid \in seenMsgIDs'[h]
    BY <1>2, <1>3, <1>5 DEF AckStep, AcksStep, FirstHop
  <1>6. ASSUME NEW e \in acked'[pid[1]], e.MsgID = pid
        PROVE  e.NextHop = h /\ pid \in seenMsgIDs'[h]
    <2>1. CASE e \in acked[pid[1]]
      BY <1>2, <1>6, <2>1 DEF FirstHop
    <2>2. ASSUME NEW tx \in pendingTxs[pid[1]], tx.MsgID = pid,
                 tx.NextHop = e.NextHop, HeardOf(pid[1], pid)
          PROVE  e.NextHop = h /\ pid \in seenMsgIDs'[h]
      <3>1. /\ tx.Pkt.PacketType \in {"DATA", "USER_MSG"}
            /\ tx.Pkt.PacketID = pid
            /\ tx.Pkt.PrevHopID = pid[1]
            /\ tx.Pkt.DestNodeID = e.NextHop
        BY <1>1, <2>2 DEF PendingLinks, Tracked
      <3>2. tx \in Held(pid[1]) /\ tx.Pkt \in Packet
        BY <1>1, IDTypes DEF Held
      <3>3. tx.Pkt \in Copies
        BY <1>1, <3>1, <3>2 DEF Copies, HeldAnywhere
      <3>4. e.NextHop = h
        BY <3>1, <3>3 DEF FirstHop
      <3>5. pid \in seenMsgIDs[h]
        BY <2>2 DEF HeardOf, FirstHop
      <3> QED
        BY <1>2, <3>4, <3>5
    <2> QED
      BY <1>1, <1>6, <2>1, <2>2 DEF AckStep, AckedStep
  <1> QED
    BY <1>4, <1>5, <1>6 DEF FirstHop

LEMMA AckStepInv ==
  ASSUME TypeOK, TypeOK', PendingLinks, OneFirstHop, IDsGiven,
         NEW n \in Node, AckStep(n)
  PROVE  OneFirstHop' /\ IDsGiven'
  <1>1. ASSUME NEW pid \in PacketID
        PROVE  CameBack(pid)' \/ \E h \in Node : FirstHop(pid, h)'
    <2>1. CASE CameBack(pid)
      <3>1. pid[1] \in Node
        BY DEF PacketID
      <3> QED
        BY <2>1, <3>1 DEF CameBack, AckStep, KeepsSeen
    <2>2. CASE \E pkt \in Copies' : pkt.PacketID = pid /\ Created(n, pkt)
      BY <2>2, NewFirstHop
    <2>3. CASE ~\E pkt \in Copies' : pkt.PacketID = pid /\ Created(n, pkt)
      BY <2>1, <2>3, FirstHopStays DEF OneFirstHop
    <2> QED
      BY <2>2, <2>3
  <1> QED
    BY <1>1, IDsStayGiven DEF OneFirstHop

(* Every step keeps what was seen, and gives no number twice.              *)

LEMMA EnqueueGrows ==
  ASSUME TypeOK, TypeOK', NEW n \in Node, NEW pkts, NEW fresh \in Nat,
         Enqueue(n, pkts, fresh)
  PROVE  NumbersGrow
  <1>1. nextID \in [Node -> Nat] /\ nextID' \in [Node -> Nat]
    BY DEF TypeOK
  <1>2. nextID' = [nextID EXCEPT ![n] = nextID[n] + fresh]
    BY DEF Enqueue
  <1> QED
    BY <1>1, <1>2 DEF NumbersGrow

LEMMA NoNumberGiven ==
  ASSUME TypeOK, UNCHANGED nextID
  PROVE  NumbersGrow
  BY DEF TypeOK, NumbersGrow

LEMMA NextNumbers ==
  ASSUME TypeOK, TypeOK', [Next]_vars
  PROVE  NumbersGrow
  <1> DEFINE Grows(n) == \/ UNCHANGED nextID
                         \/ \E pkts : \E fresh \in Nat : Enqueue(n, pkts, fresh)
  <1>1. \A n \in Node : Grows(n) => NumbersGrow
    BY EnqueueGrows, NoNumberGiven
  <1>2. CASE UNCHANGED vars
    BY <1>2, NoNumberGiven DEF vars, out
  <1>3. ASSUME NEW n \in Node,
               \/ HandleBroadcastInfo(n) \/ HandleRREQ(n) \/ HandleRREP(n)
               \/ HandleRERR(n) \/ HandleDataAck(n) \/ HandleUERR(n)
        PROVE  Grows(n)
    BY <1>3 DEF HandleBroadcastInfo, HandleRREQ, HandleRREP, HandleRERR,
       HandleDataAck, HandleUERR, out
  <1>4. ASSUME NEW n \in Node, HandleUREQ(n) \/ HandleUREP(n)
        PROVE  Grows(n)
    <2>1. 0 \in Nat /\ 1 \in Nat
      OBVIOUS
    <2> QED
      BY Zenon, <1>4, <2>1 DEF HandleUREQ, HandleUREP, out
  <1>5. ASSUME NEW n \in Node, HandleData(n)
        PROVE  Grows(n)
    <2>1. PICK p, dest : p = Head(messages[n]) /\ dest = p.FinalDestID
      OBVIOUS
    <2>2. p \in Packet
      BY <1>5, <2>1, Received DEF HandleData
    <2>3. PICK again, final : /\ again = DuplicateAcks(n, p, dest)
                              /\ final = FinalAck(n, p, dest)
      OBVIOUS
    <2>4. Len(again) \in Nat /\ Len(final) \in Nat
      BY <2>2, <2>3, DuplicateAcksType, FinalAckType
    <2> QED
      BY <1>5, <2>1, <2>3, <2>4
      DEF HandleData, Forward, ReportNoRoute, sendRERR, out
  <1>6. ASSUME NEW n \in Node, HandleUserMessage(n)
        PROVE  Grows(n)
    <2>1. PICK p, dest : p = Head(messages[n]) /\ dest = p.ToNodeID
      OBVIOUS
    <2>2. p \in Packet
      BY <1>6, <2>1, Received DEF HandleUserMessage
    <2>3. PICK again, final, absent :
             /\ again = DuplicateAcks(n, p, dest)
             /\ final = FinalAck(n, p, dest)
             /\ absent = UserNotAtNode(n, p)
      OBVIOUS
    <2>4. final \in Seq(Packet) /\ Len(again) \in Nat /\ Len(final) \in Nat
      BY <2>2, <2>3, DuplicateAcksType, FinalAckType
    <2>5. absent \in Seq(Packet)
      <3>1. p \in UserMessageFormat
        BY <1>6, <2>1, Received, PacketFormat DEF HandleUserMessage
      <3> QED
        BY <2>3, <3>1, UserNotAtNodeType
    <2>6. Len(final \o absent) \in Nat
      BY <2>4, <2>5
    <2> QED
      BY <1>6, <2>1, <2>3, <2>4, <2>6
      DEF HandleUserMessage, Forward, ReportNoRoute, sendRERR, out
  <1>7. ASSUME NEW n \in Node,
               \/ Start(n) \/ BroadcastTick(n) \/ FlushStep(n)
               \/ CallSendData(n) \/ CallSendUserMessage(n)
        PROVE  Grows(n)
    BY <1>7 DEF Start, BroadcastTick, SendDiffBroadcastInfo, FlushStep,
       CallSendData, CallSendUserMessage, SendData, SendUserMessage,
       SendAndTrack, QueueAndRequestRoute, out
  <1>8. ASSUME NEW n \in Node,
               \/ Transmit(n) \/ RegisterPending(n) \/ Stop(n) \/ MoveUser(n)
               \/ Leave(n) \/ PendingTxChecker(n)
        PROVE  Grows(n)
    BY <1>8 DEF Transmit, RegisterPending, Stop, MoveUser, Leave,
       PendingTxChecker, CheckerTick, CheckerRetry, CheckerGiveUp, CheckerDone,
       sendRERR, out
  <1> HIDE DEF Grows
  <1> QED
    BY <1>1, <1>2, <1>3, <1>4, <1>5, <1>6, <1>7, <1>8
    DEF Next, NodeGoroutine, HandleMessage, Application

LEMMA NextKeepsSeen ==
  ASSUME TypeOK, [Next]_vars
  PROVE  KeepsSeen
  BY NextDelivery DEF DeliveryStep, KeepsSeen

(* A node does not hear itself.                                            *)

LEMMA NothingOwnArrives ==
  ASSUME TypeOK, NotOwn, NEW n \in Node,
         UNCHANGED messages \/ \E type : Receive(n, type)
  PROVE  NotOwn'
  BY MessagesLeft DEF NotOwn

LEMMA HeadIn ==
  ASSUME NEW S, NEW queue \in Seq(S), queue # <<>>
  PROVE  Head(queue) \in S
  OBVIOUS

LEMMA TransmitNotOwn ==
  ASSUME TypeOK, OutLinks(FALSE), NotOwn, NEW n \in Node, Transmit(n)
  PROVE  NotOwn'
  <1>1. PICK p : p = Head(txQueue[n])
    OBVIOUS
  <1>2. p.PrevHopID = n
    <2>1. txQueue[n] \in Seq(Sent(n, FALSE)) /\ txQueue[n] # <<>>
      BY DEF OutLinks, Transmit
    <2>2. p \in Sent(n, FALSE)
      BY <1>1, <2>1, HeadIn
    <2> QED
      BY <2>2 DEF Sent
  <1>3. messages \in [Node -> Seq(Packet)]
    BY DEF TypeOK
  <1>4. ASSUME NEW m \in Node, NEW q \in Packet, In(q, messages'[m])
        PROVE  q.PrevHopID # m
    <2>1. \/ messages'[m] = messages[m]
          \/ m # n /\ messages'[m] = Append(messages[m], p)
      BY <1>1 DEF Transmit, Reach
    <2>2. messages[m] \in Seq(Packet)
      BY <1>3
    <2>3. CASE messages'[m] = messages[m]
      BY <1>4, <2>3 DEF NotOwn
    <2>4. CASE m # n /\ messages'[m] = Append(messages[m], p)
      <3>1. In(q, messages[m]) \/ q = p
        BY <1>4, <2>2, <2>4 DEF In
      <3> QED
        BY <1>2, <2>4, <3>1 DEF NotOwn
    <2> QED
      BY <2>1, <2>3, <2>4
  <1> QED
    BY <1>4 DEF NotOwn

LEMMA NextNotOwn ==
  ASSUME TypeOK, OutLinks(FALSE), NotOwn, [Next]_vars
  PROVE  NotOwn'
  <1>1. CASE UNCHANGED vars
    BY <1>1 DEF vars, NotOwn, In
  <1>2. ASSUME NEW n \in Node, HandleMessage(n)
        PROVE  \E type : Receive(n, type)
    BY Zenon, <1>2 DEF HandleMessage, HandleBroadcastInfo, HandleRREQ,
       HandleRREP, HandleRERR, HandleDataAck, HandleData, HandleUserMessage,
       HandleUREQ, HandleUREP, HandleUERR
  <1>3. ASSUME NEW n \in Node,
               \/ Start(n) \/ FlushStep(n) \/ BroadcastTick(n) \/ Stop(n)
               \/ PendingTxChecker(n) \/ RegisterPending(n) \/ Application(n)
        PROVE  UNCHANGED messages
    BY <1>3 DEF Start, FlushStep, BroadcastTick, Stop, PendingTxChecker,
       CheckerTick, CheckerRetry, CheckerGiveUp, CheckerDone, RegisterPending,
       Application, CallSendData, CallSendUserMessage, MoveUser, Leave
  <1> QED
    BY <1>1, <1>2, <1>3, NothingOwnArrives, TransmitNotOwn
    DEF Next, NodeGoroutine

(* The steps that make no copy and acknowledge nothing.                    *)

\* The types of packets that no step below is about.
OtherTypes == PacketType \ {"DATA", "USER_MSG", "ACK"}

\* What a step adds to the copies is in pkts.
CopiesIn(pkts) ==
    /\ \A q \in Air' :
          \/ q \in Air \cup pkts
          \/ HeldAnywhere(q)
          \/ q.PacketType \notin {"DATA", "USER_MSG"}
    /\ \A m \in Node : \A tx \in Held(m)' :
          HeldAnywhere(tx.Pkt) \/ tx.Pkt \in pkts

LEMMA CopiesAre ==
  ASSUME NEW pkts, CopiesIn(pkts), NEW q \in Copies'
  PROVE  q \in Copies \/ q \in pkts
  <1>1. /\ q \in Packet /\ q.PacketType \in {"DATA", "USER_MSG"}
        /\ q \in Air' \/ \E m \in Node : \E tx \in Held(m)' : tx.Pkt = q
    BY DEF Copies, HeldAnywhere
  <1> QED
    BY <1>1 DEF CopiesIn, Copies

HeldKept == \A m \in Node : \A tx \in Held(m)' : HeldAnywhere(tx.Pkt)

LEMMA HeldIsHeld ==
  ASSUME \A m \in Node : Held(m)' \subseteq Held(m)
  PROVE  HeldKept
  BY DEF HeldKept, HeldAnywhere

LEMMA RemovedHeld ==
  ASSUME TypeOK, NEW n \in Node,
         \/ UNCHANGED pendingTxs
         \/ \E ids : pendingTxs' =
                        [pendingTxs EXCEPT ![n] = WithoutPending(n, ids)],
         UNCHANGED registering, UNCHANGED expired
  PROVE  HeldKept
  <1>1. pendingTxs \in [Node -> SUBSET PendingTx]
    BY DEF TypeOK
  <1>2. \A m \in Node : pendingTxs'[m] \subseteq pendingTxs[m]
    BY <1>1 DEF WithoutPending
  <1>3. \A m \in Node : Held(m)' \subseteq Held(m)
    BY <1>2 DEF Held
  <1> QED
    BY <1>3, HeldIsHeld

LEMMA OtherStep ==
  ASSUME NEW n \in Node, KeepsSeen, NumbersGrow, AddsTypes(OtherTypes),
         HeldKept, UNCHANGED acked
  PROVE  AckStep(n)
  <1>1. CopiesIn({})
    BY DEF AddsTypes, OtherTypes, CopiesIn, HeldKept
  <1>2. CopiesStep(n)
    BY <1>1, CopiesAre DEF CopiesStep
  <1>3. AcksStep(n)
    BY DEF AcksStep, Acks, AddsTypes, OtherTypes
  <1>4. AckedStep
    BY DEF AckedStep
  <1> QED
    BY <1>2, <1>3, <1>4 DEF AckStep

LEMMA AnnounceTypes ==
  ASSUME TypeOK, NEW n \in Node, SendDiffBroadcastInfo(n), UNCHANGED messages
  PROVE  AddsTypes(OtherTypes)
  <1>1. ASSUME NEW added, NEW removed,
               Enqueue(n, <<CreateDiffBroadcastInfoPacket(n, n, added, removed,
                               0, FreshID(n, 0))>>, 1)
        PROVE  AddsTypes(OtherTypes)
    <2>1. CreateDiffBroadcastInfoPacket(n, n, added, removed, 0,
             FreshID(n, 0)).PacketType \in OtherTypes
      BY DEF CreateDiffBroadcastInfoPacket, OtherTypes, PacketType
    <2> QED
      BY <1>1, <2>1, AirOneOf
  <1>2. CASE UNCHANGED txQueue
    BY <1>2, AirNone, AirNoneOf
  <1> QED
    BY <1>1, <1>2 DEF SendDiffBroadcastInfo, out

LEMMA HandleBroadcastInfoTypes ==
  ASSUME TypeOK, NEW n \in Node, HandleBroadcastInfo(n)
  PROVE  AddsTypes(OtherTypes)
  <1>1. \E type : Receive(n, type)
    BY DEF HandleBroadcastInfo
  <1>2. CASE UNCHANGED txQueue
    BY <1>1, <1>2, AirNone, AirNoneOf
  <1>3. ASSUME NEW origin, NEW added, NEW removed, NEW hops, NEW pid,
               Enqueue(n, <<CreateDiffBroadcastInfoPacket(n, origin, added,
                               removed, hops, pid)>>, 0)
        PROVE  AddsTypes(OtherTypes)
    <2>1. CreateDiffBroadcastInfoPacket(n, origin, added, removed, hops,
             pid).PacketType \in OtherTypes
      BY DEF CreateDiffBroadcastInfoPacket, OtherTypes, PacketType
    <2> QED
      BY <1>1, <1>3, <2>1, AirOneOf
  <1> QED
    BY <1>2, <1>3 DEF HandleBroadcastInfo, out

LEMMA HandleUREQTypes ==
  ASSUME TypeOK, NEW n \in Node, HandleUREQ(n)
  PROVE  AddsTypes({"UREQ", "UREP"})
  <1>1. \E type : Receive(n, type)
    BY Zenon DEF HandleUREQ
  <1>2. CASE UNCHANGED txQueue
    BY <1>1, <1>2, AirNone, AirNoneOf
  <1>3. ASSUME NEW to, NEW origin, NEW home, NEW user, NEW hops,
               Enqueue(n, <<CreateUREPPacket(n, to, origin, home, user, hops,
                                             FreshID(n, 0))>>, 1)
        PROVE  AddsTypes({"UREQ", "UREP"})
    BY <1>1, <1>3, AirOneOf, NewPacketTypes
  <1>4. ASSUME NEW origin, NEW user, NEW hops, NEW pid,
               Enqueue(n, <<CreateUREQPacket(n, origin, user, hops, pid)>>, 0)
        PROVE  AddsTypes({"UREQ", "UREP"})
    BY <1>1, <1>4, AirOneOf, NewPacketTypes
  <1> QED
    BY Zenon, <1>2, <1>3, <1>4 DEF HandleUREQ, out

LEMMA HandleUREPTypes ==
  ASSUME TypeOK, NEW n \in Node, HandleUREP(n)
  PROVE  AddsTypes({"UREP"})
  <1>1. \E type : Receive(n, type)
    BY Zenon DEF HandleUREP
  <1>2. CASE UNCHANGED txQueue
    BY <1>1, <1>2, AirNone, AirNoneOf
  <1>3. ASSUME NEW to, NEW origin, NEW home, NEW user, NEW hops, NEW pid,
               Enqueue(n, <<CreateUREPPacket(n, to, origin, home, user, hops,
                                             pid)>>, 0)
        PROVE  AddsTypes({"UREP"})
    BY <1>1, <1>3, AirOneOf, NewPacketTypes
  <1> QED
    BY Zenon, <1>2, <1>3 DEF HandleUREP, out

LEMMA QuietHandlerAcks ==
  ASSUME TypeOK, NEW n \in Node, KeepsSeen, NumbersGrow,
         \/ HandleBroadcastInfo(n) \/ HandleRREQ(n) \/ HandleRREP(n)
         \/ HandleRERR(n) \/ HandleUREQ(n) \/ HandleUREP(n) \/ HandleUERR(n)
  PROVE  AckStep(n)
  <1>1. AddsTypes(OtherTypes)
    BY HandleBroadcastInfoTypes, HandleRREQTypes, HandleRREPTypes,
       HandleRERRTypes, HandleUREQTypes, HandleUREPTypes, HandleUERRTypes
    DEF AddsTypes, OtherTypes, PacketType
  <1>2. UNCHANGED <<acked, registering, expired>>
    BY Zenon DEF HandleBroadcastInfo, HandleRREQ, HandleRREP, HandleRERR,
       HandleUREQ, HandleUREP, HandleUERR, HandlerFrame, history, checker
  <1>3. \/ UNCHANGED pendingTxs
        \/ \E ids : pendingTxs' =
                       [pendingTxs EXCEPT ![n] = WithoutPending(n, ids)]
    BY Zenon DEF HandleBroadcastInfo, HandleRREQ, HandleRREP, HandleRERR,
       HandleUREQ, HandleUREP, HandleUERR
  <1>4. HeldKept
    BY <1>2, <1>3, RemovedHeld
  <1> QED
    BY <1>1, <1>2, <1>4, OtherStep

LEMMA QuietAcks ==
  ASSUME TypeOK, NEW n \in Node, KeepsSeen, NumbersGrow,
         \/ Start(n) \/ BroadcastTick(n) \/ MoveUser(n) \/ Leave(n) \/ Stop(n)
         \/ Transmit(n) \/ CheckerTick(n) \/ CheckerGiveUp(n) \/ CheckerDone(n)
         \/ RegisterPending(n)
  PROVE  AckStep(n)
  <1>1. AddsTypes(OtherTypes)
    <2>1. ASSUME Start(n) \/ BroadcastTick(n)
          PROVE  AddsTypes(OtherTypes)
      BY <2>1, AnnounceTypes DEF Start, BroadcastTick
    <2> QED
      BY <2>1, QuietStep, GiveUpTypes
      DEF Adds, AddsTypes, OtherTypes, PacketType
  <1>2. UNCHANGED acked
    BY DEF Start, BroadcastTick, MoveUser, Leave, Stop, Transmit, CheckerTick,
       CheckerGiveUp, CheckerDone, RegisterPending, history
  <1>3. /\ pendingTxs \in [Node -> SUBSET PendingTx]
        /\ registering \in [Node -> SUBSET PendingTx]
        /\ expired \in [Node -> SUBSET PendingTx]
    BY DEF TypeOK
  <1>4. \A m \in Node : Held(m)' \subseteq Held(m)
    <2>1. ASSUME \/ Start(n) \/ BroadcastTick(n) \/ MoveUser(n) \/ Leave(n)
                 \/ Stop(n) \/ Transmit(n)
          PROVE  UNCHANGED <<pendingTxs, registering, expired>>
      BY <2>1 DEF Start, BroadcastTick, MoveUser, Leave, Stop, Transmit, checker
    <2>2. CASE CheckerTick(n)
      BY <1>3, <2>2 DEF CheckerTick, Held
    <2>3. CASE CheckerGiveUp(n)
      BY <1>3, <2>3 DEF CheckerGiveUp, Held
    <2>4. CASE CheckerDone(n)
      BY <1>3, <2>4 DEF CheckerDone, Held, WithoutPending
    <2>5. CASE RegisterPending(n)
      BY <1>3, <2>5 DEF RegisterPending, Held, PutPending, WithoutPending,
         checker
    <2> QED
      BY <2>1, <2>2, <2>3, <2>4, <2>5 DEF Held
  <1> QED
    BY <1>1, <1>2, <1>4, HeldIsHeld, OtherStep

(* Retries and new packets.                                                *)

LEMMA RetryAcks ==
  ASSUME TypeOK, PendingLinks, NEW n \in Node, KeepsSeen, NumbersGrow,
         CheckerRetry(n)
  PROVE  AckStep(n)
  <1>0. PICK tx \in expired[n] :
           /\ expired' = [expired EXCEPT ![n] = @ \ {tx}]
           /\ pendingTxs' = [pendingTxs EXCEPT ![n] = PutPending(n, Retried(tx))]
           /\ \/ UNCHANGED txQueue
              \/ Enqueue(n, <<tx.Pkt>>, 0)
              \/ Enqueue(n, <<CreateRREQPacket(n, tx.Dest, n, 0,
                                               FreshID(n, 0))>>, 1)
    BY DEF CheckerRetry, out
  <1>1. UNCHANGED messages /\ UNCHANGED acked /\ UNCHANGED registering
    BY DEF CheckerRetry, history
  <1>2. HeldAnywhere(tx.Pkt)
    BY DEF HeldAnywhere, Held
  <1>3. \A m \in Node : \A t \in Held(m)' : HeldAnywhere(t.Pkt)
    <2>1. /\ pendingTxs \in [Node -> SUBSET PendingTx]
          /\ expired \in [Node -> SUBSET PendingTx]
      BY DEF TypeOK
    <2>2. Retried(tx).Pkt = tx.Pkt
      <3>1. tx \in PendingTx
        BY <2>1
      <3> QED
        BY <3>1 DEF Retried, PendingTx
    <2>3. \A m \in Node : \A t \in Held(m)' :
             t \in Held(m) \/ t = Retried(tx)
      BY <1>0, <1>1, <2>1 DEF Held, PutPending, WithoutPending
    <2> QED
      BY <1>2, <2>2, <2>3 DEF HeldAnywhere
  <1>4. \A q \in Air' : q \in Air \/ q = tx.Pkt \/ q.PacketType = "RREQ"
    <2>1. CASE UNCHANGED txQueue
      BY <1>1, <2>1, AirNone DEF Adds
    <2>2. ASSUME NEW pkt, NEW fresh, Enqueue(n, <<pkt>>, fresh)
          PROVE  \A q \in Air' : q \in Air \/ q = pkt
      BY <1>1, <2>2, AirOne DEF Adds
    <2> QED
      BY <1>0, <2>1, <2>2, NewPacketTypes
  <1>5. CopiesIn({})
    BY <1>2, <1>3, <1>4 DEF CopiesIn
  <1>6. CopiesStep(n)
    BY <1>5, CopiesAre DEF CopiesStep
  <1>7. AcksStep(n)
    <2>1. tx.Pkt.PacketType # "ACK"
      BY DEF PendingLinks, Tracked
    <2> QED
      BY <1>4, <2>1 DEF AcksStep, Acks
  <1>8. AckedStep
    BY <1>1 DEF AckedStep
  <1> QED
    BY <1>6, <1>7, <1>8 DEF AckStep

\* A send makes at most one copy, with an identifier of its own.
Sends(n) ==
    /\ UNCHANGED messages
    /\ \/ /\ AddsTypes(OtherTypes)
          /\ HeldKept
       \/ \E pkt : /\ Adds({pkt})
                   /\ pkt.PacketType # "ACK"
                   /\ Created(n, pkt)
                   /\ \A m \in Node : \A tx \in Held(m)' :
                         HeldAnywhere(tx.Pkt) \/ tx.Pkt = pkt

LEMMA SendAcks ==
  ASSUME TypeOK, NEW n \in Node, KeepsSeen, NumbersGrow, Sends(n),
         UNCHANGED acked
  PROVE  AckStep(n)
  <1>1. ASSUME NEW pkt, Adds({pkt}), pkt.PacketType # "ACK", Created(n, pkt),
               \A m \in Node : \A tx \in Held(m)' :
                  HeldAnywhere(tx.Pkt) \/ tx.Pkt = pkt
        PROVE  AckStep(n)
    <2>1. CopiesIn({pkt})
      BY <1>1 DEF CopiesIn, Adds
    <2>2. CopiesStep(n)
      BY <1>1, <2>1, CopiesAre DEF CopiesStep
    <2>3. AcksStep(n)
      BY <1>1 DEF AcksStep, Acks, Adds
    <2>4. AckedStep
      BY DEF AckedStep
    <2> QED
      BY <2>2, <2>3, <2>4 DEF AckStep
  <1> QED
    BY <1>1, OtherStep DEF Sends

\* What is tracked is the packet that was sent.
LEMMA SendAndTrackHeld ==
  ASSUME TypeOK, NEW n \in Node, NEW pkt, NEW dest, NEW inHandler,
         SendAndTrack(n, pkt, dest, inHandler), UNCHANGED expired
  PROVE  \A m \in Node : \A tx \in Held(m)' :
            HeldAnywhere(tx.Pkt) \/ tx.Pkt = pkt
  <1> DEFINE new == NewPendingTx(pkt, dest, pkt.DestNodeID, n)
  <1>1. new.Pkt = pkt
    BY DEF NewPendingTx
  <1>2. /\ pendingTxs \in [Node -> SUBSET PendingTx]
        /\ registering \in [Node -> SUBSET PendingTx]
    BY DEF TypeOK
  <1>3. /\ \/ UNCHANGED pendingTxs
           \/ pendingTxs' = [pendingTxs EXCEPT ![n] = PutPending(n, new)]
        /\ \/ UNCHANGED registering
           \/ registering' = [registering EXCEPT ![n] = @ \cup {new}]
    BY DEF SendAndTrack
  <1> HIDE DEF new
  <1>4. \A m \in Node : \A tx \in Held(m)' : tx \in Held(m) \/ tx = new
    BY <1>2, <1>3 DEF Held, PutPending, WithoutPending
  <1> QED
    BY <1>1, <1>4 DEF HeldAnywhere

LEMMA NumberGiven ==
  ASSUME TypeOK, NEW n \in Node, NEW pkts, Enqueue(n, pkts, 1)
  PROVE  nextID[n] < nextID'[n]
  <1>1. nextID \in [Node -> Nat] /\ nextID' = [nextID EXCEPT ![n] = nextID[n] + 1]
    BY DEF TypeOK, Enqueue
  <1> QED
    BY <1>1

LEMMA OwnRREQOther ==
  ASSUME TypeOK, NEW n \in Node, NEW dest,
         Enqueue(n, <<CreateRREQPacket(n, dest, n, 0, FreshID(n, 0))>>, 1),
         UNCHANGED messages
  PROVE  AddsTypes(OtherTypes)
  <1>1. AddsTypes({"RREQ"})
    BY AirOneOf, NewPacketTypes
  <1> QED
    BY <1>1 DEF AddsTypes, OtherTypes, PacketType

LEMMA SendDataSends ==
  ASSUME TypeOK, LinkInv(FALSE), NEW n \in Node, NEW dest, NEW flags,
         NEW inHandler, SendData(n, dest, flags, inHandler),
         UNCHANGED messages, UNCHANGED expired
  PROVE  Sends(n)
  <1> DEFINE Copy(hop) == CreateDataPacket(n, n, dest, hop, 0, flags,
                                           FreshID(n, 0))
  <1>1. \A hop : /\ Copy(hop).PacketType # "ACK" /\ Copy(hop).PrevHopID = n
                 /\ Copy(hop).PacketID = FreshID(n, 0)
                 /\ Copy(hop).DestNodeID = hop
    BY DEF CreateDataPacket
  <1> HIDE DEF Copy
  <1>b. brokenNodes[n] \subseteq Node
    BY DEF TypeOK
  <1>2. CASE dest = BROADCAST_ADDR
    <2>1. /\ seenMsgIDs' = [seenMsgIDs EXCEPT ![n] = @ \cup {FreshID(n, 0)}]
          /\ Enqueue(n, <<Copy(BROADCAST_ADDR)>>, 1)
          /\ UNCHANGED pendingTxs /\ UNCHANGED registering
      BY <1>2, IDsAssumption, <1>b DEF SendData, Copy
    <2>2. FreshID(n, 0) \in seenMsgIDs'[n]
      BY <2>1 DEF TypeOK
    <2>3. Created(n, Copy(BROADCAST_ADDR))
      BY <1>1, <2>1, <2>2, NumberGiven DEF Created
    <2>4. HeldKept
      BY <2>1, RemovedHeld
    <2>5. Adds({Copy(BROADCAST_ADDR)})
      BY <2>1, AirOne
    <2> QED
      BY <1>1, <2>3, <2>4, <2>5 DEF Sends, HeldKept
  <1>3. CASE dest \in Node /\ HasRoute(n, dest) /\ dest \notin brokenNodes[n]
    <2>1. PICK hop : hop = RouteTable[n][dest].NextHop
      OBVIOUS
    <2>2. hop \in Node
      BY <1>3, <2>1, RouteLinks DEF LinkInv
    <2>3. SendAndTrack(n, Copy(hop), dest, inHandler)
      BY <1>3, <2>1, IDsAssumption DEF SendData, Copy
    <2>4. Enqueue(n, <<Copy(hop)>>, 1)
      BY <2>3 DEF SendAndTrack
    <2>5. Created(n, Copy(hop))
      BY <1>1, <2>2, <2>4, NumberGiven DEF Created
    <2>6. Adds({Copy(hop)})
      BY <2>4, AirOne
    <2> QED
      BY <1>1, <2>3, <2>5, <2>6, SendAndTrackHeld DEF Sends
  <1>4. CASE UNCHANGED <<pendingTxs, registering, txQueue>>
    BY <1>4, AirNone, AirNoneOf, RemovedHeld DEF Sends
  <1>5. CASE /\ Enqueue(n, <<CreateRREQPacket(n, dest, n, 0, FreshID(n, 0))>>, 1)
             /\ UNCHANGED <<pendingTxs, registering>>
    BY <1>5, OwnRREQOther, RemovedHeld DEF Sends
  <1> QED
    BY <1>2, <1>3, <1>4, <1>5 DEF SendData, QueueAndRequestRoute, out

LEMMA SendUserMessageSends ==
  ASSUME TypeOK, LinkInv(FALSE), NEW n \in Node, NEW from, NEW to \in User,
         NEW flags, NEW inHandler,
         SendUserMessage(n, from, to, flags, inHandler),
         UNCHANGED messages, UNCHANGED expired
  PROVE  Sends(n)
  <1>0. PICK home : home = gut[n][to]
    OBVIOUS
  <1> DEFINE Copy(hop) == CreateUSERMessagePacket(n, n, from, to, home, hop, 0,
                                                  flags, FreshID(n, 0))
  <1>1. \A hop : /\ Copy(hop).PacketType # "ACK" /\ Copy(hop).PrevHopID = n
                 /\ Copy(hop).PacketID = FreshID(n, 0)
                 /\ Copy(hop).DestNodeID = hop
    BY DEF CreateUSERMessagePacket
  <1> HIDE DEF Copy
  <1>2. ASSUME NEW hop \in Node, SendAndTrack(n, Copy(hop), home, inHandler)
        PROVE  Sends(n)
    <2>1. Enqueue(n, <<Copy(hop)>>, 1)
      BY <1>2 DEF SendAndTrack
    <2>2. Created(n, Copy(hop))
      BY <1>1, <2>1, NumberGiven DEF Created
    <2>3. Adds({Copy(hop)})
      BY <2>1, AirOne
    <2>4. \A m \in Node : \A tx \in Held(m)' :
             HeldAnywhere(tx.Pkt) \/ tx.Pkt = Copy(hop)
      BY <1>2, SendAndTrackHeld
    <2>5. Copy(hop).PacketType # "ACK"
      BY <1>1
    <2> QED
      BY <2>2, <2>3, <2>4, <2>5 DEF Sends
  <1>3. CASE home \in Node /\ HasRoute(n, home) /\ home \notin brokenNodes[n]
    <2>1. PICK hop : hop = RouteTable[n][home].NextHop
      OBVIOUS
    <2>2. hop \in Node
      BY <1>3, <2>1, RouteLinks DEF LinkInv
    <2>3. SendAndTrack(n, Copy(hop), home, inHandler)
      BY <1>0, <1>3, <2>1, IDsAssumption DEF SendUserMessage, Copy
    <2> QED
      BY <1>2, <2>2, <2>3
  <1>4. CASE UNCHANGED <<pendingTxs, registering, txQueue>>
    BY <1>4, AirNone, AirNoneOf, RemovedHeld DEF Sends
  <1>5. CASE /\ Enqueue(n, <<CreateRREQPacket(n, home, n, 0, FreshID(n, 0))>>, 1)
             /\ UNCHANGED <<pendingTxs, registering>>
    BY <1>5, OwnRREQOther, RemovedHeld DEF Sends
  <1>6. CASE /\ Enqueue(n, <<CreateUREQPacket(n, n, to, 0, FreshID(n, 0))>>, 1)
             /\ UNCHANGED <<pendingTxs, registering>>
    <2>1. AddsTypes({"UREQ"})
      BY <1>6, AirOneOf, NewPacketTypes
    <2> QED
      BY <1>6, <2>1, RemovedHeld
      DEF Sends, AddsTypes, OtherTypes, PacketType
  <1> QED
    BY <1>0, <1>3, <1>4, <1>5, <1>6
    DEF SendUserMessage, QueueAndRequestRoute, out

LEMMA CallAcks ==
  ASSUME TypeOK, LinkInv(FALSE), NEW n \in Node, KeepsSeen, NumbersGrow,
         CallSendData(n) \/ CallSendUserMessage(n)
  PROVE  AckStep(n)
  <1>1. PICK c : c = calls[made + 1]
    OBVIOUS
  <1>2. UNCHANGED messages /\ UNCHANGED expired /\ UNCHANGED acked
    BY DEF CallSendData, CallSendUserMessage, checker, history
  <1>3. CASE CallSendData(n)
    <2>1. SendData(n, c.dest, c.flags, FALSE)
      BY <1>1, <1>3 DEF CallSendData
    <2>2. Sends(n)
      BY <1>2, <2>1, SendDataSends
    <2> QED
      BY <1>2, <2>2, SendAcks
  <1>4. CASE CallSendUserMessage(n)
    <2>1. /\ Make(n, "SendUserMessage")
          /\ SendUserMessage(n, c.from, c.to, c.flags, FALSE)
      BY <1>1, <1>4 DEF CallSendUserMessage
    <2>2. /\ c \in DataCall \cup UserCall \cup UserMove \cup Departure
          /\ c.call = "SendUserMessage"
      BY <1>1, <2>1, MadeCall
    <2>3. c.to \in User
      BY <2>2 DEF DataCall, UserCall, UserMove, Departure
    <2>4. Sends(n)
      BY <1>2, <2>1, <2>3, SendUserMessageSends
    <2> QED
      BY <1>2, <2>4, SendAcks
  <1> QED
    BY <1>3, <1>4

LEMMA FlushAcks ==
  ASSUME TypeOK, LinkInv(FALSE), NEW n \in Node, KeepsSeen, NumbersGrow,
         FlushStep(n)
  PROVE  AckStep(n)
  <1>1. PICK e : e = Head(flushing[n])
    OBVIOUS
  <1>2. UNCHANGED messages /\ UNCHANGED expired /\ UNCHANGED acked
    BY DEF FlushStep, checker, history
  <1>3. flushing[n] \in Seq(QueuedSend) /\ flushing[n] # <<>>
    BY DEF TypeOK, FlushStep
  <1>4. e \in QueuedSend
    BY <1>1, <1>3, HeadIn
  <1>5. CASE e.packetType = "DATA"
    <2>1. SendData(n, e.dest, e.flags, TRUE)
      BY <1>1, <1>5 DEF FlushStep
    <2>2. Sends(n)
      BY <1>2, <2>1, SendDataSends
    <2> QED
      BY <1>2, <2>2, SendAcks
  <1>6. CASE e.packetType # "DATA"
    <2>1. SendUserMessage(n, e.from, e.to, e.flags, TRUE)
      BY <1>1, <1>6 DEF FlushStep
    <2>2. e.to \in User
      BY <1>4, <1>6 DEF QueuedSend
    <2>3. Sends(n)
      BY <1>2, <2>1, <2>2, SendUserMessageSends
    <2> QED
      BY <1>2, <2>3, SendAcks
  <1> QED
    BY <1>5, <1>6

(* Acknowledgements, explicit and implicit.                                *)

LEMMA Acknowledged ==
  ASSUME TypeOK, NEW n \in Node, NEW id, Acknowledge(n, {id}), HeardOf(n, id)
  PROVE  AckedStep
  <1>1. acked \in [Node -> SUBSET [MsgID : PacketID, NextHop : Node]]
    BY DEF TypeOK
  <1> DEFINE new == {[MsgID |-> tx.MsgID, NextHop |-> tx.NextHop] :
                        tx \in {t \in pendingTxs[n] : t.MsgID \in {id}}}
  <1>2. acked' = [acked EXCEPT ![n] = @ \cup new]
    BY DEF Acknowledge
  <1>3. \A e \in new : /\ e.MsgID = id
                       /\ \E tx \in pendingTxs[n] : /\ tx.MsgID = e.MsgID
                                                    /\ tx.NextHop = e.NextHop
    OBVIOUS
  <1> HIDE DEF new
  <1>4. \A m \in Node : \A e \in acked'[m] :
           e \in acked[m] \/ (m = n /\ e \in new)
    BY <1>1, <1>2
  <1> QED
    BY <1>3, <1>4 DEF AckedStep

LEMMA HandleDataAckAcks ==
  ASSUME TypeOK, NEW n \in Node, KeepsSeen, NumbersGrow, HandleDataAck(n)
  PROVE  AckStep(n)
  <1>1. PICK p : p = Head(messages[n])
    OBVIOUS
  <1>2. p \in Acks
    BY <1>1, AirReceived DEF HandleDataAck, Acks
  <1>3. UNCHANGED registering /\ UNCHANGED expired
    BY DEF HandleDataAck, HandlerFrame, checker
  <1>4. \/ UNCHANGED pendingTxs
        \/ \E ids : pendingTxs' =
                       [pendingTxs EXCEPT ![n] = WithoutPending(n, ids)]
    BY DEF HandleDataAck
  <1>5. HeldKept
    BY <1>3, <1>4, RemovedHeld
  <1>6. Adds({})
    BY QuietStep
  <1>7. CopiesStep(n)
    <2>1. CopiesIn({})
      BY <1>5, <1>6 DEF CopiesIn, HeldKept, Adds
    <2> QED
      BY <2>1, CopiesAre DEF CopiesStep
  <1>8. AcksStep(n)
    BY <1>6 DEF Adds, AcksStep, Acks
  <1>9. AckedStep
    <2>1. UNCHANGED acked \/ Acknowledge(n, {p.OriginalPacketID})
      BY <1>1 DEF HandleDataAck
    <2>2. HeardOf(n, p.OriginalPacketID)
      BY <1>2 DEF HeardOf
    <2> QED
      BY <2>1, <2>2, Acknowledged DEF AckedStep
  <1> QED
    BY <1>7, <1>8, <1>9 DEF AckStep

LEMMA HeardCopy ==
  ASSUME TypeOK, NotOwn, NEW n \in Node, NEW type \in {"DATA", "USER_MSG"},
         Receive(n, type), NEW p, p = Head(messages[n])
  PROVE  /\ p \in Copies /\ p \in Packet /\ p.PacketType = type
         /\ HeardOf(n, p.PacketID)
  <1>1. p \in Air /\ p \in Packet /\ p.PacketType = type
    BY AirReceived
  <1>2. messages \in [Node -> Seq(Packet)] /\ messages[n] # <<>>
    BY DEF TypeOK, Receive
  <1>3. In(p, messages[n])
    <2>1. 1 \in DOMAIN messages[n] /\ messages[n][1] = p
      BY <1>2
    <2> QED
      BY <2>1 DEF In
  <1>4. p.PrevHopID # n
    BY <1>1, <1>3 DEF NotOwn
  <1>5. p \in Copies
    BY <1>1 DEF Copies
  <1> QED
    BY <1>1, <1>4, <1>5 DEF HeardOf

\* The handler answers, if at all, what was for n and was processed.
LEMMA AnswerAcks ==
  ASSUME TypeOK, NEW n \in Node, NEW p, KeepsSeen, NumbersGrow, HeldKept,
         AckedStep,
         \A q \in Air' : \/ q \in Air
                         \/ q.PacketType \in OtherTypes
                         \/ q \in AcksOf(n, p) /\ Reached(n, p.PacketID)
  PROVE  AckStep(n)
  <1>1. CopiesStep(n)
    <2>1. CopiesIn({})
      BY DEF CopiesIn, HeldKept, OtherTypes, AcksOf
    <2> QED
      BY <2>1, CopiesAre DEF CopiesStep
  <1>2. AcksStep(n)
    BY DEF AcksStep, Acks, OtherTypes, AcksOf
  <1> QED
    BY <1>1, <1>2 DEF AckStep

LEMMA SentAnswers ==
  ASSUME TypeOK, NEW n \in Node, NEW p, NEW S, NEW pkts \in Seq(S), NEW fresh,
         \A q \in S : q.PacketType \in OtherTypes \/ q \in AcksOf(n, p),
         Enqueue(n, pkts, fresh), \E type : Receive(n, type),
         Reached(n, p.PacketID)
  PROVE  \A q \in Air' : \/ q \in Air
                         \/ q.PacketType \in OtherTypes
                         \/ q \in AcksOf(n, p) /\ Reached(n, p.PacketID)
  <1>1. \A i \in DOMAIN pkts :
           pkts[i].PacketType \in OtherTypes \/ pkts[i] \in AcksOf(n, p)
    OBVIOUS
  <1>2. Adds({pkts[i] : i \in DOMAIN pkts})
    BY AirEnqueued
  <1> QED
    BY <1>1, <1>2 DEF Adds

\* A copy goes on, and may be tracked.
LEMMA ForwardAcks ==
  ASSUME TypeOK, NEW n \in Node, KeepsSeen, NumbersGrow, AckedStep,
         \E type : Receive(n, type), NEW copy, NEW dest, NEW origin,
         Forward(n, copy, dest, origin), copy.PacketType # "ACK",
         copy.PrevHopID = n, Reached(n, copy.PacketID),
         UNCHANGED registering, UNCHANGED expired
  PROVE  AckStep(n)
  <1> DEFINE new == NewPendingTx(copy, dest, copy.DestNodeID, origin)
  <1>1. new.Pkt = copy
    BY DEF NewPendingTx
  <1>2. pendingTxs \in [Node -> SUBSET PendingTx]
    BY DEF TypeOK
  <1>3. \A m \in Node : pendingTxs'[m] \subseteq pendingTxs[m] \cup {new}
    BY <1>2 DEF Forward, WithoutPending
  <1> HIDE DEF new
  <1>4. \A m \in Node : \A tx \in Held(m)' : tx \in Held(m) \/ tx = new
    BY <1>3 DEF Held
  <1>5. Adds({copy})
    BY AirOne DEF Forward
  <1>6. CopiesStep(n)
    <2>1. CopiesIn({copy})
      BY <1>1, <1>4, <1>5 DEF CopiesIn, HeldAnywhere, Adds
    <2>2. Relayed(n, copy)
      BY DEF Relayed
    <2> QED
      BY <2>1, <2>2, CopiesAre DEF CopiesStep
  <1>7. AcksStep(n)
    BY <1>5 DEF AcksStep, Acks, Adds
  <1> QED
    BY <1>6, <1>7 DEF AckStep

LEMMA ReportSent ==
  ASSUME TypeOK, NEW n \in Node, NEW p, NEW dest, ReportNoRoute(n, p, dest),
         \E type : Receive(n, type)
  PROVE  AddsTypes({"RERR"})
  BY AirOneOf, NewPacketTypes DEF ReportNoRoute, sendRERR

LEMMA HandleDataAcks ==
  ASSUME TypeOK, NotOwn, NEW n \in Node, KeepsSeen, NumbersGrow, HandleData(n)
  PROVE  AckStep(n)
  <1>1. PICK p : p = Head(messages[n])
    OBVIOUS
  <1>r. Receive(n, "DATA")
    BY DEF HandleData
  <1>2. /\ p \in Copies /\ p \in Packet /\ p.PacketType = "DATA"
        /\ HeardOf(n, p.PacketID)
    BY <1>1, <1>r, HeardCopy
  <1>3. PICK dest \in Node \cup {BROADCAST_ADDR} : dest = p.FinalDestID
    <2>1. p \in DataFormat
      BY <1>2, PacketFormat
    <2> QED
      BY <2>1 DEF DataFormat
  <1> DEFINE mine == p.DestNodeID \in {n, BROADCAST_ADDR}
             overheard == [pendingTxs EXCEPT
                              ![n] = WithoutPending(n, {p.PacketID})]
             Answered == \A q \in Air' :
                            \/ q \in Air
                            \/ q.PacketType \in OtherTypes
                            \/ q \in AcksOf(n, p) /\ Reached(n, p.PacketID)
  <1>4. UNCHANGED registering /\ UNCHANGED expired
    BY DEF HandleData, HandlerFrame, checker
  <1>5. AckedStep
    BY <1>1, <1>2, Acknowledged DEF HandleData
  <1>6. mine /\ (Seen(n, p) \/ addSeenPacket(n, p)) => Reached(n, p.PacketID)
    BY <1>2, addSeenPacketKeeps DEF Reached, Seen, KeepsSeen
  <1>7. pendingTxs' = overheard /\ Answered => AckStep(n)
    BY <1>4, <1>5, RemovedHeld, AnswerAcks
  <1>8. AddsTypes({"RERR"}) \/ UNCHANGED txQueue => Answered
    <2>1. UNCHANGED txQueue => Adds({})
      BY <1>r, AirNone
    <2> QED
      BY <2>1 DEF Adds, AddsTypes, OtherTypes, PacketType
  <1>9. ASSUME mine, Seen(n, p) \/ addSeenPacket(n, p),
               NEW acks \in {DuplicateAcks(n, p, dest), FinalAck(n, p, dest)},
               Enqueue(n, acks, Len(acks))
        PROVE  Answered
    <2>1. acks \in Seq(AcksOf(n, p))
      BY <1>2, AcksSent
    <2> QED
      BY <1>r, <1>6, <1>9, <2>1, SentAnswers
  <1>10. ASSUME mine, addSeenPacket(n, p), NEW hop, NEW flags, NEW origin,
                Forward(n, CreateDataPacket(origin, n, dest, hop,
                              p.HopCount + 1, flags, p.PacketID),
                        dest, origin)
         PROVE  AckStep(n)
    <2> DEFINE copy == CreateDataPacket(origin, n, dest, hop, p.HopCount + 1,
                                        flags, p.PacketID)
    <2>1. /\ copy.PacketType # "ACK" /\ copy.PrevHopID = n
          /\ copy.PacketID = p.PacketID
      BY DEF CreateDataPacket
    <2>2. Forward(n, copy, dest, origin)
      BY <1>10
    <2> HIDE DEF copy
    <2> QED
      BY <1>r, <1>4, <1>5, <1>6, <1>10, <2>1, <2>2, ForwardAcks
  <1>11. ASSUME mine, addSeenPacket(n, p), NEW origin, pendingTxs' = overheard,
                Enqueue(n, <<CreateDataPacket(origin, n, dest, NullID,
                                p.HopCount + 1, NoFlags, p.PacketID)>>, 0)
         PROVE  AckStep(n)
    <2> DEFINE copy == CreateDataPacket(origin, n, dest, NullID,
                                        p.HopCount + 1, NoFlags, p.PacketID)
    <2>1. /\ copy.PacketType # "ACK" /\ copy.PrevHopID = n
          /\ copy.PacketID = p.PacketID
      BY DEF CreateDataPacket
    <2>2. Enqueue(n, <<copy>>, 0)
      BY <1>11
    <2> HIDE DEF copy
    <2>3. Adds({copy})
      BY <1>r, <2>2, AirOne
    <2>4. Relayed(n, copy)
      BY <1>6, <1>11, <2>1 DEF Relayed
    <2>5. HeldKept
      BY <1>4, <1>11, RemovedHeld
    <2>6. CopiesIn({copy})
      BY <2>3, <2>5 DEF CopiesIn, HeldKept, Adds
    <2>7. CopiesStep(n)
      BY <2>4, <2>6, CopiesAre DEF CopiesStep
    <2>8. AcksStep(n)
      BY <2>1, <2>3 DEF AcksStep, Acks, Adds
    <2> QED
      BY <1>5, <2>7, <2>8 DEF AckStep
  <1>12. CASE ~mine
    BY <1>1, <1>7, <1>8, <1>12 DEF HandleData, out
  <1>13. CASE mine /\ Seen(n, p)
    <2>1. PICK acks : acks = DuplicateAcks(n, p, dest)
      OBVIOUS
    <2>2. pendingTxs' = overheard /\ Enqueue(n, acks, Len(acks))
      BY <1>1, <1>3, <1>13, <2>1 DEF HandleData
    <2> QED
      BY <1>7, <1>9, <1>13, <2>1, <2>2
  <1>14. CASE mine /\ ~Seen(n, p)
    <2>1. PICK acks, origin : /\ acks = FinalAck(n, p, dest)
                              /\ origin = p.OriginNodeID
      OBVIOUS
    <2>2. /\ addSeenPacket(n, p)
          /\ \/ /\ pendingTxs' = overheard
                /\ \/ UNCHANGED txQueue
                   \/ Enqueue(n, <<CreateDataPacket(origin, n, dest, NullID,
                                      p.HopCount + 1, NoFlags, p.PacketID)>>, 0)
                   \/ Enqueue(n, acks, Len(acks))
                   \/ ReportNoRoute(n, p, dest)
             \/ \E hop, flags :
                   Forward(n, CreateDataPacket(origin, n, dest, hop,
                                 p.HopCount + 1, flags, p.PacketID),
                           dest, origin)
      BY <1>1, <1>3, <1>14, <2>1 DEF HandleData, out
    <2> QED
      BY <1>r, <1>7, <1>8, <1>9, <1>10, <1>11, <1>14, <2>1, <2>2, ReportSent
  <1> QED
    BY <1>12, <1>13, <1>14

LEMMA HandleUserMessageAcks ==
  ASSUME TypeOK, NotOwn, NEW n \in Node, KeepsSeen, NumbersGrow,
         HandleUserMessage(n)
  PROVE  AckStep(n)
  <1>1. PICK p : p = Head(messages[n])
    OBVIOUS
  <1>r. Receive(n, "USER_MSG")
    BY DEF HandleUserMessage
  <1>2. /\ p \in Copies /\ p \in Packet /\ p.PacketType = "USER_MSG"
        /\ HeardOf(n, p.PacketID)
    BY <1>1, <1>r, HeardCopy
  <1>3. p \in UserMessageFormat
    BY <1>2, PacketFormat
  <1> DEFINE overheard == [pendingTxs EXCEPT
                              ![n] = WithoutPending(n, {p.PacketID})]
             Answered == \A q \in Air' :
                            \/ q \in Air
                            \/ q.PacketType \in OtherTypes
                            \/ q \in AcksOf(n, p) /\ Reached(n, p.PacketID)
             Answers == AcksOf(n, p) \cup {q \in Packet : q.PacketType = "UERR"}
  <1>4. UNCHANGED registering /\ UNCHANGED expired
    BY DEF HandleUserMessage, HandlerFrame, checker
  <1>5. AckedStep
    BY <1>1, <1>2, Acknowledged DEF HandleUserMessage
  <1>6. p.DestNodeID = n /\ (Seen(n, p) \/ addSeenPacket(n, p))
           => Reached(n, p.PacketID)
    BY <1>2, addSeenPacketKeeps DEF Reached, Seen, KeepsSeen
  <1>7. pendingTxs' = overheard /\ Answered => AckStep(n)
    BY <1>4, <1>5, RemovedHeld, AnswerAcks
  <1>8. AddsTypes({"RERR"}) \/ UNCHANGED txQueue => Answered
    <2>1. UNCHANGED txQueue => Adds({})
      BY <1>r, AirNone
    <2> QED
      BY <2>1 DEF Adds, AddsTypes, OtherTypes, PacketType
  <1>9. PICK dest, again, final, absent :
           /\ dest = p.ToNodeID
           /\ again = DuplicateAcks(n, p, dest)
           /\ final = FinalAck(n, p, dest)
           /\ absent = UserNotAtNode(n, p)
    OBVIOUS
  <1>10. /\ again \in Seq(Answers) /\ final \in Seq(Answers)
         /\ final \o absent \in Seq(Answers)
    <2>1. again \in Seq(Answers) /\ final \in Seq(Answers)
      BY <1>2, <1>9, AcksSent
    <2>2. absent \in Seq(Packet)
      BY <1>3, <1>9, UserNotAtNodeType
    <2>3. \A i \in DOMAIN absent : absent[i].PacketType = "UERR"
      BY <1>9, NewPacketTypes DEF UserNotAtNode
    <2>4. \A i \in DOMAIN absent : absent[i] \in Answers
      BY <2>2, <2>3
    <2>5. absent \in Seq(Answers)
      BY <2>2, <2>4, SeqOfThose
    <2> QED
      BY <2>1, <2>5, ConcatProperties
  <1>11. ASSUME p.DestNodeID = n, Seen(n, p) \/ addSeenPacket(n, p),
                NEW pkts \in Seq(Answers), Enqueue(n, pkts, Len(pkts))
         PROVE  Answered
    <2>1. \A q \in Answers : q.PacketType \in OtherTypes \/ q \in AcksOf(n, p)
      BY DEF OtherTypes, PacketType
    <2> QED
      BY <1>r, <1>6, <1>11, <2>1, SentAnswers
  <1>12. ASSUME p.DestNodeID = n, addSeenPacket(n, p), NEW hop, NEW origin,
                NEW from, NEW to,
                Forward(n, CreateUSERMessagePacket(origin, n, from, to, dest,
                              hop, p.HopCount + 1, p.Flags, p.PacketID),
                        dest, origin)
         PROVE  AckStep(n)
    <2> DEFINE copy == CreateUSERMessagePacket(origin, n, from, to, dest, hop,
                           p.HopCount + 1, p.Flags, p.PacketID)
    <2>1. /\ copy.PacketType # "ACK" /\ copy.PrevHopID = n
          /\ copy.PacketID = p.PacketID
      BY DEF CreateUSERMessagePacket
    <2>2. Forward(n, copy, dest, origin)
      BY <1>12
    <2> HIDE DEF copy
    <2> QED
      BY <1>r, <1>4, <1>5, <1>6, <1>12, <2>1, <2>2, ForwardAcks
  <1>13. CASE p.DestNodeID # n
    BY <1>1, <1>7, <1>8, <1>13 DEF HandleUserMessage, out
  <1>14. CASE p.DestNodeID = n
    <2>1. PICK origin, from, to : /\ origin = p.OriginNodeID
                                  /\ from = p.FromUserID
                                  /\ to = p.ToUserID
      OBVIOUS
    <2>2. /\ Seen(n, p) \/ addSeenPacket(n, p)
          /\ \/ /\ pendingTxs' = overheard
                /\ \/ \E pkts \in {again, final, final \o absent} :
                         Enqueue(n, pkts, Len(pkts))
                   \/ ReportNoRoute(n, p, dest)
             \/ /\ addSeenPacket(n, p)
                /\ \E hop : Forward(n, CreateUSERMessagePacket(origin, n, from,
                                          to, dest, hop, p.HopCount + 1,
                                          p.Flags, p.PacketID),
                                    dest, origin)
      BY <1>1, <1>9, <1>14, <2>1 DEF HandleUserMessage
    <2> HIDE DEF Answers, Answered
    <2>3. (\E pkts \in {again, final, final \o absent} :
             Enqueue(n, pkts, Len(pkts))) => Answered
      BY <1>10, <1>11, <1>14, <2>2
    <2>4. ReportNoRoute(n, p, dest) => Answered
      BY <1>r, <1>8, ReportSent
    <2> QED
      BY <1>7, <1>12, <1>14, <2>2, <2>3, <2>4
  <1> QED
    BY <1>13, <1>14

----------------------------------------------------------------------------
(* The theorem.                                                            *)

LEMMA NextAcks ==
  ASSUME TypeOK, TypeOK', LinkInv(FALSE), NotOwn, Next
  PROVE  \E n \in Node : AckStep(n)
  <1>1. KeepsSeen /\ NumbersGrow
    BY NextKeepsSeen, NextNumbers
  <1>2. PendingLinks
    BY DEF LinkInv
  <1>3. ASSUME NEW n \in Node, NodeGoroutine(n)
        PROVE  AckStep(n)
    BY <1>1, <1>3, QuietHandlerAcks, QuietAcks, FlushAcks, HandleDataAckAcks,
       HandleDataAcks, HandleUserMessageAcks DEF NodeGoroutine, HandleMessage
  <1>4. ASSUME NEW n \in Node, PendingTxChecker(n)
        PROVE  AckStep(n)
    BY <1>1, <1>2, <1>4, QuietAcks, RetryAcks DEF PendingTxChecker
  <1>5. ASSUME NEW n \in Node, Application(n)
        PROVE  AckStep(n)
    BY <1>1, <1>5, QuietAcks, CallAcks DEF Application
  <1> QED
    BY <1>1, <1>3, <1>4, <1>5, QuietAcks DEF Next

LEMMA NextAckInv ==
  ASSUME TypeOK, TypeOK', LinkInv(FALSE), AckInv, [Next]_vars
  PROVE  AckInv'
  <1>0. OutLinks(FALSE) /\ PendingLinks
    BY DEF LinkInv
  <1>1. NotOwn'
    BY <1>0, NextNotOwn DEF AckInv
  <1>2. CASE Next
    <2>1. PICK n \in Node : AckStep(n)
      BY <1>2, NextAcks DEF AckInv
    <2> QED
      BY <1>0, <1>1, <2>1, AckStepInv DEF AckInv
  <1>3. CASE UNCHANGED vars
    <2>1. /\ Copies' = Copies /\ Acks' = Acks
          /\ UNCHANGED <<acked, seenMsgIDs, nextID>>
      BY <1>3 DEF vars, out, history, checker, Copies, Acks, Air, In,
         HeldAnywhere, Held
    <2>2. OneFirstHop' /\ IDsGiven'
      BY <2>1 DEF AckInv, OneFirstHop, CameBack, FirstHop, IDsGiven, Given
    <2> QED
      BY <1>1, <2>2 DEF AckInv
  <1> QED
    BY <1>2, <1>3

\* Whatever is lost, late or repeated: when the node that created a packet
\* takes it for acknowledged, the next hop has processed it, or the packet had
\* come back to that node before.
THEOREM AcknowledgedWasProcessed == Spec => []OriginAckSound
  <1>1. Init => AckInv
    <2>1. ASSUME Init
          PROVE  AckInv
      <3>1. Copies = {} /\ Acks = {} /\ acked = [n \in Node |-> {}]
        BY <2>1 DEF Init, Copies, Acks, Air, In, HeldAnywhere, Held
      <3>2. \A pid \in PacketID : pid[1] \in Node
        BY DEF PacketID
      <3>3. OneFirstHop
        BY <3>1, <3>2 DEF OneFirstHop, FirstHop
      <3>4. NotOwn
        BY <2>1 DEF Init, NotOwn, In
      <3> QED
        BY <3>1, <3>3, <3>4 DEF AckInv, IDsGiven
    <2> QED
      BY <2>1
  <1>2. /\ TypeOK /\ TypeOK' /\ LinkInv(FALSE) /\ AckInv /\ [Next]_vars
        => AckInv'
    BY NextAckInv
  <1>3. TypeOK /\ AckInv => OriginAckSound
    <2>1. ASSUME TypeOK, AckInv, NEW n \in Node, NEW e \in acked[n],
                 e.MsgID[1] = n
          PROVE  e.MsgID \in seenMsgIDs[e.NextHop] \cup seenMsgIDs[n]
      <3>1. e.MsgID \in PacketID
        BY <2>1 DEF TypeOK
      <3> QED
        BY <2>1, <3>1 DEF AckInv, OneFirstHop, FirstHop, CameBack
    <2> QED
      BY <2>1 DEF OriginAckSound
  <1> QED
    BY <1>1, <1>2, <1>3, TypeCorrect, LinksStay, PTL DEF Spec

=============================================================================
