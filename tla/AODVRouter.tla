----------------------------- MODULE AODVRouter -----------------------------
(***************************************************************************)
(* The AODV router of internal/routing/aodv.go, one per node, and the      *)
(* shared radio channel reduced to what a router can tell of it: a packet  *)
(* that is transmitted reaches some of the nodes in range of its sender.   *)
(*                                                                         *)
(* Per node there are four kinds of threads:                               *)
(*   - the node goroutine: SendDiffBroadcastInfo once, then HandleMessage  *)
(*     for every packet of the channel `messages';                         *)
(*   - the txWorker, which transmits the packets of txQueue in order;      *)
(*   - runPendingTxChecker, which retries and gives up unacknowledged      *)
(*     packets, working on a snapshot of pendingTxs;                       *)
(*   - the goroutines of the application that call SendData and            *)
(*     SendUserMessage, and the ticker that calls SendDiffBroadcastInfo.   *)
(***************************************************************************)
EXTENDS MeshPackets, Sequences

CONSTANTS
    InRange,         \* InRange[n]: the nodes that hear n (and that n hears)
    ReplyThreshold,  \* reply from a cached route only if it is longer
    RreqHopLimit,    \* hops after which a RREQ is not forwarded
    UreqHopLimit,    \* hops after which a UREQ is not forwarded
    maxRetrans,      \* retransmissions before a packet is given up
    MayMiss,         \* the nodes that may miss a transmission
    NoRoute,         \* no entry of the routing table
    Traffic          \* the sequences of calls from outside

ASSUME RouterAssumption ==
    /\ InRange \in [Node -> SUBSET Node]
    /\ \A m, n \in Node : m \in InRange[n] => n \in InRange[m]
    /\ {ReplyThreshold, RreqHopLimit, UreqHopLimit, maxRetrans} \subseteq Nat
    /\ MayMiss \subseteq Node

Route == [NextHop : Node, HopCount : Nat]

\* NoRoute is not an entry: it is a value of its own.
ASSUME NoRouteAssumption == NoRoute \notin Route

(***************************************************************************)
(* The calls from outside: a behaviour makes those of one of the sequences *)
(* of Traffic, in that order.  A call with `wait' set is made when the     *)
(* mesh is quiet, the others at any time.                                  *)
(***************************************************************************)
DataCall == [call : {"SendData"}, node : Node, wait : BOOLEAN,
             dest : Node \cup {BROADCAST_ADDR}, flags : Flags]
UserCall == [call : {"SendUserMessage"}, node : Node, wait : BOOLEAN,
             from : User, to : User, flags : Flags]
UserMove == [call : {"AddConnectedUser", "RemoveConnectedUser"},
             node : Node, wait : BOOLEAN, user : User]
Departure == [call : {"Leave"}, node : Node, wait : BOOLEAN]

ASSUME TrafficAssumption ==
    Traffic \subseteq Seq(DataCall \cup UserCall \cup UserMove \cup Departure)

VARIABLES
    status,            \* joined, up, leaving or stopped
    connectedUsers,    \* the users attached to the node
    RouteTable,        \* RouteTable[n][d]: the route of n to d, or NoRoute
    seenMsgIDs,        \* the packets n has processed
    dataQueue,         \* dataQueue[n][d]: what waits for a route to d
    userMessageQueue,  \* userMessageQueue[n][u]: what waits for u's home
    pendingTxs,        \* the packets n waits for an acknowledgement of
    brokenNodes,       \* the blacklist
    gut,               \* gut[n][u]: the home of u that n knows of, or NullID
    lastUsersShadow,   \* the users n last announced
    shadowMuHeld,      \* SendDiffBroadcastInfo returned without unlocking
    txQueue,           \* packets on their way to the radio of n
    messages,          \* packets on their way from the radio of n
    flushing,          \* sends the node goroutine makes before its next packet
    registering,       \* entries between `txQueue <-' and pendingMu.Lock
    checking,          \* is runPendingTxChecker in the middle of a tick
    expired,           \* the expired entries of its snapshot, to be visited
    deleteIds,         \* the entries it will delete when the tick ends
    nextID,            \* the number of the next packet n creates
    calls,             \* the sequence of Traffic that this behaviour makes
    made,              \* how many of its calls have been made
    delivered,         \* EventMessageDelivered, in order of publication
    acked              \* what EventReceivedDataAck was published for

env     == <<status, connectedUsers, calls, made>>
queues  == <<dataQueue, userMessageQueue>>
shadow  == <<lastUsersShadow, shadowMuHeld>>
checker == <<checking, expired, deleteIds>>
out     == <<txQueue, nextID>>
history == <<delivered, acked>>

vars == <<env, RouteTable, seenMsgIDs, queues, pendingTxs, brokenNodes, gut,
          shadow, out, messages, flushing, registering, checker, history>>

PendingTx ==
    [MsgID : PacketID, Pkt : Packet, Dest : Node, NextHop : Node,
     Origin : Node, Attempts : Nat]

DataQueueEntry ==
    [packetType : {"DATA"}, flags : Flags] \cup
    [packetType : {"USER_MSG"}, from : User, to : User, flags : Flags]

QueuedUserMessage == [from : User, flags : Flags]

QueuedSend ==
    [packetType : {"DATA"}, dest : Node, flags : Flags] \cup
    [packetType : {"USER_MSG"}, from : User, to : User, flags : Flags]

Init ==
    /\ status = [n \in Node |-> "joined"]
    /\ connectedUsers = [n \in Node |-> {}]
    /\ calls \in Traffic
    /\ made = 0
    /\ RouteTable = [n \in Node |-> [d \in Node |-> NoRoute]]
    /\ seenMsgIDs = [n \in Node |-> {}]
    /\ dataQueue = [n \in Node |-> [d \in Node |-> <<>>]]
    /\ userMessageQueue = [n \in Node |-> [u \in User |-> <<>>]]
    /\ pendingTxs = [n \in Node |-> {}]
    /\ brokenNodes = [n \in Node |-> {}]
    /\ gut = [n \in Node |-> [u \in User |-> NullID]]
    /\ lastUsersShadow = [n \in Node |-> {}]
    /\ shadowMuHeld = [n \in Node |-> FALSE]
    /\ txQueue = [n \in Node |-> <<>>]
    /\ messages = [n \in Node |-> <<>>]
    /\ flushing = [n \in Node |-> <<>>]
    /\ registering = [n \in Node |-> {}]
    /\ checking = [n \in Node |-> FALSE]
    /\ expired = [n \in Node |-> {}]
    /\ deleteIds = [n \in Node |-> {}]
    /\ nextID = [n \in Node |-> 1]
    /\ delivered = [n \in Node |-> <<>>]
    /\ acked = [n \in Node |-> {}]

----------------------------------------------------------------------------
(* The tables of a router.                                                 *)

HasRoute(n, d) == RouteTable[n][d] # NoRoute

\* Mutant: the hop to the neighbour is not counted.
MutantUncountedHop(table, dest, nextHop, hopCount) ==
    IF table[dest] = NoRoute \/ hopCount < table[dest].HopCount
    THEN [table EXCEPT ![dest] = [NextHop |-> nextHop,
                                  HopCount |-> hopCount - 1]]
    ELSE table

\* Mutant: the latest route replaces a shorter one.
MutantLatestRoute(table, dest, nextHop, hopCount) ==
    [table EXCEPT ![dest] = [NextHop |-> nextHop, HopCount |-> hopCount]]

\* A new route replaces an old one only if it is strictly shorter.
maybeAddRoute(table, dest, nextHop, hopCount) ==
    IF table[dest] = NoRoute \/ hopCount < table[dest].HopCount
    THEN [table EXCEPT ![dest] = [NextHop |-> nextHop, HopCount |-> hopCount]]
    ELSE table

AddDirectNeighbor(table, neighbor) ==
    maybeAddRoute(table, neighbor, neighbor, 1)

\* Mutant: only the routes through the broken node go.
MutantInvalidateVia(table, broken, dest, sender) ==
    [d \in Node |->
        IF table[d] # NoRoute /\ table[d].NextHop = broken
        THEN NoRoute ELSE table[d]]

\* sender is NullID when the node itself found out.
InvalidateRoutes(table, broken, dest, sender) ==
    LET Via(d, hop) == table[d] # NoRoute /\ table[d].NextHop = hop
    IN  [d \in Node |->
            IF \/ d = dest /\ sender # NullID /\ Via(d, sender)
               \/ d = broken
               \/ Via(d, broken)
            THEN NoRoute ELSE table[d]]

\* Every packet's origin is taken off the blacklist, whatever its type.
unmarkBroken(n, p) == brokenNodes[n] \ {p.OriginNodeID}

WithoutPending(n, ids) == {tx \in pendingTxs[n] : tx.MsgID \notin ids}

\* The map pendingTxs holds one entry per packet identifier.
PutPending(n, tx) == WithoutPending(n, {tx.MsgID}) \cup {tx}

FreshID(n, k) == <<n, nextID[n] + k>>

\* n appends pkts to txQueue; `fresh' of them carry an identifier of their own.
Enqueue(n, pkts, fresh) ==
    /\ txQueue' = [txQueue EXCEPT ![n] = @ \o pkts]
    /\ nextID' = [nextID EXCEPT ![n] = @ + fresh]

Running(n) == status[n] \in {"up", "leaving"}

----------------------------------------------------------------------------
(* SendData and SendUserMessage, called by the application's goroutines    *)
(* and, for queued messages, by the node goroutine.                        *)

\* Mutant: the destination is taken for the next hop.
MutantTrackDest(pkt, dest, nextHop, origin) ==
    [MsgID |-> pkt.PacketID, Pkt |-> pkt, Dest |-> dest, NextHop |-> dest,
     Origin |-> origin, Attempts |-> 0]

NewPendingTx(pkt, dest, nextHop, origin) ==
    [MsgID |-> pkt.PacketID, Pkt |-> pkt, Dest |-> dest, NextHop |-> nextHop,
     Origin |-> origin, Attempts |-> 0]

\* A packet that wants an acknowledgement is tracked after it has been queued:
\* by the node goroutine before it takes its next packet, by a goroutine of the
\* application some time later, while the node goroutine runs on.
SendAndTrack(n, pkt, dest, inHandler) ==
    LET tx == NewPendingTx(pkt, dest, pkt.DestNodeID, n) IN
    /\ Enqueue(n, <<pkt>>, 1)
    /\ pendingTxs' = IF pkt.Flags = REQ_ACK /\ inHandler
                     THEN [pendingTxs EXCEPT ![n] = PutPending(n, tx)]
                     ELSE pendingTxs
    /\ registering' = IF pkt.Flags = REQ_ACK /\ ~inHandler
                      THEN [registering EXCEPT ![n] = @ \cup {tx}]
                      ELSE registering

QueueAndRequestRoute(n, dest, entry) ==
    /\ dataQueue' = [dataQueue EXCEPT ![n][dest] = Append(@, entry)]
    /\ Enqueue(n, <<CreateRREQPacket(n, dest, n, 0, FreshID(n, 0))>>, 1)

SendData(n, dest, flags, inHandler) ==
    /\ UNCHANGED userMessageQueue
    /\ \/ /\ dest = BROADCAST_ADDR
          /\ seenMsgIDs' = [seenMsgIDs EXCEPT ![n] = @ \cup {FreshID(n, 0)}]
          /\ Enqueue(n, <<CreateDataPacket(n, n, dest, BROADCAST_ADDR, 0, flags,
                                           FreshID(n, 0))>>, 1)
          /\ UNCHANGED <<dataQueue, pendingTxs, registering>>
       \/ /\ dest \in brokenNodes[n]
          /\ UNCHANGED <<dataQueue, seenMsgIDs, out, pendingTxs, registering>>
       \/ /\ dest \in Node \ brokenNodes[n]
          /\ ~HasRoute(n, dest)
          /\ QueueAndRequestRoute(n, dest,
                                  [packetType |-> "DATA", flags |-> flags])
          /\ UNCHANGED <<seenMsgIDs, pendingTxs, registering>>
       \/ /\ dest \in Node \ brokenNodes[n]
          /\ HasRoute(n, dest)
          /\ SendAndTrack(n,
                 CreateDataPacket(n, n, dest, RouteTable[n][dest].NextHop, 0,
                                  flags, FreshID(n, 0)),
                 dest, inHandler)
          /\ UNCHANGED <<dataQueue, seenMsgIDs>>

SendUserMessage(n, from, to, flags, inHandler) ==
    LET home == gut[n][to] IN
    /\ UNCHANGED seenMsgIDs
    /\ \/ /\ home \in brokenNodes[n]
          /\ UNCHANGED <<queues, out, pendingTxs, registering>>
       \/ /\ home = NullID
          /\ userMessageQueue' =
                 [userMessageQueue EXCEPT
                     ![n][to] = Append(@, [from |-> from, flags |-> flags])]
          /\ Enqueue(n, <<CreateUREQPacket(n, n, to, 0, FreshID(n, 0))>>, 1)
          /\ UNCHANGED <<dataQueue, pendingTxs, registering>>
       \/ /\ home \in Node \ brokenNodes[n]
          /\ ~HasRoute(n, home)
          /\ QueueAndRequestRoute(n, home,
                 [packetType |-> "USER_MSG", from |-> from, to |-> to,
                  flags |-> flags])
          /\ UNCHANGED <<userMessageQueue, pendingTxs, registering>>
       \/ /\ home \in Node \ brokenNodes[n]
          /\ HasRoute(n, home)
          /\ SendAndTrack(n,
                 CreateUSERMessagePacket(n, n, from, to, home,
                     RouteTable[n][home].NextHop, 0, flags, FreshID(n, 0)),
                 home, inHandler)
          /\ UNCHANGED queues

(* The goroutines of the application make the calls of Traffic.            *)

Quiet ==
    \A n \in Node : /\ status[n] \in {"up", "stopped"}
                    /\ txQueue[n] = <<>> /\ messages[n] = <<>>
                    /\ flushing[n] = <<>>

\* The next call is `call', and n makes it.
Make(n, call) ==
    /\ made < Len(calls)
    /\ calls[made + 1].call = call
    /\ calls[made + 1].node = n
    /\ calls[made + 1].wait => Quiet
    /\ made' = made + 1
    /\ UNCHANGED calls

CallSendData(n) ==
    /\ Make(n, "SendData")
    /\ status[n] # "stopped"
    /\ SendData(n, calls[made + 1].dest, calls[made + 1].flags, FALSE)
    /\ UNCHANGED <<status, connectedUsers, RouteTable, brokenNodes, gut,
                   shadow, messages, flushing, checker, history>>

CallSendUserMessage(n) ==
    /\ Make(n, "SendUserMessage")
    /\ status[n] # "stopped"
    /\ SendUserMessage(n, calls[made + 1].from, calls[made + 1].to,
                       calls[made + 1].flags, FALSE)
    /\ UNCHANGED <<status, connectedUsers, RouteTable, brokenNodes, gut,
                   shadow, messages, flushing, checker, history>>

\* The second half of a send that wants an acknowledgement.
RegisterPending(n) ==
    \E tx \in registering[n] :
        /\ registering' = [registering EXCEPT ![n] = @ \ {tx}]
        /\ pendingTxs' = [pendingTxs EXCEPT ![n] = PutPending(n, tx)]
        /\ UNCHANGED <<env, RouteTable, seenMsgIDs, queues, brokenNodes, gut,
                       shadow, out, messages, flushing, checker, history>>

----------------------------------------------------------------------------
(* Users and the life of a node.                                           *)

MoveUser(n) ==
    /\ \/ /\ Make(n, "AddConnectedUser")
          /\ connectedUsers' = [connectedUsers EXCEPT
                                   ![n] = @ \cup {calls[made + 1].user}]
       \/ /\ Make(n, "RemoveConnectedUser")
          /\ connectedUsers' = [connectedUsers EXCEPT
                                   ![n] = @ \ {calls[made + 1].user}]
    /\ UNCHANGED <<status, RouteTable, seenMsgIDs, queues, pendingTxs,
                   brokenNodes, gut, shadow, out, messages, flushing,
                   registering, checker, history>>

(***************************************************************************)
(* SendDiffBroadcastInfo announces what changed among the node's users     *)
(* since it last did.  When nothing has, it returns between Lock and       *)
(* Unlock, and every later call waits for ever.                            *)
(***************************************************************************)
SendDiffBroadcastInfo(n) ==
    LET added   == connectedUsers[n] \ lastUsersShadow[n]
        removed == lastUsersShadow[n] \ connectedUsers[n]
    IN  /\ ~shadowMuHeld[n]
        /\ IF added = {} /\ removed = {}
           THEN /\ shadowMuHeld' = [shadowMuHeld EXCEPT ![n] = TRUE]
                /\ UNCHANGED <<lastUsersShadow, out>>
           ELSE /\ Enqueue(n, <<CreateDiffBroadcastInfoPacket(n, n, added,
                                    removed, 0, FreshID(n, 0))>>, 1)
                /\ lastUsersShadow' =
                       [lastUsersShadow EXCEPT ![n] = connectedUsers[n]]
                /\ UNCHANGED shadowMuHeld

\* The node goroutine announces the users before it takes its first packet.
\* Users are added after Join, so before or after this.
Start(n) ==
    /\ status[n] = "joined"
    /\ status' = [status EXCEPT ![n] = "up"]
    /\ SendDiffBroadcastInfo(n)
    /\ UNCHANGED <<connectedUsers, calls, made, RouteTable, seenMsgIDs, queues,
                   pendingTxs, brokenNodes, gut, messages, flushing,
                   registering, checker, history>>

\* The ticker of StartBroadcastTicker.
BroadcastTick(n) ==
    /\ Running(n)
    /\ SendDiffBroadcastInfo(n)
    /\ UNCHANGED <<env, RouteTable, seenMsgIDs, queues, pendingTxs,
                   brokenNodes, gut, messages, flushing, registering,
                   checker, history>>

\* removeNode: from now on no transmission reaches n.
Leave(n) ==
    /\ Make(n, "Leave")
    /\ status[n] = "up"
    /\ status' = [status EXCEPT ![n] = "leaving"]
    /\ UNCHANGED <<connectedUsers, RouteTable, seenMsgIDs, queues, pendingTxs,
                   brokenNodes, gut, shadow, out, messages, flushing,
                   registering, checker, history>>

\* The node goroutine sees the quit channel closed and stops the others.
Stop(n) ==
    /\ status[n] = "leaving"
    /\ status' = [status EXCEPT ![n] = "stopped"]
    /\ UNCHANGED <<connectedUsers, calls, made, RouteTable, seenMsgIDs, queues,
                   pendingTxs, brokenNodes, gut, shadow, out, messages,
                   flushing, registering, checker, history>>

----------------------------------------------------------------------------
(***************************************************************************)
(* The radio.  The txWorker takes one packet at a time and the next only   *)
(* when the air time of the first is over, so a transmission is one step.  *)
(* It reaches the nodes in range, but any of MayMiss may miss it: they     *)
(* lose it to a collision, to LossProbability or by moving away.           *)
(***************************************************************************)
Reach(n) == {m \in InRange[n] \ {n} : status[m] # "stopped"}

\* A node on its way out may have left before the transmission began.
MayBeMissedBy(m) == m \in MayMiss \/ status[m] = "leaving"

Transmit(n) ==
    /\ status[n] # "stopped"
    /\ txQueue[n] # <<>>
    /\ txQueue' = [txQueue EXCEPT ![n] = Tail(@)]
    /\ \E missed \in SUBSET {m \in Reach(n) : MayBeMissedBy(m)} :
          messages' = [m \in Node |->
                          IF m \in Reach(n) \ missed
                          THEN Append(messages[m], Head(txQueue[n]))
                          ELSE messages[m]]
    /\ UNCHANGED <<env, RouteTable, seenMsgIDs, queues, pendingTxs,
                   brokenNodes, gut, shadow, nextID, flushing, registering,
                   checker, history>>

\* Mutant: dataDest and brokenNode, both of type uint32, change places.
MutantSwappedRERR(n, to, dataDest, brokenNode, packetId, source, blacklist) ==
    /\ Enqueue(n, <<CreateRERRPacket(n, to, dataDest, brokenNode, packetId,
                                     source, 0, FreshID(n, 0))>>, 1)
    /\ brokenNodes' = [brokenNodes EXCEPT ![n] = blacklist \cup {dataDest}]

\* The broken node goes on the blacklist, and the sender of the lost packet
\* hears of it, through `to'.
sendRERR(n, to, dataDest, brokenNode, packetId, source, blacklist) ==
    /\ Enqueue(n, <<CreateRERRPacket(n, to, brokenNode, dataDest, packetId,
                                     source, 0, FreshID(n, 0))>>, 1)
    /\ brokenNodes' = [brokenNodes EXCEPT ![n] = blacklist \cup {brokenNode}]

----------------------------------------------------------------------------
(* HandleMessage: one action per packet type.                              *)

\* What every handler leaves alone.
HandlerFrame == UNCHANGED <<env, shadow, registering, checker>>

\* The node goroutine takes a packet once the sends of the last are done.
Receive(n, type) ==
    /\ Running(n)
    /\ flushing[n] = <<>>
    /\ messages[n] # <<>>
    /\ Head(messages[n]).PacketType = type
    /\ messages' = [messages EXCEPT ![n] = Tail(@)]

Unblacklist(n, p) ==
    brokenNodes' = [brokenNodes EXCEPT ![n] = unmarkBroken(n, p)]

Seen(n, p) == p.PacketID \in seenMsgIDs[n]

\* Mutant: only what was flooded is remembered.
MutantSeenBroadcasts(n, p) ==
    seenMsgIDs' = [seenMsgIDs EXCEPT ![n] =
                      @ \cup {q \in {p.PacketID} : p.DestNodeID = BROADCAST_ADDR}]

addSeenPacket(n, p) ==
    seenMsgIDs' = [seenMsgIDs EXCEPT ![n] = @ \cup {p.PacketID}]

SetRoutes(n, table) == RouteTable' = [RouteTable EXCEPT ![n] = table]

\* Mutant: a neighbour's own announcement teaches no route.
MutantSkipNeighbour(n, p) ==
    IF p.OriginNodeID \in {n, p.PrevHopID} THEN RouteTable[n]
    ELSE maybeAddRoute(AddDirectNeighbor(RouteTable[n], p.PrevHopID),
                       p.OriginNodeID, p.PrevHopID, p.HopCount + 1)

\* An announcement teaches the way to its origin and to its last forwarder ...
InfoRoutes(n, p) ==
    LET direct == AddDirectNeighbor(RouteTable[n], p.PrevHopID) IN
    IF p.OriginNodeID = n THEN direct
    ELSE maybeAddRoute(direct, p.OriginNodeID, p.PrevHopID, p.HopCount + 1)

\* Mutant: the users are taken to be at the last forwarder.
MutantForwarderIsHome(n, p) ==
    [u \in User |->
        IF u \in p.Added THEN p.PrevHopID
        ELSE IF u \in p.Removed /\ gut[n][u] = p.PrevHopID
             THEN NullID ELSE gut[n][u]]

\* ... and which users are at its origin, or no longer are.
InfoUsers(n, p) ==
    [u \in User |->
        IF u \in p.Added THEN p.OriginNodeID
        ELSE IF u \in p.Removed /\ gut[n][u] = p.OriginNodeID
             THEN NullID ELSE gut[n][u]]

HandleBroadcastInfo(n) ==
    LET p == Head(messages[n]) IN
    /\ Receive(n, "BROADCAST_INFO")
    /\ Unblacklist(n, p)
    /\ \/ /\ Seen(n, p)
          /\ UNCHANGED <<seenMsgIDs, RouteTable, gut, out>>
       \/ /\ ~Seen(n, p)
          /\ addSeenPacket(n, p)
          /\ SetRoutes(n, InfoRoutes(n, p))
          /\ gut' = [gut EXCEPT ![n] = InfoUsers(n, p)]
          /\ IF p.OriginNodeID # n /\ p.HopCount < MAX_HOPS
             THEN Enqueue(n, <<CreateDiffBroadcastInfoPacket(n,
                      p.OriginNodeID, p.Added, p.Removed, p.HopCount + 1,
                      p.PacketID)>>, 0)
             ELSE UNCHANGED out
    /\ UNCHANGED <<queues, pendingTxs, flushing, history>>
    /\ HandlerFrame

(***************************************************************************)
(* A node does not mark its own RREQ as seen: it takes the first copy that *)
(* a neighbour forwards for a new request.                                 *)
(***************************************************************************)
RREPOf(n, table, dest, requester, hops) ==
    CreateRREPPacket(n, dest, table[requester].NextHop, requester, 0, hops,
                     FreshID(n, 0))

HandleRREQ(n) ==
    LET p == Head(messages[n])
        dest == p.RREQDestNodeID
        table == maybeAddRoute(RouteTable[n], p.OriginNodeID, p.PrevHopID,
                               p.HopCount + 1)
        cached == table[dest] # NoRoute /\ table[dest].HopCount > ReplyThreshold
    IN
    /\ Receive(n, "RREQ")
    /\ Unblacklist(n, p)
    /\ \/ /\ Seen(n, p)
          /\ UNCHANGED <<seenMsgIDs, RouteTable, out>>
       \/ /\ ~Seen(n, p)
          /\ addSeenPacket(n, p)
          /\ SetRoutes(n, table)
          /\ \/ /\ n = dest
                /\ Enqueue(n, <<RREPOf(n, table, dest, p.OriginNodeID, 0)>>, 1)
             \/ /\ n # dest /\ cached
                /\ Enqueue(n, <<RREPOf(n, table, dest, p.OriginNodeID,
                                       table[dest].HopCount)>>, 1)
             \/ /\ n # dest /\ ~cached /\ p.HopCount < RreqHopLimit
                /\ Enqueue(n, <<CreateRREQPacket(n, dest, p.OriginNodeID,
                                    p.HopCount + 1, p.PacketID)>>, 0)
             \/ /\ n # dest /\ ~cached /\ p.HopCount >= RreqHopLimit
                /\ UNCHANGED out
    /\ UNCHANGED <<queues, pendingTxs, gut, flushing, history>>
    /\ HandlerFrame

(***************************************************************************)
(* The owner of RREPDestNodeID takes itself for the requester and sends    *)
(* what it has queued for OriginNodeID, which is the requester; every      *)
(* other node forwards the packet towards RREPDestNodeID.                  *)
(***************************************************************************)
FlushOf(n, dest) ==
    [i \in DOMAIN dataQueue[n][dest] |->
        LET e == dataQueue[n][dest][i] IN
        IF e.packetType = "DATA"
        THEN [packetType |-> "DATA", dest |-> dest, flags |-> e.flags]
        ELSE e]

HandleRREP(n) ==
    LET p == Head(messages[n])
        dest == p.RREPDestNodeID
        table == maybeAddRoute(
                    maybeAddRoute(RouteTable[n], dest, p.PrevHopID,
                                  p.NumHops + 1),
                    p.PrevHopID, p.PrevHopID, 1)
    IN
    /\ Receive(n, "RREP")
    /\ Unblacklist(n, p)
    /\ \/ /\ p.DestNodeID # n \/ Seen(n, p)
          /\ UNCHANGED <<seenMsgIDs, RouteTable, dataQueue, flushing, out>>
       \/ /\ p.DestNodeID = n /\ ~Seen(n, p)
          /\ addSeenPacket(n, p)
          /\ SetRoutes(n, table)
          /\ \/ /\ n = dest
                /\ flushing' = [flushing EXCEPT ![n] = FlushOf(n, p.OriginNodeID)]
                /\ dataQueue' = [dataQueue EXCEPT ![n][p.OriginNodeID] = <<>>]
                /\ UNCHANGED out
             \/ /\ n # dest
                /\ Enqueue(n, <<CreateRREPPacket(n, dest, table[dest].NextHop,
                                    p.OriginNodeID, p.HopCount + 1,
                                    p.NumHops + 1, p.PacketID)>>, 0)
                /\ UNCHANGED <<dataQueue, flushing>>
    /\ UNCHANGED <<userMessageQueue, pendingTxs, gut, history>>
    /\ HandlerFrame

\* The loop over the queued entries, one send at a time.
FlushStep(n) ==
    /\ Running(n)
    /\ flushing[n] # <<>>
    /\ flushing' = [flushing EXCEPT ![n] = Tail(@)]
    /\ LET e == Head(flushing[n]) IN
       \/ /\ e.packetType = "DATA"
          /\ SendData(n, e.dest, e.flags, TRUE)
       \/ /\ e.packetType = "USER_MSG"
          /\ SendUserMessage(n, e.from, e.to, e.flags, TRUE)
    /\ UNCHANGED <<env, RouteTable, brokenNodes, gut, shadow, messages,
                   checker, history>>

HandleRERR(n) ==
    LET p == Head(messages[n])
        table == InvalidateRoutes(RouteTable[n], p.BrokenNodeID,
                                  p.OriginalDestNodeID, p.PrevHopID)
        forward == /\ p.DestNodeID = n
                   /\ p.OriginNodeID # n
                   /\ table[p.OriginNodeID] # NoRoute
    IN
    /\ Receive(n, "RERR")
    /\ Unblacklist(n, p)
    /\ \/ /\ Seen(n, p)
          /\ UNCHANGED <<seenMsgIDs, RouteTable, out>>
       \/ /\ ~Seen(n, p)
          /\ addSeenPacket(n, p)
          /\ SetRoutes(n, table)
          /\ \/ /\ forward
                /\ Enqueue(n, <<CreateRERRPacket(n,
                       table[p.OriginNodeID].NextHop, p.BrokenNodeID,
                       p.OriginalDestNodeID, p.OriginalPacketID,
                       p.OriginNodeID, p.HopCount + 1, p.PacketID)>>, 0)
             \/ /\ ~forward
                /\ UNCHANGED out
    /\ UNCHANGED <<queues, pendingTxs, gut, flushing, history>>
    /\ HandlerFrame

\* EventReceivedDataAck for each entry of pendingTxs that ids names.
Acknowledge(n, ids) ==
    acked' = [acked EXCEPT ![n] = @ \cup
                 {[MsgID |-> tx.MsgID, NextHop |-> tx.NextHop] :
                     tx \in {t \in pendingTxs[n] : t.MsgID \in ids}}]

HandleDataAck(n) ==
    LET p == Head(messages[n]) IN
    /\ Receive(n, "ACK")
    /\ Unblacklist(n, p)
    /\ \/ /\ p.DestNodeID # n \/ Seen(n, p)
          /\ UNCHANGED <<seenMsgIDs, pendingTxs, acked>>
       \/ /\ p.DestNodeID = n /\ ~Seen(n, p)
          /\ addSeenPacket(n, p)
          /\ Acknowledge(n, {p.OriginalPacketID})
          /\ pendingTxs' = [pendingTxs EXCEPT
                               ![n] = WithoutPending(n, {p.OriginalPacketID})]
    /\ UNCHANGED <<RouteTable, queues, gut, out, flushing, delivered>>
    /\ HandlerFrame

----------------------------------------------------------------------------
(* DATA and USER_MSG.  A copy of a packet that is pending counts as its    *)
(* implicit acknowledgement, whoever it comes from and goes to.            *)

\* sendDataAck to the previous hop, the k-th packet this handler creates.
AckOf(n, p, k) == CreateACKPacket(n, p.PrevHopID, p.PacketID, FreshID(n, k))

\* The final destination acknowledges every copy, before it looks at seenMsgIDs.
FinalAck(n, p, final) ==
    IF p.Flags = REQ_ACK /\ final = n THEN <<AckOf(n, p, 0)>> ELSE <<>>

\* A copy that was seen is acknowledged once more, by any node it is for.
DuplicateAcks(n, p, final) ==
    IF p.Flags = REQ_ACK
    THEN Append(FinalAck(n, p, final), AckOf(n, p, Len(FinalAck(n, p, final))))
    ELSE <<>>

Deliver(n, p) ==
    delivered' = [delivered EXCEPT ![n] = Append(@, p.PacketID)]

\* The packet goes on; if it wants an acknowledgement the forwarder tracks it.
Forward(n, pkt, dest, origin) ==
    /\ Enqueue(n, <<pkt>>, 0)
    /\ pendingTxs' =
           [pendingTxs EXCEPT
               ![n] = WithoutPending(n, {pkt.PacketID}) \cup
                      (IF pkt.Flags = REQ_ACK
                       THEN {NewPendingTx(pkt, dest, pkt.DestNodeID, origin)}
                       ELSE {})]

\* To the previous hop: the node blacklists itself on the way.
ReportNoRoute(n, p, dest) ==
    sendRERR(n, p.PrevHopID, dest, n, p.PacketID, p.OriginNodeID,
             unmarkBroken(n, p))

HandleData(n) ==
    LET p == Head(messages[n])
        dest == p.FinalDestID
        mine == p.DestNodeID \in {n, BROADCAST_ADDR}
        overheard == [pendingTxs EXCEPT ![n] = WithoutPending(n, {p.PacketID})]
    IN
    /\ Receive(n, "DATA")
    /\ Acknowledge(n, {p.PacketID})
    /\ \/ /\ ~mine
          /\ pendingTxs' = overheard
          /\ Unblacklist(n, p)
          /\ UNCHANGED <<seenMsgIDs, out, delivered>>
       \/ /\ mine /\ Seen(n, p)
          /\ Enqueue(n, DuplicateAcks(n, p, dest), Len(DuplicateAcks(n, p, dest)))
          /\ pendingTxs' = overheard
          /\ Unblacklist(n, p)
          /\ UNCHANGED <<seenMsgIDs, delivered>>
       \/ /\ mine /\ ~Seen(n, p) /\ dest = BROADCAST_ADDR
          /\ addSeenPacket(n, p)
          /\ Deliver(n, p)
          /\ IF p.HopCount > DATA_BROADCAST_LIMIT THEN UNCHANGED out
             ELSE Enqueue(n, <<CreateDataPacket(p.OriginNodeID, n, dest, NullID,
                                   p.HopCount + 1, NoFlags, p.PacketID)>>, 0)
          /\ pendingTxs' = overheard
          /\ Unblacklist(n, p)
       \/ /\ mine /\ ~Seen(n, p) /\ dest = n
          /\ addSeenPacket(n, p)
          /\ Deliver(n, p)
          /\ Enqueue(n, FinalAck(n, p, dest), Len(FinalAck(n, p, dest)))
          /\ pendingTxs' = overheard
          /\ Unblacklist(n, p)
       \/ /\ mine /\ ~Seen(n, p) /\ dest \in Node \ {n}
          /\ addSeenPacket(n, p)
          /\ ~HasRoute(n, dest)
          /\ ReportNoRoute(n, p, dest)
          /\ pendingTxs' = overheard
          /\ UNCHANGED delivered
       \/ /\ mine /\ ~Seen(n, p) /\ dest \in Node \ {n}
          /\ addSeenPacket(n, p)
          /\ HasRoute(n, dest)
          /\ Forward(n, CreateDataPacket(p.OriginNodeID, n, dest,
                            RouteTable[n][dest].NextHop, p.HopCount + 1,
                            p.Flags, p.PacketID),
                     dest, p.OriginNodeID)
          /\ Unblacklist(n, p)
          /\ UNCHANGED delivered
    /\ UNCHANGED <<RouteTable, queues, gut, flushing>>
    /\ HandlerFrame

\* At the home node, the user may have left: then UERR goes to the sender.
UserNotAtNode(n, p) ==
    IF HasRoute(n, p.OriginNodeID)
    THEN <<CreateUERRPacket(n, RouteTable[n][p.OriginNodeID].NextHop,
               p.ToUserID, n, p.OriginNodeID, p.PacketID,
               FreshID(n, Len(FinalAck(n, p, p.ToNodeID))))>>
    ELSE <<>>

HandleUserMessage(n) ==
    LET p == Head(messages[n])
        dest == p.ToNodeID
        overheard == [pendingTxs EXCEPT ![n] = WithoutPending(n, {p.PacketID})]
        answer == FinalAck(n, p, dest) \o UserNotAtNode(n, p)
    IN
    /\ Receive(n, "USER_MSG")
    /\ Acknowledge(n, {p.PacketID})
    /\ \/ /\ p.DestNodeID # n
          /\ pendingTxs' = overheard
          /\ Unblacklist(n, p)
          /\ UNCHANGED <<seenMsgIDs, out, delivered>>
       \/ /\ p.DestNodeID = n /\ Seen(n, p)
          /\ Enqueue(n, DuplicateAcks(n, p, dest), Len(DuplicateAcks(n, p, dest)))
          /\ pendingTxs' = overheard
          /\ Unblacklist(n, p)
          /\ UNCHANGED <<seenMsgIDs, delivered>>
       \/ /\ p.DestNodeID = n /\ ~Seen(n, p)
          /\ dest = n /\ p.ToUserID \in connectedUsers[n]
          /\ addSeenPacket(n, p)
          /\ Deliver(n, p)
          /\ Enqueue(n, FinalAck(n, p, dest), Len(FinalAck(n, p, dest)))
          /\ pendingTxs' = overheard
          /\ Unblacklist(n, p)
       \/ /\ p.DestNodeID = n /\ ~Seen(n, p)
          /\ dest = n /\ p.ToUserID \notin connectedUsers[n]
          /\ addSeenPacket(n, p)
          /\ Enqueue(n, answer, Len(answer))
          /\ pendingTxs' = overheard
          /\ Unblacklist(n, p)
          /\ UNCHANGED delivered
       \/ /\ p.DestNodeID = n /\ ~Seen(n, p) /\ dest # n
          /\ addSeenPacket(n, p)
          /\ ~HasRoute(n, dest)
          /\ ReportNoRoute(n, p, dest)
          /\ pendingTxs' = overheard
          /\ UNCHANGED delivered
       \/ /\ p.DestNodeID = n /\ ~Seen(n, p) /\ dest # n
          /\ addSeenPacket(n, p)
          /\ HasRoute(n, dest)
          /\ Forward(n, CreateUSERMessagePacket(p.OriginNodeID, n,
                            p.FromUserID, p.ToUserID, dest,
                            RouteTable[n][dest].NextHop, p.HopCount + 1,
                            p.Flags, p.PacketID),
                     dest, p.OriginNodeID)
          /\ Unblacklist(n, p)
          /\ UNCHANGED delivered
    /\ UNCHANGED <<RouteTable, queues, gut, flushing>>
    /\ HandlerFrame

----------------------------------------------------------------------------
(* The lookup of a user's home node.                                       *)

HandleUREQ(n) ==
    LET p == Head(messages[n])
        user == p.UREQUserID
        home == gut[n][user]
        table == maybeAddRoute(
                    maybeAddRoute(RouteTable[n], p.PrevHopID, p.PrevHopID, 1),
                    p.OriginNodeID, p.PrevHopID, p.HopCount + 1)
        local == user \in connectedUsers[n]
        cached == /\ home # NullID
                  /\ table[home] # NoRoute
                  /\ table[home].HopCount > ReplyThreshold
        Reply(h, hops) == CreateUREPPacket(n, p.PrevHopID, p.OriginNodeID, h,
                                           user, hops, FreshID(n, 0))
    IN
    /\ Receive(n, "UREQ")
    /\ Unblacklist(n, p)
    /\ \/ /\ Seen(n, p)
          /\ UNCHANGED <<seenMsgIDs, RouteTable, out>>
       \/ /\ ~Seen(n, p)
          /\ addSeenPacket(n, p)
          /\ SetRoutes(n, table)
          /\ \/ /\ local
                /\ Enqueue(n, <<Reply(n, 0)>>, 1)
             \/ /\ ~local /\ cached
                /\ Enqueue(n, <<Reply(home, table[home].HopCount)>>, 1)
             \/ /\ ~local /\ ~cached /\ p.HopCount < UreqHopLimit
                /\ Enqueue(n, <<CreateUREQPacket(n, p.OriginNodeID, user,
                                    p.HopCount + 1, p.PacketID)>>, 0)
             \/ /\ ~local /\ ~cached /\ p.HopCount >= UreqHopLimit
                /\ UNCHANGED out
    /\ UNCHANGED <<queues, pendingTxs, gut, flushing, history>>
    /\ HandlerFrame

\* Like a RREP, a UREP is forwarded towards the node that it names.
HandleUREP(n) ==
    LET p == Head(messages[n])
        home == p.UREPDestNodeID
        user == p.UREPUserID
        forward == p.DestNodeID = n /\ HasRoute(n, home)
    IN
    /\ Receive(n, "UREP")
    /\ Unblacklist(n, p)
    /\ \/ /\ Seen(n, p)
          /\ UNCHANGED <<seenMsgIDs, RouteTable, gut, userMessageQueue,
                         flushing, out>>
       \/ /\ ~Seen(n, p) /\ p.OriginNodeID = n
          /\ addSeenPacket(n, p)
          /\ gut' = [gut EXCEPT ![n][user] = home]
          /\ SetRoutes(n, maybeAddRoute(RouteTable[n], home, p.PrevHopID,
                                        p.HopCount + 1))
          /\ flushing' = [flushing EXCEPT ![n] =
                             [i \in DOMAIN userMessageQueue[n][user] |->
                                [packetType |-> "USER_MSG", to |-> user,
                                 from |-> userMessageQueue[n][user][i].from,
                                 flags |-> userMessageQueue[n][user][i].flags]]]
          /\ userMessageQueue' = [userMessageQueue EXCEPT ![n][user] = <<>>]
          /\ UNCHANGED out
       \/ /\ ~Seen(n, p) /\ p.OriginNodeID # n
          /\ addSeenPacket(n, p)
          /\ IF forward
             THEN Enqueue(n, <<CreateUREPPacket(n, RouteTable[n][home].NextHop,
                      p.OriginNodeID, home, user, p.HopCount + 1,
                      p.PacketID)>>, 0)
             ELSE UNCHANGED out
          /\ UNCHANGED <<RouteTable, gut, userMessageQueue, flushing>>
    /\ UNCHANGED <<dataQueue, pendingTxs, history>>
    /\ HandlerFrame

(***************************************************************************)
(* A forwarded UERR is built with its last arguments out of place: the     *)
(* number of the lost packet becomes its origin, which is no node's        *)
(* identifier, its own number that of the lost packet, and it gets a       *)
(* number of its own.                                                      *)
(***************************************************************************)
HandleUERR(n) ==
    LET p == Head(messages[n])
        forward == p.OriginNodeID \in Node /\ HasRoute(n, p.OriginNodeID)
    IN
    /\ Receive(n, "UERR")
    /\ Unblacklist(n, p)
    /\ \/ /\ Seen(n, p)
          /\ UNCHANGED <<seenMsgIDs, gut, pendingTxs, out>>
       \/ /\ ~Seen(n, p) /\ p.OriginNodeID = n
          /\ addSeenPacket(n, p)
          /\ gut' = IF gut[n][p.UserID] = p.NodeID
                    THEN [gut EXCEPT ![n][p.UserID] = NullID] ELSE gut
          /\ pendingTxs' = [pendingTxs EXCEPT
                               ![n] = WithoutPending(n, {p.OriginalPacketID})]
          /\ UNCHANGED out
       \/ /\ ~Seen(n, p) /\ p.OriginNodeID # n
          /\ addSeenPacket(n, p)
          /\ IF forward
             THEN Enqueue(n, <<CreateUERRPacket(n,
                      RouteTable[n][p.OriginNodeID].NextHop, p.UserID, p.NodeID,
                      NullID, p.PacketID, FreshID(n, 0))>>, 1)
             ELSE UNCHANGED out
          /\ UNCHANGED <<gut, pendingTxs>>
    /\ UNCHANGED <<RouteTable, queues, flushing, history>>
    /\ HandlerFrame

----------------------------------------------------------------------------
(***************************************************************************)
(* runPendingTxChecker.  A tick copies pendingTxs and visits the entries   *)
(* of the copy whose time is up; the node goroutine runs on meanwhile.     *)
(* Which entries have expired is left open: every entry does in the end.   *)
(***************************************************************************)
CheckerTick(n) ==
    /\ Running(n)
    /\ ~checking[n]
    /\ \E due \in (SUBSET pendingTxs[n]) \ {{}} :
          expired' = [expired EXCEPT ![n] = due]
    /\ checking' = [checking EXCEPT ![n] = TRUE]
    /\ UNCHANGED <<env, RouteTable, seenMsgIDs, queues, pendingTxs,
                   brokenNodes, gut, shadow, out, messages, flushing,
                   registering, deleteIds, history>>

\* Mutant: the attempt is taken off, but was never put on.
MutantDiscountedRetry(tx) == [tx EXCEPT !.Attempts = @ - 1]

Retried(tx) == [tx EXCEPT !.Attempts = @ + 1]

\* retry: the entry goes back to pendingTxs, whether it is still there or not.
CheckerRetry(n) ==
    \E tx \in expired[n] :
        /\ status[n] # "stopped"
        /\ tx.Attempts < maxRetrans
        /\ expired' = [expired EXCEPT ![n] = @ \ {tx}]
        /\ pendingTxs' =
              [pendingTxs EXCEPT ![n] = PutPending(n, Retried(tx))]
        /\ \/ /\ HasRoute(n, tx.Dest)
              /\ Enqueue(n, <<tx.Pkt>>, 0)
           \/ /\ ~HasRoute(n, tx.Dest)
              /\ IF tx.Dest \in brokenNodes[n] THEN UNCHANGED out
                 ELSE Enqueue(n, <<CreateRREQPacket(n, tx.Dest, n, 0,
                                                    FreshID(n, 0))>>, 1)
        /\ UNCHANGED <<env, RouteTable, seenMsgIDs, queues, brokenNodes, gut,
                       shadow, messages, flushing, registering, checking,
                       deleteIds, history>>

\* No retries left: the link to the next hop is taken for broken.
CheckerGiveUp(n) ==
    \E tx \in expired[n] :
        LET table == InvalidateRoutes(RouteTable[n], tx.NextHop, tx.Dest, NullID)
            report == n # tx.Origin /\ table[tx.Origin] # NoRoute
        IN
        /\ status[n] # "stopped"
        /\ tx.Attempts >= maxRetrans
        /\ expired' = [expired EXCEPT ![n] = @ \ {tx}]
        /\ deleteIds' = [deleteIds EXCEPT ![n] = @ \cup {tx.MsgID}]
        /\ SetRoutes(n, table)
        /\ \/ /\ report
              /\ sendRERR(n, table[tx.Origin].NextHop, tx.Dest, tx.NextHop,
                          tx.MsgID, tx.Origin, brokenNodes[n])
           \/ /\ ~report
              /\ UNCHANGED <<brokenNodes, out>>
        /\ UNCHANGED <<env, seenMsgIDs, queues, pendingTxs, gut, shadow,
                       messages, flushing, registering, checking, history>>

\* Mutant: `return' for `continue': the checker ends with its first tick.
MutantCheckerReturns(n) ==
    /\ status[n] # "stopped"
    /\ checking[n]
    /\ expired[n] = {}
    /\ pendingTxs' = [pendingTxs EXCEPT ![n] = WithoutPending(n, deleteIds[n])]
    /\ deleteIds' = [deleteIds EXCEPT ![n] = {}]
    /\ UNCHANGED <<env, RouteTable, seenMsgIDs, queues, brokenNodes, gut,
                   shadow, out, messages, flushing, registering, expired,
                   checking, history>>

\* What was given up is deleted when the whole copy has been visited.
CheckerDone(n) ==
    /\ status[n] # "stopped"
    /\ checking[n]
    /\ expired[n] = {}
    /\ pendingTxs' = [pendingTxs EXCEPT ![n] = WithoutPending(n, deleteIds[n])]
    /\ deleteIds' = [deleteIds EXCEPT ![n] = {}]
    /\ checking' = [checking EXCEPT ![n] = FALSE]
    /\ UNCHANGED <<env, RouteTable, seenMsgIDs, queues, brokenNodes, gut,
                   shadow, out, messages, flushing, registering, expired,
                   history>>

----------------------------------------------------------------------------

HandleMessage(n) ==
    \/ HandleBroadcastInfo(n)
    \/ HandleRREQ(n)
    \/ HandleRREP(n)
    \/ HandleRERR(n)
    \/ HandleDataAck(n)
    \/ HandleData(n)
    \/ HandleUserMessage(n)
    \/ HandleUREQ(n)
    \/ HandleUREP(n)
    \/ HandleUERR(n)

NodeGoroutine(n) == Start(n) \/ HandleMessage(n) \/ FlushStep(n)

PendingTxChecker(n) ==
    CheckerTick(n) \/ CheckerRetry(n) \/ CheckerGiveUp(n) \/ CheckerDone(n)

Application(n) ==
    CallSendData(n) \/ CallSendUserMessage(n) \/ MoveUser(n) \/ Leave(n)

Next ==
    \E n \in Node :
        \/ NodeGoroutine(n)
        \/ Transmit(n)
        \/ PendingTxChecker(n)
        \/ RegisterPending(n)
        \/ BroadcastTick(n)
        \/ Application(n)
        \/ Stop(n)

Spec == Init /\ [][Next]_vars

(***************************************************************************)
(* Goroutines that can run do: the Go scheduler is fair to them, CSMA ends *)
(* every wait with a transmission, timers fire and deadlines pass.  The    *)
(* application need not do anything.                                       *)
(***************************************************************************)
Fairness ==
    \A n \in Node :
        /\ WF_vars(NodeGoroutine(n))
        /\ WF_vars(Transmit(n))
        /\ WF_vars(PendingTxChecker(n))
        /\ WF_vars(RegisterPending(n))
        /\ WF_vars(BroadcastTick(n))

FairSpec == Spec /\ Fairness

============================================================================
