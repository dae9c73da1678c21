--------------------------- MODULE AODVProperties ---------------------------
(***************************************************************************)
(* What the routers of a mesh promise together.                            *)
(***************************************************************************)
EXTENDS AODVRouter

CONSTANT
    Dist    \* Dist[n][d]: a lower bound on the hops from n to d

\* The length of the shortest path satisfies this, and so does 0.
ASSUME DistAssumption ==
    /\ Dist \in [Node -> [Node -> Nat]]
    /\ \A d \in Node : Dist[d][d] = 0
    /\ \A m, n, d \in Node : m \in InRange[n] => Dist[n][d] <= Dist[m][d] + 1

\* The values each variable of a router takes.
TypeOK ==
    /\ status \in [Node -> {"joined", "up", "leaving", "stopped"}]
    /\ connectedUsers \in [Node -> SUBSET User]
    /\ calls \in Traffic
    /\ made \in 0 .. Len(calls)
    /\ RouteTable \in [Node -> [Node -> Route \cup {NoRoute}]]
    /\ seenMsgIDs \in [Node -> SUBSET PacketID]
    /\ dataQueue \in [Node -> [Node -> Seq(DataQueueEntry)]]
    /\ userMessageQueue \in [Node -> [User -> Seq(QueuedUserMessage)]]
    /\ pendingTxs \in [Node -> SUBSET PendingTx]
    /\ brokenNodes \in [Node -> SUBSET Node]
    /\ gut \in [Node -> [User -> Node \cup {NullID}]]
    /\ lastUsersShadow \in [Node -> SUBSET User]
    /\ shadowMuHeld \in [Node -> BOOLEAN]
    /\ txQueue \in [Node -> Seq(Packet)]
    /\ messages \in [Node -> Seq(Packet)]
    /\ flushing \in [Node -> Seq(QueuedSend)]
    /\ registering \in [Node -> SUBSET PendingTx]
    /\ checking \in [Node -> BOOLEAN]
    /\ expired \in [Node -> SUBSET PendingTx]
    /\ deleteIds \in [Node -> SUBSET PacketID]
    /\ nextID \in [Node -> Nat]
    /\ delivered \in [Node -> Seq(PacketID)]
    /\ acked \in [Node -> SUBSET [MsgID : PacketID, NextHop : Node]]

----------------------------------------------------------------------------
(* Routes                                                                  *)

\* A route leads to a neighbour and never promises fewer hops than there are,
\* whatever was lost, repeated, invalidated or learned second-hand.
HopSound ==
    \A n, d \in Node :
        HasRoute(n, d) =>
            /\ RouteTable[n][d].NextHop \in InRange[n]
            /\ RouteTable[n][d].HopCount >= Dist[n][d]

\* No hop count is at the end of its byte, where one more hop would make it 0.
HopsFit ==
    /\ \A n, d \in Node : HasRoute(n, d) => RouteTable[n][d].HopCount <= 255
    /\ \A n \in Node : \A i \in DOMAIN messages[n] :
          LET p == messages[n][i] IN
          p.HopCount < 255 /\ (p.PacketType = "RREP" => p.NumHops < 255)

\* Nothing was done that can withdraw a route: nobody waits for an
\* acknowledgement that may be missing.
NothingWithdrawn ==
    \A i \in 1 .. made :
        "flags" \in DOMAIN calls[i] => calls[i].flags # REQ_ACK

\* Nobody has asked for the home of a user.
NothingLookedUp ==
    \A i \in 1 .. made : calls[i].call # "SendUserMessage"

\* While no route is withdrawn, the next hop of a route is the destination or
\* has a route to it, and a shorter one: following next hops cannot go round in
\* a circle.  (AODV without sequence numbers has nothing else that would prevent
\* it.)  The route need not be shorter once a user was looked up: who forwards a
\* UREP names a hop count that is not that of its own route, and its own route
\* may lead through the requester.
RouteDescends ==
    NothingWithdrawn => \A n, d \in Node :
        n # d /\ HasRoute(n, d) =>
            LET m == RouteTable[n][d].NextHop IN
            \/ m = d
            \/ /\ HasRoute(m, d)
               /\ NothingLookedUp =>
                      RouteTable[m][d].HopCount < RouteTable[n][d].HopCount

FinalNode(p) == IF p.PacketType = "DATA" THEN p.FinalDestID ELSE p.ToNodeID

\* While no route is withdrawn, a packet that arrives at the next hop its
\* sender chose finds a route there, however long it was queued.
NextHopCanForward ==
    NothingWithdrawn => \A n \in Node : \A i \in DOMAIN messages[n] :
        LET p == messages[n][i] IN
        p.PacketType \in {"DATA", "USER_MSG"} /\ p.DestNodeID = n
        => FinalNode(p) = n \/ HasRoute(n, FinalNode(p))

\* A node comes to be known as the home of a user only if it was one.
GutSound ==
    \A n \in Node, x \in User :
        gut[n][x] # NullID =>
            \E i \in 1 .. made :
                /\ calls[i].call = "AddConnectedUser"
                /\ calls[i].node = gut[n][x]
                /\ calls[i].user = x

\* What a node refuses to send to is a neighbour whose link it took for broken,
\* or itself: never the far destination of the packet that was lost.
BlacklistSound ==
    \A n \in Node : brokenNodes[n] \subseteq InRange[n] \cup {n}

\* Without losses, the node that created a packet hears of a break on its way,
\* and stops using the route: source has no route to dest once the report that
\* n sends it has arrived.
BreakReported(n, source, dest) ==
    (\E i \in DOMAIN txQueue[n] :
        LET p == txQueue[n][i] IN
        /\ p.PacketType = "RERR"
        /\ p.OriginNodeID = source
        /\ p.OriginalDestNodeID = dest)
    ~> ~HasRoute(source, dest)

----------------------------------------------------------------------------
(* Delivery and acknowledgement                                            *)

\* What a retry would transmit is what is being waited for: this node's copy
\* of the packet, addressed to the neighbour that will be blamed if it is not
\* acknowledged.
PendingConsistent ==
    \A n \in Node : \A tx \in pendingTxs[n] \cup expired[n] :
        /\ tx.Pkt.PacketID = tx.MsgID
        /\ tx.Pkt.PrevHopID = n
        /\ tx.Pkt.DestNodeID = tx.NextHop
        /\ tx.NextHop \in InRange[n]

\* Retries, false timeouts and copies from several neighbours notwithstanding,
\* a node publishes EventMessageDelivered once for a packet.
AtMostOnceDelivery ==
    \A n \in Node : \A i, j \in DOMAIN delivered[n] :
        delivered[n][i] = delivered[n][j] => i = j

\* When the node that created a packet takes it for acknowledged, the next hop
\* has processed it; or the packet had come back to the node, which forwards it
\* like any other and may then hear a repetition by the hop it came back from.
OriginAckSound ==
    \A n \in Node : \A e \in acked[n] :
        e.MsgID[1] = n => e.MsgID \in seenMsgIDs[e.NextHop] \cup seenMsgIDs[n]

\* The same at every node that forwarded it, whatever came back.
AckMeansNextHopHasIt ==
    \A n \in Node : \A e \in acked[n] : e.MsgID \in seenMsgIDs[e.NextHop]

\* What was acknowledged is off the list of pending packets, and stays off.
AckedStaysRemoved ==
    \A n \in Node : \A e \in acked[n], tx \in pendingTxs[n] :
        tx.MsgID # e.MsgID

\* No node waits for ever: whatever is lost, late or put back by a retry, every
\* pending packet is acknowledged or given up in the end.
PendingDrains ==
    \A n \in Node : pendingTxs[n] # {} ~> pendingTxs[n] = {}

\* A node announces the users it gains, unless they leave again first.
UsersAreAnnounced ==
    \A n \in Node, x \in User :
        x \in connectedUsers[n]
        ~> x \in lastUsersShadow[n] \/ x \notin connectedUsers[n]

\* Without losses, what waits for a route is sent once there is one.
QueuedDataIsSent ==
    \A n, dst \in Node :
        dataQueue[n][dst] # <<>> /\ HasRoute(n, dst)
        ~> dataQueue[n][dst] = <<>>

=============================================================================
