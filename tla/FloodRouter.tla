---------------------------- MODULE FloodRouter ----------------------------
(***************************************************************************)
(* The flooding router of internal/routing/flood_router.go, one per node.  *)
(* Every packet is broadcast, and every node that has not handled it       *)
(* before forwards it until its hop count is used up.  Per node there are  *)
(*   - the node goroutine, which handles the packets of `messages' and     *)
(*     itself waits for the channel when it sends an acknowledgement;      *)
(*   - the txWorker, which transmits the packets of txQueue;               *)
(*   - one AfterFunc goroutine for each packet that it forwards;           *)
(*   - runPendingTxChecker, the announcement ticker, and the goroutines    *)
(*     of the application.                                                 *)
(* The radio is that of AODVRouter: a transmission reaches the nodes in    *)
(* range, of which some may miss it.                                       *)
(***************************************************************************)
EXTENDS MeshPackets, Sequences

CONSTANTS
    InRange,        \* InRange[n]: the nodes that hear n
    MayMiss,        \* the nodes that may miss a transmission
    defaultTTL,     \* hops after which a packet is not forwarded
    ackMaxRetrans,  \* retransmissions before a packet is given up
    TxQueueCap,     \* the capacity of the channel txQueue
    Traffic         \* the sequences of calls and ticks from outside

ASSUME FloodAssumption ==
    /\ InRange \in [Node -> SUBSET Node]
    /\ \A m, n \in Node : m \in InRange[n] => n \in InRange[m]
    /\ MayMiss \subseteq Node
    /\ defaultTTL \in 0 .. 255
    /\ {ackMaxRetrans, TxQueueCap} \subseteq Nat

\* As for AODVRouter, with two more: a node comes into being with Join, and with
\* Tick its announcement ticker fires, every 300 seconds in the code.
FloodCall ==
    [call : {"SendData"}, node : Node, wait : BOOLEAN,
     dest : Node \cup {BROADCAST_ADDR}, flags : Flags] \cup
    [call : {"SendUserMessage"}, node : Node, wait : BOOLEAN,
     from : User, to : User, flags : Flags] \cup
    [call : {"AddConnectedUser", "RemoveConnectedUser"},
     node : Node, wait : BOOLEAN, user : User] \cup
    [call : {"Join", "Leave", "Tick"}, node : Node, wait : BOOLEAN]

ASSUME FloodTraffic == Traffic \subseteq Seq(FloodCall)

VARIABLES
    status,          \* out, joined, up, leaving or stopped
    connectedUsers,  \* the users attached to the node
    calls,           \* the sequence of Traffic that this behaviour makes
    made,            \* how many of its calls have been made
    seenMsgIDs,      \* the packets n has handled
    gut,             \* gut[n][u]: the home of u that n knows of, or NullID
    pending,         \* the packets n waits for an acknowledgement of
    registering,     \* entries between tryEnqueue and pendingMu.Lock
    txQueue,         \* the channel to the txWorker
    sending,         \* the packet the txWorker has taken, if any
    jittering,       \* the packets of the AfterFunc goroutines
    replying,        \* the ACK that the node goroutine is sending, if any
    messages,        \* packets on their way from the radio of n
    checker,         \* waiting, retrying or returned
    retries,         \* what the checker retransmits before it waits again
    nextID,          \* the number of the next packet n creates
    delivered,       \* EventMessageDelivered, in order of publication
    acked,           \* packets EventReceivedDataAck ended the wait for
    lost             \* packets EventLostMessage was published for

env     == <<status, connectedUsers, calls, made>>
tables  == <<seenMsgIDs, gut>>
waiting == <<pending, registering, checker, retries>>
radio   == <<txQueue, sending, jittering, replying>>
history == <<delivered, acked, lost>>

vars == <<env, tables, waiting, radio, messages, nextID, history>>

Init ==
    /\ status = [n \in Node |-> "out"]
    /\ connectedUsers = [n \in Node |-> {}]
    /\ calls \in Traffic
    /\ made = 0
    /\ seenMsgIDs = [n \in Node |-> {}]
    /\ gut = [n \in Node |-> [u \in User |-> NullID]]
    /\ pending = [n \in Node |-> {}]
    /\ registering = [n \in Node |-> {}]
    /\ txQueue = [n \in Node |-> <<>>]
    /\ sending = [n \in Node |-> <<>>]
    /\ jittering = [n \in Node |-> {}]
    /\ replying = [n \in Node |-> <<>>]
    /\ messages = [n \in Node |-> <<>>]
    /\ checker = [n \in Node |-> "waiting"]
    /\ retries = [n \in Node |-> {}]
    /\ nextID = [n \in Node |-> 1]
    /\ delivered = [n \in Node |-> <<>>]
    /\ acked = [n \in Node |-> {}]
    /\ lost = [n \in Node |-> {}]

----------------------------------------------------------------------------
(* Sending.                                                                *)

NewID(n) == <<n, nextID[n]>>

UseID(n) == nextID' = [nextID EXCEPT ![n] = @ + 1]

HasRoom(n) == Len(txQueue[n]) < TxQueueCap

\* A packet for which the channel has no room is dropped.
tryEnqueue(n, pkt) ==
    txQueue' = IF HasRoom(n) THEN [txQueue EXCEPT ![n] = Append(@, pkt)]
               ELSE txQueue

Entry(pkt) == [MsgID |-> pkt.PacketID, Pkt |-> pkt, Attempts |-> 0]

\* What SendData and SendUserMessage do with their packet: an entry is tracked
\* some time after the packet has been queued.
Submit(n, pkt, tracked) ==
    /\ UseID(n)
    /\ tryEnqueue(n, pkt)
    /\ registering' = IF HasRoom(n) /\ tracked
                      THEN [registering EXCEPT ![n] = @ \cup {Entry(pkt)}]
                      ELSE registering
    /\ UNCHANGED <<status, connectedUsers, calls, tables, pending,
                   checker, retries, sending, jittering, replying, messages,
                   history>>

Quiet ==
    \A n \in Node : /\ status[n] \in {"out", "up", "stopped"}
                    /\ txQueue[n] = <<>> /\ sending[n] = <<>>
                    /\ jittering[n] = {} /\ replying[n] = <<>>
                    /\ messages[n] = <<>>

\* The next call is `call', and n makes it.
Make(n, call) ==
    /\ made < Len(calls)
    /\ calls[made + 1].call = call
    /\ calls[made + 1].node = n
    /\ calls[made + 1].wait => Quiet
    /\ made' = made + 1

CallSendData(n) ==
    /\ Make(n, "SendData")
    /\ status[n] \in {"joined", "up"}
    /\ LET call == calls[made + 1] IN
       Submit(n, CreateDataPacket(n, n, call.dest, BROADCAST_ADDR, 0,
                                  call.flags, NewID(n)),
              call.flags = REQ_ACK /\ call.dest # BROADCAST_ADDR)

\* gut[n][u] is NullID if n does not know the home of u: it sends all the same.
CallSendUserMessage(n) ==
    /\ Make(n, "SendUserMessage")
    /\ status[n] \in {"joined", "up"}
    /\ LET call == calls[made + 1] IN
       Submit(n, CreateUSERMessagePacket(n, n, call.from, call.to,
                     gut[n][call.to], BROADCAST_ADDR, 0, call.flags, NewID(n)),
              call.flags = REQ_ACK)

trackIfAckRequested(n) ==
    \E e \in registering[n] :
        /\ registering' = [registering EXCEPT ![n] = @ \ {e}]
        /\ pending' = [pending EXCEPT ![n] = @ \cup {e}]
        /\ UNCHANGED <<env, tables, checker, retries, radio, messages, nextID,
                       history>>

\* Every announcement names all users of the node, even if there are none.
SendDiffBroadcastInfo(n) ==
    /\ UseID(n)
    /\ tryEnqueue(n, CreateDiffBroadcastInfoPacket(n, n, connectedUsers[n], {},
                                                   0, NewID(n)))
    /\ UNCHANGED <<connectedUsers, calls, tables, waiting, sending, jittering,
                   replying, messages, history>>

----------------------------------------------------------------------------
(* Users and the life of a node.                                           *)

MoveUser(n) ==
    /\ status[n] \in {"joined", "up"}
    /\ \/ /\ Make(n, "AddConnectedUser")
          /\ connectedUsers' = [connectedUsers EXCEPT
                                   ![n] = @ \cup {calls[made + 1].user}]
       \/ /\ Make(n, "RemoveConnectedUser")
          /\ connectedUsers' = [connectedUsers EXCEPT
                                   ![n] = @ \ {calls[made + 1].user}]
    /\ UNCHANGED <<status, calls, tables, waiting, radio, messages,
                   nextID, history>>

\* The medium lists the node, and its goroutine has yet to run.
Join(n) ==
    /\ Make(n, "Join")
    /\ status[n] = "out"
    /\ status' = [status EXCEPT ![n] = "joined"]
    /\ UNCHANGED <<connectedUsers, calls, tables, waiting, radio,
                   messages, nextID, history>>

Start(n) ==
    /\ status[n] = "joined"
    /\ status' = [status EXCEPT ![n] = "up"]
    /\ UNCHANGED made
    /\ SendDiffBroadcastInfo(n)

\* StopBroadcastTicker does nothing: the ticker of a stopped node goes on.
BroadcastTick(n) ==
    /\ Make(n, "Tick")
    /\ status[n] \notin {"out", "joined"}
    /\ UNCHANGED status
    /\ SendDiffBroadcastInfo(n)

Leave(n) ==
    /\ Make(n, "Leave")
    /\ status[n] = "up"
    /\ status' = [status EXCEPT ![n] = "leaving"]
    /\ UNCHANGED <<connectedUsers, calls, tables, waiting, radio,
                   messages, nextID, history>>

Stop(n) ==
    /\ status[n] = "leaving"
    /\ replying[n] = <<>>
    /\ status' = [status EXCEPT ![n] = "stopped"]
    /\ UNCHANGED <<connectedUsers, calls, made, tables, waiting, radio,
                   messages, nextID, history>>

----------------------------------------------------------------------------
(* The radio.  Every wait for a clear channel ends with a transmission, in *)
(* any order among the goroutines that wait.                               *)

Reach(n) == {m \in InRange[n] \ {n} : status[m] \notin {"out", "stopped"}}

MayBeMissedBy(m) == m \in MayMiss \/ status[m] = "leaving"

BroadcastMessageCSMA(n, pkt) ==
    \E missed \in SUBSET {m \in Reach(n) : MayBeMissedBy(m)} :
        messages' = [m \in Node |->
                        IF m \in Reach(n) \ missed THEN Append(messages[m], pkt)
                        ELSE messages[m]]

\* The txWorker takes a packet, and there is room for one more, ...
TakeFromQueue(n) ==
    /\ sending[n] = <<>>
    /\ txQueue[n] # <<>>
    /\ sending' = [sending EXCEPT ![n] = <<Head(txQueue[n])>>]
    /\ txQueue' = [txQueue EXCEPT ![n] = Tail(@)]
    /\ UNCHANGED <<env, tables, waiting, jittering, replying, messages, nextID,
                   history>>

\* ... and transmits it.
Transmit(n) ==
    /\ sending[n] # <<>>
    /\ sending' = [sending EXCEPT ![n] = <<>>]
    /\ BroadcastMessageCSMA(n, Head(sending[n]))
    /\ UNCHANGED <<env, tables, waiting, txQueue, jittering, replying, nextID,
                   history>>

\* An AfterFunc goroutine forwards its packet, past txQueue.
ForwardNow(n) ==
    \E pkt \in jittering[n] :
        /\ jittering' = [jittering EXCEPT ![n] = @ \ {pkt}]
        /\ BroadcastMessageCSMA(n, pkt)
        /\ UNCHANGED <<env, tables, waiting, txQueue, sending, replying, nextID,
                       history>>

\* The node goroutine publishes the delivery after the ACK is on the air.
SendAck(n) ==
    /\ replying[n] # <<>>
    /\ replying' = [replying EXCEPT ![n] = <<>>]
    /\ BroadcastMessageCSMA(n, Head(replying[n]))
    /\ delivered' = [delivered EXCEPT
                        ![n] = Append(@, Head(replying[n]).OriginalPacketID)]
    /\ UNCHANGED <<env, tables, waiting, txQueue, sending, jittering, nextID,
                   acked, lost>>

----------------------------------------------------------------------------
(* HandleMessage.                                                          *)

\* Mutant: any packet ends the wait.
MutantAnyPacketAcks(n, answered) ==
    /\ status[n] \in {"up", "leaving"}
    /\ replying[n] = <<>>
    /\ messages[n] # <<>>
    /\ messages' = [messages EXCEPT ![n] = Tail(@)]
    /\ pending' = [pending EXCEPT ![n] = {}]
    /\ acked' = [acked EXCEPT ![n] = @ \cup {e.MsgID : e \in pending[n]}]
    /\ UNCHANGED <<env, registering, checker, retries, txQueue, sending, lost>>

\* A packet is taken from `messages'.  One that this node waits for, repeated
\* by another node, acknowledges it; `answered' is what an ACK acknowledges.
Receive(n, answered) ==
    LET p == Head(messages[n])
        heard == {e \in pending[n] : e.MsgID = p.PacketID /\ p.PrevHopID # n}
        ended == heard \cup answered
    IN
    /\ status[n] \in {"up", "leaving"}
    /\ replying[n] = <<>>
    /\ messages[n] # <<>>
    /\ messages' = [messages EXCEPT ![n] = Tail(@)]
    /\ pending' = [pending EXCEPT ![n] = @ \ ended]
    /\ acked' = [acked EXCEPT ![n] = @ \cup {e.MsgID : e \in ended}]
    /\ UNCHANGED <<env, registering, checker, retries, txQueue, sending, lost>>

\* The packet is of this type and has not been handled before.
IsNew(n, type) ==
    /\ Head(messages[n]).PacketType = type
    /\ Head(messages[n]).PacketID \notin seenMsgIDs[n]

\* Mutant: what arrives at its destination is not marked.
MutantMarkForwarded(n, p) ==
    seenMsgIDs' = [seenMsgIDs EXCEPT
        ![n] = @ \cup {id \in {p.PacketID} :
                          p.PacketType = "DATA" => p.FinalDestID # n}]

markSeen(n, p) == seenMsgIDs' = [seenMsgIDs EXCEPT ![n] = @ \cup {p.PacketID}]

HandleDuplicate(n) ==
    /\ Receive(n, {})
    /\ Head(messages[n]).PacketID \in seenMsgIDs[n]
    /\ UNCHANGED <<tables, jittering, replying, nextID, delivered>>

\* The packet goes on under its identifier, as this node's transmission.
Onward(n, p) == [p EXCEPT !.PrevHopID = n, !.HopCount = Uint8(@ + 1)]

\* Mutant: one hop too many.
MutantLateLimit(n, p) ==
    jittering' = IF p.HopCount > defaultTTL THEN jittering
                 ELSE [jittering EXCEPT ![n] = @ \cup {Onward(n, p)}]

\* Mutant: one hop too few.
MutantEarlyLimit(n, p) ==
    jittering' = IF p.HopCount + 1 >= defaultTTL THEN jittering
                 ELSE [jittering EXCEPT ![n] = @ \cup {Onward(n, p)}]

floodAfterJitter(n, p) ==
    jittering' = IF p.HopCount >= defaultTTL THEN jittering
                 ELSE [jittering EXCEPT ![n] = @ \cup {Onward(n, p)}]

DeliverNow(n, p) ==
    delivered' = [delivered EXCEPT ![n] = Append(@, p.PacketID)]

\* A packet for this node: one that wants an acknowledgement is delivered when
\* that has been sent.  nextHop of the ACK is BROADCAST_NH.
DeliverHere(n, p) ==
    /\ IF p.Flags = REQ_ACK
       THEN /\ replying' = [replying EXCEPT ![n] =
                   <<CreateACKPacket(n, BROADCAST_ADDR, p.PacketID, NewID(n))>>]
            /\ UseID(n)
            /\ UNCHANGED delivered
       ELSE /\ DeliverNow(n, p)
            /\ UNCHANGED <<replying, nextID>>
    /\ UNCHANGED jittering

PassOn(n, p) ==
    /\ floodAfterJitter(n, p)
    /\ UNCHANGED <<replying, nextID>>

handleData(n) ==
    LET p == Head(messages[n]) IN
    /\ Receive(n, {})
    /\ IsNew(n, "DATA")
    /\ markSeen(n, p)
    /\ UNCHANGED gut
    /\ \/ /\ p.FinalDestID = n
          /\ DeliverHere(n, p)
       \/ /\ p.FinalDestID = BROADCAST_ADDR
          /\ DeliverNow(n, p)
          /\ IF p.HopCount > DATA_BROADCAST_LIMIT
             THEN UNCHANGED <<jittering, replying, nextID>>
             ELSE PassOn(n, p)
       \/ /\ p.FinalDestID \notin {n, BROADCAST_ADDR}
          /\ PassOn(n, p)
          /\ UNCHANGED delivered

\* The users of a node are asked, not ToNodeID.
handleUserMsg(n) ==
    LET p == Head(messages[n]) IN
    /\ Receive(n, {})
    /\ IsNew(n, "USER_MSG")
    /\ markSeen(n, p)
    /\ UNCHANGED gut
    /\ \/ /\ p.ToUserID \in connectedUsers[n]
          /\ DeliverHere(n, p)
       \/ /\ p.ToUserID \notin connectedUsers[n]
          /\ PassOn(n, p)
          /\ UNCHANGED delivered

\* Mutant: the users are taken to be at the last forwarder.
MutantForwarderIsHome(n) ==
    LET p == Head(messages[n]) IN
    /\ Receive(n, {})
    /\ IsNew(n, "BROADCAST_INFO")
    /\ markSeen(n, p)
    /\ gut' = [gut EXCEPT ![n] = [u \in User |->
                  IF u \in p.Added THEN p.PrevHopID ELSE @[u]]]
    /\ PassOn(n, p)
    /\ UNCHANGED delivered

handleBroadcastInfo(n) ==
    LET p == Head(messages[n]) IN
    /\ Receive(n, {})
    /\ IsNew(n, "BROADCAST_INFO")
    /\ markSeen(n, p)
    /\ gut' = [gut EXCEPT ![n] = [u \in User |->
                  IF u \in p.Added THEN p.OriginNodeID ELSE @[u]]]
    /\ PassOn(n, p)
    /\ UNCHANGED delivered

\* An ACK counts if it is addressed to this node.  It is not forwarded.
handleAck(n) ==
    LET p == Head(messages[n])
        answered == {e \in pending[n] :
                        p.DestNodeID = n /\ e.MsgID = p.OriginalPacketID}
    IN
    /\ messages[n] # <<>>
    /\ IsNew(n, "ACK")
    /\ Receive(n, answered)
    /\ markSeen(n, p)
    /\ UNCHANGED <<gut, jittering, replying, nextID, delivered>>

----------------------------------------------------------------------------
(***************************************************************************)
(* runPendingTxChecker.  A tick counts the attempts, or gives up, under    *)
(* the lock, and retransmits after it.  Which entries have expired is left *)
(* open: every entry does in the end.                                      *)
(***************************************************************************)
\* Mutant: the attempt is not counted.
MutantUncounted(again) == again

Counted(again) == {[e EXCEPT !.Attempts = @ + 1] : e \in again}

\* Mutant: what is given up stays in the table.
MutantKeepGivenUp(n, due, again) == (pending[n] \ again) \cup Counted(again)

AfterTick(n, due, again) == (pending[n] \ due) \cup Counted(again)

CheckerTick(n) ==
    /\ checker[n] = "waiting"
    /\ \E due \in (SUBSET pending[n]) \ {{}} :
          LET again == {e \in due : e.Attempts < ackMaxRetrans} IN
          /\ pending' = [pending EXCEPT ![n] = AfterTick(n, due, again)]
          /\ lost' = [lost EXCEPT ![n] = @ \cup {e.MsgID : e \in due \ again}]
          /\ retries' = [retries EXCEPT ![n] = {e.Pkt : e \in again}]
          /\ checker' = IF again = {} THEN checker
                        ELSE [checker EXCEPT ![n] = "retrying"]
    /\ UNCHANGED <<env, tables, registering, radio, messages, nextID, delivered,
                   acked>>

\* When the channel is full the checker does not drop the packet: it returns.
CheckerRetry(n) ==
    /\ checker[n] = "retrying"
    /\ \E pkt \in retries[n] :
          /\ tryEnqueue(n, pkt)
          /\ retries' = [retries EXCEPT
                            ![n] = IF HasRoom(n) THEN @ \ {pkt} ELSE {}]
          /\ checker' = [checker EXCEPT
                            ![n] = IF ~HasRoom(n) THEN "returned"
                                   ELSE IF retries[n] = {pkt} THEN "waiting"
                                   ELSE "retrying"]
    /\ UNCHANGED <<env, tables, pending, registering, sending, jittering,
                   replying, messages, nextID, history>>

\* The node goroutine has closed pendingQuitChan.
CheckerQuit(n) ==
    /\ status[n] = "stopped"
    /\ checker[n] = "waiting"
    /\ checker' = [checker EXCEPT ![n] = "returned"]
    /\ UNCHANGED <<env, tables, pending, registering, retries, radio, messages,
                   nextID, history>>

----------------------------------------------------------------------------

HandleMessage(n) ==
    \/ HandleDuplicate(n)
    \/ handleData(n)
    \/ handleUserMsg(n)
    \/ handleBroadcastInfo(n)
    \/ handleAck(n)

NodeGoroutine(n) == Start(n) \/ HandleMessage(n) \/ SendAck(n) \/ Stop(n)

TxWorker(n) == TakeFromQueue(n) \/ Transmit(n)

PendingTxChecker(n) == CheckerTick(n) \/ CheckerRetry(n) \/ CheckerQuit(n)

Outside(n) ==
    \/ CallSendData(n) \/ CallSendUserMessage(n) \/ MoveUser(n)
    \/ Join(n) \/ Leave(n) \/ BroadcastTick(n)

Next ==
    \E n \in Node :
        \/ NodeGoroutine(n)
        \/ TxWorker(n)
        \/ ForwardNow(n)
        \/ PendingTxChecker(n)
        \/ trackIfAckRequested(n)
        \/ Outside(n)

Spec == Init /\ [][Next]_vars

(***************************************************************************)
(* Goroutines that can run do, every wait for the channel ends, timers     *)
(* fire and deadlines pass.  Nothing need be asked of the mesh.         *)
(***************************************************************************)
Fairness ==
    \A n \in Node :
        /\ WF_vars(NodeGoroutine(n))
        /\ WF_vars(TxWorker(n))
        /\ WF_vars(ForwardNow(n))
        /\ WF_vars(PendingTxChecker(n))
        /\ WF_vars(trackIfAckRequested(n))

FairSpec == Spec /\ Fairness

----------------------------------------------------------------------------
(* What a flooding mesh guarantees.                                        *)

\* Here a user message may be sent to a home that is not known.
HomelessFormat ==
    [PacketType : {"USER_MSG"}, PacketID : PacketID, DestNodeID : Address,
     PrevHopID : Node, OriginNodeID : Node, HopCount : Nat, Flags : Flags,
     FromUserID : User, ToUserID : User, ToNodeID : Node \cup {NullID}]

\* On the air: a packet is broadcast and within its hop count.
FloodPacket ==
    {p \in DataFormat \cup AckFormat \cup InfoFormat \cup HomelessFormat :
        p.DestNodeID = BROADCAST_ADDR /\ p.HopCount <= defaultTTL}

PendingTx ==
    [MsgID : PacketID, Pkt : FloodPacket, Attempts : 0 .. ackMaxRetrans]

\* The type invariant.  No packet is further from its origin than defaultTTL,
\* and no queue is over its capacity.
TypeOK ==
    /\ status \in [Node -> {"out", "joined", "up", "leaving", "stopped"}]
    /\ connectedUsers \in [Node -> SUBSET User]
    /\ calls \in Traffic /\ made \in 0 .. Len(calls)
    /\ seenMsgIDs \in [Node -> SUBSET PacketID]
    /\ gut \in [Node -> [User -> Node \cup {NullID}]]
    /\ pending \in [Node -> SUBSET PendingTx]
    /\ registering \in [Node -> SUBSET PendingTx]
    /\ txQueue \in [Node -> Seq(FloodPacket)]
    /\ \A n \in Node : Len(txQueue[n]) <= TxQueueCap
    /\ sending \in [Node -> Seq(FloodPacket)]
    /\ jittering \in [Node -> SUBSET FloodPacket]
    /\ replying \in [Node -> Seq(FloodPacket \cap AckFormat)]
    /\ messages \in [Node -> Seq(FloodPacket)]
    /\ checker \in [Node -> {"waiting", "retrying", "returned"}]
    /\ retries \in [Node -> SUBSET FloodPacket]
    /\ nextID \in [Node -> Nat]
    /\ delivered \in [Node -> Seq(PacketID)]
    /\ acked \in [Node -> SUBSET PacketID]
    /\ lost \in [Node -> SUBSET PacketID]

\* However often a packet is repeated and over whichever nodes it comes, a node
\* delivers it once.
AtMostOnceDelivery ==
    \A n \in Node : \A i, j \in DOMAIN delivered[n] :
        delivered[n][i] = delivered[n][j] => i = j

\* What a node counts as acknowledged has been handled by a neighbour.
AckedWasHandled ==
    \A n \in Node : \A id \in acked[n] :
        \E m \in InRange[n] \ {n} : id \in seenMsgIDs[m]

\* The wait for an acknowledgement ends once and in one way, whatever the order
\* of the acknowledgement, the tick and the entry into the table.
OneOutcome ==
    \A n \in Node :
        LET waited == {e.MsgID : e \in pending[n] \cup registering[n]} IN
        /\ acked[n] \cap lost[n] = {}
        /\ (acked[n] \cup lost[n]) \cap waited = {}

\* The home that a node has for a user is a node to which the user has been
\* connected.
GutSound ==
    \A n \in Node, x \in User :
        gut[n][x] # NullID =>
            \E i \in 1 .. made : /\ calls[i].call = "AddConnectedUser"
                                /\ calls[i].node = gut[n][x]
                                /\ calls[i].user = x

\* Waiting ends, unless the checker has returned: because its node stopped or
\* because the channel was full at a retry.
PendingDrains ==
    \A n \in Node :
        pending[n] # {} ~> pending[n] = {} \/ checker[n] = "returned"

\* Data for `to' that `from' has queued is delivered, unless a node leaves.
Reaches(from, to, id) ==
    (\E i \in DOMAIN txQueue[from] :
        LET p == txQueue[from][i] IN
        p.PacketType = "DATA" /\ p.FinalDestID = to /\ p.PacketID = id)
    ~> \/ \E i \in DOMAIN delivered[to] : delivered[to][i] = id
       \/ \E n \in Node : status[n] \in {"leaving", "stopped"}

============================================================================
