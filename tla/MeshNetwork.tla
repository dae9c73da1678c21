---------------------------- MODULE MeshNetwork ----------------------------
(***************************************************************************)
(* The simulated radio medium (internal/network/network.go), the carrier   *)
(* sense of the router's txWorker (internal/routing/csma.go) and the       *)
(* bounded channels between them and the node goroutine.  Of a packet only *)
(* its identifier is kept, which is what the medium files it under.        *)
(*                                                                         *)
(* Time is discrete.  A sleep lasts at least what it was set to; how much  *)
(* longer, Late and WakeLate bound.                                        *)
(***************************************************************************)
EXTENDS Integers, Sequences, FiniteSets

CONSTANTS
    Node,
    PacketID,
    Place,            \* where nodes can be
    Near,             \* the pairs of places within maxRange
    Home,             \* where each node is at first
    Physical,         \* nodes that are real devices behind the MQTT bridge
    Members,          \* the nodes that have joined when the model starts
    Traffic,          \* the packets each node creates: [Node -> Seq(PacketID)]
    LoRaAirTime, TransmissionGrace, CcaWindow,
    MaxJitter,        \* the longest wait before the first carrier sense
    MaxBackoff,       \* the longest wait after a busy channel
    RadioExtra,       \* the longest pause after a transmission
    Late,             \* how late the callback of a transmission can be
    WakeLate,         \* how late a txWorker can be
    TxQueueCap,       \* 32 in the code
    MessagesCap,      \* 20 in the code
    Flooded,          \* the packets that nodes may forward
    MayLeave,         \* the nodes that may leave
    MayLose,          \* the nodes that may lose a packet at random
    MayMove,          \* the nodes that may be moved
    MaxMoves          \* how often nodes are moved

ASSUME NetworkAssumption ==
    /\ IsFiniteSet(Node)
    /\ Home \in [Node -> Place]
    /\ Physical \subseteq Node /\ Members \subseteq Node
    /\ Traffic \subseteq [Node -> Seq(PacketID)]
    /\ {TransmissionGrace, CcaWindow, MaxJitter, MaxBackoff, RadioExtra,
        Late, WakeLate, MaxMoves} \subseteq Nat
    /\ {LoRaAirTime, TxQueueCap, MessagesCap} \subseteq Nat \ {0}

ASSUME NearAssumption ==
    /\ Near \subseteq Place \X Place
    /\ \A p \in Place : <<p, p>> \in Near
    /\ \A p, q \in Place : <<p, q>> \in Near => <<q, p>> \in Near

\* What TransmissionGrace has to make up for: network.go, lines 19 to 21.
ASSUME GraceAssumption == TransmissionGrace >= LoRaAirTime + Late

VARIABLES
    now,
    place, moves,   \* where each node is; how often one was moved
    status,         \* new, up, left or stopped: membership and node goroutine
    backlog,        \* what the threads of n have yet to put on txQueue
    seenMsgIDs,     \* the packets n has created or processed
    holding,        \* a packet the node goroutine is putting on txQueue
    messages,       \* the channel into the node goroutine
    txQueue,        \* the channel to the txWorker
    csma,           \* where the txWorker is in BroadcastMessageCSMA
    wake,           \* when its sleep or its CCA window ends
    sending,        \* the packet it is to transmit
    sensed,         \* its last carrier sense that found the channel free
    aired,          \* every transmission there was, in the order they began
    callback,       \* callback[i]: the AfterFunc of the i-th transmission
    transmissions,  \* the map of the medium: the index in aired, or 0
    delivered       \* what was put on a messages channel, with what was near

radio  == <<csma, wake, sending, sensed>>
medium == <<aired, callback, transmissions, delivered>>
space  == <<place, moves>>
queues == <<backlog, seenMsgIDs, holding, messages, txQueue>>
vars   == <<now, space, status, queues, radio, medium>>

\* A carrier sense that found the channel free: when it was, how many
\* transmissions had begun, and which nodes were in range.
CarrierSense == [at : Nat, count : Nat, near : SUBSET Node]

\* A transmission, with the carrier sense that let it start.
Transmission ==
    [PacketID : PacketID, Sender : Node, StartTime : Nat,
     carrier : CarrierSense]

EndTime(tx) == tx.StartTime + LoRaAirTime

timesOverlap(t1, t2) ==
    /\ t1.StartTime < EndTime(t2)
    /\ t2.StartTime < EndTime(t1)

IsInRange(m, n) == <<place[m], place[n]>> \in Near

InRangeOf(n) == {m \in Node : IsInRange(m, n)}

\* tx.Active: no callback has cleared it.
Active(i) == callback[i].phase = "timer"

IsChannelFree(n) ==
    \A p \in PacketID :
        LET i == transmissions[p] IN
        i # 0 => ~(Active(i) /\ IsInRange(n, aired[i].Sender))

Init ==
    /\ now = 0
    /\ place = Home /\ moves = 0
    /\ status = [n \in Node |-> IF n \in Members THEN "up" ELSE "new"]
    /\ backlog \in Traffic
    /\ seenMsgIDs = [n \in Node |-> {}]
    /\ holding = [n \in Node |-> <<>>]
    /\ messages = [n \in Node |-> <<>>]
    /\ txQueue = [n \in Node |-> <<>>]
    /\ csma = [n \in Node |-> "idle"]
    /\ wake = [n \in Node |-> 0]
    /\ sending = [n \in Node |-> <<>>]
    /\ sensed = [n \in Node |-> [at |-> 0, count |-> 0, near |-> {}]]
    /\ aired = <<>> /\ callback = <<>>
    /\ transmissions = [p \in PacketID |-> 0]
    /\ delivered = {}

----------------------------------------------------------------------------
(* The threads of a node                                                   *)

\* One of the threads that create packets finds room on txQueue.
Submit(n) ==
    /\ status[n] = "up"
    /\ backlog[n] # <<>>
    /\ Len(txQueue[n]) < TxQueueCap
    /\ txQueue' = [txQueue EXCEPT ![n] = Append(@, Head(backlog[n]))]
    /\ seenMsgIDs' = [seenMsgIDs EXCEPT ![n] = @ \cup {Head(backlog[n])}]
    /\ backlog' = [backlog EXCEPT ![n] = Tail(@)]
    /\ UNCHANGED <<now, space, status, holding, messages, radio, medium>>

\* The node goroutine takes a packet from its channel.  The router (or the
\* device behind a physical node) forwards a packet it has not seen, or does
\* not; a repeated one it drops.
Receive(n) ==
    /\ status[n] \in {"up", "left"}
    /\ holding[n] = <<>>
    /\ messages[n] # <<>>
    /\ LET p == Head(messages[n]) IN
       /\ holding' \in {[holding EXCEPT ![n] = h] : h \in
                {<<>>} \cup
                IF p \in Flooded \ seenMsgIDs[n]
                THEN {<<p>>} ELSE {}}
       /\ seenMsgIDs' = [seenMsgIDs EXCEPT ![n] = @ \cup {p}]
    /\ messages' = [messages EXCEPT ![n] = Tail(@)]
    /\ UNCHANGED <<now, space, status, backlog, txQueue, radio, medium>>

\* It waits until txQueue has room for what it forwards.
Forward(n) ==
    /\ holding[n] # <<>>
    /\ Len(txQueue[n]) < TxQueueCap
    /\ txQueue' = [txQueue EXCEPT ![n] = Append(@, Head(holding[n]))]
    /\ holding' = [holding EXCEPT ![n] = <<>>]
    /\ UNCHANGED <<now, space, status, backlog, seenMsgIDs, messages, radio,
                   medium>>

Join(n) ==
    /\ status[n] = "new"
    /\ status' = [status EXCEPT ![n] = "up"]
    /\ UNCHANGED <<now, space, queues, radio, medium>>

\* removeNode takes the node off the map and closes its quit channel,
Leave(n) ==
    /\ n \in MayLeave
    /\ status[n] = "up"
    /\ status' = [status EXCEPT ![n] = "left"]
    /\ UNCHANGED <<now, space, queues, radio, medium>>

\* which the node goroutine sees when it is not inside HandleMessage.
Quit(n) ==
    /\ status[n] = "left"
    /\ holding[n] = <<>>
    /\ status' = [status EXCEPT ![n] = "stopped"]
    /\ UNCHANGED <<now, space, queues, radio, medium>>

\* MoveNode sets the position that every range check reads.
Move(n) ==
    /\ n \in MayMove
    /\ status[n] = "up"
    /\ moves < MaxMoves
    /\ moves' = moves + 1
    /\ \E to \in Place \ {place[n]} : place' = [place EXCEPT ![n] = to]
    /\ UNCHANGED <<now, status, queues, radio, medium>>

----------------------------------------------------------------------------
(* The txWorker                                                            *)

\* A mutant: a random deviation both ways.
MutantCentredSleep(n, d) ==
    \E t \in now - d .. now + d : wake' = [wake EXCEPT ![n] = t]

SleepUpTo(n, d) == \E t \in now .. now + d : wake' = [wake EXCEPT ![n] = t]

TakePacket(n) ==
    /\ csma[n] = "idle"
    /\ txQueue[n] # <<>>
    /\ txQueue' = [txQueue EXCEPT ![n] = Tail(@)]
    /\ sending' = [sending EXCEPT ![n] = <<Head(txQueue[n])>>]
    /\ csma' = [csma EXCEPT ![n] = "waiting"]
    /\ SleepUpTo(n, MaxJitter)
    /\ UNCHANGED <<now, space, status, backlog, seenMsgIDs, holding, messages,
                   sensed, medium>>

StopTxWorker(n) ==
    /\ csma[n] = "idle"
    /\ status[n] = "stopped"
    /\ csma' = [csma EXCEPT ![n] = "stopped"]
    /\ UNCHANGED <<now, space, status, queues, wake, sending, sensed, medium>>

\* A busy channel: sleep for a random part of the current backoff.
BackOff(n) ==
    /\ csma' = [csma EXCEPT ![n] = "waiting"]
    /\ SleepUpTo(n, MaxBackoff)

\* waitClearChannel starts its window with a first sample, unless the window
\* is empty,
StartWindow(n) ==
    /\ csma[n] = "waiting"
    /\ now >= wake[n]
    /\ IF CcaWindow > 0 /\ ~IsChannelFree(n)
       THEN BackOff(n)
       ELSE /\ csma' = [csma EXCEPT ![n] = "sensing"]
            /\ wake' = [wake EXCEPT ![n] = now + CcaWindow]
    /\ UNCHANGED <<now, space, status, queues, sending, sensed, medium>>

\* samples again until the window ends, and gives up at the first busy one
\* (a free one changes nothing),
SampleBusy(n) ==
    /\ csma[n] = "sensing"
    /\ now < wake[n]
    /\ ~IsChannelFree(n)
    /\ BackOff(n)
    /\ UNCHANGED <<now, space, status, queues, sending, sensed, medium>>

\* A mutant: the window has been free, so transmit.
MutantNoFinalCheck(n) ==
    /\ csma[n] = "sensing"
    /\ now >= wake[n]
    /\ csma' = [csma EXCEPT ![n] = "clear"]
    /\ wake' = [wake EXCEPT ![n] = now]
    /\ sensed' = [sensed EXCEPT ![n] =
          [at |-> now, count |-> Len(aired), near |-> InRangeOf(n)]]
    /\ UNCHANGED <<now, space, status, queues, sending, medium>>

\* and looks once more when it has.
FinalCheck(n) ==
    /\ csma[n] = "sensing"
    /\ now >= wake[n]
    /\ IF IsChannelFree(n)
       THEN /\ csma' = [csma EXCEPT ![n] = "clear"]
            /\ wake' = [wake EXCEPT ![n] = now]
            /\ sensed' = [sensed EXCEPT ![n] =
                  [at |-> now, count |-> Len(aired), near |-> InRangeOf(n)]]
       ELSE /\ BackOff(n)
            /\ UNCHANGED sensed
    /\ UNCHANGED <<now, space, status, queues, sending, medium>>

\* A mutant: the range of two senders that can collide.
MutantTwiceTheRange(n) ==
    {m \in Node \ {n} :
        /\ status[m] = "up"
        /\ ~(n \in Physical /\ m \in Physical)
        /\ \E q \in Place :
              <<place[n], q>> \in Near /\ <<q, place[m]>> \in Near}

RecipientsOf(n) ==
    {m \in Node \ {n} :
        /\ status[m] = "up"
        /\ ~(n \in Physical /\ m \in Physical)
        /\ IsInRange(n, m)}

\* A set of nodes in the order in which a map is iterated: any.
Orders(S) ==
    {s \in [1 .. Cardinality(S) -> S] : {s[k] : k \in DOMAIN s} = S}

\* By now another node may have started: the check and the start of the
\* transmission are not one step.
BroadcastMessage(n) ==
    /\ csma[n] = "clear"
    /\ LET p == Head(sending[n]) IN
       \E order \in Orders(RecipientsOf(n)) :
          /\ aired' = Append(aired, [PacketID |-> p, Sender |-> n,
                                StartTime |-> now, carrier |-> sensed[n]])
          /\ callback' = Append(callback,
                [phase |-> "timer", others |-> {}, todo |-> order])
          /\ transmissions' = [transmissions EXCEPT ![p] = Len(aired) + 1]
    /\ csma' = [csma EXCEPT ![n] = "radio"]
    /\ \E extra \in 0 .. RadioExtra :
          wake' = [wake EXCEPT ![n] = now + LoRaAirTime + extra]
    /\ UNCHANGED <<now, space, status, queues, sending, sensed, delivered>>

RadioDone(n) ==
    /\ csma[n] = "radio"
    /\ now >= wake[n]
    /\ csma' = [csma EXCEPT ![n] = "idle"]
    /\ sending' = [sending EXCEPT ![n] = <<>>]
    /\ UNCHANGED <<now, space, status, queues, wake, sensed, medium>>

----------------------------------------------------------------------------
(* deliverIfNoCollision, run when the air time of a transmission is over   *)

EndTransmission(i) ==
    /\ callback[i].phase = "timer"
    /\ now >= EndTime(aired[i])
    /\ callback' = [callback EXCEPT ![i].phase = "ended"]
    /\ UNCHANGED <<now, space, status, queues, radio, aired, transmissions,
                   delivered>>

\* The copy of the map, for which the lock is taken a second time.
TakeSnapshot(i) ==
    /\ callback[i].phase = "ended"
    /\ callback' = [callback EXCEPT
          ![i].phase = "delivering",
          ![i].others = {transmissions[p] : p \in PacketID} \ {0, i}]
    /\ UNCHANGED <<now, space, status, queues, radio, aired, transmissions,
                   delivered>>

Collides(i, n) ==
    \E j \in callback[i].others :
        /\ timesOverlap(aired[i], aired[j])
        /\ IsInRange(aired[j].Sender, n)

NextRecipient(i) ==
    callback' = [callback EXCEPT ![i].todo = Tail(@)]

\* A mutant: a collision ends the loop.
MutantCollisionStops(i) ==
    /\ callback[i].phase = "delivering"
    /\ callback[i].todo # <<>>
    /\ LET n == Head(callback[i].todo) IN
       ~IsInRange(aired[i].Sender, n) \/ n \in MayLose
    /\ NextRecipient(i)
    /\ UNCHANGED <<now, space, status, queues, radio, aired, transmissions,
                   delivered>>

\* The next recipient is out of range, hears a collision or loses the packet;
Skip(i) ==
    /\ callback[i].phase = "delivering"
    /\ callback[i].todo # <<>>
    /\ LET n == Head(callback[i].todo) IN
       \/ ~IsInRange(aired[i].Sender, n)
       \/ Collides(i, n)
       \/ n \in MayLose
    /\ NextRecipient(i)
    /\ UNCHANGED <<now, space, status, queues, radio, aired, transmissions,
                   delivered>>

\* else the callback waits until its channel has room.
Deliver(i) ==
    /\ callback[i].phase = "delivering"
    /\ callback[i].todo # <<>>
    /\ LET n == Head(callback[i].todo) IN
       /\ IsInRange(aired[i].Sender, n)
       /\ ~Collides(i, n)
       /\ Len(messages[n]) < MessagesCap
       /\ messages' = [messages EXCEPT ![n] = Append(@, aired[i].PacketID)]
       /\ delivered' = delivered \cup
             {[tx |-> i, to |-> n, near |-> InRangeOf(n)]}
    /\ NextRecipient(i)
    /\ UNCHANGED <<now, space, status, backlog, seenMsgIDs, holding, txQueue,
                   radio, aired, transmissions>>

\* A mutant: the grace counts from the start of a transmission.
MutantPruneFromStart ==
    LET Prunable(p) ==
          /\ transmissions[p] # 0
          /\ now > aired[transmissions[p]].StartTime + TransmissionGrace
    IN
    /\ \E p \in PacketID : Prunable(p)
    /\ transmissions' =
          [p \in PacketID |-> IF Prunable(p) THEN 0 ELSE transmissions[p]]
    /\ UNCHANGED <<now, space, status, queues, radio, aired, callback,
                   delivered>>

\* One iteration of the pruner.
pruneTransmissions ==
    LET Prunable(p) ==
          /\ transmissions[p] # 0
          /\ now > EndTime(aired[transmissions[p]]) + TransmissionGrace
    IN
    /\ \E p \in PacketID : Prunable(p)
    /\ transmissions' =
          [p \in PacketID |-> IF Prunable(p) THEN 0 ELSE transmissions[p]]
    /\ UNCHANGED <<now, space, status, queues, radio, aired, callback,
                   delivered>>

----------------------------------------------------------------------------
(* Time                                                                    *)

\* Time passes while something waits for it,
TimeMatters ==
    \/ \E n \in Node :
          csma[n] \in {"waiting", "sensing", "radio"} /\ now < wake[n]
    \/ \E i \in DOMAIN aired : Active(i) /\ now < EndTime(aired[i])
    \/ \E p \in PacketID :
          /\ transmissions[p] # 0
          /\ now <= EndTime(aired[transmissions[p]]) + TransmissionGrace

\* but no txWorker and no callback is kept waiting for long.
Tick ==
    /\ TimeMatters
    /\ \A n \in Node :
          csma[n] \in {"waiting", "sensing", "clear", "radio"}
          => now < wake[n] + WakeLate
    /\ \A n \in Node : csma[n] = "idle" => txQueue[n] = <<>>
    /\ \A i \in DOMAIN aired :
          callback[i].phase \in {"timer", "ended"}
          => now < EndTime(aired[i]) + Late
    /\ now' = now + 1
    /\ UNCHANGED <<space, status, queues, radio, medium>>

TxWorker(n) ==
    \/ TakePacket(n) \/ StopTxWorker(n) \/ StartWindow(n) \/ SampleBusy(n)
    \/ FinalCheck(n) \/ BroadcastMessage(n) \/ RadioDone(n)

Callback(i) ==
    EndTransmission(i) \/ TakeSnapshot(i) \/ Skip(i) \/ Deliver(i)

NodeGoroutine(n) == Receive(n) \/ Forward(n) \/ Quit(n)

Next ==
    \/ \E n \in Node :
          \/ Submit(n) \/ NodeGoroutine(n) \/ TxWorker(n)
          \/ Join(n) \/ Leave(n) \/ Move(n)
    \/ \E i \in DOMAIN aired : Callback(i)
    \/ pruneTransmissions
    \/ Tick

Spec == Init /\ [][Next]_vars

\* The scheduler runs every goroutine that can run, and the clock does not
\* stop.  Nobody has to join, leave or move.
Fairness ==
    /\ WF_vars(Tick)
    /\ WF_vars(pruneTransmissions)
    /\ \A n \in Node :
          /\ WF_vars(Submit(n))
          /\ WF_vars(NodeGoroutine(n))
          /\ WF_vars(TxWorker(n))
    /\ WF_vars(\E i \in DOMAIN aired : Callback(i))

FairSpec == Spec /\ Fairness

----------------------------------------------------------------------------
(* Properties                                                              *)

AfterFunc == [phase : {"timer", "ended", "delivering"}, others : SUBSET Nat,
              todo : Seq(Node)]

\* The values each variable takes.
TypeOK ==
    /\ now \in Nat
    /\ place \in [Node -> Place]
    /\ moves \in 0 .. MaxMoves
    /\ status \in [Node -> {"new", "up", "left", "stopped"}]
    /\ backlog \in [Node -> Seq(PacketID)]
    /\ seenMsgIDs \in [Node -> SUBSET PacketID]
    /\ holding \in [Node -> Seq(PacketID)]
    /\ messages \in [Node -> Seq(PacketID)]
    /\ txQueue \in [Node -> Seq(PacketID)]
    /\ csma \in [Node ->
          {"idle", "waiting", "sensing", "clear", "radio", "stopped"}]
    /\ wake \in [Node -> Nat]
    /\ sending \in [Node -> Seq(PacketID)]
    /\ sensed \in [Node -> CarrierSense]
    /\ aired \in Seq(Transmission)
    /\ callback \in Seq(AfterFunc)
    /\ transmissions \in [PacketID -> 0 .. Len(aired)]
    /\ delivered \subseteq [tx : Nat, to : Node, near : SUBSET Node]

\* The record of transmission i was overwritten by one of the first `count'
\* transmissions: it had the same packet identifier.
Replaced(i, count) ==
    \E k \in i + 1 .. count : aired[k].PacketID = aired[i].PacketID

\* A packet is put on a node's channel only if no other transmission within
\* range of the node overlapped its own, the node's own ones included; unless
\* the other's record is lost because its packet was transmitted again.
\* This is what TransmissionGrace is for.
CollisionsAreSeen ==
    \A e \in delivered : \A j \in DOMAIN aired :
        /\ j # e.tx
        /\ timesOverlap(aired[e.tx], aired[j])
        /\ aired[j].Sender \in e.near
        => Replaced(j, Len(aired))

\* Without the exception.
CollisionsAreDropped ==
    \A e \in delivered : \A j \in DOMAIN aired :
        /\ j # e.tx
        /\ timesOverlap(aired[e.tx], aired[j])
        => aired[j].Sender \notin e.near

\* A transmission begins after the end of everything that its sender could hear
\* when it last sensed the carrier, its own last transmission included; unless
\* the other's record was lost.  (What starts between that look and its own
\* start it does not notice.)
CarrierIsSensed ==
    \A j \in DOMAIN aired : LET carrier == aired[j].carrier IN
        \A i \in 1 .. carrier.count :
            aired[i].Sender \in carrier.near /\ ~Replaced(i, carrier.count)
            => EndTime(aired[i]) <= aired[j].StartTime

\* A callback that waits for room on the channel of a node that has stopped.
Stuck(i) ==
    /\ callback[i].phase = "delivering"
    /\ callback[i].todo # <<>>
    /\ status[Head(callback[i].todo)] = "stopped"

Finished(i) == callback[i].phase = "delivering" /\ callback[i].todo = <<>>

\* However small the channels: all that is to be sent is sent, and delivered or
\* dropped; only nodes that have left keep what they had, and callbacks that
\* wait for them.
MediumDrains ==
    <>[](/\ \A n \in Node :
               status[n] = "up" =>
                   /\ \A queue \in {backlog, holding, messages, txQueue} :
                         queue[n] = <<>>
                   /\ csma[n] = "idle"
         /\ \A i \in DOMAIN aired : Finished(i) \/ Stuck(i))

----------------------------------------------------------------------------
(* The medium as its users see it                                          *)

\* What a txWorker has taken off txQueue and not yet begun to transmit, and
\* what waits behind it.
Unsent(n) ==
    (IF csma[n] \in {"waiting", "sensing", "clear"} THEN sending[n] ELSE <<>>)
        \o txQueue[n]

\* The recipients a callback still has before it.
Remaining(i) == {callback[i].todo[k] : k \in DOMAIN callback[i].todo}

Delivery == INSTANCE MeshDelivery WITH
    Capacity <- MessagesCap,
    members  <- {n \in Node : status[n] = "up"},
    known    <- seenMsgIDs,
    outbox   <- [n \in Node |-> Unsent(n)],
    underway <- [i \in DOMAIN aired |->
        [packet |-> aired[i].PacketID, sender |-> aired[i].Sender,
         to |-> Remaining(i)]],
    inbox    <- messages

\* The carrier sense that may give up and try again, the callbacks that are late
\* or wait for a full channel, nodes that leave or move while they are among
\* the recipients: none of it makes a router see more than MeshDelivery allows.
\* No packet is transmitted twice or out of its sender's order, none arrives
\* twice from one transmission, out of range of its sender, or from a node that
\* never had it.
DeliveryPromise == Delivery!Spec

=============================================================================
