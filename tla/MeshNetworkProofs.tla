------------------------- MODULE MeshNetworkProofs -------------------------
(***************************************************************************)
(* Carrier sense and collisions for every set of nodes, every topology and *)
(* traffic, and every choice of the times, as long as TransmissionGrace    *)
(* covers the air time and the lateness of a callback.                     *)
(***************************************************************************)
EXTENDS MeshNetwork, FiniteSetTheorems, SequenceTheorems, TLAPS

----------------------------------------------------------------------------
(* Types                                                                   *)

LEMMA TailType ==
  ASSUME NEW S, NEW seq \in Seq(S), seq # <<>>
  PROVE  Head(seq) \in S /\ Tail(seq) \in Seq(S)
  BY HeadTailProperties

\* A channel of a node loses its head or gains an element at its end.
LEMMA QueueType ==
  ASSUME NEW S, NEW queue \in [Node -> Seq(S)], NEW n \in Node
  PROVE  /\ queue[n] # <<>> =>
               /\ Head(queue[n]) \in S
               /\ [queue EXCEPT ![n] = Tail(@)] \in [Node -> Seq(S)]
         /\ \A e \in S :
               [queue EXCEPT ![n] = Append(@, e)] \in [Node -> Seq(S)]
         /\ \A e \in S : [queue EXCEPT ![n] = <<e>>] \in [Node -> Seq(S)]
         /\ [queue EXCEPT ![n] = <<>>] \in [Node -> Seq(S)]
  <1>1. queue[n] \in Seq(S)
    OBVIOUS
  <1>2. queue[n] # <<>> => Head(queue[n]) \in S /\ Tail(queue[n]) \in Seq(S)
    BY <1>1, TailType
  <1>3. \A e \in S : Append(queue[n], e) \in Seq(S) /\ <<e>> \in Seq(S)
    BY <1>1
  <1>4. <<>> \in Seq(S)
    OBVIOUS
  <1> QED
    BY <1>2, <1>3, <1>4

LEMMA InitType == Init => TypeOK
  BY NetworkAssumption DEF Init, TypeOK, CarrierSense, Transmission, AfterFunc

LEMMA SubmitType ==
  ASSUME TypeOK, NEW n \in Node, Submit(n)
  PROVE  TypeOK'
  <1>1. /\ backlog' \in [Node -> Seq(PacketID)]
        /\ txQueue' \in [Node -> Seq(PacketID)]
        /\ seenMsgIDs' \in [Node -> SUBSET PacketID]
    BY QueueType DEF TypeOK, Submit
  <1> QED
    BY <1>1 DEF TypeOK, Submit, space, radio, medium

LEMMA ReceiveType ==
  ASSUME TypeOK, NEW n \in Node, Receive(n)
  PROVE  TypeOK'
  <1>1. /\ messages' \in [Node -> Seq(PacketID)]
        /\ Head(messages[n]) \in PacketID
    BY QueueType DEF TypeOK, Receive
  <1>2. seenMsgIDs' \in [Node -> SUBSET PacketID]
    BY <1>1 DEF TypeOK, Receive
  <1>3. holding' \in [Node -> Seq(PacketID)]
    <2>1. /\ [holding EXCEPT ![n] = <<>>] \in [Node -> Seq(PacketID)]
          /\ [holding EXCEPT ![n] = <<Head(messages[n])>>]
                \in [Node -> Seq(PacketID)]
      BY <1>1, QueueType DEF TypeOK
    <2>2. PICK h \in {<<>>, <<Head(messages[n])>>} :
             holding' = [holding EXCEPT ![n] = h]
      BY Zenon DEF Receive
    <2> QED
      BY <2>1, <2>2
  <1> QED
    BY <1>1, <1>2, <1>3 DEF TypeOK, Receive, space, radio, medium

LEMMA ForwardType ==
  ASSUME TypeOK, NEW n \in Node, Forward(n)
  PROVE  TypeOK'
  <1>1. /\ txQueue' \in [Node -> Seq(PacketID)]
        /\ holding' \in [Node -> Seq(PacketID)]
    BY QueueType DEF TypeOK, Forward
  <1> QED
    BY <1>1 DEF TypeOK, Forward, space, radio, medium

LEMMA MembershipType ==
  ASSUME TypeOK, NEW n \in Node, Join(n) \/ Leave(n) \/ Quit(n) \/ Move(n)
  PROVE  TypeOK'
  <1>1. CASE Join(n) \/ Leave(n) \/ Quit(n)
    BY <1>1 DEF TypeOK, Join, Leave, Quit, space, queues, radio, medium
  <1>2. CASE Move(n)
    <2>1. moves' \in 0 .. MaxMoves
      BY SMTT(30), <1>2, NetworkAssumption DEF TypeOK, Move
    <2>2. place' \in [Node -> Place]
      BY <1>2 DEF TypeOK, Move
    <2> QED
      BY <1>2, <2>1, <2>2 DEF TypeOK, Move, queues, radio, medium
  <1> QED
    BY <1>1, <1>2

LEMMA SleepType ==
  ASSUME TypeOK, NEW n \in Node, NEW d \in Nat, SleepUpTo(n, d)
  PROVE  wake' \in [Node -> Nat]
  BY DEF TypeOK, SleepUpTo

LEMMA TxWorkerType ==
  ASSUME TypeOK, NEW n \in Node,
         \/ TakePacket(n) \/ StopTxWorker(n) \/ StartWindow(n) \/ SampleBusy(n)
         \/ FinalCheck(n) \/ RadioDone(n)
  PROVE  TypeOK'
  <1>0. {MaxJitter, MaxBackoff, CcaWindow} \subseteq Nat
    BY NetworkAssumption
  <1>1. CASE TakePacket(n)
    <2>1. /\ txQueue' \in [Node -> Seq(PacketID)]
          /\ sending' \in [Node -> Seq(PacketID)]
      BY <1>1, QueueType DEF TypeOK, TakePacket
    <2>2. wake' \in [Node -> Nat]
      BY <1>0, <1>1, SleepType DEF TakePacket
    <2> QED
      BY <1>1, <2>1, <2>2 DEF TypeOK, TakePacket, space, medium
  <1>2. CASE StopTxWorker(n)
    BY <1>2 DEF TypeOK, StopTxWorker, space, queues, medium
  <1>3. CASE StartWindow(n) \/ SampleBusy(n)
    <2>1. wake' \in [Node -> Nat]
      <3>1. CASE BackOff(n)
        BY <1>0, <3>1, SleepType DEF BackOff
      <3>2. CASE wake' = [wake EXCEPT ![n] = now + CcaWindow]
        BY <1>0, <3>2 DEF TypeOK
      <3> QED
        BY <1>3, <3>1, <3>2 DEF StartWindow, SampleBusy
    <2>2. csma' \in [Node ->
            {"idle", "waiting", "sensing", "clear", "radio", "stopped"}]
      BY <1>3 DEF StartWindow, SampleBusy, BackOff, TypeOK
    <2> QED
      BY <1>3, <2>1, <2>2
      DEF TypeOK, StartWindow, SampleBusy, space, queues, medium
  <1>4. CASE FinalCheck(n)
    <2>1. wake' \in [Node -> Nat]
      BY ZenonT(30), <1>0, <1>4, SleepType DEF FinalCheck, BackOff, TypeOK
    <2>2. csma' \in [Node ->
            {"idle", "waiting", "sensing", "clear", "radio", "stopped"}]
      BY ZenonT(30), <1>4 DEF FinalCheck, BackOff, TypeOK
    <2>3. [at |-> now, count |-> Len(aired), near |-> InRangeOf(n)]
             \in CarrierSense
      BY DEF TypeOK, CarrierSense, InRangeOf
    <2>4. sensed' \in [Node -> CarrierSense]
      BY Zenon, <1>4, <2>3 DEF FinalCheck, TypeOK
    <2> QED
      BY <1>4, <2>1, <2>2, <2>4 DEF TypeOK, FinalCheck, space, queues, medium
  <1>5. CASE RadioDone(n)
    <2>1. sending' \in [Node -> Seq(PacketID)]
      BY <1>5, QueueType DEF TypeOK, RadioDone
    <2> QED
      BY <1>5, <2>1 DEF TypeOK, RadioDone, space, queues, medium
  <1> QED
    BY <1>1, <1>2, <1>3, <1>4, <1>5

\* What a txWorker is to transmit it has; every transmission has a callback.
WorkInHand ==
    /\ Len(callback) = Len(aired)
    /\ \A n \in Node :
          csma[n] \in {"waiting", "sensing", "clear", "radio"}
          => sending[n] # <<>>

LEMMA OrderType ==
  ASSUME NEW S \in SUBSET Node, NEW order \in Orders(S)
  PROVE  order \in Seq(Node)
  <1>1. IsFiniteSet(S)
    BY NetworkAssumption, FS_Subset
  <1>2. Cardinality(S) \in Nat
    BY <1>1, FS_CardinalityType
  <1>3. order \in [1 .. Cardinality(S) -> Node]
    BY DEF Orders
  <1> QED
    BY <1>2, <1>3

\* A transmission begins: what is appended, and what stays.
LEMMA BroadcastStep ==
  ASSUME TypeOK, WorkInHand, NEW n \in Node, BroadcastMessage(n)
  PROVE  \E tx \in Transmission, cb \in AfterFunc :
            /\ tx.PacketID = Head(sending[n]) /\ tx.Sender = n
            /\ tx.StartTime = now /\ tx.carrier = sensed[n]
            /\ cb.phase = "timer" /\ cb.others = {}
            /\ aired' = Append(aired, tx)
            /\ callback' = Append(callback, cb)
            /\ transmissions' =
                  [transmissions EXCEPT ![tx.PacketID] = Len(aired) + 1]
  <1>1. Head(sending[n]) \in PacketID
    BY TailType DEF TypeOK, WorkInHand, BroadcastMessage
  <1>2. PICK order \in Orders(RecipientsOf(n)) :
           /\ aired' = Append(aired,
                 [PacketID |-> Head(sending[n]), Sender |-> n,
                  StartTime |-> now, carrier |-> sensed[n]])
           /\ callback' = Append(callback,
                 [phase |-> "timer", others |-> {}, todo |-> order])
           /\ transmissions' =
                 [transmissions EXCEPT ![Head(sending[n])] = Len(aired) + 1]
    BY DEF BroadcastMessage
  <1>3. order \in Seq(Node)
    BY OrderType DEF RecipientsOf
  <1>4. [PacketID |-> Head(sending[n]), Sender |-> n, StartTime |-> now,
         carrier |-> sensed[n]] \in Transmission
    BY <1>1 DEF TypeOK, Transmission
  <1>5. [phase |-> "timer", others |-> {}, todo |-> order] \in AfterFunc
    BY <1>3 DEF AfterFunc
  <1> QED
    BY <1>2, <1>4, <1>5

LEMMA BroadcastType ==
  ASSUME TypeOK, WorkInHand, NEW n \in Node, BroadcastMessage(n)
  PROVE  TypeOK' /\ WorkInHand'
  <1>1. PICK tx \in Transmission, cb \in AfterFunc :
            /\ aired' = Append(aired, tx)
            /\ callback' = Append(callback, cb)
            /\ transmissions' =
                  [transmissions EXCEPT ![tx.PacketID] = Len(aired) + 1]
    BY BroadcastStep
  <1>2. aired \in Seq(Transmission) /\ callback \in Seq(AfterFunc)
    BY DEF TypeOK
  <1>3. /\ aired' \in Seq(Transmission) /\ callback' \in Seq(AfterFunc)
        /\ Len(aired') = Len(aired) + 1 /\ Len(callback') = Len(callback) + 1
    BY <1>1, <1>2
  <1>4. transmissions' \in [PacketID -> 0 .. Len(aired')]
    <2>1. transmissions \in [PacketID -> 0 .. Len(aired)]
      BY DEF TypeOK
    <2>2. Len(aired) \in Nat /\ tx.PacketID \in PacketID
      BY <1>2 DEF Transmission
    <2>3. Len(aired) + 1 \in 0 .. Len(aired')
      BY <1>3, <2>2
    <2>4. 0 .. Len(aired) \subseteq 0 .. Len(aired')
      BY <1>3, <2>2
    <2>5. transmissions \in [PacketID -> 0 .. Len(aired')]
      BY <2>1, <2>4
    <2> QED
      BY <1>1, <2>3, <2>5
  <1>5. wake' \in [Node -> Nat]
    <2>1. {RadioExtra, LoRaAirTime} \subseteq Nat
      BY NetworkAssumption
    <2>2. PICK extra \in 0 .. RadioExtra :
             wake' = [wake EXCEPT ![n] = now + LoRaAirTime + extra]
      BY DEF BroadcastMessage
    <2>3. now + LoRaAirTime + extra \in Nat
      BY SMTT(30), <2>1 DEF TypeOK
    <2> QED
      BY <2>2, <2>3 DEF TypeOK
  <1>6. csma' \in [Node ->
            {"idle", "waiting", "sensing", "clear", "radio", "stopped"}]
    BY DEF TypeOK, BroadcastMessage
  <1>7. TypeOK'
    BY <1>3, <1>4, <1>5, <1>6 DEF TypeOK, BroadcastMessage, space, queues
  <1>8. WorkInHand'
    BY <1>3 DEF TypeOK, WorkInHand, BroadcastMessage
  <1> QED
    BY <1>7, <1>8

LEMMA CallbackType ==
  ASSUME TypeOK, WorkInHand, NEW i \in DOMAIN aired, Callback(i)
  PROVE  /\ TypeOK' /\ WorkInHand'
         /\ i \in DOMAIN callback /\ callback[i] \in AfterFunc
         /\ UNCHANGED <<now, sensed, aired, transmissions>>
         /\ DOMAIN callback' = DOMAIN callback
         /\ \A j \in DOMAIN aired \ {i} : callback'[j] = callback[j]
  <1>0. /\ aired \in Seq(Transmission) /\ callback \in Seq(AfterFunc)
        /\ Len(callback) = Len(aired)
    BY DEF TypeOK, WorkInHand
  <1>1. i \in DOMAIN callback /\ callback[i] \in AfterFunc
    BY <1>0
  <1>2. transmissions \in [PacketID -> Nat]
    BY <1>0 DEF TypeOK
  <1>3. PICK cb \in AfterFunc : callback' = [callback EXCEPT ![i] = cb]
    <2>1. CASE EndTransmission(i)
      BY <1>1, <2>1 DEF EndTransmission, AfterFunc
    <2>2. CASE TakeSnapshot(i)
      BY ZenonT(30), <1>1, <1>2, <2>2 DEF TakeSnapshot, AfterFunc
    <2>3. CASE Skip(i) \/ Deliver(i)
      <3>1. Tail(callback[i].todo) \in Seq(Node)
        BY <1>1, <2>3, TailType DEF Skip, Deliver, AfterFunc
      <3> QED
        BY <1>1, <2>3, <3>1 DEF Skip, Deliver, NextRecipient, AfterFunc
    <2> QED
      BY <2>1, <2>2, <2>3 DEF Callback
  <1>4. /\ callback' \in Seq(AfterFunc) /\ Len(callback') = Len(callback)
        /\ DOMAIN callback' = DOMAIN callback
        /\ \A j \in DOMAIN aired \ {i} : callback'[j] = callback[j]
    BY <1>0, <1>1, <1>3
  <1>5. UNCHANGED <<now, sensed, aired, transmissions>>
    BY DEF Callback, EndTransmission, TakeSnapshot, Skip, Deliver, radio
  <1>6. /\ messages' \in [Node -> Seq(PacketID)]
        /\ delivered' \subseteq [tx : Nat, to : Node, near : SUBSET Node]
    <2>1. CASE EndTransmission(i) \/ TakeSnapshot(i) \/ Skip(i)
      BY <2>1 DEF TypeOK, EndTransmission, TakeSnapshot, Skip, queues
    <2>2. CASE Deliver(i)
      <3>0. callback[i].todo \in Seq(Node) /\ callback[i].todo # <<>>
        BY <1>1, <2>2 DEF Deliver, AfterFunc
      <3>1. Head(callback[i].todo) \in Node /\ aired[i].PacketID \in PacketID
        <4>1. aired[i] \in Transmission
          BY <1>0
        <4> QED
          BY <3>0, <4>1, TailType DEF Transmission
      <3>2. messages' \in [Node -> Seq(PacketID)]
        BY <2>2, <3>1, QueueType DEF TypeOK, Deliver
      <3>3. [tx |-> i, to |-> Head(callback[i].todo),
             near |-> InRangeOf(Head(callback[i].todo))]
               \in [tx : Nat, to : Node, near : SUBSET Node]
        BY <1>0, <3>1 DEF InRangeOf
      <3> QED
        BY <2>2, <3>2, <3>3 DEF TypeOK, Deliver
    <2> QED
      BY <2>1, <2>2 DEF Callback
  <1>7. /\ UNCHANGED <<space, status, backlog, seenMsgIDs, holding, txQueue,
                       csma, wake, sending>>
    BY DEF Callback, EndTransmission, TakeSnapshot, Skip, Deliver, radio, queues
  <1> QED
    BY <1>0, <1>1, <1>4, <1>5, <1>6, <1>7 DEF TypeOK, WorkInHand, space

LEMMA pruneType ==
  ASSUME TypeOK, WorkInHand, pruneTransmissions
  PROVE  TypeOK' /\ WorkInHand'
  <1>1. transmissions' \in [PacketID -> 0 .. Len(aired)]
    BY DEF TypeOK, pruneTransmissions
  <1> QED
    BY <1>1 DEF TypeOK, WorkInHand, pruneTransmissions, space, queues, radio

LEMMA TickType ==
  ASSUME TypeOK, WorkInHand, Tick
  PROVE  TypeOK' /\ WorkInHand'
  BY DEF TypeOK, WorkInHand, Tick, space, queues, radio, medium

\* The steps that touch neither the medium nor the clock.
LEMMA LocalStep ==
  ASSUME WorkInHand, TypeOK, NEW n \in Node,
         \/ Submit(n) \/ NodeGoroutine(n) \/ Join(n) \/ Leave(n) \/ Move(n)
         \/ TakePacket(n) \/ StopTxWorker(n) \/ StartWindow(n)
         \/ SampleBusy(n) \/ RadioDone(n)
  PROVE  UNCHANGED <<now, sensed, medium>> /\ WorkInHand'
  <1>1. CASE \/ Submit(n) \/ NodeGoroutine(n)
             \/ Join(n) \/ Leave(n) \/ Move(n)
    BY <1>1 DEF Submit, NodeGoroutine, Receive, Forward, Quit, Join, Leave,
                Move, WorkInHand, radio, medium
  <1>2. CASE \/ TakePacket(n) \/ StopTxWorker(n) \/ StartWindow(n)
             \/ SampleBusy(n) \/ RadioDone(n)
    <2>1. UNCHANGED <<now, sensed, medium>>
      BY <1>2 DEF TakePacket, StopTxWorker, StartWindow, SampleBusy, RadioDone
    <2>2. WorkInHand'
      <3>1. CASE TakePacket(n)
        BY <3>1 DEF TakePacket, WorkInHand, TypeOK, medium
      <3>2. CASE StopTxWorker(n) \/ RadioDone(n)
        BY <3>2 DEF StopTxWorker, RadioDone, WorkInHand, TypeOK, medium
      <3>3. CASE StartWindow(n) \/ SampleBusy(n)
        BY <3>3 DEF StartWindow, SampleBusy, BackOff, WorkInHand, TypeOK, medium
      <3> QED
        BY <1>2, <3>1, <3>2, <3>3
    <2> QED
      BY <2>1, <2>2
  <1> QED
    BY <1>1, <1>2

LEMMA NextType ==
  ASSUME TypeOK, WorkInHand, [Next]_vars
  PROVE  TypeOK' /\ WorkInHand'
  <1>1. CASE UNCHANGED vars
    BY <1>1 DEF TypeOK, WorkInHand, vars, space, queues, radio, medium
  <1>2. ASSUME NEW n \in Node,
               \/ Submit(n) \/ NodeGoroutine(n) \/ TxWorker(n)
               \/ Join(n) \/ Leave(n) \/ Move(n)
        PROVE  TypeOK' /\ WorkInHand'
    <2>1. CASE BroadcastMessage(n)
      BY <2>1, BroadcastType
    <2>2. CASE FinalCheck(n)
      <3>1. WorkInHand'
        BY ZenonT(30), <2>2 DEF FinalCheck, BackOff, WorkInHand, TypeOK, medium
      <3> QED
        BY <2>2, <3>1, TxWorkerType
    <2>3. CASE ~BroadcastMessage(n) /\ ~FinalCheck(n)
      <3>1. WorkInHand'
        BY <1>2, <2>3, LocalStep DEF TxWorker
      <3>2. TypeOK'
        BY <1>2, <2>3, SubmitType, ReceiveType, ForwardType, MembershipType,
           TxWorkerType DEF TxWorker, NodeGoroutine
      <3> QED
        BY <3>1, <3>2
    <2> QED
      BY <2>1, <2>2, <2>3
  <1> QED
    BY <1>1, <1>2, CallbackType, pruneType, TickType DEF Next

LEMMA TypeInvariant == Spec => [](TypeOK /\ WorkInHand)
  <1>1. Init => TypeOK /\ WorkInHand
    BY InitType DEF Init, WorkInHand
  <1>2. TypeOK /\ WorkInHand /\ [Next]_vars => (TypeOK /\ WorkInHand)'
    BY NextType
  <1> QED
    BY <1>1, <1>2, PTL DEF Spec

\* Whatever the threads, the medium and the clock do, every variable keeps its
\* type: no txWorker transmits without a packet, and the map of transmissions
\* names only transmissions there were.
THEOREM NetworkTypeCorrect == Spec => []TypeOK
  BY TypeInvariant, PTL

----------------------------------------------------------------------------
(* The inductive invariant                                                 *)

Started == \A i \in DOMAIN aired : aired[i].StartTime <= now

\* No callback is later than Late, and none is early.
OnTime ==
    \A i \in DOMAIN aired :
        /\ callback[i].phase \in {"timer", "ended"}
              => now <= EndTime(aired[i]) + Late
        /\ callback[i].phase # "timer" => EndTime(aired[i]) <= now

\* A transmission is in the map until a later one replaces it or the grace is
\* over.
Recorded ==
    \A i \in DOMAIN aired :
        \/ Replaced(i, Len(aired))
        \/ transmissions[aired[i].PacketID] = i
        \/ now > EndTime(aired[i]) + TransmissionGrace

\* A snapshot holds all that overlaps its transmission: what began later cannot.
SnapshotsComplete ==
    \A i, j \in DOMAIN aired :
        /\ callback[i].phase = "delivering"
        /\ i # j
        /\ timesOverlap(aired[i], aired[j])
        => j \in callback[i].others \/ Replaced(j, Len(aired))

DeliveredInTurn ==
    \A e \in delivered :
        e.tx \in DOMAIN aired /\ callback[e.tx].phase = "delivering"

\* What a carrier sense could hear was over.
FoundFree(sense) ==
    /\ sense.count <= Len(aired)
    /\ \A i \in 1 .. sense.count :
          aired[i].Sender \in sense.near /\ ~Replaced(i, sense.count)
          => EndTime(aired[i]) <= sense.at

SensesSound == \A n \in Node : sensed[n].at <= now /\ FoundFree(sensed[n])

CarriersSound ==
    \A j \in DOMAIN aired :
        /\ aired[j].carrier.at <= aired[j].StartTime
        /\ FoundFree(aired[j].carrier)

MediumInv ==
    /\ TypeOK /\ WorkInHand
    /\ Started /\ OnTime /\ Recorded
    /\ SnapshotsComplete /\ DeliveredInTurn /\ CollisionsAreSeen
    /\ SensesSound /\ CarriersSound

LEMMA TransmissionType ==
  ASSUME TypeOK, WorkInHand, NEW i \in DOMAIN aired
  PROVE  /\ i \in 1 .. Len(aired) /\ i \in Nat \ {0} /\ Len(aired) \in Nat
         /\ aired[i] \in Transmission /\ aired[i].PacketID \in PacketID
         /\ aired[i].Sender \in Node /\ aired[i].StartTime \in Nat
         /\ aired[i].carrier \in CarrierSense
         /\ EndTime(aired[i]) = aired[i].StartTime + LoRaAirTime
         /\ EndTime(aired[i]) \in Nat
         /\ i \in DOMAIN callback /\ callback[i] \in AfterFunc
         /\ callback[i].phase \in {"timer", "ended", "delivering"}
  <1>1. /\ aired \in Seq(Transmission) /\ callback \in Seq(AfterFunc)
        /\ Len(callback) = Len(aired)
    BY DEF TypeOK, WorkInHand
  <1>2. /\ i \in 1 .. Len(aired) /\ i \in Nat \ {0} /\ Len(aired) \in Nat
        /\ aired[i] \in Transmission
        /\ i \in DOMAIN callback /\ callback[i] \in AfterFunc
    BY <1>1
  <1>3. LoRaAirTime \in Nat
    BY NetworkAssumption
  <1> QED
    BY <1>2, <1>3 DEF Transmission, AfterFunc, EndTime

LEMMA InitMedium == Init => MediumInv
  <1> SUFFICES ASSUME Init PROVE MediumInv
    OBVIOUS
  <1>1. TypeOK /\ WorkInHand
    BY InitType DEF Init, WorkInHand
  <1>2. aired = <<>> /\ delivered = {} /\ DOMAIN aired = {} /\ Len(aired) = 0
    BY DEF Init
  <1>3. \A n \in Node : sensed[n] = [at |-> 0, count |-> 0, near |-> {}]
    BY DEF Init
  <1>4. SensesSound
    BY <1>2, <1>3 DEF SensesSound, FoundFree, Init
  <1> QED
    BY <1>1, <1>2, <1>4
    DEF MediumInv, Started, OnTime, Recorded, SnapshotsComplete,
        DeliveredInTurn, CollisionsAreSeen, CarriersSound

\* Nothing of the medium changes.
LEMMA LocalMedium ==
  ASSUME MediumInv, TypeOK', WorkInHand',
         UNCHANGED <<now, sensed, medium>>
  PROVE  MediumInv'
  BY DEF MediumInv, medium, Started, OnTime, Recorded, SnapshotsComplete,
         DeliveredInTurn, CollisionsAreSeen, SensesSound, CarriersSound,
         FoundFree, Replaced, timesOverlap, EndTime

LEMMA TickMedium ==
  ASSUME MediumInv, TypeOK', WorkInHand', Tick
  PROVE  MediumInv'
  <1>0. /\ now \in Nat /\ now' = now + 1
        /\ UNCHANGED <<aired, callback, transmissions, delivered, sensed>>
        /\ {Late, TransmissionGrace} \subseteq Nat
        /\ sensed \in [Node -> CarrierSense]
    BY NetworkAssumption DEF MediumInv, TypeOK, Tick, radio, medium
  <1>1. \A i \in DOMAIN aired :
           /\ EndTime(aired[i]) \in Nat /\ aired[i].StartTime \in Nat
           /\ EndTime(aired[i])' = EndTime(aired[i])
    BY <1>0, TransmissionType DEF MediumInv, EndTime
  <1>2. Started'
    BY <1>0, <1>1 DEF MediumInv, Started
  <1>3. OnTime'
    BY <1>0, <1>1 DEF MediumInv, OnTime, Tick
  <1>4. Recorded'
    <2>1. ASSUME NEW i \in DOMAIN aired
          PROVE  \/ Replaced(i, Len(aired))'
                 \/ transmissions'[aired'[i].PacketID] = i
                 \/ now' > EndTime(aired'[i]) + TransmissionGrace
      <3>1. \/ Replaced(i, Len(aired))
            \/ transmissions[aired[i].PacketID] = i
            \/ now > EndTime(aired[i]) + TransmissionGrace
        BY DEF MediumInv, Recorded
      <3> QED
        BY <1>0, <1>1, <3>1 DEF Replaced
    <2> QED
      BY <1>0, <2>1 DEF Recorded
  <1>5. SnapshotsComplete' /\ DeliveredInTurn' /\ CollisionsAreSeen'
    BY <1>0 DEF MediumInv, SnapshotsComplete, DeliveredInTurn,
                CollisionsAreSeen, Replaced, timesOverlap, EndTime
  <1>6. SensesSound'
    BY <1>0 DEF MediumInv, SensesSound, FoundFree, Replaced, EndTime,
                CarrierSense
  <1>7. CarriersSound'
    BY <1>0 DEF MediumInv, CarriersSound, FoundFree, Replaced, EndTime
  <1> QED
    BY <1>2, <1>3, <1>4, <1>5, <1>6, <1>7 DEF MediumInv

\* A transmission whose record is lost neither to a later one nor to the pruner.
LEMMA ActiveIsRecorded ==
  ASSUME MediumInv, NEW i \in DOMAIN aired,
         callback[i].phase = "timer", ~Replaced(i, Len(aired))
  PROVE  transmissions[aired[i].PacketID] = i
  <1>1. now <= EndTime(aired[i]) + Late
    BY DEF MediumInv, OnTime
  <1>2. EndTime(aired[i]) \in Nat /\ now \in Nat
    BY TransmissionType DEF MediumInv, TypeOK
  <1>3. /\ {Late, TransmissionGrace, LoRaAirTime} \subseteq Nat
        /\ TransmissionGrace >= LoRaAirTime + Late
    BY NetworkAssumption, GraceAssumption
  <1>4. ~(now > EndTime(aired[i]) + TransmissionGrace)
    BY <1>1, <1>2, <1>3
  <1> QED
    BY <1>4 DEF MediumInv, Recorded

\* A free channel: everything within range that had begun is over.
LEMMA FreeChannel ==
  ASSUME MediumInv, NEW n \in Node, IsChannelFree(n)
  PROVE  FoundFree([at |-> now, count |-> Len(aired), near |-> InRangeOf(n)])
  <1>0. TypeOK /\ WorkInHand /\ Len(aired) \in Nat
    BY DEF MediumInv, TypeOK
  <1>1. ASSUME NEW i \in 1 .. Len(aired), aired[i].Sender \in InRangeOf(n),
               ~Replaced(i, Len(aired))
        PROVE  EndTime(aired[i]) <= now
    <2>0. i \in DOMAIN aired /\ aired \in Seq(Transmission)
      BY <1>0 DEF TypeOK
    <2>1. /\ aired[i].PacketID \in PacketID /\ aired[i].Sender \in Node
          /\ i # 0
      BY <1>0, <2>0, TransmissionType
    <2>2. IsInRange(n, aired[i].Sender)
      <3>1. place[n] \in Place /\ place[aired[i].Sender] \in Place
        BY <1>0, <2>1 DEF TypeOK
      <3> QED
        BY <1>1, <3>1, NearAssumption DEF InRangeOf, IsInRange
    <2>3. callback[i].phase # "timer"
      <3> SUFFICES ASSUME callback[i].phase = "timer" PROVE FALSE
        OBVIOUS
      <3>1. transmissions[aired[i].PacketID] = i
        BY <1>1, <2>0, ActiveIsRecorded
      <3> QED
        BY <2>1, <2>2, <3>1 DEF IsChannelFree, Active
    <2> QED
      BY <2>0, <2>3 DEF MediumInv, OnTime
  <1> QED
    BY <1>0, <1>1 DEF FoundFree

LEMMA FinalCheckMedium ==
  ASSUME MediumInv, TypeOK', WorkInHand', NEW n \in Node, FinalCheck(n)
  PROVE  MediumInv'
  <1>0. /\ now \in Nat /\ sensed \in [Node -> CarrierSense]
        /\ UNCHANGED <<now, aired, callback, transmissions, delivered>>
    BY DEF MediumInv, TypeOK, FinalCheck, medium
  <1>1. CASE UNCHANGED sensed
    BY <1>0, <1>1, LocalMedium DEF medium
  <1>2. CASE /\ IsChannelFree(n)
             /\ sensed' = [sensed EXCEPT ![n] =
                   [at |-> now, count |-> Len(aired), near |-> InRangeOf(n)]]
    <2>1. ASSUME NEW m \in Node
          PROVE  (sensed[m].at <= now /\ FoundFree(sensed[m]))'
      <3>1. sensed'[m].at <= now /\ FoundFree(sensed'[m])
        <4>1. CASE m = n
          BY <1>0, <1>2, <4>1, FreeChannel
        <4>2. CASE m # n
          BY <1>0, <1>2, <4>2 DEF MediumInv, SensesSound
        <4> QED
          BY <4>1, <4>2
      <3> QED
        BY <1>0, <3>1 DEF FoundFree, Replaced, EndTime
    <2>2. SensesSound'
      BY <2>1 DEF SensesSound
    <2>3. /\ Started' /\ OnTime' /\ Recorded' /\ SnapshotsComplete'
          /\ DeliveredInTurn' /\ CollisionsAreSeen' /\ CarriersSound'
      BY <1>0
      DEF MediumInv, Started, OnTime, Recorded, SnapshotsComplete,
          DeliveredInTurn, CollisionsAreSeen, CarriersSound,
          FoundFree, Replaced, timesOverlap, EndTime
    <2> QED
      BY <2>2, <2>3 DEF MediumInv
  <1> QED
    BY <1>1, <1>2 DEF FinalCheck

\* What happens to the records of earlier transmissions when one begins.
LEMMA Appended ==
  ASSUME TypeOK, WorkInHand, NEW tx \in Transmission, NEW cb \in AfterFunc,
         aired' = Append(aired, tx), callback' = Append(callback, cb)
  PROVE  LET last == Len(aired) + 1 IN
         /\ Len(aired) \in Nat /\ Len(aired') = last
         /\ DOMAIN aired = 1 .. Len(aired) /\ DOMAIN aired' = 1 .. last
         /\ \A i \in 1 .. Len(aired) :
               aired'[i] = aired[i] /\ callback'[i] = callback[i]
         /\ aired'[last] = tx /\ callback'[last] = cb
  <1>1. /\ aired \in Seq(Transmission) /\ callback \in Seq(AfterFunc)
        /\ Len(callback) = Len(aired)
    BY DEF TypeOK, WorkInHand
  <1> QED
    BY <1>1

LEMMA ReplacedGrows ==
  ASSUME TypeOK, WorkInHand, NEW tx \in Transmission, NEW cb \in AfterFunc,
         aired' = Append(aired, tx), callback' = Append(callback, cb)
  PROVE  \A i \in 1 .. Len(aired) :
            /\ \A count \in 0 .. Len(aired) :
                  Replaced(i, count)' <=> Replaced(i, count)
            /\ Replaced(i, Len(aired)) => Replaced(i, Len(aired))'
            /\ aired[i].PacketID = tx.PacketID => Replaced(i, Len(aired))'
  <1>1. /\ Len(aired) \in Nat /\ Len(aired') = Len(aired) + 1
        /\ \A i \in 1 .. Len(aired) : aired'[i] = aired[i]
        /\ aired'[Len(aired) + 1] = tx
    BY Appended
  <1>2. ASSUME NEW i \in 1 .. Len(aired), NEW count \in 0 .. Len(aired)
        PROVE  Replaced(i, count)' <=> Replaced(i, count)
    <2>1. \A k \in i + 1 .. count : k \in 1 .. Len(aired)
      BY <1>1
    <2> QED
      BY <1>1, <2>1 DEF Replaced
  <1>3. ASSUME NEW i \in 1 .. Len(aired), Replaced(i, Len(aired))
        PROVE  Replaced(i, Len(aired))'
    <2>1. PICK k \in i + 1 .. Len(aired) :
             aired[k].PacketID = aired[i].PacketID
      BY <1>3 DEF Replaced
    <2>2. k \in i + 1 .. Len(aired') /\ k \in 1 .. Len(aired)
      BY <1>1
    <2> QED
      BY <1>1, <2>1, <2>2 DEF Replaced
  <1>4. ASSUME NEW i \in 1 .. Len(aired), aired[i].PacketID = tx.PacketID
        PROVE  Replaced(i, Len(aired))'
    <2>1. Len(aired) + 1 \in i + 1 .. Len(aired')
      BY <1>1
    <2> QED
      BY <1>1, <1>4, <2>1 DEF Replaced
  <1> QED
    BY <1>2, <1>3, <1>4

LEMMA BroadcastMedium ==
  ASSUME MediumInv, TypeOK', WorkInHand', NEW n \in Node, BroadcastMessage(n)
  PROVE  MediumInv'
  <1>0. PICK tx \in Transmission, cb \in AfterFunc :
            /\ tx.StartTime = now /\ tx.carrier = sensed[n]
            /\ cb.phase = "timer"
            /\ aired' = Append(aired, tx)
            /\ callback' = Append(callback, cb)
            /\ transmissions' =
                  [transmissions EXCEPT ![tx.PacketID] = Len(aired) + 1]
    BY BroadcastStep DEF MediumInv
  <1> DEFINE last == Len(aired) + 1
  <1>1. /\ Len(aired) \in Nat /\ Len(aired') = last
        /\ DOMAIN aired = 1 .. Len(aired) /\ DOMAIN aired' = 1 .. last
        /\ \A i \in 1 .. Len(aired) :
              aired'[i] = aired[i] /\ callback'[i] = callback[i]
        /\ aired'[last] = tx /\ callback'[last] = cb
    BY <1>0, Appended DEF MediumInv
  <1>2. \A i \in 1 .. Len(aired) :
            /\ \A count \in 0 .. Len(aired) :
                  Replaced(i, count)' <=> Replaced(i, count)
            /\ Replaced(i, Len(aired)) => Replaced(i, Len(aired))'
            /\ aired[i].PacketID = tx.PacketID => Replaced(i, Len(aired))'
    BY <1>0, ReplacedGrows DEF MediumInv
  <1>3. /\ UNCHANGED <<now, sensed, delivered>> /\ now \in Nat
        /\ {LoRaAirTime, Late, TransmissionGrace} \subseteq Nat
        /\ LoRaAirTime > 0
        /\ transmissions \in [PacketID -> 0 .. Len(aired)]
        /\ sensed \in [Node -> CarrierSense]
        /\ tx.PacketID \in PacketID
    <2>1. UNCHANGED <<now, sensed, delivered>> /\ now \in Nat
      BY DEF MediumInv, TypeOK, BroadcastMessage
    <2>2. /\ transmissions \in [PacketID -> 0 .. Len(aired)]
          /\ sensed \in [Node -> CarrierSense]
          /\ tx.PacketID \in PacketID
      BY DEF MediumInv, TypeOK, Transmission
    <2>3. {LoRaAirTime, Late, TransmissionGrace} \subseteq Nat /\ LoRaAirTime > 0
      BY NetworkAssumption
    <2> QED
      BY <2>1, <2>2, <2>3
  <1>4. \A i \in 1 .. Len(aired) :
           /\ aired[i].StartTime \in Nat /\ aired[i].StartTime <= now
           /\ aired[i].PacketID \in PacketID
           /\ aired[i].carrier \in CarrierSense
           /\ EndTime(aired[i]) = aired[i].StartTime + LoRaAirTime
    BY <1>1, TransmissionType DEF MediumInv, Started
  <1>5. Started'
    BY <1>0, <1>1, <1>3, <1>4 DEF Started
  <1>6. OnTime'
    <2>1. ASSUME NEW i \in 1 .. last
          PROVE  /\ callback'[i].phase \in {"timer", "ended"}
                       => now <= EndTime(aired'[i]) + Late
                 /\ callback'[i].phase # "timer" => EndTime(aired'[i]) <= now
      <3>1. CASE i = last
        <4>1. callback'[i].phase = "timer" /\ aired'[i].StartTime = now
          BY <1>0, <1>1, <3>1
        <4> QED
          BY <1>3, <4>1 DEF EndTime
      <3>2. CASE i # last
        <4>1. i \in DOMAIN aired /\ aired'[i] = aired[i]
              /\ callback'[i] = callback[i]
          BY <1>1, <3>2
        <4> QED
          BY <4>1 DEF MediumInv, OnTime
      <3> QED
        BY <3>1, <3>2
    <2> QED
      BY <1>1, <1>3, <2>1 DEF OnTime, EndTime
  <1>7. Recorded'
    <2>1. ASSUME NEW i \in 1 .. Len(aired)
          PROVE  \/ Replaced(i, Len(aired))'
                 \/ transmissions'[aired'[i].PacketID] = i
                 \/ now' > EndTime(aired'[i]) + TransmissionGrace
      <3>1. CASE aired[i].PacketID = tx.PacketID
        BY <1>2, <3>1
      <3>2. CASE aired[i].PacketID # tx.PacketID
        <4>1. transmissions'[aired'[i].PacketID] = transmissions[aired[i].PacketID]
          BY <1>0, <1>1, <1>3, <1>4, <3>2
        <4> QED
          BY <1>1, <1>2, <1>3, <4>1 DEF MediumInv, Recorded
      <3> QED
        BY <3>1, <3>2
    <2>2. transmissions'[aired'[last].PacketID] = last
      BY <1>0, <1>1, <1>3
    <2>3. \A i \in 1 .. last : i \in 1 .. Len(aired) \/ i = last
      BY <1>1
    <2> QED
      BY <1>1, <2>1, <2>2, <2>3 DEF Recorded, EndTime
  <1>8. \A i \in 1 .. Len(aired) :
           callback[i].phase = "delivering" =>
              ~timesOverlap(aired[i], tx) /\ ~timesOverlap(tx, aired[i])
    <2>1. ASSUME NEW i \in 1 .. Len(aired), callback[i].phase = "delivering"
          PROVE  EndTime(aired[i]) <= tx.StartTime
      <3>1. EndTime(aired[i]) <= now
        BY <1>1, <2>1 DEF MediumInv, OnTime
      <3> QED
        BY <1>0, <3>1
    <2> QED
      BY SMTT(30), <1>0, <1>1, <1>3, <1>4, <2>1 DEF timesOverlap, EndTime
  <1>9. SnapshotsComplete'
    <2>1. ASSUME NEW i \in 1 .. last, NEW j \in 1 .. last,
                 callback'[i].phase = "delivering", i # j,
                 timesOverlap(aired'[i], aired'[j])
          PROVE  j \in callback'[i].others \/ Replaced(j, Len(aired))'
      <3>1. i \in 1 .. Len(aired) /\ callback[i].phase = "delivering"
        <4>1. i # last
          BY <1>0, <1>1, <2>1
        <4>2. i \in 1 .. Len(aired)
          BY <1>1, <4>1
        <4> QED
          BY <1>1, <2>1, <4>2
      <3>2. j \in 1 .. Len(aired)
        BY <1>1, <1>8, <2>1, <3>1
      <3>3. timesOverlap(aired[i], aired[j])
        BY <1>1, <2>1, <3>1, <3>2
      <3> QED
        BY <1>1, <1>2, <2>1, <3>1, <3>2, <3>3 DEF MediumInv, SnapshotsComplete
    <2> QED
      BY <1>1, <2>1 DEF SnapshotsComplete, timesOverlap, EndTime
  <1>10. DeliveredInTurn'
    BY <1>1, <1>3 DEF MediumInv, DeliveredInTurn
  <1>11. CollisionsAreSeen'
    <2>1. ASSUME NEW e \in delivered, NEW j \in 1 .. last, j # e.tx,
                 timesOverlap(aired'[e.tx], aired'[j]),
                 aired'[j].Sender \in e.near
          PROVE  Replaced(j, Len(aired))'
      <3>1. e.tx \in 1 .. Len(aired) /\ callback[e.tx].phase = "delivering"
        BY <1>1 DEF MediumInv, DeliveredInTurn
      <3>2. j \in 1 .. Len(aired)
        BY <1>1, <1>8, <2>1, <3>1
      <3> QED
        BY <1>1, <1>2, <2>1, <3>1, <3>2 DEF MediumInv, CollisionsAreSeen
    <2> QED
      BY <1>1, <1>3, <2>1 DEF CollisionsAreSeen, timesOverlap, EndTime
  <1>12. ASSUME NEW sense \in CarrierSense, FoundFree(sense)
         PROVE  /\ sense.count <= Len(aired')
                /\ \A i \in 1 .. sense.count :
                     aired'[i].Sender \in sense.near /\ ~Replaced(i, sense.count)'
                     => EndTime(aired'[i]) <= sense.at
    <2>1. sense.count \in 0 .. Len(aired)
      BY <1>1, <1>12 DEF FoundFree, CarrierSense
    <2>2. \A i \in 1 .. sense.count : i \in 1 .. Len(aired)
      BY <1>1, <2>1
    <2> QED
      BY <1>1, <1>2, <1>12, <2>1, <2>2 DEF FoundFree
  <1>13. SensesSound'
    BY <1>3, <1>12 DEF MediumInv, SensesSound, FoundFree, EndTime, Replaced
  <1>14. CarriersSound'
    <2>1. ASSUME NEW j \in 1 .. last
          PROVE  /\ aired'[j].carrier \in CarrierSense
                 /\ aired'[j].carrier.at <= aired'[j].StartTime
                 /\ FoundFree(aired'[j].carrier)
      <3>1. CASE j = last
        BY <1>0, <1>1, <1>3, <3>1 DEF MediumInv, SensesSound
      <3>2. CASE j # last
        <4>1. j \in DOMAIN aired /\ aired'[j] = aired[j]
          BY <1>1, <3>2
        <4> QED
          BY <1>1, <1>4, <4>1 DEF MediumInv, CarriersSound
      <3> QED
        BY <3>1, <3>2
    <2> QED
      BY <1>1, <1>12, <2>1 DEF CarriersSound, FoundFree, EndTime, Replaced
  <1> QED
    BY <1>5, <1>6, <1>7, <1>9, <1>10, <1>11, <1>13, <1>14 DEF MediumInv

LEMMA EndTransmissionMedium ==
  ASSUME MediumInv, TypeOK', WorkInHand', NEW i \in DOMAIN aired,
         EndTransmission(i)
  PROVE  MediumInv'
  <1>0. /\ UNCHANGED <<now, sensed, aired, transmissions>>
        /\ i \in DOMAIN callback /\ callback[i] \in AfterFunc
        /\ \A j \in DOMAIN aired \ {i} : callback'[j] = callback[j]
    BY CallbackType DEF MediumInv, Callback
  <1>1. /\ UNCHANGED delivered
        /\ callback'[i].phase = "ended" /\ EndTime(aired[i]) <= now
        /\ callback[i].phase = "timer"
    <2>1. EndTime(aired[i]) \in Nat /\ now \in Nat
      BY TransmissionType DEF MediumInv, TypeOK
    <2> QED
      BY <1>0, <2>1 DEF EndTransmission, AfterFunc
  <1>2. OnTime'
    BY <1>0, <1>1 DEF MediumInv, OnTime, EndTime
  <1>3. SnapshotsComplete' /\ DeliveredInTurn'
    BY <1>0, <1>1 DEF MediumInv, SnapshotsComplete, DeliveredInTurn,
                      timesOverlap, EndTime, Replaced
  <1>4. Started' /\ Recorded' /\ CollisionsAreSeen' /\ SensesSound'
        /\ CarriersSound'
    BY <1>0, <1>1 DEF MediumInv, Started, Recorded, CollisionsAreSeen,
         SensesSound, CarriersSound, FoundFree, timesOverlap, EndTime, Replaced
  <1> QED
    BY <1>2, <1>3, <1>4 DEF MediumInv

LEMMA TakeSnapshotMedium ==
  ASSUME MediumInv, TypeOK', WorkInHand', NEW i \in DOMAIN aired,
         TakeSnapshot(i)
  PROVE  MediumInv'
  <1>0. /\ UNCHANGED <<now, sensed, aired, transmissions>>
        /\ i \in DOMAIN callback /\ callback[i] \in AfterFunc
        /\ \A j \in DOMAIN aired \ {i} : callback'[j] = callback[j]
    BY CallbackType DEF MediumInv, Callback
  <1>1. /\ UNCHANGED delivered
        /\ callback'[i].phase = "delivering" /\ callback[i].phase = "ended"
        /\ callback'[i].others = {transmissions[p] : p \in PacketID} \ {0, i}
    BY <1>0 DEF TakeSnapshot, AfterFunc
  <1>2. OnTime'
    BY <1>0, <1>1 DEF MediumInv, OnTime, EndTime
  <1>3. ASSUME NEW j \in DOMAIN aired, j # i, timesOverlap(aired[i], aired[j]),
               ~Replaced(j, Len(aired))
        PROVE  j \in callback'[i].others
    <2>1. /\ now \in Nat /\ {Late, TransmissionGrace, LoRaAirTime} \subseteq Nat
          /\ TransmissionGrace >= LoRaAirTime + Late
      BY NetworkAssumption, GraceAssumption DEF MediumInv, TypeOK
    <2>2. /\ aired[i].StartTime \in Nat /\ aired[j].StartTime \in Nat
          /\ EndTime(aired[i]) = aired[i].StartTime + LoRaAirTime
          /\ EndTime(aired[j]) = aired[j].StartTime + LoRaAirTime
          /\ aired[j].PacketID \in PacketID /\ j # 0
      BY TransmissionType DEF MediumInv
    <2>3. now <= EndTime(aired[i]) + Late
      BY <1>1 DEF MediumInv, OnTime
    <2>4. aired[i].StartTime < EndTime(aired[j])
      BY <1>3 DEF timesOverlap
    <2>5. ~(now > EndTime(aired[j]) + TransmissionGrace)
      BY <2>1, <2>2, <2>3, <2>4
    <2>6. transmissions[aired[j].PacketID] = j
      BY <1>3, <2>5 DEF MediumInv, Recorded
    <2> QED
      BY <1>1, <1>3, <2>2, <2>6
  <1>4. SnapshotsComplete'
    BY <1>0, <1>1, <1>3 DEF MediumInv, SnapshotsComplete, timesOverlap, EndTime,
                            Replaced
  <1>5. DeliveredInTurn'
    BY <1>0, <1>1 DEF MediumInv, DeliveredInTurn
  <1>6. Started' /\ Recorded' /\ CollisionsAreSeen' /\ SensesSound'
        /\ CarriersSound'
    BY <1>0, <1>1 DEF MediumInv, Started, Recorded, CollisionsAreSeen,
         SensesSound, CarriersSound, FoundFree, timesOverlap, EndTime, Replaced
  <1> QED
    BY <1>2, <1>4, <1>5, <1>6 DEF MediumInv

LEMMA RecipientMedium ==
  ASSUME MediumInv, TypeOK', WorkInHand', NEW i \in DOMAIN aired,
         Skip(i) \/ Deliver(i)
  PROVE  MediumInv'
  <1>0. /\ UNCHANGED <<now, sensed, aired, transmissions>>
        /\ i \in DOMAIN callback /\ callback[i] \in AfterFunc
        /\ \A j \in DOMAIN aired \ {i} : callback'[j] = callback[j]
    BY CallbackType DEF MediumInv, Callback
  <1>1. /\ callback[i].phase = "delivering" /\ callback'[i].phase = "delivering"
        /\ callback'[i].others = callback[i].others
    BY <1>0 DEF Skip, Deliver, NextRecipient, AfterFunc
  <1>2. SnapshotsComplete'
    <2> SUFFICES ASSUME NEW j \in DOMAIN aired, NEW k \in DOMAIN aired,
                        callback'[j].phase = "delivering", j # k,
                        timesOverlap(aired[j], aired[k])
                 PROVE  k \in callback'[j].others \/ Replaced(k, Len(aired))
      BY <1>0 DEF SnapshotsComplete, timesOverlap, EndTime, Replaced
    <2>1. /\ callback[j].phase = "delivering"
          /\ callback'[j].others = callback[j].others
      BY <1>0, <1>1
    <2> QED
      BY <2>1 DEF MediumInv, SnapshotsComplete
  <1>3. OnTime'
    BY <1>0, <1>1 DEF MediumInv, OnTime, EndTime
  <1>4. /\ OnTime' /\ SnapshotsComplete' /\ Started' /\ Recorded'
        /\ SensesSound' /\ CarriersSound'
    BY <1>0, <1>2, <1>3 DEF MediumInv, Started, Recorded, SensesSound,
         CarriersSound, FoundFree, EndTime, Replaced
  <1>5. CASE UNCHANGED delivered
    <2>1. DeliveredInTurn' /\ CollisionsAreSeen'
      BY <1>0, <1>1, <1>5 DEF MediumInv, DeliveredInTurn, CollisionsAreSeen,
                              timesOverlap, EndTime, Replaced
    <2> QED
      BY <1>4, <2>1 DEF MediumInv
  <1>6. CASE Deliver(i)
    <2> DEFINE n == Head(callback[i].todo)
               new == [tx |-> i, to |-> n, near |-> InRangeOf(n)]
    <2>1. delivered' = delivered \cup {new} /\ ~Collides(i, n)
      BY <1>6 DEF Deliver
    <2>2. ASSUME NEW j \in DOMAIN aired, j # i,
                 timesOverlap(aired[i], aired[j]),
                 aired[j].Sender \in InRangeOf(n)
          PROVE  Replaced(j, Len(aired))
      BY <1>1, <2>1, <2>2
      DEF MediumInv, SnapshotsComplete, Collides, InRangeOf
    <2>3. CollisionsAreSeen'
      <3> SUFFICES ASSUME NEW e \in delivered', NEW j \in DOMAIN aired,
                          j # e.tx, timesOverlap(aired[e.tx], aired[j]),
                          aired[j].Sender \in e.near
                   PROVE  Replaced(j, Len(aired))
        BY <1>0 DEF CollisionsAreSeen, timesOverlap, EndTime, Replaced
      <3>1. CASE e \in delivered
        BY <3>1 DEF MediumInv, CollisionsAreSeen
      <3>2. CASE e = new
        BY <2>2, <3>2
      <3> QED
        BY <2>1, <3>1, <3>2
    <2>4. DeliveredInTurn'
      BY <1>0, <1>1, <2>1 DEF MediumInv, DeliveredInTurn
    <2> QED
      BY <1>4, <2>3, <2>4 DEF MediumInv
  <1> QED
    BY <1>5, <1>6 DEF Skip

LEMMA pruneMedium ==
  ASSUME MediumInv, TypeOK', WorkInHand', pruneTransmissions
  PROVE  MediumInv'
  <1>0. UNCHANGED <<now, sensed, aired, callback, delivered>>
    BY DEF pruneTransmissions, radio
  <1>1. ASSUME NEW i \in DOMAIN aired
        PROVE  \/ Replaced(i, Len(aired))
               \/ transmissions'[aired[i].PacketID] = i
               \/ now > EndTime(aired[i]) + TransmissionGrace
    <2>1. aired[i].PacketID \in PacketID
      BY TransmissionType DEF MediumInv
    <2> QED
      BY <2>1 DEF MediumInv, Recorded, pruneTransmissions
  <1>2. Recorded'
    BY <1>0, <1>1 DEF Recorded, Replaced, EndTime
  <1>3. /\ OnTime' /\ SnapshotsComplete' /\ Started' /\ SensesSound'
        /\ CarriersSound' /\ DeliveredInTurn' /\ CollisionsAreSeen'
    BY <1>0 DEF MediumInv, OnTime, SnapshotsComplete, Started, SensesSound,
         CarriersSound, DeliveredInTurn, CollisionsAreSeen, FoundFree,
         timesOverlap, EndTime, Replaced
  <1> QED
    BY <1>2, <1>3 DEF MediumInv

LEMMA NextMedium == MediumInv /\ [Next]_vars => MediumInv'
  <1> SUFFICES ASSUME MediumInv, [Next]_vars PROVE MediumInv'
    OBVIOUS
  <1>0. TypeOK' /\ WorkInHand'
    BY NextType DEF MediumInv
  <1>1. CASE UNCHANGED vars
    BY <1>0, <1>1, LocalMedium DEF vars, radio, medium
  <1>2. ASSUME NEW n \in Node,
               \/ Submit(n) \/ NodeGoroutine(n) \/ TxWorker(n)
               \/ Join(n) \/ Leave(n) \/ Move(n)
        PROVE  MediumInv'
    <2>1. CASE BroadcastMessage(n)
      BY <1>0, <2>1, BroadcastMedium
    <2>2. CASE FinalCheck(n)
      BY <1>0, <2>2, FinalCheckMedium
    <2>3. CASE ~BroadcastMessage(n) /\ ~FinalCheck(n)
      <3>1. UNCHANGED <<now, sensed, medium>>
        BY <1>2, <2>3, LocalStep DEF TxWorker, MediumInv
      <3> QED
        BY <1>0, <3>1, LocalMedium
    <2> QED
      BY <2>1, <2>2, <2>3
  <1>3. ASSUME NEW i \in DOMAIN aired, Callback(i)
        PROVE  MediumInv'
    BY <1>0, <1>3, EndTransmissionMedium, TakeSnapshotMedium, RecipientMedium
    DEF Callback
  <1> QED
    BY <1>0, <1>1, <1>2, <1>3, pruneMedium, TickMedium DEF Next

LEMMA MediumInvariant == Spec => []MediumInv
  BY InitMedium, NextMedium, PTL DEF Spec

\* A packet reaches a node's channel only if nothing within range of the node
\* overlapped it, whatever the pruner and the callbacks do first and wherever
\* nodes are moved; only records replaced under the same packet identifier are
\* missed.  It rests on GraceAssumption.
THEOREM CollisionsSeen == Spec => []CollisionsAreSeen
  <1>1. MediumInv => CollisionsAreSeen
    BY DEF MediumInv
  <1> QED
    BY <1>1, MediumInvariant, PTL

\* No transmission begins before the end of what its sender could hear at its
\* last carrier sense: what is on the air cannot have been pruned.
THEOREM CarrierSensed == Spec => []CarrierIsSensed
  <1>1. MediumInv => CarrierIsSensed
    <2> SUFFICES ASSUME MediumInv, NEW j \in DOMAIN aired,
                        NEW i \in 1 .. aired[j].carrier.count,
                        aired[i].Sender \in aired[j].carrier.near,
                        ~Replaced(i, aired[j].carrier.count)
                 PROVE  EndTime(aired[i]) <= aired[j].StartTime
      BY DEF CarrierIsSensed
    <2>1. /\ EndTime(aired[i]) <= aired[j].carrier.at
          /\ aired[j].carrier.at <= aired[j].StartTime
          /\ aired[j].carrier.count <= Len(aired)
      BY DEF MediumInv, CarriersSound, FoundFree
    <2>2. /\ aired[j].carrier \in CarrierSense
          /\ aired[j].StartTime \in Nat /\ Len(aired) \in Nat
          /\ DOMAIN aired = 1 .. Len(aired)
      BY TransmissionType DEF MediumInv, TypeOK
    <2>3. i \in DOMAIN aired /\ aired[j].carrier.at \in Nat
      BY <2>1, <2>2 DEF CarrierSense
    <2>4. EndTime(aired[i]) \in Nat
      BY <2>3, TransmissionType DEF MediumInv
    <2> QED
      BY <2>1, <2>2, <2>3, <2>4
  <1> QED
    BY <1>1, MediumInvariant, PTL

----------------------------------------------------------------------------
(* The refinement: the medium, the txWorkers and the channels implement   *)
(* MeshDelivery, for every set of nodes, topology, traffic, capacity and   *)
(* timing.  What it rests on:                                              *)

\* What a txWorker is to transmit is one packet.
OneInHand ==
    \A n \in Node :
        csma[n] \in {"waiting", "sensing", "clear", "radio"}
        => \E p \in PacketID : sending[n] = <<p>>

\* What a node goroutine forwards the node has seen.
HeldIsKnown ==
    \A n \in Node : holding[n] # <<>> => Head(holding[n]) \in seenMsgIDs[n]

\* A callback has each recipient before it once.
OnceEach ==
    \A i \in DOMAIN callback : LET todo == callback[i].todo IN
        \A j, k \in DOMAIN todo : todo[j] = todo[k] => j = k

DeliveryInv ==
    TypeOK /\ WorkInHand /\ OneInHand /\ HeldIsKnown /\ OnceEach

LEMMA InitDelivery == Init => DeliveryInv
  <1>1. Init => TypeOK /\ WorkInHand
    BY InitType DEF Init, WorkInHand
  <1>2. Init => OneInHand /\ HeldIsKnown /\ OnceEach
    BY DEF Init, OneInHand, HeldIsKnown, OnceEach
  <1> QED
    BY <1>1, <1>2 DEF DeliveryInv

LEMMA OneInHandStep ==
  ASSUME DeliveryInv, [Next]_vars
  PROVE  OneInHand'
  <1>1. CASE UNCHANGED <<csma, sending>>
    BY <1>1 DEF DeliveryInv, OneInHand
  <1>2. ASSUME NEW n \in Node, TakePacket(n)
        PROVE  OneInHand'
    <2>1. Head(txQueue[n]) \in PacketID
      BY <1>2, QueueType DEF TakePacket, DeliveryInv, TypeOK
    <2> QED
      BY <1>2, <2>1 DEF TakePacket, DeliveryInv, TypeOK, OneInHand
  <1>3. ASSUME NEW n \in Node,
               StopTxWorker(n) \/ BroadcastMessage(n) \/ RadioDone(n)
        PROVE  OneInHand'
    BY <1>3 DEF StopTxWorker, BroadcastMessage, RadioDone, DeliveryInv,
                TypeOK, OneInHand
  <1>4. ASSUME NEW n \in Node,
               StartWindow(n) \/ SampleBusy(n) \/ FinalCheck(n)
        PROVE  OneInHand'
    <2>1. csma[n] \in {"waiting", "sensing"} /\ UNCHANGED sending
      BY <1>4 DEF StartWindow, SampleBusy, FinalCheck
    <2>2. \A m \in Node \ {n} : csma'[m] = csma[m]
      BY <1>4 DEF StartWindow, SampleBusy, FinalCheck, BackOff, DeliveryInv,
                  TypeOK
    <2> QED
      BY <2>1, <2>2 DEF DeliveryInv, OneInHand
  <1>5. CASE UNCHANGED vars
    BY <1>1, <1>5 DEF vars, radio
  <1>6. ASSUME NEW n \in Node,
               \/ Submit(n) \/ NodeGoroutine(n)
               \/ Join(n) \/ Leave(n) \/ Move(n)
        PROVE  OneInHand'
    BY <1>1, <1>6 DEF Submit, NodeGoroutine, Receive, Forward, Quit, Join,
                      Leave, Move, radio
  <1>7. ASSUME NEW i \in DOMAIN aired, Callback(i)
        PROVE  OneInHand'
    BY <1>1, <1>7 DEF Callback, EndTransmission, TakeSnapshot, Skip, Deliver,
                      radio
  <1>8. CASE pruneTransmissions \/ Tick
    BY <1>1, <1>8 DEF pruneTransmissions, Tick, radio
  <1> QED
    BY <1>2, <1>3, <1>4, <1>5, <1>6, <1>7, <1>8 DEF Next, TxWorker

LEMMA HeldIsKnownStep ==
  ASSUME DeliveryInv, [Next]_vars
  PROVE  HeldIsKnown'
  <1>1. CASE UNCHANGED <<holding, seenMsgIDs>>
    BY <1>1 DEF DeliveryInv, HeldIsKnown
  <1>2. ASSUME NEW n \in Node, Submit(n)
        PROVE  HeldIsKnown'
    BY <1>2 DEF Submit, DeliveryInv, TypeOK, HeldIsKnown
  <1>3. ASSUME NEW n \in Node, Receive(n)
        PROVE  HeldIsKnown'
    <2> DEFINE p == Head(messages[n])
    <2>1. PICK h \in {<<>>, <<p>>} : holding' = [holding EXCEPT ![n] = h]
      BY Zenon, <1>3 DEF Receive
    <2>2. seenMsgIDs' = [seenMsgIDs EXCEPT ![n] = @ \cup {p}]
      BY Zenon, <1>3 DEF Receive
    <2> HIDE DEF p
    <2> QED
      BY <2>1, <2>2 DEF DeliveryInv, TypeOK, HeldIsKnown
  <1>4. ASSUME NEW n \in Node, Forward(n)
        PROVE  HeldIsKnown'
    BY <1>4 DEF Forward, DeliveryInv, TypeOK, HeldIsKnown
  <1>5. ASSUME NEW n \in Node,
               \/ Quit(n) \/ TxWorker(n) \/ Join(n) \/ Leave(n) \/ Move(n)
        PROVE  HeldIsKnown'
    <2>1. UNCHANGED <<holding, seenMsgIDs>>
      BY <1>5 DEF Quit, TxWorker, TakePacket, StopTxWorker, StartWindow,
           SampleBusy, FinalCheck, BroadcastMessage, RadioDone, Join, Leave,
           Move, queues
    <2> QED
      BY <1>1, <2>1
  <1>6. ASSUME NEW i \in DOMAIN aired, Callback(i)
        PROVE  HeldIsKnown'
    BY <1>1, <1>6 DEF Callback, EndTransmission, TakeSnapshot, Skip, Deliver,
                      queues
  <1>7. CASE pruneTransmissions \/ Tick \/ UNCHANGED vars
    BY <1>1, <1>7 DEF pruneTransmissions, Tick, vars, queues
  <1> QED
    BY <1>2, <1>3, <1>4, <1>5, <1>6, <1>7 DEF Next, NodeGoroutine

\* An order of a finite set names each element once.
LEMMA OrderOnce ==
  ASSUME NEW S \in SUBSET Node, NEW order \in Orders(S)
  PROVE  /\ {order[k] : k \in DOMAIN order} = S
         /\ \A j, k \in DOMAIN order : order[j] = order[k] => j = k
  <1>1. IsFiniteSet(S) /\ Cardinality(S) \in Nat
    BY NetworkAssumption, FS_Subset, FS_CardinalityType
  <1>2. /\ order \in [1 .. Cardinality(S) -> S]
        /\ {order[k] : k \in DOMAIN order} = S
    BY DEF Orders
  <1>3. order \in Surjection(1 .. Cardinality(S), S)
    BY <1>2 DEF Surjection
  <1>4. order \in Injection(1 .. Cardinality(S), S)
    <2>1. /\ IsFiniteSet(1 .. Cardinality(S))
          /\ Cardinality(1 .. Cardinality(S)) = Cardinality(S)
      BY <1>1, FS_Interval
    <2> QED
      BY <1>3, <2>1, FS_SurjSameCardinalityImpliesInj
  <1>5. DOMAIN order = 1 .. Cardinality(S)
    BY <1>2
  <1>6. \A j, k \in DOMAIN order : order[j] = order[k] => j = k
    BY <1>4, <1>5 DEF Injection, IsInjective
  <1> QED
    BY <1>2, <1>6

LEMMA OnceEachStep ==
  ASSUME DeliveryInv, [Next]_vars
  PROVE  OnceEach'
  <1>0. /\ aired \in Seq(Transmission) /\ callback \in Seq(AfterFunc)
        /\ Len(callback) = Len(aired)
    BY DEF DeliveryInv, TypeOK, WorkInHand
  <1>1. CASE UNCHANGED callback
    BY <1>1 DEF DeliveryInv, OnceEach
  <1>2. ASSUME NEW n \in Node, BroadcastMessage(n)
        PROVE  OnceEach'
    <2>1. PICK order \in Orders(RecipientsOf(n)) :
             callback' = Append(callback,
                [phase |-> "timer", others |-> {}, todo |-> order])
      BY <1>2 DEF BroadcastMessage
    <2>2. order \in Seq(Node)
          /\ \A j, k \in DOMAIN order : order[j] = order[k] => j = k
      BY OrderType, OrderOnce DEF RecipientsOf
    <2>3. [phase |-> "timer", others |-> {}, todo |-> order] \in AfterFunc
      BY <2>2 DEF AfterFunc
    <2>4. /\ DOMAIN callback' = DOMAIN callback \cup {Len(callback) + 1}
          /\ \A i \in DOMAIN callback : callback'[i] = callback[i]
          /\ callback'[Len(callback) + 1].todo = order
      BY <1>0, <2>1, <2>3
    <2> QED
      BY <2>2, <2>4 DEF DeliveryInv, OnceEach
  <1>3. ASSUME NEW i \in DOMAIN aired, Callback(i)
        PROVE  OnceEach'
    <2>1. /\ i \in DOMAIN callback /\ callback[i] \in AfterFunc
          /\ DOMAIN callback' = DOMAIN callback /\ DOMAIN callback = DOMAIN aired
          /\ \A j \in DOMAIN aired \ {i} : callback'[j] = callback[j]
      BY <1>0, <1>3, CallbackType DEF DeliveryInv
    <2>2. CASE EndTransmission(i) \/ TakeSnapshot(i)
      <3>1. callback'[i].todo = callback[i].todo
        BY <2>1, <2>2 DEF EndTransmission, TakeSnapshot, AfterFunc
      <3> QED
        BY <2>1, <3>1 DEF DeliveryInv, OnceEach
    <2>3. CASE Skip(i) \/ Deliver(i)
      <3>1. callback[i].todo \in Seq(Node) /\ callback[i].todo # <<>>
        BY <2>1, <2>3 DEF Skip, Deliver, AfterFunc
      <3>2. callback'[i].todo = Tail(callback[i].todo)
        BY <2>1, <2>3 DEF Skip, Deliver, NextRecipient, AfterFunc
      <3>3. \A j, k \in DOMAIN callback[i].todo :
               callback[i].todo[j] = callback[i].todo[k] => j = k
        BY <2>1 DEF DeliveryInv, OnceEach
      <3>4. \A j, k \in DOMAIN callback'[i].todo :
               callback'[i].todo[j] = callback'[i].todo[k] => j = k
        BY <3>1, <3>2, <3>3, HeadTailProperties
      <3> QED
        BY <2>1, <3>4 DEF DeliveryInv, OnceEach
    <2> QED
      BY <1>3, <2>2, <2>3 DEF Callback
  <1>4. ASSUME NEW n \in Node,
               \/ Submit(n) \/ NodeGoroutine(n) \/ TakePacket(n)
               \/ StopTxWorker(n) \/ StartWindow(n) \/ SampleBusy(n)
               \/ RadioDone(n) \/ Join(n) \/ Leave(n) \/ Move(n)
        PROVE  OnceEach'
    BY <1>1, <1>4, LocalStep DEF DeliveryInv, medium
  <1>5. CASE pruneTransmissions \/ Tick \/ UNCHANGED vars
    BY <1>1, <1>5 DEF pruneTransmissions, Tick, vars, medium
  <1>6. ASSUME NEW n \in Node, FinalCheck(n)
        PROVE  OnceEach'
    BY <1>1, <1>6 DEF FinalCheck, medium
  <1> QED
    BY <1>2, <1>3, <1>4, <1>5, <1>6 DEF Next, TxWorker

LEMMA DeliveryInvariant == Spec => []DeliveryInv
  <1>1. DeliveryInv /\ [Next]_vars => DeliveryInv'
    BY NextType, OneInHandStep, HeldIsKnownStep, OnceEachStep DEF DeliveryInv
  <1> QED
    BY <1>1, InitDelivery, PTL DEF Spec

----------------------------------------------------------------------------
(* The steps                                                               *)

\* The state that MeshDelivery sees.
UpNodes == {n \in Node : status[n] = "up"}
AllUnsent == [n \in Node |-> Unsent(n)]
Flight(i) == [packet |-> aired[i].PacketID, sender |-> aired[i].Sender,
              to |-> Remaining(i)]
AllFlights == [i \in DOMAIN aired |-> Flight(i)]

LEMMA UnsentStays ==
  ASSUME UNCHANGED <<txQueue, sending>>,
         \A n \in Node : csma[n] \in {"waiting", "sensing", "clear"}
                         <=> csma'[n] \in {"waiting", "sensing", "clear"}
  PROVE  AllUnsent' = AllUnsent
  <1>1. ASSUME NEW n \in Node
        PROVE  Unsent(n)' = Unsent(n)
    BY <1>1 DEF Unsent
  <1> QED
    BY <1>1 DEF AllUnsent

LEMMA FlightsStay ==
  ASSUME UNCHANGED aired,
         \A i \in DOMAIN aired : callback'[i].todo = callback[i].todo
  PROVE  AllFlights' = AllFlights
  <1>1. \A i \in DOMAIN aired : Flight(i)' = Flight(i)
    BY DEF Flight, Remaining
  <1> QED
    BY <1>1 DEF AllFlights

LEMMA ConcatAppend ==
  ASSUME NEW S, NEW s \in Seq(S), NEW t \in Seq(S), NEW e \in S
  PROVE  s \o Append(t, e) = Append(s \o t, e)
  <1>1. /\ s \o t \in Seq(S) /\ <<e>> \in Seq(S)
        /\ Append(t, e) = t \o <<e>>
        /\ Append(s \o t, e) = (s \o t) \o <<e>>
    BY ConcatProperties, AppendIsConcat
  <1> QED
    BY <1>1, ConcatAssociative

LEMMA UnsentType ==
  ASSUME DeliveryInv, NEW n \in Node
  PROVE  /\ Unsent(n) \in Seq(PacketID)
         /\ txQueue[n] \in Seq(PacketID) /\ sending[n] \in Seq(PacketID)
  <1>1. txQueue[n] \in Seq(PacketID) /\ sending[n] \in Seq(PacketID)
    BY DEF DeliveryInv, TypeOK
  <1> QED
    BY <1>1, ConcatProperties DEF Unsent

\* A packet that is put on txQueue comes last of what is to be sent.
LEMMA UnsentGrows ==
  ASSUME DeliveryInv, NEW n \in Node, NEW p \in PacketID,
         txQueue' = [txQueue EXCEPT ![n] = Append(@, p)],
         UNCHANGED <<csma, sending>>
  PROVE  AllUnsent' = [AllUnsent EXCEPT ![n] = Append(@, p)]
  <1>1. txQueue \in [Node -> Seq(PacketID)]
    BY DEF DeliveryInv, TypeOK
  <1>2. \A m \in Node \ {n} : Unsent(m)' = Unsent(m)
    BY <1>1 DEF Unsent
  <1>3. Unsent(n)' = Append(Unsent(n), p)
    <2> DEFINE hand == IF csma[n] \in {"waiting", "sensing", "clear"}
                       THEN sending[n] ELSE <<>>
    <2>1. txQueue'[n] = Append(txQueue[n], p)
      BY <1>1
    <2>2. hand \in Seq(PacketID)
      BY UnsentType
    <2>3. hand \o Append(txQueue[n], p) = Append(hand \o txQueue[n], p)
      <3> HIDE DEF hand
      <3>1. txQueue[n] \in Seq(PacketID)
        BY UnsentType
      <3> QED
        BY <2>2, <3>1, ConcatAppend
    <2>4. Unsent(n) = hand \o txQueue[n]
      BY DEF Unsent
    <2>5. Unsent(n)' = hand \o txQueue'[n]
      BY DEF Unsent
    <2> QED
      BY <2>1, <2>3, <2>4, <2>5
  <1> QED
    BY <1>2, <1>3 DEF AllUnsent

LEMMA SubmitImplements ==
  ASSUME DeliveryInv, NEW n \in Node, Submit(n)
  PROVE  Delivery!Next
  <1> DEFINE p == Head(backlog[n])
  <1>1. p \in PacketID
    BY QueueType DEF Submit, DeliveryInv, TypeOK
  <1>2. AllUnsent' = [AllUnsent EXCEPT ![n] = Append(@, p)]
    BY <1>1, UnsentGrows DEF Submit, radio
  <1>3. AllFlights' = AllFlights
    BY FlightsStay DEF Submit, medium
  <1>4. Delivery!Create(n, p)
    BY <1>2, <1>3
    DEF Delivery!Create, Submit, space, UpNodes, AllUnsent, AllFlights, Flight
  <1> QED
    BY <1>1, <1>4 DEF Delivery!Next

LEMMA ForwardImplements ==
  ASSUME DeliveryInv, NEW n \in Node, Forward(n)
  PROVE  Delivery!Next
  <1> DEFINE p == Head(holding[n])
  <1>1. p \in PacketID /\ p \in seenMsgIDs[n]
    BY QueueType DEF Forward, DeliveryInv, HeldIsKnown, TypeOK
  <1>2. AllUnsent' = [AllUnsent EXCEPT ![n] = Append(@, p)]
    BY <1>1, UnsentGrows DEF Forward, radio
  <1>3. AllFlights' = AllFlights
    BY FlightsStay DEF Forward, medium
  <1>4. Delivery!Forward(n, p)
    BY <1>1, <1>2, <1>3
    DEF Delivery!Forward, Forward, space, AllUnsent, AllFlights, Flight
  <1> QED
    BY <1>1, <1>4 DEF Delivery!Next

LEMMA MembershipImplements ==
  ASSUME DeliveryInv, NEW n \in Node,
         Receive(n) \/ Join(n) \/ Leave(n) \/ Quit(n) \/ Move(n)
  PROVE  Delivery!Next \/ UNCHANGED Delivery!vars
  <1>1. AllUnsent' = AllUnsent /\ AllFlights' = AllFlights
    BY UnsentStays, FlightsStay
    DEF Receive, Join, Leave, Quit, Move, queues, radio, medium
  <1>2. CASE Receive(n)
    <2>1. seenMsgIDs' = [seenMsgIDs EXCEPT ![n] = @ \cup {Head(messages[n])}]
      BY Zenon, <1>2 DEF Receive
    <2>2. Delivery!Take(n)
      BY <1>1, <1>2, <2>1
      DEF Delivery!Take, Receive, space, AllUnsent, AllFlights, Flight
    <2> QED
      BY <2>2 DEF Delivery!Next
  <1>3. CASE Join(n)
    <2>1. {m \in Node : status'[m] = "up"} = {m \in Node : status[m] = "up"} \cup {n}
      BY <1>3 DEF Join, DeliveryInv, TypeOK
    <2>2. Delivery!Join(n)
      BY <1>1, <1>3, <2>1
      DEF Delivery!Join, Join, space, queues, AllUnsent, AllFlights, Flight
    <2> QED
      BY <2>2 DEF Delivery!Next
  <1>4. CASE Leave(n)
    <2>1. {m \in Node : status'[m] = "up"} = {m \in Node : status[m] = "up"} \ {n}
      BY <1>4 DEF Leave, DeliveryInv, TypeOK
    <2>2. Delivery!Leave(n)
      BY <1>1, <1>4, <2>1
      DEF Delivery!Leave, Leave, space, queues, AllUnsent, AllFlights, Flight
    <2> QED
      BY <2>2 DEF Delivery!Next
  <1>5. CASE Quit(n)
    <2>1. {m \in Node : status'[m] = "up"} = {m \in Node : status[m] = "up"}
      BY <1>5 DEF Quit, DeliveryInv, TypeOK
    <2> QED
      BY <1>1, <1>5, <2>1
      DEF Delivery!vars, Quit, space, queues, AllUnsent, AllFlights, Flight
  <1>6. CASE Move(n)
    <2>1. Delivery!Move(n)
      BY <1>1, <1>6
      DEF Delivery!Move, Move, queues, AllUnsent, AllFlights, Flight
    <2> QED
      BY <2>1 DEF Delivery!Next
  <1> QED
    BY <1>2, <1>3, <1>4, <1>5, <1>6

\* Of the txWorker's steps only the start of a transmission shows.
LEMMA TxWorkerStutters ==
  ASSUME DeliveryInv, NEW n \in Node,
         \/ TakePacket(n) \/ StopTxWorker(n) \/ StartWindow(n) \/ SampleBusy(n)
         \/ FinalCheck(n) \/ RadioDone(n)
  PROVE  UNCHANGED Delivery!vars
  <1>1. AllFlights' = AllFlights
    BY FlightsStay DEF TakePacket, StopTxWorker, StartWindow, SampleBusy,
                       FinalCheck, RadioDone, medium
  <1>2. AllUnsent' = AllUnsent
    <2>1. CASE StopTxWorker(n) \/ StartWindow(n) \/ SampleBusy(n) \/ FinalCheck(n)
      <3>1. UNCHANGED <<txQueue, sending>>
        BY <2>1 DEF StopTxWorker, StartWindow, SampleBusy, FinalCheck, queues
      <3>2. \A m \in Node : csma[m] \in {"waiting", "sensing", "clear"}
                            <=> csma'[m] \in {"waiting", "sensing", "clear"}
        <4>1. \A m \in Node \ {n} : csma'[m] = csma[m]
          BY <2>1 DEF StopTxWorker, StartWindow, SampleBusy, FinalCheck,
                      BackOff, DeliveryInv, TypeOK
        <4>2. CASE StopTxWorker(n)
          BY <4>1, <4>2 DEF StopTxWorker, DeliveryInv, TypeOK
        <4>3. CASE StartWindow(n) \/ SampleBusy(n) \/ FinalCheck(n)
          <5>1. /\ csma[n] \in {"waiting", "sensing"}
                /\ csma'[n] \in {"waiting", "sensing", "clear"}
            BY <4>3 DEF StartWindow, SampleBusy, FinalCheck, BackOff,
                        DeliveryInv, TypeOK
          <5> QED
            BY <4>1, <5>1
        <4> QED
          BY <2>1, <4>2, <4>3
      <3> QED
        BY <3>1, <3>2, UnsentStays
    <2>2. CASE TakePacket(n)
      <3>1. /\ txQueue[n] \in Seq(PacketID) /\ txQueue[n] # <<>>
            /\ txQueue'[n] = Tail(txQueue[n])
            /\ sending'[n] = <<Head(txQueue[n])>>
            /\ csma[n] = "idle" /\ csma'[n] = "waiting"
        BY <2>2 DEF TakePacket, DeliveryInv, TypeOK
      <3>2. Unsent(n)' = Unsent(n)
        BY <3>1, ConcatEmptySeq DEF Unsent
      <3>3. \A m \in Node \ {n} : Unsent(m)' = Unsent(m)
        BY <2>2 DEF TakePacket, Unsent, DeliveryInv, TypeOK
      <3> QED
        BY <3>2, <3>3 DEF AllUnsent
    <2>3. CASE RadioDone(n)
      <3>1. Unsent(n)' = Unsent(n)
        BY <2>3 DEF RadioDone, Unsent, DeliveryInv, TypeOK, queues
      <3>2. \A m \in Node \ {n} : Unsent(m)' = Unsent(m)
        BY <2>3 DEF RadioDone, Unsent, DeliveryInv, TypeOK, queues
      <3> QED
        BY <3>1, <3>2 DEF AllUnsent
    <2> QED
      BY <2>1, <2>2, <2>3
  <1>3. UNCHANGED <<place, status, seenMsgIDs, messages>>
    BY DEF TakePacket, StopTxWorker, StartWindow, SampleBusy, FinalCheck,
           RadioDone, space, queues
  <1> QED
    BY <1>1, <1>2, <1>3 DEF Delivery!vars, AllUnsent, AllFlights, Flight

LEMMA BroadcastImplements ==
  ASSUME DeliveryInv, NEW n \in Node, BroadcastMessage(n)
  PROVE  Delivery!Next
  <1>0. /\ aired \in Seq(Transmission) /\ callback \in Seq(AfterFunc)
        /\ Len(callback) = Len(aired)
    BY DEF DeliveryInv, TypeOK, WorkInHand
  <1>1. PICK p \in PacketID : sending[n] = <<p>>
    BY DEF DeliveryInv, OneInHand, BroadcastMessage
  <1>2. PICK order \in Orders(RecipientsOf(n)) :
           /\ aired' = Append(aired, [PacketID |-> p, Sender |-> n,
                                 StartTime |-> now, carrier |-> sensed[n]])
           /\ callback' = Append(callback,
                 [phase |-> "timer", others |-> {}, todo |-> order])
    <2>1. Head(sending[n]) = p
      BY <1>1
    <2> QED
      BY <2>1 DEF BroadcastMessage
  <1>3. order \in Seq(Node) /\ {order[k] : k \in DOMAIN order} = RecipientsOf(n)
    BY OrderType, OrderOnce DEF RecipientsOf
  <1>last. PICK last \in Nat : last = Len(aired) + 1
    BY <1>0
  <1> DEFINE tx == [packet |-> p, sender |-> n, to |-> RecipientsOf(n)]
  <1>4. /\ DOMAIN aired = 1 .. Len(aired) /\ DOMAIN aired' = 1 .. last
        /\ \A i \in DOMAIN aired :
              aired'[i] = aired[i] /\ callback'[i].todo = callback[i].todo
        /\ aired'[last].PacketID = p /\ aired'[last].Sender = n
        /\ callback'[last].todo = order
    <2>1. /\ [PacketID |-> p, Sender |-> n, StartTime |-> now,
              carrier |-> sensed[n]] \in Transmission
          /\ [phase |-> "timer", others |-> {}, todo |-> order] \in AfterFunc
      BY <1>3 DEF DeliveryInv, TypeOK, Transmission, AfterFunc
    <2> QED
      BY <1>0, <1>last, <1>2, <2>1
  <1>5. AllFlights' = Append(AllFlights, tx)
    <2>1. \A i \in DOMAIN aired : Flight(i)' = Flight(i)
      BY <1>4 DEF Flight, Remaining
    <2>2. Flight(last)' = tx
      <3>1. Remaining(last)' = RecipientsOf(n)
        BY <1>3, <1>4 DEF Remaining
      <3> QED
        BY <1>4, <3>1 DEF Flight
    <2>3. Len(aired) \in Nat
      BY <1>0
    <2>4. /\ AllFlights = [i \in 1 .. Len(aired) |-> Flight(i)]
          /\ AllFlights' = [i \in 1 .. last |-> Flight(i)']
      BY <1>4 DEF AllFlights
    <2>5. Len(AllFlights) = Len(aired)
      BY <2>3, <2>4
    <2>6. Append(AllFlights, tx) =
             [i \in 1 .. last |-> IF i = last THEN tx ELSE AllFlights[i]]
      <3> HIDE DEF tx
      <3> QED
        BY <1>last, <2>3, <2>4, <2>5
    <2>7. \A i \in 1 .. last :
             Flight(i)' = IF i = last THEN tx ELSE AllFlights[i]
      <3> HIDE DEF tx
      <3> QED
        BY <1>last, <1>4, <2>1, <2>2, <2>3, <2>4
    <2> QED
      BY <2>4, <2>6, <2>7
  <1>6. /\ AllUnsent[n] # <<>> /\ Head(AllUnsent[n]) = p
        /\ AllUnsent' = [AllUnsent EXCEPT ![n] = Tail(@)]
    <2>1. /\ csma[n] = "clear" /\ csma'[n] = "radio"
          /\ UNCHANGED <<txQueue, sending>>
          /\ txQueue[n] \in Seq(PacketID)
      BY DEF BroadcastMessage, DeliveryInv, TypeOK, queues
    <2>2. Unsent(n) = <<p>> \o txQueue[n] /\ Unsent(n)' = txQueue[n]
      BY <1>1, <2>1, ConcatEmptySeq DEF Unsent
    <2>3. Unsent(n) # <<>> /\ Head(Unsent(n)) = p /\ Tail(Unsent(n)) = txQueue[n]
      BY <2>1, <2>2
    <2>4. \A m \in Node \ {n} : Unsent(m)' = Unsent(m)
      BY <2>1 DEF BroadcastMessage, Unsent, DeliveryInv, TypeOK
    <2> QED
      BY <2>2, <2>3, <2>4 DEF AllUnsent
  <1>7. RecipientsOf(n) \in
           SUBSET {m \in UpNodes \ {n} : <<place[n], place[m]>> \in Near}
    BY DEF RecipientsOf, UpNodes, IsInRange
  <1>8. UNCHANGED <<place, status, seenMsgIDs, messages>>
    BY DEF BroadcastMessage, space, queues
  <1>9. Delivery!Transmit(n)
    BY <1>5, <1>6, <1>7, <1>8
    DEF Delivery!Transmit, Delivery!InReach, UpNodes, AllUnsent, AllFlights,
        Flight
  <1> QED
    BY <1>9 DEF Delivery!Next

\* A callback that goes on to its next recipient.
LEMMA FlightsAfterRecipient ==
  ASSUME DeliveryInv, NEW i \in DOMAIN aired, Skip(i) \/ Deliver(i)
  PROVE  LET m == Head(callback[i].todo) IN
         /\ i \in DOMAIN AllFlights /\ m \in Node /\ m \in AllFlights[i].to
         /\ AllFlights' = [AllFlights EXCEPT ![i].to = @ \ {m}]
  <1> DEFINE m == Head(callback[i].todo)
  <1>1. /\ UNCHANGED aired
        /\ i \in DOMAIN callback /\ callback[i] \in AfterFunc
        /\ DOMAIN callback' = DOMAIN callback
        /\ \A j \in DOMAIN aired \ {i} : callback'[j] = callback[j]
    BY CallbackType DEF DeliveryInv, Callback
  <1>2. callback[i].todo \in Seq(Node) /\ callback[i].todo # <<>>
    BY <1>1 DEF Skip, Deliver, AfterFunc
  <1>3. callback'[i].todo = Tail(callback[i].todo)
    BY <1>1 DEF Skip, Deliver, NextRecipient, AfterFunc
  <1>4. \A j, k \in DOMAIN callback[i].todo :
           callback[i].todo[j] = callback[i].todo[k] => j = k
    BY <1>1 DEF DeliveryInv, OnceEach
  <1>5. m \in Node /\ m \in Remaining(i)
    BY <1>2 DEF Remaining
  <1>6. Remaining(i)' = Remaining(i) \ {m}
    <2> DEFINE todo == callback[i].todo
    <2>1. /\ Len(todo) \in Nat \ {0} /\ DOMAIN todo = 1 .. Len(todo)
          /\ DOMAIN Tail(todo) = 1 .. Len(todo) - 1
          /\ \A k \in 1 .. Len(todo) - 1 : Tail(todo)[k] = todo[k + 1]
          /\ m = todo[1]
      BY <1>2
    <2>2. Remaining(i)' = {Tail(todo)[k] : k \in 1 .. Len(todo) - 1}
      BY <1>3, <2>1 DEF Remaining
    <2>3. Remaining(i) = {todo[k] : k \in 1 .. Len(todo)}
      BY <2>1 DEF Remaining
    <2>4. \A k \in 1 .. Len(todo) : todo[k] = m => k = 1
      BY <1>4, <2>1
    <2> HIDE DEF todo, m
    <2>5. {Tail(todo)[k] : k \in 1 .. Len(todo) - 1}
             = {todo[k] : k \in 2 .. Len(todo)}
      <3>1. \A k \in 2 .. Len(todo) :
               k - 1 \in 1 .. Len(todo) - 1 /\ Tail(todo)[k - 1] = todo[k]
        BY <2>1
      <3>2. \A k \in 1 .. Len(todo) - 1 :
               k + 1 \in 2 .. Len(todo) /\ Tail(todo)[k] = todo[k + 1]
        BY <2>1
      <3>3. {Tail(todo)[k] : k \in 1 .. Len(todo) - 1}
               \subseteq {todo[k] : k \in 2 .. Len(todo)}
        BY Zenon, <3>2
      <3>4. {todo[k] : k \in 2 .. Len(todo)}
               \subseteq {Tail(todo)[k] : k \in 1 .. Len(todo) - 1}
        BY Zenon, <3>1
      <3> QED
        BY <3>3, <3>4
    <2>6. {todo[k] : k \in 2 .. Len(todo)}
             = {todo[k] : k \in 1 .. Len(todo)} \ {m}
      BY <2>1, <2>4
    <2> QED
      BY <2>2, <2>3, <2>5, <2>6
  <1>7. \A j \in DOMAIN aired \ {i} : Flight(j)' = Flight(j)
    BY <1>1 DEF Flight, Remaining
  <1>8. Flight(i)' = [Flight(i) EXCEPT !.to = @ \ {m}]
    BY <1>1, <1>6 DEF Flight
  <1>9. AllFlights[i].to = Remaining(i) /\ i \in DOMAIN AllFlights
    BY DEF AllFlights, Flight
  <1>10. AllFlights' = [AllFlights EXCEPT ![i].to = @ \ {m}]
    BY <1>1, <1>7, <1>8 DEF AllFlights
  <1> QED
    BY <1>5, <1>9, <1>10

LEMMA CallbackImplements ==
  ASSUME DeliveryInv, NEW i \in DOMAIN aired, Callback(i)
  PROVE  Delivery!Next \/ UNCHANGED Delivery!vars
  <1>1. AllUnsent' = AllUnsent /\ UNCHANGED <<place, status, seenMsgIDs>>
    BY UnsentStays DEF Callback, EndTransmission, TakeSnapshot, Skip, Deliver,
                       space, queues, radio
  <1>2. CASE EndTransmission(i) \/ TakeSnapshot(i)
    <2>1. /\ UNCHANGED <<aired, messages>>
          /\ i \in DOMAIN callback /\ callback[i] \in AfterFunc
          /\ \A j \in DOMAIN aired \ {i} : callback'[j] = callback[j]
      BY <1>2, CallbackType DEF DeliveryInv, EndTransmission, TakeSnapshot,
                                queues
    <2>2. callback'[i].todo = callback[i].todo
      BY <1>2, <2>1 DEF EndTransmission, TakeSnapshot, AfterFunc
    <2>3. AllFlights' = AllFlights
      BY <2>1, <2>2, FlightsStay
    <2> QED
      BY <1>1, <2>1, <2>3 DEF Delivery!vars, AllUnsent, AllFlights, Flight
  <1>3. CASE Skip(i)
    <2>0. PICK m \in Node : m = Head(callback[i].todo)
      BY <1>3, FlightsAfterRecipient
    <2>1. Delivery!Lose(i, m)
      BY <2>0, <1>1, <1>3, FlightsAfterRecipient
      DEF Delivery!Lose, Skip, queues, AllUnsent, AllFlights, Flight
    <2>2. i \in DOMAIN AllFlights
      BY <1>3, FlightsAfterRecipient
    <2>3. \E j \in DOMAIN AllFlights, r \in Node :
             Delivery!Deliver(j, r) \/ Delivery!Lose(j, r)
      BY <2>1, <2>2
    <2> QED
      BY Zenon, <2>3 DEF Delivery!Next, AllFlights, Flight
  <1>4. CASE Deliver(i)
    <2>0. PICK m \in Node : m = Head(callback[i].todo)
      BY <1>4, FlightsAfterRecipient
    <2>1. Delivery!Deliver(i, m)
      BY <2>0, <1>1, <1>4, FlightsAfterRecipient
      DEF Delivery!Deliver, Delivery!InReach, Deliver, IsInRange, AllUnsent,
          AllFlights, Flight
    <2>2. i \in DOMAIN AllFlights
      BY <1>4, FlightsAfterRecipient
    <2>3. \E j \in DOMAIN AllFlights, r \in Node :
             Delivery!Deliver(j, r) \/ Delivery!Lose(j, r)
      BY <2>1, <2>2
    <2> QED
      BY Zenon, <2>3 DEF Delivery!Next, AllFlights, Flight
  <1> QED
    BY <1>2, <1>3, <1>4 DEF Callback

LEMMA InitImplements == Init => Delivery!Init
  <1> SUFFICES ASSUME Init PROVE Delivery!Init
    OBVIOUS
  <1>1. \A n \in Node : Unsent(n) = <<>>
    BY ConcatEmptySeq, EmptySeq DEF Init, Unsent
  <1>2. AllUnsent = [n \in Node |-> <<>>]
    BY <1>1 DEF AllUnsent
  <1>3. AllFlights = <<>>
    BY DEF Init, AllFlights
  <1>4. {n \in Node : status[n] = "up"} = Members
    BY NetworkAssumption DEF Init
  <1> QED
    BY <1>2, <1>3, <1>4 DEF Init, Delivery!Init, AllUnsent, AllFlights, Flight

LEMMA NextImplements ==
  DeliveryInv /\ [Next]_vars => [Delivery!Next]_(Delivery!vars)
  <1> SUFFICES ASSUME DeliveryInv, [Next]_vars
               PROVE  Delivery!Next \/ UNCHANGED Delivery!vars
    OBVIOUS
  <1>1. CASE pruneTransmissions \/ Tick \/ UNCHANGED vars
    <2>1. /\ UNCHANGED <<place, status, seenMsgIDs, messages>>
          /\ AllUnsent' = AllUnsent /\ AllFlights' = AllFlights
      BY <1>1, UnsentStays, FlightsStay
      DEF pruneTransmissions, Tick, vars, space, queues, radio, medium
    <2> QED
      BY <2>1 DEF Delivery!vars, AllUnsent, AllFlights, Flight
  <1> QED
    BY <1>1, SubmitImplements, ForwardImplements, MembershipImplements,
       TxWorkerStutters, BroadcastImplements, CallbackImplements
    DEF Next, NodeGoroutine, TxWorker

\* Whatever carrier sense, late callbacks, full channels, movement and leaving
\* nodes do: each node's packets are transmitted once each and in their order,
\* a recipient that was a member and in range gets each transmission at most
\* once and only while in range, and no node has a packet that did not come to
\* it in this way.
THEOREM NetworkImplementsDelivery == Spec => DeliveryPromise
  BY InitImplements, NextImplements, DeliveryInvariant, PTL
  DEF Spec, DeliveryPromise, Delivery!Spec

=============================================================================
