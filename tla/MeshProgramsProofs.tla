------------------------ MODULE MeshProgramsProofs -------------------------
(***************************************************************************)
(* What holds of the two programs for every scenario, every session and    *)
(* every capacity of the channels.                                         *)
(***************************************************************************)
EXTENDS MeshPrograms, FiniteSetTheorems, FunctionTheorems, SequenceTheorems,
        TLAPS

----------------------------------------------------------------------------
(* The event bus                                                           *)

LEMMA SubscribeKeepsBus ==
    ASSUME BusTypeOK, Subscribe
    PROVE  BusTypeOK' /\ Len(channels') >= Len(channels)
<1>1. channels' \in Seq(Seq(Event)) /\ Len(channels') = Len(channels) + 1
  BY DEF BusTypeOK, Subscribe
<1>2. NoneLost \in [EventType -> Nat]
  BY DEF NoneLost
<1>3. lost' \in Seq([EventType -> Nat]) /\ Len(lost') = Len(lost) + 1
  BY <1>2 DEF BusTypeOK, Subscribe
<1>4. ASSUME NEW i \in DOMAIN channels' PROVE Len(channels'[i]) <= BusCap
  BY <1>4, RegistryAssumption DEF BusTypeOK, Subscribe, RegistryAssumption
<1> QED  BY <1>1, <1>3, <1>4 DEF BusTypeOK

LEMMA PublishKeepsBus ==
    ASSUME BusTypeOK, NEW e \in Event, Publish(e)
    PROVE  BusTypeOK' /\ Len(channels') = Len(channels)
<1>0. e.type \in EventType
  BY DEF Event
<1>1. ASSUME NEW i \in DOMAIN channels
      PROVE  /\ channels'[i] \in Seq(Event)
             /\ Len(channels'[i]) <= BusCap
  <2>1. channels[i] \in Seq(Event) /\ Len(channels[i]) <= BusCap
    BY DEF BusTypeOK
  <2>2. CASE Len(channels[i]) = BusCap
    BY <2>1, <2>2 DEF Publish
  <2>3. CASE Len(channels[i]) # BusCap
    <3>1. channels'[i] = Append(channels[i], e)
      BY <2>3 DEF Publish
    <3>2. Len(channels'[i]) = Len(channels[i]) + 1
      BY <2>1, <3>1
    <3> QED  BY <2>1, <2>3, <3>1, <3>2, RegistryAssumption DEF RegistryAssumption
  <2> QED  BY <2>2, <2>3
<1>2. ASSUME NEW i \in DOMAIN lost PROVE lost'[i] \in [EventType -> Nat]
  <2>1. lost[i] \in [EventType -> Nat]
    BY DEF BusTypeOK
  <2>2. lost[i][e.type] + 1 \in Nat
    BY <2>1, <1>0
  <2>3. [lost[i] EXCEPT ![e.type] = @ + 1] \in [EventType -> Nat]
    BY <2>1, <2>2
  <2>4. \/ lost'[i] = lost[i]
        \/ lost'[i] = [lost[i] EXCEPT ![e.type] = @ + 1]
    BY DEF Publish
  <2> QED  BY <2>1, <2>3, <2>4
<1>3. channels' \in Seq(Seq(Event)) /\ Len(channels') = Len(channels)
  <2>1. DOMAIN channels' = 1 .. Len(channels)
    BY DEF Publish, BusTypeOK
  <2>2. channels' \in [1 .. Len(channels) -> Seq(Event)]
    BY <1>1, <2>1 DEF Publish
  <2>3. Len(channels) \in Nat
    BY DEF BusTypeOK
  <2> QED  BY <2>2, <2>3
<1>4. lost' \in Seq([EventType -> Nat]) /\ Len(lost') = Len(lost)
  <2>1. DOMAIN lost' = 1 .. Len(lost)
    BY DEF Publish, BusTypeOK
  <2>2. lost' \in [1 .. Len(lost) -> [EventType -> Nat]]
    BY <1>2, <2>1 DEF Publish
  <2>3. Len(lost) \in Nat
    BY DEF BusTypeOK
  <2> QED  BY <2>2, <2>3
<1>5. DOMAIN channels' = DOMAIN channels
  BY DEF Publish
<1> QED  BY <1>1, <1>3, <1>4, <1>5 DEF BusTypeOK

LEMMA TakeKeepsBus ==
    ASSUME BusTypeOK, NEW i, TakeEvent(i)
    PROVE  BusTypeOK' /\ Len(channels') = Len(channels)
<1>1. CASE i \in DOMAIN channels
  <2>1. channels[i] \in Seq(Event) /\ channels[i] # <<>>
    BY <1>1 DEF BusTypeOK, TakeEvent
  <2>2. Tail(channels[i]) \in Seq(Event) /\ Len(Tail(channels[i])) = Len(channels[i]) - 1
    BY <2>1
  <2>3. channels' \in Seq(Seq(Event)) /\ Len(channels') = Len(channels)
    BY <1>1, <2>2 DEF BusTypeOK, TakeEvent
  <2>4. ASSUME NEW k \in DOMAIN channels' PROVE Len(channels'[k]) <= BusCap
    <3>1. k \in DOMAIN channels /\ Len(channels[k]) <= BusCap
      BY DEF BusTypeOK, TakeEvent
    <3>2. CASE k = i
      BY <1>1, <2>1, <2>2, <3>1, <3>2, RegistryAssumption DEF TakeEvent, RegistryAssumption
    <3>3. CASE k # i
      BY <3>1, <3>3 DEF TakeEvent
    <3> QED  BY <3>2, <3>3
  <2> QED  BY <2>3, <2>4 DEF BusTypeOK, TakeEvent
<1>2. CASE i \notin DOMAIN channels
  <2>1. channels' = channels
    BY <1>2 DEF BusTypeOK, TakeEvent
  <2> QED  BY <2>1 DEF BusTypeOK, TakeEvent
<1> QED  BY <1>1, <1>2

LEMMA BusSame ==
    ASSUME BusTypeOK, UNCHANGED bus
    PROVE  BusTypeOK' /\ Len(channels') = Len(channels)
BY DEF BusTypeOK, bus

----------------------------------------------------------------------------
(* Types: what an action leaves alone                                      *)

LEMMA RunnerSame ==
    ASSUME RunnerTypeOK, UNCHANGED runner
    PROVE  RunnerTypeOK'
BY DEF RunnerTypeOK, runner

LEMMA ServerSame ==
    ASSUME ServerTypeOK, UNCHANGED server, BusTypeOK, BusTypeOK',
           Len(channels') >= Len(channels)
    PROVE  ServerTypeOK'
<1>1. Len(sockets) \in Nat /\ Len(channels) \in Nat /\ Len(channels') \in Nat
  BY DEF ServerTypeOK, BusTypeOK
<1>2. Len(sockets') <= Len(channels')
  BY <1>1 DEF ServerTypeOK, server
<1> QED  BY <1>2 DEF ServerTypeOK, server

LEMMA RegistryFrame ==
    ASSUME RegistryTypeOK,
           UNCHANGED <<Nodes, goroutine, told, topic>>,
           process' \in {"running", "exited", "panicked", "fatal"},
           serving' \in Request \cup {Nothing},
           iterating' \in BOOLEAN,
           BusTypeOK'
    PROVE  RegistryTypeOK'
BY DEF RegistryTypeOK

LEMMA RegistrySame ==
    ASSUME RegistryTypeOK, UNCHANGED <<registry, iterating, bus>>,
           process' \in {"running", "exited", "panicked", "fatal"}
    PROVE  RegistryTypeOK' /\ Len(channels') >= Len(channels)
<1>1. BusTypeOK' /\ Len(channels') = Len(channels)
  BY BusSame DEF RegistryTypeOK
<1>2. Len(channels) \in Nat
  BY DEF RegistryTypeOK, BusTypeOK
<1> QED  BY <1>1, <1>2, RegistryFrame DEF RegistryTypeOK, registry

LEMMA AskKeepsTypes ==
    ASSUME RegistryTypeOK, NEW request \in Request, Ask(request),
           UNCHANGED <<process, Nodes, goroutine, told, topic, iterating, bus>>
    PROVE  RegistryTypeOK' /\ Len(channels') >= Len(channels)
<1>1. BusTypeOK' /\ Len(channels') = Len(channels)
  BY BusSame DEF RegistryTypeOK
<1>2. Len(channels) \in Nat
  BY DEF RegistryTypeOK, BusTypeOK
<1> QED  BY <1>1, <1>2, RegistryFrame DEF RegistryTypeOK, Ask

----------------------------------------------------------------------------
(* Types: the network and the nodes                                        *)

LEMMA AddNodeType ==
    ASSUME RegistryTypeOK, addNode
    PROVE  RegistryTypeOK' /\ Len(channels') >= Len(channels)
<1>1. BusTypeOK' /\ Len(channels') = Len(channels)
  BY BusSame DEF RegistryTypeOK, addNode
<1>2. Len(channels) \in Nat
  BY DEF RegistryTypeOK, BusTypeOK
<1>3. serving.node \in Object /\ IDOf[serving.node] \in NodeID
  <2>1. serving.op = "join" /\ serving \in Request \cup {Nothing}
    BY DEF RegistryTypeOK, addNode
  <2>2. serving \in [op : {"join"}, node : Object]
    BY <2>1 DEF Request, Nothing
  <2>3. serving.node \in Object
    BY <2>2
  <2> QED  BY <2>3, RegistryAssumption DEF RegistryAssumption
<1>4. process' \in {"running", "fatal"}
  BY DEF addNode, MapWritten
<1>5. /\ Nodes' \in [NodeID -> Object \cup {NoObject}]
      /\ goroutine' \in [Object -> {"none", "started", "running", "stopped"}]
      /\ serving' = Nothing
      /\ UNCHANGED <<told, topic, iterating>>
  BY <1>3 DEF RegistryTypeOK, addNode
<1> QED  BY <1>1, <1>2, <1>4, <1>5 DEF RegistryTypeOK

LEMMA RemoveNodeType ==
    ASSUME RegistryTypeOK, removeNode
    PROVE  RegistryTypeOK' /\ Len(channels') >= Len(channels)
<1>1. BusTypeOK' /\ Len(channels') = Len(channels)
  BY BusSame DEF RegistryTypeOK, removeNode
<1>2. Len(channels) \in Nat
  BY DEF RegistryTypeOK, BusTypeOK
<1>3. serving.id \in NodeID
  BY DEF RegistryTypeOK, removeNode, Request, Nothing
<1>4. Nodes[serving.id] \in Object \cup {NoObject}
  BY <1>3 DEF RegistryTypeOK
<1>5. /\ process' \in {"running", "panicked", "fatal"}
      /\ Nodes' \in [NodeID -> Object \cup {NoObject}]
      /\ told' \subseteq Object
  <2>1. CASE Nodes[serving.id] = NoObject
    BY <2>1 DEF RegistryTypeOK, removeNode
  <2>2. CASE Nodes[serving.id] # NoObject
    BY <2>2, <1>3, <1>4 DEF RegistryTypeOK, removeNode, MapWritten
  <2> QED  BY <2>1, <2>2
<1>6. serving' = Nothing /\ UNCHANGED <<goroutine, topic, iterating>>
  BY DEF removeNode
<1> QED  BY <1>1, <1>2, <1>5, <1>6 DEF RegistryTypeOK

LEMMA NodeGoroutineType ==
    ASSUME RegistryTypeOK, NEW o \in Object, NodeGoroutine(o)
    PROVE  RegistryTypeOK' /\ Len(channels') >= Len(channels)
<1>1. UNCHANGED <<process, serving, Nodes, told, iterating, bus>>
  BY DEF NodeGoroutine, RunNode, StopNode
<1>2. BusTypeOK' /\ Len(channels') = Len(channels) /\ Len(channels) \in Nat
  BY <1>1, BusSame DEF RegistryTypeOK, BusTypeOK
<1>3. goroutine' \in [Object -> {"none", "started", "running", "stopped"}]
  BY DEF RegistryTypeOK, NodeGoroutine, RunNode, StopNode
<1>4. topic' \in [NodeID -> Physical \cup {NoObject}]
  <2>1. CASE RunNode(o) /\ o \in Physical
    BY <2>1, RegistryAssumption DEF RegistryTypeOK, RunNode, RegistryAssumption
  <2>2. CASE RunNode(o) /\ o \notin Physical
    BY <2>2 DEF RegistryTypeOK, RunNode
  <2>3. CASE StopNode(o)
    BY <2>3 DEF RegistryTypeOK, StopNode
  <2> QED  BY <2>1, <2>2, <2>3 DEF NodeGoroutine
<1> QED  BY <1>1, <1>2, <1>3, <1>4 DEF RegistryTypeOK

----------------------------------------------------------------------------
(* Types: the batch program                                                *)

LEMMA StartRunType ==
    ASSUME RegistryTypeOK, RunnerTypeOK, StartRun
    PROVE  RegistryTypeOK' /\ RunnerTypeOK' /\ Len(channels') >= Len(channels)
<1>1. BusTypeOK' /\ Len(channels') >= Len(channels)
  <2>1. BusTypeOK /\ Len(channels) \in Nat
    BY DEF RegistryTypeOK, BusTypeOK
  <2>2. Subscribe \/ UNCHANGED bus
    BY DEF StartRun
  <2> QED  BY <2>1, <2>2, SubscribeKeepsBus, BusSame
<1>2. RegistryTypeOK'
  BY <1>1, RegistryFrame DEF RegistryTypeOK, StartRun, registry
<1>3. /\ started' \in BOOLEAN
      /\ starters' \in Nat
      /\ generator' \in {generator, "waiting"}
      /\ run' \in {"joining", "returned"}
      /\ UNCHANGED <<scenario, joined, ticks, quit, signalled, failing, failures,
                     doomed, leaving, owed, published, counters>>
  <2>1. CASE scenario.invalid
    BY <2>1 DEF RunnerTypeOK, StartRun
  <2>2. CASE ~scenario.invalid
    BY <2>2 DEF RunnerTypeOK, StartRun
  <2> QED  BY <2>1, <2>2
<1>4. RunnerTypeOK'
  BY <1>3 DEF RunnerTypeOK
<1> QED  BY <1>1, <1>2, <1>4

LEMMA FleetObjects ==
    ASSUME NEW i \in DOMAIN Fleet
    PROVE  Fleet[i] \in Object /\ IDOf[Fleet[i]] \in NodeID
BY RunnerAssumption, RegistryAssumption DEF RunnerAssumption, RegistryAssumption

LEMMA JoinNextType ==
    ASSUME RegistryTypeOK, RunnerTypeOK, JoinNext
    PROVE  RegistryTypeOK' /\ RunnerTypeOK' /\ Len(channels') >= Len(channels)
<1>1. joined \in Nat /\ Len(Fleet) \in Nat /\ joined + 1 \in DOMAIN Fleet
  BY RunnerAssumption DEF RunnerTypeOK, JoinNext, RunnerAssumption
<1>2. [op |-> "join", node |-> Fleet[joined + 1]] \in Request
  BY <1>1, FleetObjects DEF Request
<1>3. RegistryTypeOK' /\ Len(channels') >= Len(channels)
  BY <1>2, AskKeepsTypes DEF JoinNext
<1>4. joined' \in 0 .. Len(Fleet)
  BY <1>1 DEF JoinNext, RunnerTypeOK
<1>5. RunnerTypeOK'
  BY <1>4 DEF RunnerTypeOK, JoinNext
<1> QED  BY <1>3, <1>5

LEMMA LeaveAllType ==
    ASSUME RegistryTypeOK, RunnerTypeOK, LeaveAll
    PROVE  RegistryTypeOK' /\ RunnerTypeOK' /\ Len(channels') >= Len(channels)
<1>1. PICK id \in leaving : /\ Ask([op |-> "leave", id |-> id])
                           /\ leaving' = leaving \ {id}
  BY DEF LeaveAll
<1>2. [op |-> "leave", id |-> id] \in Request
  BY DEF RunnerTypeOK, Request
<1>3. RegistryTypeOK' /\ Len(channels') >= Len(channels)
  BY <1>1, <1>2, AskKeepsTypes DEF LeaveAll
<1>4. RunnerTypeOK'
  BY <1>1 DEF RunnerTypeOK, LeaveAll
<1> QED  BY <1>3, <1>4

LEMMA RemoveVictimType ==
    ASSUME RegistryTypeOK, RunnerTypeOK, RemoveVictim
    PROVE  RegistryTypeOK' /\ RunnerTypeOK' /\ Len(channels') >= Len(channels)
<1>1. PICK id \in doomed : Ask([op |-> "leave", id |-> id])
  BY DEF RemoveVictim
<1>2. [op |-> "leave", id |-> id] \in Request
  BY DEF RunnerTypeOK, Request
<1>3. RegistryTypeOK' /\ Len(channels') >= Len(channels)
  BY <1>1, <1>2, AskKeepsTypes DEF RemoveVictim
<1>4. RunnerTypeOK'
  BY DEF RunnerTypeOK, RemoveVictim
<1> QED  BY <1>3, <1>4

LEMMA QuietRunnerType ==
    ASSUME RegistryTypeOK, RunnerTypeOK,
           \/ startFailureSimulator \/ AfterQuit \/ ReturnRun \/ triggerStart
           \/ BeginTraffic \/ LoopTraffic \/ PickVictim \/ Stop \/ Flush
    PROVE  RegistryTypeOK' /\ RunnerTypeOK' /\ Len(channels') >= Len(channels)
<1>1. /\ UNCHANGED <<registry, iterating, bus>>
      /\ process' \in {process, "running", "panicked", "exited"}
  BY DEF startFailureSimulator, AfterQuit, ReturnRun, triggerStart,
         BeginTraffic, LoopTraffic, PickVictim, Stop, Flush, CloseQuit
<1>2. RegistryTypeOK' /\ Len(channels') >= Len(channels)
  BY <1>1, RegistrySame DEF RegistryTypeOK
<1>3. members \subseteq NodeID
  BY DEF members
<1>4. RunnerTypeOK'
  <2>1. CASE startFailureSimulator
    BY <2>1 DEF RunnerTypeOK, startFailureSimulator
  <2>2. CASE AfterQuit
    BY <2>2, <1>3 DEF RunnerTypeOK, AfterQuit
  <2>3. CASE ReturnRun
    BY <2>3 DEF RunnerTypeOK, ReturnRun
  <2>4. CASE triggerStart
    BY <2>4 DEF RunnerTypeOK, triggerStart
  <2>5. CASE BeginTraffic
    BY <2>5 DEF RunnerTypeOK, BeginTraffic
  <2>6. CASE LoopTraffic
    BY <2>6 DEF RunnerTypeOK, LoopTraffic, CloseQuit
  <2>7. CASE PickVictim
    BY <2>7, <1>3 DEF RunnerTypeOK, PickVictim
  <2>8. CASE Stop
    BY <2>8 DEF RunnerTypeOK, Stop, CloseQuit
  <2>9. CASE Flush
    BY <2>9, RunnerSame DEF Flush
  <2> QED  BY <2>1, <2>2, <2>3, <2>4, <2>5, <2>6, <2>7, <2>8, <2>9
<1> QED  BY <1>2, <1>4

LEMMA EmittingType ==
    ASSUME RegistryTypeOK, RunnerTypeOK, SelectTraffic \/ emitRandomTraffic
    PROVE  RegistryTypeOK' /\ RunnerTypeOK' /\ Len(channels') >= Len(channels)
<1>1. UNCHANGED <<process, registry, bus>> /\ iterating' \in BOOLEAN
  <2>1. (Cardinality(members) >= 2) \in BOOLEAN
    OBVIOUS
  <2>2. CASE SelectTraffic
    BY <2>1, <2>2 DEF SelectTraffic, RegistryTypeOK
  <2>3. CASE emitRandomTraffic
    BY <2>3 DEF emitRandomTraffic
  <2> QED  BY <2>2, <2>3
<1>2. BusTypeOK' /\ Len(channels') = Len(channels) /\ Len(channels) \in Nat
  BY <1>1, BusSame DEF RegistryTypeOK, BusTypeOK
<1>3. RegistryTypeOK'
  BY <1>1, <1>2, RegistryFrame DEF RegistryTypeOK, registry
<1>4. CASE SelectTraffic
  <2>1. ticks' \in 0 .. scenario.ticks
    <3>1. scenario.ticks \in Nat
      BY RunnerAssumption DEF RunnerTypeOK, RunnerAssumption
    <3> QED  BY <1>4, <3>1 DEF RunnerTypeOK, SelectTraffic
  <2> QED  BY <1>2, <1>3, <1>4, <2>1 DEF RunnerTypeOK, SelectTraffic
<1>5. CASE emitRandomTraffic
  <2>1. owed' \in [EventType -> Nat]
    <3>1. /\ "MESSAGE_SENT" \in EventType /\ "MESSAGE_DELIVERED" \in EventType
          /\ owed \in [EventType -> Nat]
      BY DEF EventType, RunnerTypeOK
    <3> QED  BY <1>5, <3>1 DEF emitRandomTraffic
  <2> QED  BY <1>2, <1>3, <1>5, <2>1 DEF RunnerTypeOK, emitRandomTraffic
<1> QED  BY <1>4, <1>5

LEMMA RouterPublishesType ==
    ASSUME RegistryTypeOK, RunnerTypeOK,
           NEW type \in {"MESSAGE_SENT", "MESSAGE_DELIVERED"},
           RouterPublishes(type)
    PROVE  RegistryTypeOK' /\ RunnerTypeOK' /\ Len(channels') >= Len(channels)
<1>0. type \in EventType /\ BusTypeOK /\ Len(channels) \in Nat
  BY DEF EventType, RegistryTypeOK, BusTypeOK
<1>1. BusTypeOK' /\ Len(channels') = Len(channels)
  <2>1. CASE UNCHANGED bus
    BY <1>0, <2>1, BusSame
  <2>2. CASE ~UNCHANGED bus
    <3>1. PICK id \in members :
              Publish([type |-> type, id |-> id, user |-> NoUser])
      BY <2>2 DEF RouterPublishes
    <3>2. [type |-> type, id |-> id, user |-> NoUser] \in Event
      BY <1>0, <3>1 DEF Event, members
    <3> QED  BY <1>0, <3>1, <3>2, PublishKeepsBus
  <2> QED  BY <2>1, <2>2
<1>2. RegistryTypeOK'
  BY <1>1, RegistryFrame DEF RegistryTypeOK, RouterPublishes, registry
<1>3. owed' \in [EventType -> Nat] /\ published' \in [EventType -> Nat]
  <2>1. owed \in [EventType -> Nat] /\ published \in [EventType -> Nat]
    BY DEF RunnerTypeOK
  <2>2. owed[type] - 1 \in Nat /\ published[type] + 1 \in Nat
    BY <1>0, <2>1 DEF RouterPublishes
  <2>3. owed' \in [EventType -> Nat]
    BY <2>1, <2>2 DEF RouterPublishes
  <2>4. published' \in {published, [published EXCEPT ![type] = @ + 1]}
    BY DEF RouterPublishes
  <2> QED  BY <2>1, <2>2, <2>3, <2>4
<1>4. RunnerTypeOK'
  BY <1>3 DEF RunnerTypeOK, RouterPublishes
<1> QED  BY <1>0, <1>1, <1>2, <1>4

LEMMA ConsumeEventsType ==
    ASSUME RegistryTypeOK, RunnerTypeOK, consumeEvents
    PROVE  RegistryTypeOK' /\ RunnerTypeOK' /\ Len(channels') >= Len(channels)
<1>1. BusTypeOK' /\ Len(channels') = Len(channels) /\ Len(channels) \in Nat
  BY TakeKeepsBus DEF RegistryTypeOK, BusTypeOK, consumeEvents
<1>2. RegistryTypeOK'
  BY <1>1, RegistryFrame DEF RegistryTypeOK, consumeEvents, registry
<1>3. Head(channels[1]).type \in EventType
  <2>1. channels[1] \in Seq(Event) /\ channels[1] # <<>>
    BY DEF RegistryTypeOK, BusTypeOK, consumeEvents, TakeEvent
  <2>2. Head(channels[1]) \in Event
    BY <2>1
  <2> QED  BY <2>2 DEF Event
<1>4. counters' \in [EventType -> Nat]
  BY <1>3 DEF RunnerTypeOK, consumeEvents, CounterOf
<1>5. RunnerTypeOK'
  BY <1>4 DEF RunnerTypeOK, consumeEvents
<1> QED  BY <1>1, <1>2, <1>5

LEMMA RunnerNextType ==
    ASSUME RegistryTypeOK, RunnerTypeOK, RunnerNext
    PROVE  RegistryTypeOK' /\ RunnerTypeOK' /\ Len(channels') >= Len(channels)
BY StartRunType, JoinNextType, LeaveAllType, RemoveVictimType, QuietRunnerType,
   EmittingType, RouterPublishesType, ConsumeEventsType
   DEF RunnerNext, Run, startTrafficGenerator, FailureSimulator

----------------------------------------------------------------------------
(* Types: the server                                                       *)

Call == HTTPCall \cup BrokerMessage

LEMMA CallFields ==
    ASSUME NEW q \in Call
    PROVE  /\ q.op \in {"createNode", "register"} => q.node \in Object
           /\ q.op \in {"removeNode", "sendMessage", "moveNode", "command",
                        "remove", "createUser", "deleteUser", "sendUserMessage",
                        "moveUser", "addUser", "removeUser"} => q.id \in NodeID
           /\ q.op \in {"createUser", "deleteUser", "moveUser", "addUser",
                        "removeUser"} => q.user \in User
           /\ q.op = "moveUser" => q.other \in NodeID
           /\ q.op \in {"createNode", "removeNode", "sendMessage", "moveNode",
                        "command", "createUser", "deleteUser", "sendUserMessage",
                        "moveUser", "ws", "register", "remove", "addUser",
                        "removeUser"}
<1>1. CASE q \in [op : {"createNode"}, node : Object \ Physical]
  BY <1>1
<1>2. CASE q \in [op : {"removeNode", "sendMessage", "moveNode", "command"}, id : NodeID]
  BY <1>2
<1>3. CASE q \in [op : {"createUser", "deleteUser", "sendUserMessage"},
                 id : NodeID, user : User]
  BY <1>3
<1>4. CASE q \in [op : {"moveUser"}, id : NodeID, user : User, other : NodeID]
  BY <1>4
<1>5. CASE q \in [op : {"ws"}]
  BY <1>5
<1>6. CASE q \in [op : {"register"}, node : Physical]
  BY <1>6, RegistryAssumption DEF RegistryAssumption
<1>7. CASE q \in [op : {"remove"}, id : NodeID]
  BY <1>7
<1>8. CASE q \in [op : {"addUser", "removeUser"}, id : NodeID, user : User]
  BY <1>8
<1> QED
  BY <1>1, <1>2, <1>3, <1>4, <1>5, <1>6, <1>7, <1>8
     DEF Call, HTTPCall, BrokerMessage

LEMMA StepTypes ==
    /\ \A o \in Object : join(o) \in Step
    /\ \A id \in NodeID : leave(id) \in Step /\ find(id) \in Step /\ send(id) \in Step
    /\ \A k \in 1 .. 2, user \in User : add(k, user) \in Step /\ remove(k, user) \in Step
    /\ \A type \in EventType, id \in NodeID, user \in User \cup {NoUser} :
          publish(type, id, user) \in Step
<1>1. ASSUME NEW o \in Object PROVE join(o) \in Step
  BY DEF join, Step
<1>2. ASSUME NEW id \in NodeID
      PROVE  leave(id) \in Step /\ find(id) \in Step /\ send(id) \in Step
  BY DEF leave, find, send, Step
<1>3. ASSUME NEW k \in 1 .. 2, NEW user \in User
      PROVE  add(k, user) \in Step /\ remove(k, user) \in Step
  BY DEF add, remove, Step
<1>4. ASSUME NEW type \in EventType, NEW id \in NodeID, NEW user \in User \cup {NoUser}
      PROVE  publish(type, id, user) \in Step
  <2>1. [type |-> type, id |-> id, user |-> user] \in Event
    BY DEF Event
  <2> QED  BY <2>1 DEF publish, Step
<1> QED  BY <1>1, <1>2, <1>3, <1>4

LEMMA Pairs ==
    ASSUME NEW S, NEW x \in S, NEW y \in S
    PROVE  <<x>> \in Seq(S) \ {<<>>} /\ <<x, y>> \in Seq(S) \ {<<>>}
OBVIOUS

LEMMA Triples ==
    ASSUME NEW S, NEW x \in S, NEW y \in S, NEW z \in S
    PROVE  <<x, y, z>> \in Seq(S) \ {<<>>}
OBVIOUS

LEMMA Sixes ==
    ASSUME NEW S, NEW x1 \in S, NEW x2 \in S, NEW x3 \in S, NEW x4 \in S,
           NEW x5 \in S, NEW x6 \in S
    PROVE  <<x1, x2, x3, x4, x5, x6>> \in Seq(S) \ {<<>>}
OBVIOUS

LEMMA StepsAreSteps ==
    ASSUME NEW q \in Call, q.op # "ws"
    PROVE  StepsOf(q) \in Seq(Step) \ {<<>>}
<1> DEFINE Some == Seq(Step) \ {<<>>}
<1>0. /\ 1 \in 1 .. 2 /\ 2 \in 1 .. 2
      /\ {"NODE_JOINED", "NODE_LEFT", "MOVED_NODE", "CREATE_USER", "DELETE_USER",
          "COMMAND_RECEIVED"} \subseteq EventType
      /\ NoUser \in User \cup {NoUser}
  BY DEF EventType
<1>1. CASE q.op = "createNode"
  <2>1. q.node \in Object /\ IDOf[q.node] \in NodeID
    BY <1>1, CallFields, RegistryAssumption DEF RegistryAssumption
  <2>2. CreateNodeHandler(q) \in Some
    BY <1>0, <2>1, StepTypes, Pairs DEF CreateNodeHandler
  <2> QED  BY <1>1, <2>2 DEF StepsOf
<1>2. CASE q.op = "removeNode"
  <2>1. RemoveNodeHandler(q) \in Some
    BY <1>0, <1>2, CallFields, StepTypes, Pairs DEF RemoveNodeHandler
  <2> QED  BY <1>2, <2>1 DEF StepsOf
<1>3. CASE q.op = "sendMessage"
  <2>1. SendMessageHandler(q) \in Some
    BY <1>3, CallFields, StepTypes, Pairs DEF SendMessageHandler
  <2> QED  BY <1>3, <2>1 DEF StepsOf
<1>4. CASE q.op = "moveNode"
  <2>1. MoveNodeHandler(q) \in Some
    BY <1>0, <1>4, CallFields, StepTypes, Pairs DEF MoveNodeHandler
  <2> QED  BY <1>4, <2>1 DEF StepsOf
<1>5. CASE q.op = "createUser"
  <2>1. CreateUser(q) \in Some
    BY <1>0, <1>5, CallFields, StepTypes, Triples DEF CreateUser
  <2> QED  BY <1>5, <2>1 DEF StepsOf
<1>6. CASE q.op = "deleteUser"
  <2>1. DeleteUser(q) \in Some
    BY <1>0, <1>6, CallFields, StepTypes, Triples DEF DeleteUser
  <2> QED  BY <1>6, <2>1 DEF StepsOf
<1>7. CASE q.op = "sendUserMessage"
  <2>1. SendUserMessage(q) \in Some
    BY <1>7, CallFields, StepTypes, Pairs DEF SendUserMessage
  <2> QED  BY <1>7, <2>1 DEF StepsOf
<1>8. CASE q.op = "moveUser"
  <2>1. q.id \in NodeID /\ q.other \in NodeID /\ q.user \in User
    BY <1>8, CallFields
  <2>2. MoveUser(q) \in Some
    BY <1>0, <2>1, StepTypes, Sixes DEF MoveUser
  <2> QED  BY <1>8, <2>2 DEF StepsOf
<1>9. CASE q.op = "command"
  <2>1. commandHandler(q) \in Some
    BY <1>0, <1>9, CallFields, StepTypes, Pairs DEF commandHandler
  <2> QED  BY <1>9, <2>1 DEF StepsOf
<1>10. CASE q.op \in {"register", "remove"}
  <2>1. CASE q.op = "register"
    <3>1. q.node \in Object /\ IDOf[q.node] \in NodeID
      BY <2>1, CallFields, RegistryAssumption DEF RegistryAssumption
    <3>2. ProcessMqttNodeMessage(q) \in Some
      BY <1>0, <2>1, <3>1, StepTypes, Pairs DEF ProcessMqttNodeMessage
    <3> QED  BY <2>1, <3>2 DEF StepsOf
  <2>2. CASE q.op = "remove"
    <3>1. ProcessMqttNodeMessage(q) \in Some
      BY <1>0, <2>2, CallFields, StepTypes, Pairs DEF ProcessMqttNodeMessage
    <3> QED  BY <2>2, <3>1 DEF StepsOf
  <2> QED  BY <1>10, <2>1, <2>2
<1>11. CASE q.op \in {"addUser", "removeUser"}
  <2>1. handleMQTTCommand(q) \in Some
    BY <1>0, <1>11, CallFields, StepTypes, Pairs DEF handleMQTTCommand
  <2> QED  BY <1>11, <2>1 DEF StepsOf
<1> QED
  BY <1>1, <1>2, <1>3, <1>4, <1>5, <1>6, <1>7, <1>8, <1>9, <1>10, <1>11,
     CallFields

LEMMA Concatenated ==
    ASSUME NEW S, NEW a \in Seq(S), NEW b \in Seq(S)
    PROVE  a \o b \in Seq(S) /\ Len(a \o b) = Len(a) + Len(b)
BY ConcatProperties

LEMMA RemoveAtProperties ==
    ASSUME NEW S, NEW s \in Seq(S), NEW i \in 1 .. Len(s)
    PROVE  /\ RemoveAt(s, i) \in Seq(S)
           /\ Len(RemoveAt(s, i)) = Len(s) - 1
           /\ \A k \in 1 .. Len(s) - 1 :
                 RemoveAt(s, i)[k] = IF k < i THEN s[k] ELSE s[k + 1]
<1>1. SubSeq(s, 1, i - 1) \in Seq(S) /\ Len(SubSeq(s, 1, i - 1)) = i - 1
  OBVIOUS
<1>2. SubSeq(s, i + 1, Len(s)) \in Seq(S)
      /\ Len(SubSeq(s, i + 1, Len(s))) = Len(s) - i
  OBVIOUS
<1>3. RemoveAt(s, i) = SubSeq(s, 1, i - 1) \o SubSeq(s, i + 1, Len(s))
  BY DEF RemoveAt
<1> DEFINE before == SubSeq(s, 1, i - 1)
           after == SubSeq(s, i + 1, Len(s))
<1>4. /\ before \o after \in Seq(S)
      /\ Len(before \o after) = Len(s) - 1
  <2>1. Len(s) \in Nat /\ i \in Nat
    OBVIOUS
  <2>2. before \in Seq(S) /\ after \in Seq(S) /\ Len(before) = i - 1
        /\ Len(after) = Len(s) - i
    BY <1>1, <1>2
  <2>3. before \o after \in Seq(S) /\ Len(before \o after) = Len(before) + Len(after)
    BY <2>2, Concatenated
  <2> HIDE DEF before, after
  <2>4. Len(before \o after) = Len(s) - 1
    BY <2>1, <2>2, <2>3
  <2> QED  BY <2>3, <2>4
<1>5. ASSUME NEW k \in 1 .. Len(s) - 1
      PROVE  (before \o after)[k] = IF k < i THEN s[k] ELSE s[k + 1]
  <2>1. Len(s) \in Nat /\ i \in Nat /\ k \in Nat /\ i <= Len(s)
        /\ k <= Len(s) - 1 /\ 1 <= k /\ 1 <= i
    OBVIOUS
  <2>2. CASE k < i
    <3>1. before[k] = s[k]
      BY <2>2
    <3>2. (before \o after)[k] = before[k]
      <4>1. before \in Seq(S) /\ after \in Seq(S) /\ Len(before) = i - 1
            /\ Len(after) = Len(s) - i
        BY <1>1, <1>2
      <4> HIDE DEF before, after
      <4> QED  BY <4>1, <2>1, <2>2
    <3> QED  BY <2>2, <3>1, <3>2
  <2>3. CASE ~(k < i)
    <3>1. after[k - (i - 1)] = s[k + 1]
      BY <2>1, <2>3
    <3>2. (before \o after)[k] = after[k - (i - 1)]
      <4>1. before \in Seq(S) /\ after \in Seq(S) /\ Len(before) = i - 1
            /\ Len(after) = Len(s) - i
        BY <1>1, <1>2
      <4> HIDE DEF before, after
      <4> QED  BY <4>1, <2>1, <2>3
    <3> QED  BY <2>3, <3>1, <3>2
  <2> QED  BY <2>2, <2>3
<1> QED  BY <1>3, <1>4, <1>5

LEMMA AdvanceType ==
    ASSUME handlers \in Seq(Handler), NEW i \in DOMAIN handlers,
           NEW found \in Seq(Object), NEW todo \in Seq(Step),
           Advance(i, found, todo), Len(handlers) <= MaxHandlers
    PROVE  handlers' \in Seq(Handler) /\ Len(handlers') <= MaxHandlers
<1>0. Len(handlers) \in Nat /\ i \in 1 .. Len(handlers) /\ MaxHandlers \in Nat
  BY ServerAssumption DEF ServerAssumption
<1>1. CASE todo = <<>>
  BY <1>0, <1>1, RemoveAtProperties DEF Advance
<1>2. CASE todo # <<>>
  <2>1. handlers[i] \in Handler
    OBVIOUS
  <2>2. [handlers[i] EXCEPT !.found = found, !.todo = todo] \in Handler
    BY <1>2, <2>1 DEF Handler
  <2>3. handlers' = [handlers EXCEPT ![i] =
                        [handlers[i] EXCEPT !.found = found, !.todo = todo]]
    BY <1>2 DEF Advance
  <2> QED  BY <1>0, <2>2, <2>3
<1> QED  BY <1>1, <1>2

LEMMA ReceiveType ==
    ASSUME RegistryTypeOK, ServerTypeOK, Receive
    PROVE  RegistryTypeOK' /\ ServerTypeOK'
<1>1. RegistryTypeOK' /\ UNCHANGED channels
  BY RegistrySame DEF Receive, RegistryTypeOK, bus
<1> DEFINE q == Head(session)
<1>2. q \in Call /\ q.op # "ws" /\ Tail(session) \in Seq(Call)
  <2>1. session \in Seq(Call) /\ session # <<>> /\ q.op # "ws"
    BY DEF ServerTypeOK, Receive, Call
  <2> QED  BY <2>1
<1>3. (IF FromDevice(q) THEN <<topic[q.id]>> ELSE <<>>) \in Seq(Object)
  <2>1. CASE FromDevice(q)
    <3>1. topic[q.id] \in Object
      BY <1>2, <2>1, CallFields, RegistryAssumption
         DEF Receive, RegistryTypeOK, FromDevice, RegistryAssumption
    <3> QED  BY <2>1, <3>1
  <2>2. CASE ~FromDevice(q)
    BY <2>2
  <2> QED  BY <2>1, <2>2
<1>4. [request |-> q, todo |-> StepsOf(q),
       found |-> IF FromDevice(q) THEN <<topic[q.id]>> ELSE <<>>] \in Handler
  <2>1. StepsOf(q) \in Seq(Step) \ {<<>>}
    BY <1>2, StepsAreSteps
  <2> HIDE DEF q
  <2> QED  BY <1>2, <1>3, <2>1 DEF Handler, Call
<1>5. PICK h \in Handler : handlers' = Append(handlers, h)
  BY <1>4 DEF Receive
<1>6. handlers' \in Seq(Handler) /\ Len(handlers') <= MaxHandlers
  BY <1>5, ServerAssumption DEF ServerTypeOK, Receive, ServerAssumption
<1>7. session' \in Seq(Call) /\ raced' \in BOOLEAN
  <2>1. session' = Tail(session)
    BY DEF Receive
  <2>2. raced' = (raced \/ ~Orderly(q))
    BY DEF Receive
  <2>3. (raced \/ ~Orderly(q)) \in BOOLEAN
    BY Zenon
  <2> QED  BY <1>2, <2>1, <2>2, <2>3
<1> QED
  BY <1>1, <1>6, <1>7 DEF ServerTypeOK, Receive, Call

LEMMA ConnectSocketType ==
    ASSUME RegistryTypeOK, ServerTypeOK, ConnectSocket
    PROVE  RegistryTypeOK' /\ ServerTypeOK'
<1>0. BusTypeOK /\ Len(channels) \in Nat /\ Len(sockets) \in Nat
  BY DEF RegistryTypeOK, BusTypeOK, ServerTypeOK
<1>1. BusTypeOK' /\ Len(channels') = Len(channels) + 1
  <2>1. BusTypeOK'
    BY <1>0, SubscribeKeepsBus DEF ConnectSocket
  <2> QED  BY <2>1 DEF ConnectSocket, Subscribe, RegistryTypeOK, BusTypeOK
<1>2. RegistryTypeOK'
  BY <1>1, RegistryFrame DEF RegistryTypeOK, ConnectSocket, registry
<1>3. session' \in Seq(HTTPCall \cup BrokerMessage)
  BY DEF ServerTypeOK, ConnectSocket
<1>4. sockets' \in Seq(BOOLEAN) /\ Len(sockets') = Len(sockets) + 1
  BY DEF ServerTypeOK, ConnectSocket
<1>5. Len(sockets') <= Len(channels')
  BY <1>0, <1>1, <1>4 DEF ServerTypeOK
<1> QED  BY <1>2, <1>3, <1>4, <1>5 DEF ServerTypeOK, ConnectSocket

LEMMA WriteEventType ==
    ASSUME RegistryTypeOK, ServerTypeOK, NEW i \in DOMAIN sockets, WriteEvent(i)
    PROVE  RegistryTypeOK' /\ ServerTypeOK'
<1>0. BusTypeOK /\ Len(channels) \in Nat /\ Len(sockets) \in Nat
  BY DEF RegistryTypeOK, BusTypeOK, ServerTypeOK
<1>1. BusTypeOK' /\ Len(channels') = Len(channels)
  BY <1>0, TakeKeepsBus DEF WriteEvent
<1>2. RegistryTypeOK'
  BY <1>1, RegistryFrame DEF RegistryTypeOK, WriteEvent, registry
<1>3. sockets' \in Seq(BOOLEAN) /\ Len(sockets') = Len(sockets)
  <2>1. [sockets EXCEPT ![i] = FALSE] \in Seq(BOOLEAN)
        /\ Len([sockets EXCEPT ![i] = FALSE]) = Len(sockets)
    BY DEF ServerTypeOK
  <2> QED  BY <2>1 DEF WriteEvent, ServerTypeOK
<1>4. /\ shownNodes' \subseteq NodeID
      /\ shownUsers' \subseteq NodeID \X (User \cup {NoUser})
  <2>1. CASE UNCHANGED <<shownNodes, shownUsers>>
    BY <2>1 DEF ServerTypeOK
  <2>2. CASE i = 1 /\ Show(Head(channels[1]))
    <3>1. 1 \in DOMAIN channels
      BY <1>0, <2>2 DEF ServerTypeOK, BusTypeOK
    <3>2. Head(channels[1]) \in Event
      <4>1. channels[1] \in Seq(Event) /\ channels[1] # <<>>
        BY <2>2, <3>1 DEF BusTypeOK, RegistryTypeOK, WriteEvent, TakeEvent
      <4> QED  BY <4>1
    <3>3. PICK e \in Event : Show(e)
      BY <2>2, <3>2
    <3>4. e.id \in NodeID /\ e.user \in User \cup {NoUser}
      BY DEF Event
    <3>5. shownNodes' \subseteq NodeID
      BY <3>3, <3>4 DEF Show, ServerTypeOK
    <3>6. shownUsers' \subseteq NodeID \X (User \cup {NoUser})
      BY <3>3, <3>4 DEF Show, ServerTypeOK
    <3> QED  BY <3>5, <3>6
  <2> QED  BY <2>1, <2>2 DEF WriteEvent
<1> QED  BY <1>0, <1>1, <1>2, <1>3, <1>4 DEF ServerTypeOK, WriteEvent

LEMMA HandleType ==
    ASSUME RegistryTypeOK, ServerTypeOK, NEW i, Handle(i)
    PROVE  RegistryTypeOK' /\ ServerTypeOK'
<1> DEFINE h == handlers[i]
           step == Head(h.todo)
<1>0. BusTypeOK /\ Len(channels) \in Nat /\ Len(sockets) \in Nat
  BY DEF RegistryTypeOK, BusTypeOK, ServerTypeOK
<1>1. i \in DOMAIN handlers /\ h \in Handler /\ h.found \in Seq(Object)
      /\ h.todo \in Seq(Step) /\ h.todo # <<>>
  <2>1. h \in Handler
    BY DEF Handle, ServerTypeOK
  <2> HIDE DEF h
  <2>2. h.found \in Seq(Object) /\ h.todo \in Seq(Step) \ {<<>>}
    BY <2>1 DEF Handler
  <2> QED  BY <2>1, <2>2 DEF Handle
<1>2. step \in Step /\ Tail(h.todo) \in Seq(Step)
  <2> HIDE DEF h
  <2> QED  BY <1>1
<1>3. /\ step.do \in {"find", "leave", "send"} => step.id \in NodeID
      /\ step.do = "join" => step.node \in Object
      /\ step.do \in {"add", "remove"} => step.user \in User
      /\ step.do = "publish" => step.event \in Event
  <2> HIDE DEF step
  <2>1. CASE step \in [do : {"join"}, node : Object]
    BY <2>1
  <2>2. CASE step \in [do : {"leave", "find", "send"}, id : NodeID]
    BY <2>2
  <2>3. CASE step \in [do : {"add", "remove"}, at : 1 .. 2, user : User]
    BY <2>3
  <2>4. CASE step \in [do : {"publish"}, event : Event]
    BY <2>4
  <2> QED  BY <1>2, <2>1, <2>2, <2>3, <2>4 DEF Step
<1>4. handlers' \in Seq(Handler) /\ Len(handlers') <= MaxHandlers
  <2>0. handlers \in Seq(Handler) /\ Len(handlers) <= MaxHandlers
    BY DEF ServerTypeOK
  <2>1. CASE step.do = "find" /\ Nodes[step.id] = NoObject
    <3>1. Advance(i, <<>>, <<>>)
      BY <2>1 DEF Handle
    <3>2. <<>> \in Seq(Object) /\ <<>> \in Seq(Step)
      OBVIOUS
    <3> QED  BY <1>1, <2>0, <3>1, <3>2, AdvanceType
  <2>2. CASE step.do = "find" /\ Nodes[step.id] # NoObject
    <3>1. Advance(i, Append(h.found, Nodes[step.id]), Tail(h.todo))
      BY <2>2 DEF Handle
    <3>2. Nodes[step.id] \in Object
      BY <1>3, <2>2 DEF RegistryTypeOK
    <3>3. Append(h.found, Nodes[step.id]) \in Seq(Object)
      BY <1>1, <3>2
    <3> QED  BY <1>1, <1>2, <2>0, <3>1, <3>3, AdvanceType
  <2>3. CASE step.do # "find"
    <3>1. Advance(i, h.found, Tail(h.todo))
      BY <2>3 DEF Handle
    <3> QED  BY <1>1, <1>2, <2>0, <3>1, AdvanceType
  <2> QED  BY <2>1, <2>2, <2>3
<1>5. serving' \in Request \cup {Nothing}
  <2>1. CASE step.do = "join"
    BY <1>3, <2>1 DEF Handle, Ask, Request
  <2>2. CASE step.do = "leave"
    BY <1>3, <2>2 DEF Handle, Ask, Request
  <2>3. CASE step.do \notin {"join", "leave"}
    BY <2>3 DEF Handle, RegistryTypeOK
  <2> QED  BY <2>1, <2>2, <2>3
<1>6. connectedUsers' \in [Object -> SUBSET User]
  <2>0. connectedUsers \in [Object -> SUBSET User]
    BY DEF ServerTypeOK
  <2>1. CASE step.do = "add"
    <3>1. PICK o : connectedUsers' =
                      [connectedUsers EXCEPT ![o] = @ \cup {step.user}]
      BY <2>1 DEF Handle
    <3> QED  BY <1>3, <2>0, <2>1, <3>1
  <2>2. CASE step.do = "remove"
    <3>1. PICK o : connectedUsers' =
                      [connectedUsers EXCEPT ![o] = @ \ {step.user}]
      BY <2>2 DEF Handle
    <3> QED  BY <1>3, <2>0, <2>2, <3>1
  <2>3. CASE step.do \notin {"add", "remove"}
    BY <2>0, <2>3 DEF Handle
  <2> QED  BY <2>1, <2>2, <2>3
<1>7. BusTypeOK' /\ Len(channels') = Len(channels)
  <2>1. CASE UNCHANGED bus
    BY <1>0, <2>1, BusSame
  <2>2. CASE step.do = "publish"
    <3>1. Publish(step.event)
      BY <2>2 DEF Handle
    <3> QED  BY <1>0, <1>3, <2>2, <3>1, PublishKeepsBus
  <2>3. CASE step.do = "send" /\ ~UNCHANGED bus
    <3>1. Publish([type |-> "MESSAGE_SENT", id |-> step.id, user |-> NoUser])
      BY <2>3 DEF Handle
    <3>2. [type |-> "MESSAGE_SENT", id |-> step.id, user |-> NoUser] \in Event
      BY <1>3, <2>3 DEF Event, EventType
    <3> QED  BY <1>0, <3>1, <3>2, PublishKeepsBus
  <2> QED  BY <2>1, <2>2, <2>3 DEF Handle
<1>8. UNCHANGED <<process, Nodes, goroutine, told, topic, iterating, session,
                  sockets, shownNodes, shownUsers, raced>>
  BY DEF Handle
<1>9. RegistryTypeOK'
  BY <1>5, <1>7, <1>8, RegistryFrame DEF RegistryTypeOK
<1> QED  BY <1>4, <1>6, <1>7, <1>8, <1>9 DEF ServerTypeOK

LEMMA ServerNextType ==
    ASSUME RegistryTypeOK, ServerTypeOK, ServerNext
    PROVE  RegistryTypeOK' /\ ServerTypeOK'
BY ReceiveType, ConnectSocketType, WriteEventType, HandleType DEF ServerNext

----------------------------------------------------------------------------
(* Type correctness                                                        *)

LEMMA InitType ==
    ASSUME Init
    PROVE  TypeOK
<1>1. /\ <<>> \in Seq(Seq(Event)) /\ <<>> \in Seq([EventType -> Nat])
      /\ NoneLost \in [EventType -> Nat]
  BY DEF NoneLost
<1>2. /\ <<<<>>>> \in Seq(Seq(Event)) /\ Len(<<<<>>>>) = 1
      /\ <<NoneLost>> \in Seq([EventType -> Nat]) /\ Len(<<NoneLost>>) = 1
  BY <1>1
<1>3. BusTypeOK
  <2>1. CASE channels = <<>> /\ lost = <<>>
    BY <1>1, <2>1 DEF BusTypeOK
  <2>2. CASE channels = <<<<>>>> /\ lost = <<NoneLost>>
    <3>1. ASSUME NEW i \in DOMAIN channels PROVE Len(channels[i]) <= BusCap
      BY <2>2, RegistryAssumption DEF RegistryAssumption
    <3> QED  BY <1>2, <2>2, <3>1 DEF BusTypeOK
  <2> QED  BY <2>1, <2>2 DEF Init
<1>4. RegistryTypeOK
  BY <1>3 DEF Init, NoNodes, RegistryTypeOK
<1>5. scenario \in Scenario /\ run \in {"off", "start"}
  BY RunnerAssumption DEF Init, RunnerAssumption
<1>6. Len(Fleet) \in Nat /\ scenario.failures \in Nat /\ scenario.ticks \in Nat
  BY <1>5, RunnerAssumption DEF RunnerAssumption
<1>7. RunnerTypeOK
  <2>1. RunnerInit
    BY DEF Init
  <2>2. {owed, published, counters} \subseteq [EventType -> Nat]
    BY <1>1, <2>1 DEF RunnerInit
  <2>3. joined \in 0 .. Len(Fleet) /\ ticks \in 0 .. scenario.ticks
        /\ failures \in Nat /\ starters \in Nat
    BY <1>6, <2>1 DEF RunnerInit
  <2> QED  BY <1>5, <2>1, <2>2, <2>3 DEF RunnerInit, RunnerTypeOK
<1>8. ServerTypeOK
  <2>1. session \in Seq(HTTPCall \cup BrokerMessage)
    <3>1. Session \subseteq Seq(HTTPCall \cup BrokerMessage)
      BY ServerAssumption DEF ServerAssumption
    <3>2. <<>> \in Seq(HTTPCall \cup BrokerMessage)
      OBVIOUS
    <3>3. session = <<>> \/ session \in Session
      BY DEF Init
    <3> QED  BY <3>1, <3>2, <3>3
  <2>2. sockets \in Seq(BOOLEAN) /\ Len(sockets) <= Len(channels)
    <3>1. CASE sockets = <<>> /\ channels = <<>>
      BY <3>1
    <3>2. CASE sockets = <<TRUE>> /\ channels = <<<<>>>>
      BY <3>2
    <3> QED  BY <3>1, <3>2 DEF Init
  <2>3. handlers \in Seq(Handler) /\ Len(handlers) <= MaxHandlers
    BY ServerAssumption DEF Init, ServerAssumption
  <2> QED  BY <2>1, <2>2, <2>3 DEF Init, ServerTypeOK
<1> QED  BY <1>4, <1>7, <1>8 DEF TypeOK

LEMMA StepType ==
    ASSUME TypeOK, [Next]_vars
    PROVE  TypeOK'
<1>. RegistryTypeOK /\ RunnerTypeOK /\ ServerTypeOK
  BY DEF TypeOK
<1>0. BusTypeOK
  BY DEF RegistryTypeOK
<1>1. CASE Shared(NetworkGoroutine)
  <2>1. RegistryTypeOK' /\ Len(channels') >= Len(channels)
    BY <1>1, AddNodeType, RemoveNodeType DEF Shared, NetworkGoroutine
  <2>2. RunnerTypeOK'
    BY <1>1, RunnerSame DEF Shared
  <2>3. ServerTypeOK'
    BY <1>0, <1>1, <2>1, ServerSame DEF Shared, RegistryTypeOK
  <2> QED  BY <2>1, <2>2, <2>3 DEF TypeOK
<1>2. ASSUME NEW o \in Object, Shared(NodeGoroutine(o)) PROVE TypeOK'
  <2>1. RegistryTypeOK' /\ Len(channels') >= Len(channels)
    BY <1>2, NodeGoroutineType DEF Shared
  <2>2. RunnerTypeOK'
    BY <1>2, RunnerSame DEF Shared
  <2>3. ServerTypeOK'
    BY <1>0, <1>2, <2>1, ServerSame DEF Shared, RegistryTypeOK
  <2> QED  BY <2>1, <2>2, <2>3 DEF TypeOK
<1>3. CASE Batch(RunnerNext)
  <2>1. RegistryTypeOK' /\ RunnerTypeOK' /\ Len(channels') >= Len(channels)
    BY <1>3, RunnerNextType DEF Batch
  <2>2. ServerTypeOK'
    BY <1>0, <1>3, <2>1, ServerSame DEF Batch, RegistryTypeOK
  <2> QED  BY <2>1, <2>2 DEF TypeOK
<1>4. CASE Server(ServerNext)
  <2>1. RegistryTypeOK' /\ ServerTypeOK'
    BY <1>4, ServerNextType DEF Server
  <2>2. RunnerTypeOK'
    BY <1>4, RunnerSame DEF Server
  <2> QED  BY <2>1, <2>2 DEF TypeOK
<1>5. CASE UNCHANGED vars
  <2>1. UNCHANGED runner /\ UNCHANGED server
        /\ UNCHANGED <<process, registry, iterating, bus>>
    BY <1>5 DEF vars
  <2>2. RegistryTypeOK' /\ Len(channels') >= Len(channels)
    BY <2>1, RegistrySame DEF RegistryTypeOK
  <2>3. RunnerTypeOK' /\ ServerTypeOK'
    BY <1>0, <2>1, <2>2, RunnerSame, ServerSame DEF RegistryTypeOK
  <2> QED  BY <2>2, <2>3 DEF TypeOK
<1> QED  BY <1>1, <1>2, <1>3, <1>4, <1>5 DEF Next

\* The capacities, the kinds of requests and steps, and the states of every
\* goroutine of the two programs: the types hold for every fleet, scenario and
\* session.
THEOREM ProgramsTypeCorrect == Spec => []TypeOK
BY InitType, StepType, PTL DEF Spec

----------------------------------------------------------------------------
(* The invariant                                                           *)

\* A node in the map is under its own identifier, was started and is not told
\* to stop; and nothing is told that was not started.
MapInv ==
    /\ \A id \in NodeID : Nodes[id] # NoObject =>
          /\ IDOf[Nodes[id]] = id
          /\ Nodes[id] \notin told
          /\ goroutine[Nodes[id]] # "none"
    /\ \A o \in told : goroutine[o] # "none"

Joining(o) == serving.op = "join" /\ serving.node = o

New(o) == goroutine[o] = "none" /\ ~Joining(o)

\* What is about to join has not joined before, and joins no second time: in the
\* batch program,
FleetInv ==
    /\ serving.op = "join" => goroutine[serving.node] = "none"
    /\ run # "off" =>
          /\ session = <<>> /\ handlers = <<>>
          /\ \A i \in DOMAIN Fleet : i > joined => New(Fleet[i])

Creates(q) == q.op \in {"createNode", "register"}

FirstJoins(h) == h.todo[1].do = "join"

\* in the server, in the requests to come,
SessionInv ==
    /\ \A i \in DOMAIN session : Creates(session[i]) => New(session[i].node)
    /\ \A i, j \in DOMAIN session :
          Creates(session[i]) /\ Creates(session[j])
            /\ session[i].node = session[j].node => i = j

\* and in those being handled.
HandlersInv ==
    /\ \A i \in DOMAIN handlers : \A k \in DOMAIN handlers[i].todo :
          handlers[i].todo[k].do = "join" => k = 1
    /\ \A i \in DOMAIN handlers : FirstJoins(handlers[i]) =>
          /\ New(handlers[i].todo[1].node)
          /\ \A j \in DOMAIN session : Creates(session[j]) =>
                session[j].node # handlers[i].todo[1].node
    /\ \A i, j \in DOMAIN handlers :
          FirstJoins(handlers[i]) /\ FirstJoins(handlers[j])
            /\ handlers[i].todo[1].node = handlers[j].todo[1].node => i = j

\* The generator closes r.quit at its end, and a signal does.
QuitInv ==
    /\ quit => signalled \/ generator = "ended"
    /\ generator = "ended" => quit
    /\ run = "start" => generator = "off"
    /\ PanicsOnlyWhenSignalled

\* Whatever has joined is in the map or told to stop; from the teardown on, it is
\* told, being told, or yet to be asked for.
TeardownInv ==
    /\ run = "start" => joined = 0
    /\ run # "off" /\ serving.op = "join" =>
          joined \in DOMAIN Fleet /\ serving.node = Fleet[joined]
    /\ run # "off" => \A i \in 1 .. joined :
          Joining(Fleet[i]) \/ Nodes[IDOf[Fleet[i]]] = Fleet[i] \/ Fleet[i] \in told
    /\ run \in {"teardown", "returned"} => \A i \in 1 .. joined - 1 :
          \/ Fleet[i] \in told
          \/ IDOf[Fleet[i]] \in leaving
          \/ serving = [op |-> "leave", id |-> IDOf[Fleet[i]]]
    /\ run = "returned" /\ joined > 0 => leaving = {}

ProgramsInv ==
    TypeOK /\ MapInv /\ FleetInv /\ SessionInv /\ HandlersInv /\ QuitInv
        /\ TeardownInv /\ NoOrphans

----------------------------------------------------------------------------
(* What is new stays new                                                   *)

LEMMA ServedObject ==
    ASSUME RegistryTypeOK, serving.op = "join"
    PROVE  serving.node \in Object /\ IDOf[serving.node] \in NodeID
<1>1. serving \in Request
  BY DEF RegistryTypeOK, Nothing
<1>2. serving \in [op : {"join"}, node : Object]
  BY <1>1 DEF Request
<1>3. serving.node \in Object
  BY <1>2
<1> QED  BY <1>3, RegistryAssumption DEF RegistryAssumption

LEMMA ServedIdentifier ==
    ASSUME RegistryTypeOK, serving.op = "leave"
    PROVE  serving.id \in NodeID /\ serving = [op |-> "leave", id |-> serving.id]
<1>1. serving \in Request
  BY DEF RegistryTypeOK, Nothing
<1>2. serving \in [op : {"leave"}, id : NodeID]
  BY <1>1 DEF Request
<1> QED  BY <1>2

LEMMA CreatedObject ==
    ASSUME ServerTypeOK, NEW i \in DOMAIN session, Creates(session[i])
    PROVE  session[i].node \in Object
<1>1. session[i] \in Call
  BY DEF ServerTypeOK, Call
<1> QED  BY <1>1, CallFields DEF Creates

LEMMA JoinObject ==
    ASSUME NEW step \in Step, step.do = "join"
    PROVE  step.node \in Object
<1>1. step \in [do : {"join"}, node : Object]
  BY DEF Step
<1> QED  BY <1>1

LEMMA HandlerFields ==
    ASSUME ServerTypeOK, NEW i \in DOMAIN handlers
    PROVE  /\ handlers[i] \in Handler
           /\ handlers[i].request \in Call
           /\ handlers[i].todo \in Seq(Step) /\ handlers[i].todo # <<>>
           /\ handlers[i].found \in Seq(Object)
           /\ 1 \in DOMAIN handlers[i].todo
           /\ FirstJoins(handlers[i]) => handlers[i].todo[1].node \in Object
<1>1. handlers[i] \in Handler
  BY DEF ServerTypeOK
<1> DEFINE h == handlers[i]
<1> HIDE DEF h
<1>2. h.request \in Call /\ h.todo \in Seq(Step) \ {<<>>} /\ h.found \in Seq(Object)
  BY <1>1 DEF h, Handler, Call
<1>3. 1 \in DOMAIN h.todo /\ h.todo[1] \in Step
  BY <1>2
<1>4. FirstJoins(h) => h.todo[1].node \in Object
  BY <1>3, JoinObject DEF FirstJoins
<1> QED  BY <1>1, <1>2, <1>3, <1>4 DEF h

LEMMA NewFrame ==
    ASSUME ServerTypeOK, FleetInv, SessionInv, HandlersInv,
           UNCHANGED <<session, handlers, run, joined>>,
           \A o \in Object : New(o) => New(o)',
           serving'.op = "join" => goroutine'[serving'.node] = "none"
    PROVE  FleetInv' /\ SessionInv' /\ HandlersInv'
<1>1. FleetInv'
  BY FleetObjects DEF FleetInv
<1>2. SessionInv'
  BY CreatedObject DEF SessionInv
<1>3. HandlersInv'
  <2>1. \A i \in DOMAIN handlers : FirstJoins(handlers[i]) =>
            New(handlers[i].todo[1].node)'
    BY HandlerFields DEF HandlersInv
  <2> QED  BY <2>1 DEF HandlersInv, FirstJoins
<1> QED  BY <1>1, <1>2, <1>3

----------------------------------------------------------------------------
(* The network goroutine                                                   *)

LEMMA AddNodeInv ==
    ASSUME ProgramsInv, Shared(addNode)
    PROVE  /\ MapInv' /\ FleetInv' /\ SessionInv' /\ HandlersInv' /\ QuitInv'
           /\ TeardownInv' /\ NoOrphans'
<1>0. /\ RegistryTypeOK /\ RunnerTypeOK /\ ServerTypeOK /\ MapInv /\ FleetInv
      /\ SessionInv /\ HandlersInv /\ QuitInv /\ TeardownInv /\ NoOrphans
      /\ addNode /\ UNCHANGED <<runner, server>>
  BY DEF ProgramsInv, TypeOK, Shared
<1> DEFINE n == serving.node
<1>1. serving.op = "join" /\ n \in Object /\ IDOf[n] \in NodeID /\ goroutine[n] = "none"
  BY <1>0, ServedObject DEF addNode, FleetInv
<1>2. /\ goroutine' = [goroutine EXCEPT ![n] = "started"]
      /\ Nodes' = [Nodes EXCEPT ![IDOf[n]] = n]
      /\ serving' = Nothing /\ told' = told
      /\ process' \in {"running", "fatal"}
  BY <1>0 DEF addNode, MapWritten
<1>3. /\ goroutine \in [Object -> {"none", "started", "running", "stopped"}]
      /\ Nodes \in [NodeID -> Object \cup {NoObject}]
      /\ told \subseteq Object /\ NoObject \notin Object
  BY <1>0, RegistryAssumption DEF RegistryTypeOK, RegistryAssumption
<1>4. serving'.op # "join" /\ serving'.op # "leave"
  BY <1>2 DEF Nothing
<1>5. UNCHANGED <<scenario, run, joined, generator, quit, signalled, leaving,
                  session, handlers>>
  BY <1>0 DEF runner, server
<1>6. MapInv'
  <2>1. n \notin told
    BY <1>0, <1>1 DEF MapInv
  <2>2. \A o \in Object : goroutine[o] # "none" => goroutine'[o] # "none"
    BY <1>1, <1>2, <1>3
  <2>3. goroutine'[n] # "none"
    BY <1>1, <1>2, <1>3
  <2>4. ASSUME NEW id \in NodeID, Nodes'[id] # NoObject
        PROVE  /\ IDOf[Nodes'[id]] = id
               /\ Nodes'[id] \notin told'
               /\ goroutine'[Nodes'[id]] # "none"
    <3>1. CASE id = IDOf[n]
      <4>1. Nodes'[id] = n
        BY <1>1, <1>2, <1>3, <3>1
      <4> QED  BY <1>2, <2>1, <2>3, <3>1, <4>1
    <3>2. CASE id # IDOf[n]
      <4>1. Nodes'[id] = Nodes[id] /\ Nodes[id] \in Object
        BY <1>2, <1>3, <2>4, <3>2
      <4> QED  BY <1>0, <1>2, <2>2, <2>4, <4>1 DEF MapInv
    <3> QED  BY <3>1, <3>2
  <2>5. \A o \in told' : goroutine'[o] # "none"
    BY <1>0, <1>2, <1>3, <2>2 DEF MapInv
  <2> QED  BY <2>4, <2>5 DEF MapInv
<1>7. FleetInv' /\ SessionInv' /\ HandlersInv'
  <2>1. \A o \in Object : New(o) => New(o)'
    BY <1>1, <1>2, <1>3, <1>4 DEF New, Joining
  <2> QED  BY <1>0, <1>4, <1>5, <2>1, NewFrame
<1>8. QuitInv'
  BY <1>0, <1>2, <1>5 DEF QuitInv, PanicsOnlyWhenSignalled
<1>9. TeardownInv'
  <2>1. ASSUME run # "off", NEW i \in 1 .. joined
        PROVE  Nodes'[IDOf[Fleet[i]]] = Fleet[i] \/ Fleet[i] \in told'
    <3>0. joined \in DOMAIN Fleet /\ n = Fleet[joined]
      BY <1>0, <1>1, <2>1 DEF TeardownInv
    <3>1. i \in DOMAIN Fleet
      BY <3>0, RunnerAssumption DEF RunnerAssumption
    <3>2. CASE i = joined
      BY <1>1, <1>2, <1>3, <3>0, <3>2
    <3>3. CASE i # joined
      <4>1. IDOf[Fleet[i]] # IDOf[n] /\ IDOf[Fleet[i]] \in NodeID
        BY <3>0, <3>1, <3>3, FleetObjects, RunnerAssumption DEF RunnerAssumption
      <4>2. ~Joining(Fleet[i])
        BY <4>1 DEF Joining
      <4>3. Nodes[IDOf[Fleet[i]]] = Fleet[i] \/ Fleet[i] \in told
        BY <1>0, <2>1, <4>2 DEF TeardownInv
      <4> QED  BY <1>2, <1>3, <4>1, <4>3
    <3> QED  BY <3>2, <3>3
  <2>2. ASSUME run \in {"teardown", "returned"}, NEW i \in 1 .. joined - 1
        PROVE  Fleet[i] \in told \/ IDOf[Fleet[i]] \in leaving
    <3>1. serving # [op |-> "leave", id |-> IDOf[Fleet[i]]]
      BY <1>1
    <3> QED  BY <1>0, <2>2, <3>1 DEF TeardownInv
  <2> QED  BY <1>0, <1>2, <1>4, <1>5, <2>1, <2>2 DEF TeardownInv
<1>10. NoOrphans'
  <2> SUFFICES ASSUME NEW o \in Object, goroutine'[o] \in {"started", "running"}
               PROVE  \/ Nodes'[IDOf[o]] = o
                      \/ o \in told'
                      \/ \E other \in Object \ {o} :
                            IDOf[other] = IDOf[o] /\ goroutine'[other] # "none"
    BY DEF NoOrphans
  <2>0. IDOf[o] \in NodeID
    BY RegistryAssumption DEF RegistryAssumption
  <2>1. CASE o = n
    BY <1>1, <1>2, <1>3, <2>1
  <2>2. CASE o # n /\ IDOf[o] = IDOf[n]
    <3>1. goroutine'[n] # "none"
      BY <1>1, <1>2, <1>3
    <3> QED  BY <1>1, <2>2, <3>1
  <2>3. CASE o # n /\ IDOf[o] # IDOf[n]
    <3>1. goroutine'[o] = goroutine[o] /\ Nodes'[IDOf[o]] = Nodes[IDOf[o]]
      BY <1>2, <1>3, <2>0, <2>3
    <3>2. \A other \in Object : goroutine[other] # "none" => goroutine'[other] # "none"
      BY <1>2, <1>3
    <3> QED  BY <1>0, <1>2, <3>1, <3>2 DEF NoOrphans
  <2> QED  BY <2>1, <2>2, <2>3
<1> QED  BY <1>6, <1>7, <1>8, <1>9, <1>10

LEMMA RemoveNodeInv ==
    ASSUME ProgramsInv, Shared(removeNode)
    PROVE  /\ MapInv' /\ FleetInv' /\ SessionInv' /\ HandlersInv' /\ QuitInv'
           /\ TeardownInv' /\ NoOrphans'
<1>0. /\ RegistryTypeOK /\ RunnerTypeOK /\ ServerTypeOK /\ MapInv /\ FleetInv
      /\ SessionInv /\ HandlersInv /\ QuitInv /\ TeardownInv /\ NoOrphans
      /\ removeNode /\ UNCHANGED <<runner, server>>
  BY DEF ProgramsInv, TypeOK, Shared
<1> DEFINE id == serving.id
           node == Nodes[id]
<1>1. serving.op = "leave" /\ id \in NodeID /\ serving = [op |-> "leave", id |-> id]
  BY <1>0, ServedIdentifier DEF removeNode
<1>2. serving' = Nothing /\ goroutine' = goroutine
      /\ serving'.op # "join" /\ serving'.op # "leave"
  BY <1>0 DEF removeNode, Nothing
<1>3. /\ goroutine \in [Object -> {"none", "started", "running", "stopped"}]
      /\ Nodes \in [NodeID -> Object \cup {NoObject}]
      /\ told \subseteq Object /\ NoObject \notin Object
  BY <1>0, RegistryAssumption DEF RegistryTypeOK, RegistryAssumption
<1>4. UNCHANGED <<scenario, run, joined, generator, quit, signalled, leaving,
                  session, handlers>>
  BY <1>0 DEF runner, server
<1>5. \/ node = NoObject /\ UNCHANGED <<process, Nodes, told>>
      \/ /\ node # NoObject /\ told' = told \cup {node}
         /\ Nodes' = [Nodes EXCEPT ![id] = NoObject]
         /\ process' \in {"running", "fatal"}
  <2>1. node # NoObject => node \notin told
    BY <1>0, <1>1 DEF MapInv
  <2> QED  BY <1>0, <2>1 DEF removeNode, MapWritten
<1>6. MapInv'
  <2>1. CASE node = NoObject
    BY <1>0, <1>2, <1>5, <2>1 DEF MapInv
  <2>2. CASE node # NoObject
    <3>1. \A other \in NodeID : Nodes'[other] # NoObject =>
              other # id /\ Nodes'[other] = Nodes[other]
      BY <1>1, <1>3, <1>5, <2>2
    <3>2. \A other \in NodeID : Nodes[other] = node => other = id
      BY <1>0, <1>1, <2>2 DEF MapInv
    <3>3. goroutine[node] # "none"
      BY <1>0, <1>1, <2>2 DEF MapInv
    <3> QED  BY <1>0, <1>2, <1>5, <2>2, <3>1, <3>2, <3>3 DEF MapInv
  <2> QED  BY <2>1, <2>2
<1>7. FleetInv' /\ SessionInv' /\ HandlersInv'
  <2>1. \A o \in Object : New(o) => New(o)'
    BY <1>2 DEF New, Joining
  <2> QED  BY <1>0, <1>2, <1>4, <2>1, NewFrame
<1>8. QuitInv'
  BY <1>0, <1>4, <1>5 DEF QuitInv, PanicsOnlyWhenSignalled
<1>9. ASSUME NEW o \in Object, Nodes[IDOf[o]] = o \/ o \in told
      PROVE  (Nodes'[IDOf[o]] = o /\ IDOf[o] # id) \/ o \in told'
  <2>0. IDOf[o] \in NodeID
    BY RegistryAssumption DEF RegistryAssumption
  <2>1. CASE node = NoObject
    BY <1>3, <1>5, <1>9, <2>1
  <2>2. CASE node # NoObject /\ IDOf[o] = id
    BY <1>5, <1>9, <2>2
  <2>3. CASE node # NoObject /\ IDOf[o] # id
    BY <1>3, <1>5, <1>9, <2>0, <2>3
  <2> QED  BY <2>1, <2>2, <2>3
<1>10. TeardownInv'
  <2>1. ASSUME run # "off", NEW i \in 1 .. joined
        PROVE  (Nodes'[IDOf[Fleet[i]]] = Fleet[i] /\ IDOf[Fleet[i]] # id)
                   \/ Fleet[i] \in told'
    <3>1. i \in DOMAIN Fleet /\ Fleet[i] \in Object
      BY <1>0, FleetObjects, RunnerAssumption DEF RunnerAssumption, RunnerTypeOK
    <3>2. ~Joining(Fleet[i])
      BY <1>1 DEF Joining
    <3>3. Nodes[IDOf[Fleet[i]]] = Fleet[i] \/ Fleet[i] \in told
      BY <1>0, <2>1, <3>2 DEF TeardownInv
    <3> QED  BY <1>9, <3>1, <3>3
  <2>2. ASSUME run \in {"teardown", "returned"}, NEW i \in 1 .. joined - 1
        PROVE  Fleet[i] \in told' \/ IDOf[Fleet[i]] \in leaving
    <3>0. i \in 1 .. joined /\ run # "off"
      BY <1>0, <2>2 DEF RunnerTypeOK
    <3>1. CASE IDOf[Fleet[i]] = id
      BY <2>1, <3>0, <3>1
    <3>2. CASE IDOf[Fleet[i]] # id
      <4>1. Fleet[i] \in told \/ IDOf[Fleet[i]] \in leaving
        BY <1>0, <1>1, <2>2, <3>2 DEF TeardownInv
      <4> QED  BY <1>5, <4>1
    <3> QED  BY <3>1, <3>2
  <2> QED  BY <1>0, <1>2, <1>4, <2>1, <2>2 DEF TeardownInv
<1>11. NoOrphans'
  BY <1>0, <1>2, <1>9 DEF NoOrphans
<1> QED  BY <1>6, <1>7, <1>8, <1>10, <1>11

LEMMA NodeGoroutineInv ==
    ASSUME ProgramsInv, NEW o \in Object, Shared(NodeGoroutine(o))
    PROVE  /\ MapInv' /\ FleetInv' /\ SessionInv' /\ HandlersInv' /\ QuitInv'
           /\ TeardownInv' /\ NoOrphans'
<1>0. /\ RegistryTypeOK /\ RunnerTypeOK /\ ServerTypeOK /\ MapInv /\ FleetInv
      /\ SessionInv /\ HandlersInv /\ QuitInv /\ TeardownInv /\ NoOrphans
      /\ NodeGoroutine(o) /\ UNCHANGED <<runner, server>>
  BY DEF ProgramsInv, TypeOK, Shared
<1>1. /\ UNCHANGED <<process, serving, Nodes, told>>
      /\ goroutine[o] \in {"started", "running"}
      /\ \/ goroutine' = [goroutine EXCEPT ![o] = "running"]
         \/ goroutine' = [goroutine EXCEPT ![o] = "stopped"]
  BY <1>0 DEF NodeGoroutine, RunNode, StopNode
<1>2. goroutine \in [Object -> {"none", "started", "running", "stopped"}]
      /\ NoObject \notin Object /\ told \subseteq Object
      /\ Nodes \in [NodeID -> Object \cup {NoObject}]
  BY <1>0, RegistryAssumption DEF RegistryTypeOK, RegistryAssumption
<1>3. UNCHANGED <<scenario, run, joined, generator, quit, signalled, leaving,
                  session, handlers>>
  BY <1>0 DEF runner, server
<1>4. \A x \in Object :
          /\ goroutine'[x] = "none" <=> goroutine[x] = "none"
          /\ goroutine'[x] \in {"started", "running"} =>
                goroutine[x] \in {"started", "running"}
  BY <1>1, <1>2
<1>5. MapInv'
  BY <1>0, <1>1, <1>2, <1>4 DEF MapInv
<1>6. FleetInv' /\ SessionInv' /\ HandlersInv'
  <2>1. \A x \in Object : New(x) => New(x)'
    BY <1>1, <1>4 DEF New, Joining
  <2>2. serving'.op = "join" => goroutine'[serving'.node] = "none"
    BY <1>0, <1>1, <1>4, ServedObject DEF FleetInv
  <2> QED  BY <1>0, <1>3, <2>1, <2>2, NewFrame
<1>7. QuitInv'
  BY <1>0, <1>1, <1>3 DEF QuitInv, PanicsOnlyWhenSignalled
<1>8. TeardownInv'
  BY <1>0, <1>1, <1>3 DEF TeardownInv, Joining
<1>9. NoOrphans'
  BY <1>0, <1>1, <1>4 DEF NoOrphans
<1> QED  BY <1>5, <1>6, <1>7, <1>8, <1>9

----------------------------------------------------------------------------
(* The batch program                                                       *)

LEMMA RunnerFrame ==
    ASSUME RunnerNext
    PROVE  /\ UNCHANGED <<Nodes, goroutine, told>>
           /\ \/ Run \/ RemoveVictim
              \/ UNCHANGED <<serving, run, joined, leaving>>
<1>1. ASSUME NEW type \in {"MESSAGE_SENT", "MESSAGE_DELIVERED"}, RouterPublishes(type)
      PROVE  UNCHANGED <<Nodes, goroutine, told, serving, run, joined, leaving>>
  BY <1>1 DEF RouterPublishes, registry
<1>2. CASE triggerStart \/ startTrafficGenerator
  BY <1>2 DEF triggerStart, startTrafficGenerator, BeginTraffic, LoopTraffic,
              SelectTraffic, emitRandomTraffic, registry
<1>3. CASE consumeEvents \/ Stop
  BY <1>3 DEF consumeEvents, Stop, registry
<1>4. CASE Flush
  BY <1>4 DEF Flush, registry, runner
<1>5. CASE PickVictim
  BY <1>5 DEF PickVictim, registry
<1>6. CASE RemoveVictim
  BY <1>6 DEF RemoveVictim
<1>7. CASE Run
  BY <1>7 DEF Run, StartRun, JoinNext, startFailureSimulator, AfterQuit, LeaveAll,
              ReturnRun, registry
<1> QED
  BY <1>1, <1>2, <1>3, <1>4, <1>5, <1>6, <1>7 DEF RunnerNext, FailureSimulator

LEMMA RunnerQuitInv ==
    ASSUME RunnerTypeOK, QuitInv, RunnerNext
    PROVE  QuitInv'
<1>1. ASSUME NEW type \in {"MESSAGE_SENT", "MESSAGE_DELIVERED"}, RouterPublishes(type)
      PROVE  UNCHANGED <<process, quit, signalled, generator, run>>
  BY <1>1 DEF RouterPublishes
<1>2. CASE UNCHANGED <<process, quit, signalled, generator>>
            /\ (run' = "start" => run = "start")
  BY <1>2 DEF QuitInv, PanicsOnlyWhenSignalled
<1>3. CASE StartRun
  BY <1>3 DEF StartRun, QuitInv, PanicsOnlyWhenSignalled
<1>4. CASE LoopTraffic
  BY <1>4 DEF LoopTraffic, CloseQuit, QuitInv, PanicsOnlyWhenSignalled
<1>5. CASE Stop
  BY <1>5 DEF Stop, CloseQuit, QuitInv, PanicsOnlyWhenSignalled
<1>6. CASE Flush
  BY <1>6 DEF Flush, runner, QuitInv, PanicsOnlyWhenSignalled
<1>7. CASE BeginTraffic \/ SelectTraffic \/ emitRandomTraffic
  BY <1>7 DEF BeginTraffic, SelectTraffic, emitRandomTraffic, QuitInv,
              PanicsOnlyWhenSignalled
<1>8. JoinNext \/ startFailureSimulator \/ AfterQuit \/ LeaveAll \/ ReturnRun
        \/ triggerStart \/ consumeEvents \/ PickVictim \/ RemoveVictim
      => UNCHANGED <<process, quit, signalled, generator>>
            /\ (run' = "start" => run = "start")
  BY DEF JoinNext, startFailureSimulator, AfterQuit, LeaveAll, ReturnRun,
         triggerStart, consumeEvents, PickVictim, RemoveVictim
<1> QED
  BY <1>1, <1>2, <1>3, <1>4, <1>5, <1>6, <1>7, <1>8
     DEF RunnerNext, Run, startTrafficGenerator, FailureSimulator

LEMMA RunnerFleetInv ==
    ASSUME ProgramsInv, Batch(RunnerNext)
    PROVE  FleetInv'
<1>0. /\ RunnerTypeOK /\ FleetInv /\ run # "off" /\ RunnerNext
      /\ UNCHANGED <<session, handlers, goroutine>>
      /\ session = <<>> /\ handlers = <<>>
  BY RunnerFrame DEF ProgramsInv, TypeOK, Batch, server, FleetInv
<1>1. CASE UNCHANGED <<serving, joined>>
  BY <1>0, <1>1 DEF FleetInv, New, Joining
<1>2. CASE JoinNext
  <2>1. joined + 1 \in DOMAIN Fleet /\ joined \in Nat /\ joined' = joined + 1
    BY <1>0, <1>2, RunnerAssumption DEF RunnerTypeOK, JoinNext, RunnerAssumption
  <2>2. serving' = [op |-> "join", node |-> Fleet[joined + 1]]
    BY <1>2 DEF JoinNext, Ask
  <2>3. New(Fleet[joined + 1])
    BY <1>0, <2>1 DEF FleetInv
  <2>4. ASSUME NEW i \in DOMAIN Fleet, i > joined'
        PROVE  New(Fleet[i])'
    <3>1. i \in Nat /\ i > joined /\ i # joined + 1
      BY <2>1, <2>4, RunnerAssumption DEF RunnerAssumption
    <3>2. Fleet[i] # Fleet[joined + 1]
      BY <2>1, <3>1, RunnerAssumption DEF RunnerAssumption
    <3>3. New(Fleet[i])
      BY <1>0, <3>1 DEF FleetInv
    <3> QED  BY <1>0, <2>2, <3>2, <3>3 DEF New, Joining
  <2>5. goroutine'[serving'.node] = "none"
    BY <1>0, <2>2, <2>3 DEF New
  <2> QED  BY <1>0, <2>4, <2>5 DEF FleetInv
<1>3. CASE serving'.op = "leave" /\ UNCHANGED joined
  BY <1>0, <1>3 DEF FleetInv, New, Joining
<1>4. LeaveAll \/ RemoveVictim => serving'.op = "leave" /\ UNCHANGED joined
  BY DEF LeaveAll, RemoveVictim, Ask
<1>5. StartRun \/ startFailureSimulator \/ AfterQuit \/ ReturnRun
      => UNCHANGED <<serving, joined>>
  BY DEF StartRun, startFailureSimulator, AfterQuit, ReturnRun, registry
<1> QED  BY <1>0, <1>1, <1>2, <1>3, <1>4, <1>5, RunnerFrame DEF Run

LEMMA RunnerTeardownInv ==
    ASSUME ProgramsInv, Batch(RunnerNext)
    PROVE  TeardownInv'
<1>0. /\ RegistryTypeOK /\ RunnerTypeOK /\ TeardownInv /\ run # "off" /\ RunnerNext
      /\ UNCHANGED <<Nodes, goroutine, told>> /\ NoObject \notin Object
  BY RunnerFrame, RegistryAssumption
     DEF ProgramsInv, TypeOK, Batch, RegistryAssumption
<1>1. joined \in Nat /\ Len(Fleet) \in Nat /\ DOMAIN Fleet = 1 .. Len(Fleet)
      /\ joined <= Len(Fleet)
  BY <1>0, RunnerAssumption DEF RunnerTypeOK, RunnerAssumption
<1>2. CASE UNCHANGED <<serving, run, joined, leaving>>
  BY <1>0, <1>2 DEF TeardownInv, Joining
<1>3. CASE StartRun
  <2>1. joined = 0 /\ run = "start"
    BY <1>0, <1>3 DEF TeardownInv, StartRun
  <2>2. UNCHANGED <<serving, joined>> /\ run' \in {"returned", "joining"}
    BY <1>3 DEF StartRun, registry
  <2> QED  BY <1>0, <2>1, <2>2 DEF TeardownInv, Joining
<1>4. CASE JoinNext
  <2>1. /\ joined' = joined + 1 /\ joined + 1 \in DOMAIN Fleet
        /\ serving = Nothing
        /\ serving' = [op |-> "join", node |-> Fleet[joined + 1]]
        /\ run = "joining" /\ run' = run
    BY <1>1, <1>4 DEF JoinNext, Ask
  <2>2. serving.op # "join"
    BY <2>1 DEF Nothing
  <2>3. ASSUME NEW i \in 1 .. joined'
        PROVE  \/ Joining(Fleet[i])'
               \/ Nodes'[IDOf[Fleet[i]]] = Fleet[i] \/ Fleet[i] \in told'
    <3>1. CASE i = joined + 1
      BY <2>1, <3>1 DEF Joining
    <3>2. CASE i # joined + 1
      <4>1. i \in 1 .. joined
        BY <1>1, <2>1, <3>2
      <4> QED  BY <1>0, <2>2, <4>1 DEF TeardownInv, Joining
    <3> QED  BY <3>1, <3>2
  <2> QED  BY <2>1, <2>3 DEF TeardownInv
<1>5. CASE startFailureSimulator
  <2>1. run' = "waiting" /\ UNCHANGED <<serving, joined>>
    BY <1>5 DEF startFailureSimulator, registry
  <2> QED  BY <1>0, <2>1 DEF TeardownInv, Joining
<1>6. CASE AfterQuit
  <2>1. UNCHANGED <<serving, joined>>
    BY <1>6 DEF AfterQuit, registry
  <2>2. CASE run \in {"waiting", "draining"}
    <3>1. run' \in {"draining", "leaving"}
      BY <1>6, <2>2 DEF AfterQuit
    <3> QED  BY <1>0, <2>1, <3>1 DEF TeardownInv, Joining
  <2>3. CASE run = "leaving"
    <3>1. run' = "teardown" /\ leaving' = members
      BY <1>6, <2>3 DEF AfterQuit
    <3>2. ASSUME NEW i \in 1 .. joined - 1
          PROVE  Fleet[i] \in told \/ IDOf[Fleet[i]] \in leaving'
      <4>1. i \in DOMAIN Fleet /\ i \in 1 .. joined /\ i # joined
        BY <1>1
      <4>2. ~Joining(Fleet[i])
        <5>1. joined \in DOMAIN Fleet
          BY <1>1, <4>1
        <5>2. Fleet[i] # Fleet[joined]
          BY <4>1, <5>1, RunnerAssumption DEF RunnerAssumption
        <5> QED  BY <1>0, <5>2 DEF TeardownInv, Joining
      <4>3. Nodes[IDOf[Fleet[i]]] = Fleet[i] \/ Fleet[i] \in told
        BY <1>0, <4>1, <4>2 DEF TeardownInv
      <4>4. Nodes[IDOf[Fleet[i]]] = Fleet[i] => IDOf[Fleet[i]] \in members
        BY <1>0, <4>1, FleetObjects DEF members
      <4> QED  BY <3>1, <4>3, <4>4
    <3> QED  BY <1>0, <2>1, <3>1, <3>2 DEF TeardownInv, Joining
  <2> QED  BY <1>6, <2>2, <2>3 DEF AfterQuit
<1>7. CASE LeaveAll
  <2>1. PICK id \in leaving : /\ serving' = [op |-> "leave", id |-> id]
                             /\ leaving' = leaving \ {id}
    BY <1>7 DEF LeaveAll, Ask
  <2>2. serving = Nothing /\ run = "teardown" /\ UNCHANGED <<run, joined>>
    BY <1>7 DEF LeaveAll, Ask
  <2>3. serving.op # "join" /\ serving.op # "leave"
    BY <2>2 DEF Nothing
  <2>4. ASSUME NEW i \in 1 .. joined - 1
        PROVE  \/ Fleet[i] \in told'
               \/ IDOf[Fleet[i]] \in leaving'
               \/ serving' = [op |-> "leave", id |-> IDOf[Fleet[i]]]
    <3>1. Fleet[i] \in told \/ IDOf[Fleet[i]] \in leaving
      BY <1>0, <2>2, <2>3 DEF TeardownInv
    <3> QED  BY <1>0, <2>1, <3>1
  <2> QED  BY <1>0, <2>1, <2>2, <2>3, <2>4 DEF TeardownInv, Joining
<1>8. CASE ReturnRun
  <2>1. /\ run = "teardown" /\ run' = "returned" /\ leaving = {}
        /\ UNCHANGED <<serving, joined, leaving>>
    BY <1>8 DEF ReturnRun, registry
  <2> QED  BY <1>0, <2>1 DEF TeardownInv, Joining
<1>9. CASE RemoveVictim
  <2>1. serving = Nothing /\ serving'.op = "leave" /\ UNCHANGED <<run, joined, leaving>>
    BY <1>9 DEF RemoveVictim, Ask
  <2>2. serving.op # "join" /\ serving.op # "leave"
    BY <2>1 DEF Nothing
  <2> QED  BY <1>0, <2>1, <2>2 DEF TeardownInv, Joining
<1> QED
  BY <1>0, <1>2, <1>3, <1>4, <1>5, <1>6, <1>7, <1>8, <1>9, RunnerFrame DEF Run

LEMMA RunnerInv ==
    ASSUME ProgramsInv, Batch(RunnerNext)
    PROVE  /\ MapInv' /\ FleetInv' /\ SessionInv' /\ HandlersInv' /\ QuitInv'
           /\ TeardownInv' /\ NoOrphans'
<1>1. /\ UNCHANGED <<Nodes, goroutine, told, session, handlers>>
      /\ session = <<>> /\ handlers = <<>>
  BY RunnerFrame DEF ProgramsInv, FleetInv, Batch, server
<1>2. MapInv' /\ NoOrphans'
  BY <1>1 DEF ProgramsInv, MapInv, NoOrphans
<1>3. SessionInv' /\ HandlersInv'
  BY <1>1 DEF SessionInv, HandlersInv
<1>4. QuitInv'
  BY RunnerQuitInv DEF ProgramsInv, TypeOK, Batch
<1> QED  BY <1>2, <1>3, <1>4, RunnerFleetInv, RunnerTeardownInv

----------------------------------------------------------------------------
(* The server                                                              *)

\* A request that creates a node asks for its join first, the others for none.
LEMMA OneJoin ==
    ASSUME NEW q \in Call, q.op # "ws"
    PROVE  /\ \A k \in DOMAIN StepsOf(q) : StepsOf(q)[k].do = "join" => k = 1
           /\ StepsOf(q)[1].do = "join" =>
                 Creates(q) /\ StepsOf(q)[1].node = q.node
<1>1. CASE q.op = "createNode"
  BY <1>1 DEF StepsOf, Creates, CreateNodeHandler, join, publish
<1>2. CASE q.op = "removeNode"
  BY <1>2 DEF StepsOf, RemoveNodeHandler, leave, publish
<1>3. CASE q.op = "sendMessage"
  BY <1>3 DEF StepsOf, SendMessageHandler, find, send
<1>4. CASE q.op = "moveNode"
  BY <1>4 DEF StepsOf, MoveNodeHandler, find, publish
<1>5. CASE q.op = "createUser"
  BY <1>5 DEF StepsOf, CreateUser, find, add, publish
<1>6. CASE q.op = "deleteUser"
  BY <1>6 DEF StepsOf, DeleteUser, find, remove, publish
<1>7. CASE q.op = "sendUserMessage"
  BY <1>7 DEF StepsOf, SendUserMessage, find, send
<1>8. CASE q.op = "moveUser"
  BY <1>8 DEF StepsOf, MoveUser, find, add, remove, publish
<1>9. CASE q.op = "command"
  BY <1>9 DEF StepsOf, commandHandler, publish
<1>10. CASE q.op \in {"register", "remove"}
  <2>1. CASE q.op = "register"
    BY <2>1 DEF StepsOf, Creates, ProcessMqttNodeMessage, join, publish
  <2>2. CASE q.op = "remove"
    BY <2>2 DEF StepsOf, ProcessMqttNodeMessage, leave, publish
  <2> QED  BY <1>10, <2>1, <2>2
<1>11. CASE q.op \in {"addUser", "removeUser"}
  <2>1. CASE q.op = "addUser"
    BY <2>1 DEF StepsOf, handleMQTTCommand, add, publish
  <2>2. CASE q.op = "removeUser"
    BY <2>2 DEF StepsOf, handleMQTTCommand, remove, publish
  <2> QED  BY <1>11, <2>1, <2>2
<1> QED
  BY <1>1, <1>2, <1>3, <1>4, <1>5, <1>6, <1>7, <1>8, <1>9, <1>10, <1>11, CallFields

NewNext(o) ==
    goroutine'[o] = "none" /\ ~(serving'.op = "join" /\ serving'.node = o)

LEMMA ReceiveInv ==
    ASSUME ProgramsInv, Receive, run = "off", UNCHANGED runner
    PROVE  FleetInv' /\ SessionInv' /\ HandlersInv'
<1> DEFINE q == Head(session)
           new == [request |-> q, todo |-> StepsOf(q),
                   found |-> IF FromDevice(q) THEN <<topic[q.id]>> ELSE <<>>]
<1>0. /\ ServerTypeOK /\ FleetInv /\ SessionInv /\ HandlersInv
      /\ UNCHANGED <<serving, goroutine, run>>
      /\ session' = Tail(session) /\ handlers' = Append(handlers, new)
  BY DEF ProgramsInv, TypeOK, Receive, registry, runner
<1>1. /\ session \in Seq(Call) /\ session # <<>> /\ q \in Call /\ q.op # "ws"
      /\ q = session[1] /\ 1 \in DOMAIN session
  <2>1. session \in Seq(Call) /\ session # <<>> /\ q.op # "ws"
    BY <1>0 DEF ServerTypeOK, Receive, Call
  <2> QED  BY <2>1
<1>2. \A i \in DOMAIN session' :
          /\ i + 1 \in DOMAIN session /\ session'[i] = session[i + 1]
          /\ i \in Nat /\ i + 1 # 1
  BY <1>0, <1>1
<1>3. FleetInv'
  BY <1>0 DEF FleetInv
<1>4. SessionInv'
  <2>1. \A i \in DOMAIN session' : Creates(session'[i]) => NewNext(session'[i].node)
    BY <1>0, <1>2 DEF SessionInv, New, Joining, NewNext
  <2>2. ASSUME NEW i \in DOMAIN session', NEW j \in DOMAIN session',
               Creates(session'[i]), Creates(session'[j]),
               session'[i].node = session'[j].node
        PROVE  i = j
    <3>1. i + 1 = j + 1
      BY <1>0, <1>2, <2>2 DEF SessionInv
    <3> QED  BY <1>2, <3>1
  <2> QED  BY <2>1, <2>2 DEF SessionInv, Creates, New, Joining, NewNext
<1>5. /\ new.todo = StepsOf(q)
      /\ \A k \in DOMAIN StepsOf(q) : StepsOf(q)[k].do = "join" => k = 1
      /\ StepsOf(q)[1].do = "join" =>
            Creates(session[1]) /\ StepsOf(q)[1].node = session[1].node
  BY <1>1, OneJoin
<1>6. /\ Len(handlers) \in Nat /\ DOMAIN handlers = 1 .. Len(handlers)
      /\ DOMAIN handlers' = 1 .. Len(handlers) + 1
      /\ \A i \in DOMAIN handlers : handlers'[i] = handlers[i]
      /\ handlers'[Len(handlers) + 1] = new
  BY <1>0 DEF ServerTypeOK
<1> HIDE DEF new, q
<1>7. \A i \in DOMAIN handlers' :
          i \in DOMAIN handlers \/ i = Len(handlers) + 1
  BY <1>6
<1>8. FirstJoins(new) => Creates(session[1]) /\ new.todo[1].node = session[1].node
  BY <1>5 DEF FirstJoins
<1>9. ASSUME NEW i \in DOMAIN handlers', NEW k \in DOMAIN handlers'[i].todo,
             handlers'[i].todo[k].do = "join"
      PROVE  k = 1
  <2>1. CASE i \in DOMAIN handlers
    BY <1>0, <1>6, <1>9, <2>1 DEF HandlersInv
  <2>2. CASE i = Len(handlers) + 1
    BY <1>5, <1>6, <1>9, <2>2
  <2> QED  BY <1>7, <2>1, <2>2
<1>10. ASSUME NEW i \in DOMAIN handlers', FirstJoins(handlers'[i])
       PROVE  /\ NewNext(handlers'[i].todo[1].node)
              /\ \A j \in DOMAIN session' : Creates(session'[j]) =>
                    session'[j].node # handlers'[i].todo[1].node
  <2>1. CASE i \in DOMAIN handlers
    BY <1>0, <1>2, <1>6, <1>10, <2>1 DEF HandlersInv, New, Joining, NewNext
  <2>2. CASE i = Len(handlers) + 1
    <3>1. Creates(session[1]) /\ handlers'[i].todo[1].node = session[1].node
      BY <1>6, <1>8, <1>10, <2>2
    <3>2. NewNext(session[1].node)
      BY <1>0, <1>1, <3>1 DEF SessionInv, New, Joining, NewNext
    <3>3. ASSUME NEW j \in DOMAIN session', Creates(session'[j])
          PROVE  session'[j].node # session[1].node
      BY <1>0, <1>1, <1>2, <3>1, <3>3 DEF SessionInv
    <3> QED  BY <3>1, <3>2, <3>3
  <2> QED  BY <1>7, <2>1, <2>2
<1>11. ASSUME NEW i \in DOMAIN handlers, FirstJoins(handlers[i]), FirstJoins(new)
       PROVE  handlers[i].todo[1].node # new.todo[1].node
  BY <1>0, <1>1, <1>8, <1>11 DEF HandlersInv
<1>12. ASSUME NEW i \in DOMAIN handlers', NEW j \in DOMAIN handlers',
              FirstJoins(handlers'[i]), FirstJoins(handlers'[j]),
              handlers'[i].todo[1].node = handlers'[j].todo[1].node
       PROVE  i = j
  <2>1. CASE i \in DOMAIN handlers /\ j \in DOMAIN handlers
    BY <1>0, <1>6, <1>12, <2>1 DEF HandlersInv
  <2>2. CASE i \in DOMAIN handlers /\ j = Len(handlers) + 1
    BY <1>6, <1>11, <1>12, <2>2
  <2>3. CASE i = Len(handlers) + 1 /\ j \in DOMAIN handlers
    BY <1>6, <1>11, <1>12, <2>3
  <2> QED  BY <1>7, <2>1, <2>2, <2>3
<1>13. HandlersInv'
  BY <1>9, <1>10, <1>12 DEF HandlersInv, FirstJoins, Creates, New, Joining, NewNext
<1> QED  BY <1>3, <1>4, <1>13

LEMMA ConnectSocketInv ==
    ASSUME ProgramsInv, ConnectSocket, run = "off", UNCHANGED runner
    PROVE  FleetInv' /\ SessionInv' /\ HandlersInv'
<1>0. /\ ServerTypeOK /\ FleetInv /\ SessionInv /\ HandlersInv
      /\ UNCHANGED <<serving, goroutine, run, handlers>>
      /\ session' = Tail(session) /\ session # <<>> /\ session \in Seq(Call)
  BY DEF ProgramsInv, TypeOK, ConnectSocket, registry, runner, ServerTypeOK, Call
<1>1. \A i \in DOMAIN session' :
          i + 1 \in DOMAIN session /\ session'[i] = session[i + 1] /\ i \in Nat
  BY <1>0
<1>2. FleetInv'
  BY <1>0 DEF FleetInv
<1>3. SessionInv'
  <2>1. \A i \in DOMAIN session' : Creates(session'[i]) => NewNext(session'[i].node)
    BY <1>0, <1>1 DEF SessionInv, New, Joining, NewNext
  <2>2. ASSUME NEW i \in DOMAIN session', NEW j \in DOMAIN session',
               Creates(session'[i]), Creates(session'[j]),
               session'[i].node = session'[j].node
        PROVE  i = j
    <3>1. i + 1 = j + 1
      BY <1>0, <1>1, <2>2 DEF SessionInv
    <3> QED  BY <1>1, <3>1
  <2> QED  BY <2>1, <2>2 DEF SessionInv, Creates, New, Joining, NewNext
<1>4. HandlersInv'
  <2>1. \A i \in DOMAIN handlers : FirstJoins(handlers[i]) =>
            New(handlers[i].todo[1].node)'
    BY <1>0 DEF HandlersInv, New, Joining
  <2> QED  BY <1>0, <1>1, <2>1 DEF HandlersInv, FirstJoins
<1> QED  BY <1>2, <1>3, <1>4

\* Each handler that there is after a step was there before, or is the one that
\* took it; and none but that one is gone.
LEMMA AdvancedTo ==
    ASSUME handlers \in Seq(Handler), NEW i \in DOMAIN handlers,
           NEW found, NEW todo, Advance(i, found, todo)
    PROVE  \E from \in [DOMAIN handlers' -> DOMAIN handlers] :
              /\ \A j, k \in DOMAIN handlers' : from[j] = from[k] => j = k
              /\ \A j \in DOMAIN handlers' :
                    IF from[j] = i
                    THEN /\ todo # <<>>
                         /\ handlers'[j].request = handlers[i].request
                         /\ handlers'[j].todo = todo
                         /\ handlers'[j].found = found
                    ELSE handlers'[j] = handlers[from[j]]
              /\ \A k \in DOMAIN handlers : k # i \/ todo # <<>> =>
                    \E j \in DOMAIN handlers' : from[j] = k
<1> DEFINE h == handlers[i]
<1>1. Len(handlers) \in Nat /\ DOMAIN handlers = 1 .. Len(handlers)
      /\ i \in 1 .. Len(handlers) /\ h \in Handler
  OBVIOUS
<1>2. CASE todo = <<>>
  <2> DEFINE from == [j \in DOMAIN handlers' |-> IF j < i THEN j ELSE j + 1]
  <2>1. handlers' = RemoveAt(handlers, i)
    BY <1>2 DEF Advance
  <2>2. /\ DOMAIN handlers' = 1 .. Len(handlers) - 1
        /\ \A k \in 1 .. Len(handlers) - 1 :
              handlers'[k] = IF k < i THEN handlers[k] ELSE handlers[k + 1]
    <3>1. /\ RemoveAt(handlers, i) \in Seq(Handler)
          /\ Len(RemoveAt(handlers, i)) = Len(handlers) - 1
          /\ \A k \in 1 .. Len(handlers) - 1 :
                RemoveAt(handlers, i)[k] =
                    IF k < i THEN handlers[k] ELSE handlers[k + 1]
      <4> HIDE DEF h
      <4> QED  BY <1>1, RemoveAtProperties
    <3> QED  BY <1>1, <2>1, <3>1
  <2>3. from \in [DOMAIN handlers' -> DOMAIN handlers]
    BY <1>1, <2>2
  <2>4. \A j, k \in DOMAIN handlers' : from[j] = from[k] => j = k
    BY <1>1, <2>2
  <2>5. \A j \in DOMAIN handlers' : from[j] # i /\ handlers'[j] = handlers[from[j]]
    BY <1>1, <2>2
  <2>6. ASSUME NEW k \in DOMAIN handlers, k # i
        PROVE  \E j \in DOMAIN handlers' : from[j] = k
    <3>1. CASE k < i
      <4>1. k \in DOMAIN handlers' /\ from[k] = k
        BY <1>1, <2>2, <3>1
      <4> QED  BY <4>1
    <3>2. CASE k > i
      <4>1. k - 1 \in DOMAIN handlers' /\ from[k - 1] = k
        BY <1>1, <2>2, <3>2
      <4> QED  BY <4>1
    <3> QED  BY <1>1, <2>6, <3>1, <3>2
  <2> HIDE DEF from
  <2> QED  BY <1>2, <2>3, <2>4, <2>5, <2>6
<1>3. CASE todo # <<>>
  <2> DEFINE from == [j \in DOMAIN handlers' |-> j]
  <2>1. handlers' = [handlers EXCEPT ![i].found = found, ![i].todo = todo]
    BY <1>3 DEF Advance
  <2>2. /\ DOMAIN handlers' = DOMAIN handlers
        /\ \A j \in DOMAIN handlers : j # i => handlers'[j] = handlers[j]
    BY <2>1
  <2>3. /\ handlers'[i].request = h.request
        /\ handlers'[i].todo = todo /\ handlers'[i].found = found
    <3>1. handlers'[i] = [h EXCEPT !.found = found, !.todo = todo]
      BY <1>1, <2>1
    <3>2. "todo" \in DOMAIN h /\ "found" \in DOMAIN h
      BY <1>1 DEF Handler
    <3> HIDE DEF h
    <3> QED  BY <3>1, <3>2
  <2>4. \A j \in DOMAIN handlers' : from[j] = j
    OBVIOUS
  <2>5. from \in [DOMAIN handlers' -> DOMAIN handlers]
    BY <2>2
  <2>6. \A k \in DOMAIN handlers : \E j \in DOMAIN handlers' : from[j] = k
    BY <2>2, <2>4
  <2> HIDE DEF from
  <2> QED  BY <1>3, <2>2, <2>3, <2>4, <2>5, <2>6
<1> QED  BY <1>2, <1>3

\* The one that took the step has no join left.
LEMMA Advanced ==
    ASSUME ServerTypeOK, HandlersInv, NEW i, Handle(i)
    PROVE  \E from \in [DOMAIN handlers' -> DOMAIN handlers] :
              /\ \A j, k \in DOMAIN handlers' : from[j] = from[k] => j = k
              /\ \A j \in DOMAIN handlers' :
                    IF from[j] = i
                    THEN \A k \in DOMAIN handlers'[j].todo :
                            handlers'[j].todo[k].do # "join"
                    ELSE handlers'[j] = handlers[from[j]]
<1>1. i \in DOMAIN handlers /\ handlers \in Seq(Handler)
  BY DEF Handle, ServerTypeOK
<1>2. PICK h : h = handlers[i]
  OBVIOUS
<1>3. h.todo \in Seq(Step) /\ h.todo # <<>>
  BY <1>1, <1>2, HandlerFields
<1>4. PICK found, todo : Advance(i, found, todo) /\ todo \in {<<>>, Tail(h.todo)}
  BY <1>2 DEF Handle
<1>5. PICK from \in [DOMAIN handlers' -> DOMAIN handlers] :
          /\ \A j, k \in DOMAIN handlers' : from[j] = from[k] => j = k
          /\ \A j \in DOMAIN handlers' :
                IF from[j] = i THEN todo # <<>> /\ handlers'[j].todo = todo
                ELSE handlers'[j] = handlers[from[j]]
  BY <1>1, <1>4, AdvancedTo
<1>6. ASSUME NEW k \in DOMAIN Tail(h.todo) PROVE Tail(h.todo)[k].do # "join"
  <2>1. k + 1 \in DOMAIN h.todo /\ Tail(h.todo)[k] = h.todo[k + 1] /\ k \in Nat
        /\ k + 1 # 1
    BY <1>3, <1>6
  <2> QED  BY <1>1, <1>2, <2>1 DEF HandlersInv
<1>7. ASSUME NEW j \in DOMAIN handlers'
      PROVE  IF from[j] = i
             THEN \A k \in DOMAIN handlers'[j].todo :
                     handlers'[j].todo[k].do # "join"
             ELSE handlers'[j] = handlers[from[j]]
  <2>1. CASE from[j] = i
    <3>1. handlers'[j].todo = Tail(h.todo)
      BY <1>4, <1>5, <2>1
    <3> QED  BY <1>6, <2>1, <3>1
  <2>2. CASE from[j] # i
    BY <1>5, <2>2
  <2> QED  BY <2>1, <2>2
<1> QED  BY <1>5, <1>7

LEMMA HandleInv ==
    ASSUME ProgramsInv, NEW i, Handle(i), run = "off", UNCHANGED runner
    PROVE  FleetInv' /\ SessionInv' /\ HandlersInv'
<1> DEFINE step == Head(handlers[i].todo)
<1>0. /\ ServerTypeOK /\ FleetInv /\ SessionInv /\ HandlersInv
      /\ UNCHANGED <<goroutine, run, session>> /\ i \in DOMAIN handlers
  BY DEF ProgramsInv, TypeOK, Handle, runner
<1>1. step = handlers[i].todo[1]
  BY <1>0, HandlerFields
<1>2. \/ /\ FirstJoins(handlers[i])
         /\ serving' = [op |-> "join", node |-> handlers[i].todo[1].node]
      \/ serving' = serving
      \/ serving'.op = "leave"
  BY <1>1 DEF Handle, Ask, FirstJoins
<1>3. PICK from \in [DOMAIN handlers' -> DOMAIN handlers] :
          /\ \A j, k \in DOMAIN handlers' : from[j] = from[k] => j = k
          /\ \A j \in DOMAIN handlers' :
                IF from[j] = i
                THEN \A k \in DOMAIN handlers'[j].todo :
                        handlers'[j].todo[k].do # "join"
                ELSE handlers'[j] = handlers[from[j]]
  BY <1>0, Advanced
<1>4. FleetInv'
  BY <1>0, <1>2 DEF FleetInv, HandlersInv, New, Joining
<1>5. SessionInv'
  <2>1. ASSUME NEW j \in DOMAIN session, Creates(session[j])
        PROVE  New(session[j].node)'
    <3>1. New(session[j].node)
      BY <1>0, <2>1 DEF SessionInv
    <3>2. FirstJoins(handlers[i]) => session[j].node # handlers[i].todo[1].node
      BY <1>0, <2>1 DEF HandlersInv
    <3> QED  BY <1>0, <1>2, <3>1, <3>2 DEF New, Joining
  <2> QED  BY <1>0, <2>1 DEF SessionInv
<1>6. \A j \in DOMAIN handlers' : 1 \in DOMAIN handlers'[j].todo
  <2>1. ServerTypeOK'
    BY HandleType DEF ProgramsInv, TypeOK
  <2>2. ASSUME NEW j \in DOMAIN handlers' PROVE 1 \in DOMAIN handlers'[j].todo
    <3>1. handlers'[j] \in Handler
      BY <2>1, <2>2 DEF ServerTypeOK
    <3>2. handlers'[j].todo \in Seq(Step) \ {<<>>}
      BY <3>1 DEF Handler
    <3> QED  BY <3>2
  <2> QED  BY <2>2
<1>7. \A j \in DOMAIN handlers' : FirstJoins(handlers'[j]) =>
          from[j] # i /\ from[j] \in DOMAIN handlers
            /\ handlers'[j] = handlers[from[j]]
  BY <1>3, <1>6 DEF FirstJoins
<1>8. ASSUME NEW j \in DOMAIN handlers', NEW k \in DOMAIN handlers'[j].todo,
             handlers'[j].todo[k].do = "join"
      PROVE  k = 1
  BY <1>0, <1>3, <1>8 DEF HandlersInv
<1>9. ASSUME NEW j \in DOMAIN handlers', FirstJoins(handlers'[j])
      PROVE  /\ NewNext(handlers'[j].todo[1].node)
             /\ \A k \in DOMAIN session' : Creates(session'[k]) =>
                   session'[k].node # handlers'[j].todo[1].node
  <2>1. /\ from[j] \in DOMAIN handlers /\ from[j] # i
        /\ handlers'[j] = handlers[from[j]] /\ FirstJoins(handlers[from[j]])
    BY <1>7, <1>9
  <2>2. FirstJoins(handlers[i]) =>
            handlers[from[j]].todo[1].node # handlers[i].todo[1].node
    BY <1>0, <2>1 DEF HandlersInv
  <2>3. New(handlers[from[j]].todo[1].node)
    BY <1>0, <2>1 DEF HandlersInv
  <2>5. NewNext(handlers'[j].todo[1].node)
    BY <1>0, <1>2, <2>1, <2>2, <2>3 DEF New, Joining, NewNext
  <2> QED  BY <1>0, <2>1, <2>5 DEF HandlersInv
<1>10. ASSUME NEW j \in DOMAIN handlers', NEW k \in DOMAIN handlers',
              FirstJoins(handlers'[j]), FirstJoins(handlers'[k]),
              handlers'[j].todo[1].node = handlers'[k].todo[1].node
       PROVE  j = k
  <2>1. from[j] = from[k]
    BY <1>0, <1>7, <1>10 DEF HandlersInv
  <2> QED  BY <1>3, <2>1
<1>11. HandlersInv'
  BY <1>8, <1>9, <1>10
     DEF HandlersInv, FirstJoins, Creates, New, Joining, NewNext
<1> QED  BY <1>4, <1>5, <1>11

LEMMA ServerInv ==
    ASSUME ProgramsInv, Server(ServerNext)
    PROVE  /\ MapInv' /\ FleetInv' /\ SessionInv' /\ HandlersInv' /\ QuitInv'
           /\ TeardownInv' /\ NoOrphans'
<1>0. /\ RunnerTypeOK /\ ServerTypeOK /\ FleetInv /\ SessionInv /\ HandlersInv
      /\ QuitInv /\ ServerNext
      /\ run = "off" /\ UNCHANGED runner
  BY DEF ProgramsInv, TypeOK, Server
<1>1. UNCHANGED <<process, Nodes, goroutine, told>>
  <2>1. CASE Receive \/ ConnectSocket
    BY <2>1 DEF Receive, ConnectSocket, registry
  <2>2. ASSUME NEW i, Handle(i) \/ WriteEvent(i)
        PROVE  UNCHANGED <<process, Nodes, goroutine, told>>
    BY <2>2 DEF Handle, WriteEvent, registry
  <2> QED  BY <1>0, <2>1, <2>2 DEF ServerNext
<1>2. MapInv' /\ NoOrphans'
  BY <1>1 DEF ProgramsInv, MapInv, NoOrphans
<1>3. QuitInv'
  BY <1>0, <1>1 DEF QuitInv, PanicsOnlyWhenSignalled, runner
<1>4. TeardownInv'
  <2>1. run' = "off"
    BY <1>0 DEF runner
  <2> QED  BY <2>1 DEF TeardownInv
<1>5. ASSUME NEW i \in DOMAIN sockets, WriteEvent(i)
      PROVE  FleetInv' /\ SessionInv' /\ HandlersInv'
  <2>1. UNCHANGED <<session, handlers, run, joined, serving, goroutine>>
    BY <1>0, <1>5 DEF WriteEvent, registry, runner
  <2>2. \A o \in Object : New(o) => New(o)'
    BY <2>1 DEF New, Joining
  <2>3. serving'.op = "join" => goroutine'[serving'.node] = "none"
    BY <1>0, <2>1 DEF FleetInv
  <2> QED  BY <1>0, <2>1, <2>2, <2>3, NewFrame
<1>6. FleetInv' /\ SessionInv' /\ HandlersInv'
  BY <1>0, <1>5, ReceiveInv, ConnectSocketInv, HandleInv DEF ServerNext
<1> QED  BY <1>2, <1>3, <1>4, <1>6

----------------------------------------------------------------------------
(* The theorems                                                            *)

LEMMA InitInv ==
    ASSUME Init
    PROVE  ProgramsInv
<1>1. TypeOK
  BY InitType
<1>2. /\ process = "running" /\ serving = Nothing /\ told = {}
      /\ Nodes = [id \in NodeID |-> NoObject]
      /\ goroutine = [o \in Object |-> "none"]
      /\ handlers = <<>> /\ joined = 0 /\ quit = FALSE /\ generator = "off"
      /\ run \in {"start", "off"}
      /\ run # "off" => session = <<>>
      /\ session = <<>> \/ session \in Session
  BY DEF Init, NoNodes, RunnerInit
<1>3. serving.op # "join" /\ serving.op # "leave"
  BY <1>2 DEF Nothing
<1>4. \A o \in Object : New(o)
  BY <1>2, <1>3 DEF New, Joining
<1>5. MapInv
  BY <1>2 DEF MapInv
<1>6. FleetInv
  BY <1>2, <1>3, <1>4, FleetObjects DEF FleetInv
<1>7. SessionInv
  <2>1. ASSUME NEW i \in DOMAIN session, Creates(session[i]) PROVE New(session[i].node)
    BY <1>1, <1>4, <2>1, CreatedObject DEF TypeOK
  <2>2. ASSUME NEW i \in DOMAIN session, NEW j \in DOMAIN session,
               Creates(session[i]), Creates(session[j]),
               session[i].node = session[j].node
        PROVE  i = j
    <3>1. session \in Session
      BY <1>2, <2>2
    <3>2. ASSUME NEW q \in Call, Creates(q) PROVE "node" \in DOMAIN q
      <4>1. CASE q \in [op : {"createNode"}, node : Object \ Physical]
        BY <4>1
      <4>2. CASE q \in [op : {"register"}, node : Physical]
        BY <4>2
      <4>3. CASE q.op \notin {"createNode", "register"}
        BY <3>2, <4>3 DEF Creates
      <4> QED  BY <4>1, <4>2, <4>3 DEF Call, HTTPCall, BrokerMessage
    <3>3. session[i] \in Call /\ session[j] \in Call
      BY <1>1 DEF TypeOK, ServerTypeOK, Call
    <3> QED  BY <2>2, <3>1, <3>2, <3>3, ServerAssumption DEF ServerAssumption
  <2> QED  BY <2>1, <2>2 DEF SessionInv
<1>8. HandlersInv
  BY <1>2 DEF HandlersInv
<1>9. QuitInv
  BY <1>2 DEF QuitInv, PanicsOnlyWhenSignalled
<1>10. TeardownInv
  BY <1>2, <1>3 DEF TeardownInv
<1>11. NoOrphans
  BY <1>2 DEF NoOrphans
<1> QED
  BY <1>1, <1>5, <1>6, <1>7, <1>8, <1>9, <1>10, <1>11 DEF ProgramsInv

LEMMA StepInv ==
    ASSUME ProgramsInv, [Next]_vars
    PROVE  ProgramsInv'
<1>1. TypeOK'
  BY StepType DEF ProgramsInv
<1>2. CASE Next
  BY <1>1, <1>2, AddNodeInv, RemoveNodeInv, NodeGoroutineInv, RunnerInv, ServerInv
     DEF Next, Shared, NetworkGoroutine, ProgramsInv
<1>3. CASE UNCHANGED vars
  <2>1. UNCHANGED <<process, serving, Nodes, goroutine, told, run, joined, quit,
                    signalled, generator, leaving, session, handlers>>
    BY <1>3 DEF vars, registry, runner, server
  <2>2. MapInv' /\ FleetInv' /\ SessionInv' /\ HandlersInv'
    BY <2>1 DEF ProgramsInv, MapInv, FleetInv, SessionInv, HandlersInv, New,
                Joining, FirstJoins
  <2>3. QuitInv' /\ TeardownInv' /\ NoOrphans'
    BY <2>1 DEF ProgramsInv, QuitInv, PanicsOnlyWhenSignalled, TeardownInv,
                Joining, NoOrphans
  <2> QED  BY <1>1, <2>2, <2>3 DEF ProgramsInv
<1> QED  BY <1>2, <1>3

THEOREM ProgramsInvariant == Spec => []ProgramsInv
BY InitInv, StepInv, PTL DEF Spec

\* close(r.quit) and close of a node's quit channel: whatever the order of joins,
\* removals, failures, teardown and signals, the only close of a closed channel
\* is that of a signal and of a generator that comes to its own end.
THEOREM PanicsNeedASignal == Spec => []PanicsOnlyWhenSignalled
<1>1. ProgramsInv => PanicsOnlyWhenSignalled
  BY DEF ProgramsInv, QuitInv
<1> QED  BY <1>1, ProgramsInvariant, PTL

\* network.addNode and removeNode: no node object goes on running that nothing
\* refers to and nobody has told to stop, unless another object was registered
\* with its identifier.
THEOREM NobodyIsOrphaned == Spec => []NoOrphans
<1>1. ProgramsInv => NoOrphans
  BY DEF ProgramsInv
<1> QED  BY <1>1, ProgramsInvariant, PTL

\* Runner.Run and LeaveAll: when Run returns, every node that had joined, but for
\* the last, was told to stop or is just being told, for every fleet.
THEOREM RunTearsDown == Spec => []TornDown
<1>1. ProgramsInv => TornDown
  <2> SUFFICES ASSUME ProgramsInv, run = "returned", joined > 0,
                      NEW i \in 1 .. joined - 1
               PROVE  \/ Fleet[i] \in told
                      \/ serving = [op |-> "leave", id |-> IDOf[Fleet[i]]]
    BY DEF TornDown
  <2>1. leaving = {}
    BY DEF ProgramsInv, TeardownInv
  <2> QED  BY <2>1 DEF ProgramsInv, TeardownInv
<1> QED  BY <1>1, ProgramsInvariant, PTL

----------------------------------------------------------------------------
(* The events are counted                                                  *)

\* How many events of this type are waiting in a channel.
Waiting(queue, type) == Cardinality({i \in DOMAIN queue : queue[i].type = type})

LEMMA WaitingFinite ==
    ASSUME NEW queue \in Seq(Event), NEW type
    PROVE  /\ IsFiniteSet({i \in DOMAIN queue : queue[i].type = type})
           /\ Waiting(queue, type) \in Nat
<1>1. Len(queue) \in Nat /\ DOMAIN queue = 1 .. Len(queue)
  OBVIOUS
<1>2. IsFiniteSet(1 .. Len(queue))
  BY <1>1, FS_Interval
<1>3. {i \in DOMAIN queue : queue[i].type = type} \subseteq 1 .. Len(queue)
  BY <1>1
<1>4. IsFiniteSet({i \in DOMAIN queue : queue[i].type = type})
  BY <1>2, <1>3, FS_Subset
<1> QED  BY <1>4, FS_CardinalityType DEF Waiting

LEMMA WaitingEmpty ==
    ASSUME NEW type
    PROVE  Waiting(<<>>, type) = 0
<1>1. {i \in DOMAIN <<>> : <<>>[i].type = type} = {}
  OBVIOUS
<1> QED  BY <1>1, FS_EmptySet DEF Waiting

LEMMA WaitingAppend ==
    ASSUME NEW queue \in Seq(Event), NEW e \in Event, NEW type
    PROVE  Waiting(Append(queue, e), type) =
               Waiting(queue, type) + (IF e.type = type THEN 1 ELSE 0)
<1> DEFINE new == Len(queue) + 1
           before == {i \in DOMAIN queue : queue[i].type = type}
           after  == {i \in DOMAIN Append(queue, e) : Append(queue, e)[i].type = type}
<1>1. /\ new \in Nat /\ DOMAIN queue = 1 .. Len(queue) /\ Len(queue) \in Nat
      /\ DOMAIN Append(queue, e) = 1 .. new
      /\ Append(queue, e)[new] = e
      /\ \A i \in 1 .. Len(queue) : Append(queue, e)[i] = queue[i]
  OBVIOUS
<1>2. IsFiniteSet(before) /\ new \notin before
  <2>1. IsFiniteSet(before)
    BY WaitingFinite
  <2>2. new \notin DOMAIN queue
    BY <1>1
  <2> QED  BY <2>1, <2>2
<1>3. CASE e.type = type
  <2>1. after = before \cup {new}
    BY <1>1, <1>3
  <2>2. Cardinality(before \cup {new}) = Cardinality(before) + 1
    BY <1>2, FS_AddElement
  <2> QED  BY <1>3, <2>1, <2>2 DEF Waiting
<1>4. CASE e.type # type
  <2>1. after = before
    BY <1>1, <1>4
  <2>2. Waiting(queue, type) \in Nat
    BY WaitingFinite
  <2>3. Waiting(Append(queue, e), type) = Waiting(queue, type)
    BY <2>1 DEF Waiting
  <2> QED  BY <1>4, <2>2, <2>3
<1> QED  BY <1>3, <1>4

LEMMA WaitingTail ==
    ASSUME NEW queue \in Seq(Event), queue # <<>>, NEW type
    PROVE  Waiting(queue, type) =
               Waiting(Tail(queue), type)
               + (IF Head(queue).type = type THEN 1 ELSE 0)
<1> DEFINE before == {i \in DOMAIN queue : queue[i].type = type}
           after  == {i \in DOMAIN Tail(queue) : Tail(queue)[i].type = type}
           up     == [i \in after |-> i + 1]
<1>1. /\ Len(queue) \in Nat /\ Len(queue) >= 1 /\ DOMAIN queue = 1 .. Len(queue)
      /\ Head(queue) = queue[1]
      /\ Tail(queue) \in Seq(Event)
      /\ DOMAIN Tail(queue) = 1 .. Len(queue) - 1
      /\ \A i \in 1 .. Len(queue) - 1 : Tail(queue)[i] = queue[i + 1]
  OBVIOUS
<1>2. IsFiniteSet(before) /\ IsFiniteSet(after)
      /\ Waiting(queue, type) \in Nat /\ Waiting(Tail(queue), type) \in Nat
  BY <1>1, WaitingFinite
<1>3. up \in Bijection(after, before \ {1})
  <2>1. \A i \in after : i \in Nat /\ i >= 1 /\ i + 1 \in before \ {1}
    BY <1>1
  <2>2. \A k \in before \ {1} : k - 1 \in after /\ up[k - 1] = k
    <3> SUFFICES ASSUME NEW k \in before \ {1} PROVE k - 1 \in after /\ up[k - 1] = k
      OBVIOUS
    <3>1. k \in 2 .. Len(queue) /\ k - 1 \in 1 .. Len(queue) - 1 /\ (k - 1) + 1 = k
      BY <1>1
    <3>2. Tail(queue)[k - 1] = queue[k]
      BY <1>1, <3>1
    <3>3. k - 1 \in after
      BY <1>1, <3>1, <3>2
    <3> QED  BY <3>1, <3>3
  <2>3. up \in [after -> before \ {1}]
    BY <2>1
  <2>4. \A i, j \in after : up[i] = up[j] => i = j
    BY <2>1
  <2> HIDE DEF up, after, before
  <2>5. up \in Injection(after, before \ {1})
    BY <2>3, <2>4, Fun_IsInj
  <2>6. up \in Surjection(after, before \ {1})
    BY <2>2, <2>3, Fun_IsSurj
  <2> QED  BY <2>5, <2>6, Fun_IsBij
<1>4. Cardinality(after) = Cardinality(before \ {1})
  <2>1. ExistsBijection(after, before \ {1})
    BY <1>3 DEF ExistsBijection
  <2> QED  BY <1>2, <2>1, FS_Bijection
<1>5. Waiting(queue, type) = Cardinality(before)
      /\ Waiting(Tail(queue), type) = Cardinality(after)
  BY DEF Waiting
<1>6. CASE Head(queue).type = type
  <2>1. 1 \in before
    BY <1>1, <1>6
  <2>2. Cardinality(before \ {1}) = Cardinality(before) - 1
    BY <1>2, <2>1, FS_RemoveElement
  <2> HIDE DEF before, after
  <2> QED  BY <1>2, <1>4, <1>5, <1>6, <2>2
<1>7. CASE Head(queue).type # type
  <2>1. 1 \notin before
    BY <1>1, <1>7
  <2>2. before \ {1} = before
    BY <2>1
  <2>3. Cardinality(after) = Cardinality(before)
    BY <1>4, <2>2
  <2> HIDE DEF before, after
  <2>4. Waiting(queue, type) = Waiting(Tail(queue), type)
    BY <1>5, <2>3
  <2>5. Waiting(Tail(queue), type) \in Nat
    BY <1>2
  <2> QED  BY <1>7, <2>4, <2>5
<1> QED  BY <1>6, <1>7

\* An event that comes is missed or waits; one that is taken is counted.
LEMMA OneMore ==
    ASSUME NEW n \in Nat, NEW c \in Nat, NEW l \in Nat, NEW w \in Nat,
           n = c + l + w, NEW b \in BOOLEAN
    PROVE  LET d == IF b THEN 1 ELSE 0 IN
           n + d = c + (l + d) + w /\ n + d = c + l + (w + d)
OBVIOUS

LEMMA OneLess ==
    ASSUME NEW n, NEW c \in Nat, NEW l \in Nat, NEW w \in Nat,
           NEW b \in BOOLEAN, n = c + l + (w + (IF b THEN 1 ELSE 0))
    PROVE  n = (c + (IF b THEN 1 ELSE 0)) + l + w
OBVIOUS

\* Before Run has subscribed there is nothing to count; and from then on an event
\* that was published was counted, or missed, or waits.
CountInv ==
    /\ run = "start" =>
          /\ channels = <<>> /\ lost = <<>> /\ generator = "off"
          /\ owed = NoneLost /\ published = NoneLost /\ counters = NoneLost
    /\ run # "off" /\ channels # <<>> =>
          \A type \in EventType :
              published[type] = counters[type] + lost[1][type]
                                    + Waiting(channels[1], type)

LEMMA CountFrame ==
    ASSUME CountInv,
           UNCHANGED <<bus, owed, published, counters>>,
           run' = "start" => run = "start" /\ generator' = "off",
           run' # "off" => run # "off"
    PROVE  CountInv'
BY DEF CountInv, bus

LEMMA StartRunCount ==
    ASSUME RunnerTypeOK, CountInv, StartRun
    PROVE  CountInv'
<1>1. run = "start" /\ run' # "start"
      /\ channels = <<>> /\ lost = <<>> /\ published' = NoneLost /\ counters' = NoneLost
  BY DEF CountInv, StartRun
<1>2. CASE UNCHANGED bus
  <2>1. channels' = <<>>
    BY <1>1, <1>2 DEF bus
  <2> QED  BY <1>1, <2>1 DEF CountInv
<1>3. CASE Subscribe
  <2>1. channels' = <<<<>>>> /\ lost' = <<NoneLost>>
    BY <1>1, <1>3 DEF Subscribe
  <2>2. channels'[1] = <<>> /\ lost'[1] = NoneLost
    BY <2>1
  <2>3. ASSUME NEW type \in EventType
        PROVE  published'[type] = counters'[type] + lost'[1][type]
                                      + Waiting(channels'[1], type)
    BY <1>1, <2>2, WaitingEmpty DEF NoneLost
  <2> QED  BY <1>1, <2>3 DEF CountInv
<1> QED  BY <1>2, <1>3 DEF StartRun

LEMMA RouterPublishesCount ==
    ASSUME RegistryTypeOK, RunnerTypeOK, CountInv,
           NEW type \in {"MESSAGE_SENT", "MESSAGE_DELIVERED"},
           RouterPublishes(type)
    PROVE  CountInv'
<1>0. type \in EventType /\ BusTypeOK
  BY DEF EventType, RegistryTypeOK
<1>1. run # "start" /\ run' = run /\ counters' = counters
  BY <1>0 DEF CountInv, RouterPublishes, NoneLost
<1>2. CASE UNCHANGED <<bus, published>>
  BY <1>1, <1>2 DEF CountInv, bus
<1>3. CASE ~UNCHANGED <<bus, published>>
  <2>1. PICK id \in members :
            Publish([type |-> type, id |-> id, user |-> NoUser])
    BY <1>3 DEF RouterPublishes
  <2>2. published' = [published EXCEPT ![type] = @ + 1]
    BY <1>3 DEF RouterPublishes
  <2> DEFINE e == [type |-> type, id |-> id, user |-> NoUser]
  <2>3. e \in Event /\ e.type = type
    BY <1>0 DEF Event, members
  <2> SUFFICES ASSUME run # "off", channels' # <<>>, NEW t \in EventType
               PROVE  published'[t] = counters'[t] + lost'[1][t]
                                          + Waiting(channels'[1], t)
    BY <1>1 DEF CountInv
  <2>4. channels # <<>> /\ 1 \in DOMAIN channels /\ 1 \in DOMAIN lost
    BY <1>0, <2>1 DEF BusTypeOK, Publish
  <2>5. /\ channels[1] \in Seq(Event) /\ lost[1] \in [EventType -> Nat]
        /\ published \in [EventType -> Nat] /\ counters \in [EventType -> Nat]
    BY <1>0, <2>4 DEF BusTypeOK, RunnerTypeOK
  <2>6. published[t] = counters[t] + lost[1][t] + Waiting(channels[1], t)
    BY <2>4 DEF CountInv
  <2>7. Waiting(channels[1], t) \in Nat
    BY <2>5, WaitingFinite
  <2>8. published'[t] = published[t] + (IF t = type THEN 1 ELSE 0)
    BY <1>0, <2>2, <2>5
  <2>9. /\ published[t] \in Nat /\ counters[t] \in Nat /\ lost[1][t] \in Nat
        /\ Waiting(channels[1], t) \in Nat
    BY <2>5, <2>7
  <2>10. (t = type) \in BOOLEAN
    OBVIOUS
  <2> HIDE DEF e
  <2>11. CASE Len(channels[1]) = BusCap
    <3>1. channels'[1] = channels[1] /\ lost'[1] = [lost[1] EXCEPT ![e.type] = @ + 1]
      BY <2>1, <2>4, <2>11 DEF Publish, e
    <3>2. lost'[1][t] = lost[1][t] + (IF t = type THEN 1 ELSE 0)
      BY <2>3, <2>5, <3>1
    <3> QED  BY <1>1, <2>6, <2>8, <2>9, <2>10, <3>1, <3>2, OneMore
  <2>12. CASE Len(channels[1]) # BusCap
    <3>1. channels'[1] = Append(channels[1], e) /\ lost'[1] = lost[1]
      BY <2>1, <2>4, <2>12 DEF Publish, e
    <3>2. Waiting(channels'[1], t) =
              Waiting(channels[1], t) + (IF t = type THEN 1 ELSE 0)
      BY <2>3, <2>5, <3>1, WaitingAppend
    <3> QED  BY <1>1, <2>6, <2>8, <2>9, <2>10, <3>1, <3>2, OneMore
  <2> QED  BY <2>11, <2>12
<1> QED  BY <1>2, <1>3

LEMMA ConsumeEventsCount ==
    ASSUME RegistryTypeOK, RunnerTypeOK, CountInv, consumeEvents
    PROVE  CountInv'
<1>1. run # "start" /\ run' = run /\ published' = published /\ lost' = lost
      /\ channels # <<>> /\ run # "off"
  BY DEF CountInv, consumeEvents, TakeEvent
<1>2. 1 \in DOMAIN channels /\ 1 \in DOMAIN lost
  BY <1>1 DEF RegistryTypeOK, BusTypeOK
<1>3. /\ channels[1] \in Seq(Event) /\ channels[1] # <<>>
      /\ lost[1] \in [EventType -> Nat]
      /\ published \in [EventType -> Nat] /\ counters \in [EventType -> Nat]
  BY <1>2 DEF RegistryTypeOK, BusTypeOK, RunnerTypeOK, consumeEvents, TakeEvent
<1>4. channels'[1] = Tail(channels[1]) /\ Tail(channels[1]) \in Seq(Event)
  BY <1>2, <1>3 DEF consumeEvents, TakeEvent
<1>5. Head(channels[1]).type \in EventType
  <2>1. Head(channels[1]) \in Event
    BY <1>3
  <2> QED  BY <2>1 DEF Event
<1>6. ASSUME NEW t \in EventType
      PROVE  published'[t] = counters'[t] + lost'[1][t] + Waiting(channels'[1], t)
  <2>1. published[t] = counters[t] + lost[1][t] + Waiting(channels[1], t)
    BY <1>1 DEF CountInv
  <2>2. Waiting(channels[1], t) =
            Waiting(Tail(channels[1]), t)
            + (IF Head(channels[1]).type = t THEN 1 ELSE 0)
    BY <1>3, WaitingTail
  <2>3. Waiting(Tail(channels[1]), t) \in Nat
    BY <1>4, WaitingFinite
  <2>4. counters'[t] = counters[t] + (IF Head(channels[1]).type = t THEN 1 ELSE 0)
    BY <1>3, <1>5 DEF consumeEvents, CounterOf
  <2>5. counters[t] \in Nat /\ lost[1][t] \in Nat
        /\ (Head(channels[1]).type = t) \in BOOLEAN
    BY <1>3
  <2>6. published[t] = counters[t] + lost[1][t]
            + (Waiting(Tail(channels[1]), t)
               + (IF Head(channels[1]).type = t THEN 1 ELSE 0))
    BY <2>1, <2>2
  <2>7. published[t] = (counters[t] + (IF Head(channels[1]).type = t THEN 1 ELSE 0))
                           + lost[1][t] + Waiting(Tail(channels[1]), t)
    BY <2>3, <2>5, <2>6, OneLess
  <2>8. /\ published'[t] = published[t] /\ lost'[1][t] = lost[1][t]
        /\ Waiting(channels'[1], t) = Waiting(Tail(channels[1]), t)
    BY <1>1, <1>4
  <2> QED  BY <2>4, <2>7, <2>8
<1> QED  BY <1>1, <1>6 DEF CountInv

LEMMA RunnerCount ==
    ASSUME RegistryTypeOK, RunnerTypeOK, CountInv, Batch(RunnerNext)
    PROVE  CountInv'
<1>1. run # "off" /\ RunnerNext
  BY DEF Batch
<1>2. CASE JoinNext \/ startFailureSimulator \/ AfterQuit \/ LeaveAll \/ ReturnRun
  BY <1>1, <1>2, CountFrame
     DEF JoinNext, startFailureSimulator, AfterQuit, LeaveAll, ReturnRun
<1>3. CASE triggerStart \/ PickVictim \/ RemoveVictim \/ Stop
  <2>1. UNCHANGED <<bus, owed, published, counters, run, generator>>
    BY <1>3 DEF triggerStart, PickVictim, RemoveVictim, Stop
  <2> QED  BY <1>1, <2>1, CountFrame DEF CountInv
<1>4. CASE BeginTraffic \/ LoopTraffic \/ SelectTraffic
  <2>1. /\ UNCHANGED <<bus, owed, published, counters, run>>
        /\ generator # "off"
    BY <1>4 DEF BeginTraffic, LoopTraffic, SelectTraffic
  <2> QED  BY <1>1, <2>1, CountFrame DEF CountInv
<1>5. CASE emitRandomTraffic
  <2>1. run' # "start" /\ UNCHANGED <<bus, published, counters, run>>
    BY <1>5 DEF CountInv, emitRandomTraffic
  <2> QED  BY <2>1 DEF CountInv, bus
<1>6. CASE Flush
  <2>1. UNCHANGED <<bus, owed, published, counters, run, generator>>
    BY <1>6 DEF Flush, runner
  <2> QED  BY <1>1, <2>1, CountFrame DEF CountInv
<1> QED
  BY <1>1, <1>2, <1>3, <1>4, <1>5, <1>6, StartRunCount, RouterPublishesCount,
     ConsumeEventsCount
     DEF RunnerNext, Run, startTrafficGenerator, FailureSimulator

LEMMA InitCount ==
    ASSUME Init
    PROVE  CountInv
BY DEF Init, RunnerInit, CountInv

LEMMA StepCount ==
    ASSUME TypeOK, CountInv, [Next]_vars
    PROVE  CountInv'
<1>1. CASE Shared(NetworkGoroutine)
  <2>1. UNCHANGED <<bus, runner>>
    BY <1>1 DEF Shared, NetworkGoroutine, addNode, removeNode
  <2> QED  BY <2>1, CountFrame DEF CountInv, runner
<1>2. CASE \E o \in Object : Shared(NodeGoroutine(o))
  <2>1. UNCHANGED <<bus, runner>>
    BY <1>2 DEF Shared, NodeGoroutine, RunNode, StopNode
  <2> QED  BY <2>1, CountFrame DEF CountInv, runner
<1>3. CASE Batch(RunnerNext)
  BY <1>3, RunnerCount DEF TypeOK
<1>4. CASE Server(ServerNext)
  <2>1. run' = "off"
    BY <1>4 DEF Server, runner
  <2> QED  BY <2>1 DEF CountInv
<1>5. CASE UNCHANGED vars
  BY <1>5, CountFrame DEF CountInv, vars, runner
<1> QED  BY <1>1, <1>2, <1>3, <1>4, <1>5 DEF Next

\* Runner.consumeEvents and the Collector: for every scenario and every capacity,
\* an event of the batch program was counted once, under its own type, or was
\* missed by a full channel, or waits in it.
THEOREM NoEventIsMiscounted == Spec => []EventsAreCounted
<1>1. CountInv => EventsAreCounted
  BY DEF CountInv, EventsAreCounted, Waiting
<1> QED  BY <1>1, InitCount, StepCount, ProgramsTypeCorrect, PTL DEF Spec

----------------------------------------------------------------------------
(* A user is at one node                                                   *)

\* The requests that change the users at a node.
Edits(q) ==
    q.op \in {"createUser", "deleteUser", "moveUser", "addUser", "removeUser"}

Nowhere(user) == \A id \in NodeID : user \notin usersAt(id)

OnlyAt(user, at) == \A id \in NodeID : user \in usersAt(id) => id = at

\* The objects of these nodes are in the map, and the handler has found them.
Knows(found, ids) ==
    /\ \A k \in DOMAIN ids : Nodes[ids[k]] # NoObject
    /\ found = [k \in DOMAIN ids |-> Nodes[ids[k]]]

\* Where the user is while such a request has these steps left to do.
Stage(q, todo, found) ==
    LET created == publish("CREATE_USER", q.id, q.user)
        deleted == publish("DELETE_USER", q.id, q.user)
        moved   == publish("CREATE_USER", q.other, q.user)
    IN
    \/ /\ q.op = "createUser"
       /\ todo = <<find(q.id), add(1, q.user), created>>
       /\ found = <<>> /\ Nowhere(q.user)
    \/ /\ q.op \in {"createUser", "addUser"}
       /\ todo = <<add(1, q.user), created>>
       /\ Knows(found, <<q.id>>) /\ Nowhere(q.user)
    \/ q.op \in {"createUser", "addUser"} /\ todo = <<created>>
    \/ /\ q.op = "deleteUser"
       /\ todo = <<find(q.id), remove(1, q.user), deleted>>
       /\ found = <<>>
    \/ /\ q.op \in {"deleteUser", "removeUser"}
       /\ todo = <<remove(1, q.user), deleted>>
       /\ Knows(found, <<q.id>>)
    \/ q.op \in {"deleteUser", "removeUser"} /\ todo = <<deleted>>
    \/ /\ q.op = "moveUser"
       /\ todo = <<find(q.id), find(q.other), remove(1, q.user), add(2, q.user),
                   deleted, moved>>
       /\ found = <<>> /\ OnlyAt(q.user, q.id)
    \/ /\ q.op = "moveUser"
       /\ todo = <<find(q.other), remove(1, q.user), add(2, q.user), deleted, moved>>
       /\ Knows(found, <<q.id>>) /\ OnlyAt(q.user, q.id)
    \/ /\ q.op = "moveUser"
       /\ todo = <<remove(1, q.user), add(2, q.user), deleted, moved>>
       /\ Knows(found, <<q.id, q.other>>) /\ OnlyAt(q.user, q.id)
    \/ /\ q.op = "moveUser"
       /\ todo = <<add(2, q.user), deleted, moved>>
       /\ Knows(found, <<q.id, q.other>>) /\ Nowhere(q.user)
    \/ q.op = "moveUser" /\ todo = <<deleted, moved>>
    \/ q.op = "moveUser" /\ todo = <<moved>>

Removes(q) == q.op \in {"removeNode", "remove"}

\* What the other requests have left to do: they change no users.
Plain(q, todo) ==
    LET came == publish("NODE_JOINED", IDOf[q.node], NoUser)
        gone == publish("NODE_LEFT", q.id, NoUser)
    IN
    \/ Creates(q) /\ todo \in {<<join(q.node), came>>, <<came>>, <<>>}
    \/ Removes(q) /\ todo \in {<<leave(q.id), gone>>, <<gone>>, <<>>}
    \/ /\ ~Creates(q) /\ ~Removes(q)
       /\ \A k \in DOMAIN todo :
             \/ todo[k].do \in {"find", "send"}
             \/ /\ todo[k].do = "publish"
                /\ todo[k].event.type \in {"MOVED_NODE", "COMMAND_RECEIVED"}

\* As long as every request was orderly: requests that are being handled share
\* neither nodes nor users, the network goroutine leaves the nodes of an edit
\* alone, each edit knows where its user is, and no user is at two nodes.
Apart ==
    \A i, j \in DOMAIN handlers : i # j =>
        /\ About(handlers[i].request) \cap About(handlers[j].request) = {}
        /\ UserOf(handlers[i].request) \cap UserOf(handlers[j].request) = {}

LeftAlone ==
    \A i \in DOMAIN handlers : Edits(handlers[i].request) /\ serving # Nothing =>
        About(serving) \cap About(handlers[i].request) = {}

Staged ==
    \A i \in DOMAIN handlers :
        \A q \in {handlers[i].request}, todo \in {handlers[i].todo},
           found \in {handlers[i].found} :
            IF Edits(q) THEN Stage(q, todo, found) ELSE Plain(q, todo)

NewIsEmpty == \A o \in Object : goroutine[o] = "none" => connectedUsers[o] = {}

AtOne ==
    \A user \in User, x, y \in NodeID :
        user \in usersAt(x) /\ user \in usersAt(y) => x = y

UsersInv ==
    /\ run # "off" => connectedUsers = [o \in Object |-> {}]
    /\ ~raced => Apart /\ LeftAlone /\ Staged /\ NewIsEmpty /\ AtOne

LEMMA EditFields ==
    ASSUME NEW q \in Call, Edits(q)
    PROVE  /\ q.id \in NodeID /\ q.id \in About(q)
           /\ q.user \in User /\ UserOf(q) = {q.user}
           /\ q.op = "moveUser" => q.other \in NodeID /\ q.other \in About(q)
<1>1. CASE q \in [op : {"createUser", "deleteUser", "sendUserMessage"},
                  id : NodeID, user : User]
  <2>1. /\ DOMAIN q = {"op", "id", "user"} /\ q.op # "moveUser"
        /\ q.id \in NodeID /\ q.user \in User
    BY <1>1
  <2> QED  BY <2>1 DEF About, UserOf
<1>2. CASE q \in [op : {"addUser", "removeUser"}, id : NodeID, user : User]
  <2>1. /\ DOMAIN q = {"op", "id", "user"} /\ q.op # "moveUser"
        /\ q.id \in NodeID /\ q.user \in User
    BY <1>2
  <2> QED  BY <2>1 DEF About, UserOf
<1>3. CASE q \in [op : {"moveUser"}, id : NodeID, user : User, other : NodeID]
  <2>1. /\ DOMAIN q = {"op", "id", "user", "other"}
        /\ q.id \in NodeID /\ q.user \in User /\ q.other \in NodeID
    BY <1>3
  <2> QED  BY <2>1 DEF About, UserOf
<1>4. CASE q \in [op : {"createNode"}, node : Object \ Physical]
              \cup [op : {"removeNode", "sendMessage", "moveNode", "command"}, id : NodeID]
              \cup [op : {"ws"}] \cup [op : {"register"}, node : Physical]
              \cup [op : {"remove"}, id : NodeID]
  BY <1>4 DEF Edits
<1> QED  BY <1>1, <1>2, <1>3, <1>4 DEF Call, HTTPCall, BrokerMessage

LEMMA PlainFields ==
    ASSUME NEW q \in Call
    PROVE  /\ Creates(q) => q.node \in Object /\ About(q) = {IDOf[q.node]}
           /\ Removes(q) => q.id \in NodeID /\ About(q) = {q.id}
<1>1. CASE Creates(q)
  <2>1. \/ q \in [op : {"createNode"}, node : Object \ Physical]
        \/ q \in [op : {"register"}, node : Physical]
    BY <1>1 DEF Creates, Call, HTTPCall, BrokerMessage
  <2>2. "node" \in DOMAIN q /\ q.node \in Object
    BY <2>1, RegistryAssumption
  <2> QED  BY <1>1, <2>2 DEF About, Creates, Removes
<1>2. CASE Removes(q)
  <2>1. \/ q \in [op : {"removeNode", "sendMessage", "moveNode", "command"},
                  id : NodeID]
        \/ q \in [op : {"remove"}, id : NodeID]
    BY <1>2 DEF Removes, Call, HTTPCall, BrokerMessage
  <2>2. DOMAIN q = {"op", "id"} /\ q.id \in NodeID
    BY <2>1
  <2> QED  BY <1>2, <2>2 DEF About, Creates, Removes
<1> QED  BY <1>1, <1>2

LEMMA AboutRequest ==
    ASSUME NEW r \in Request
    PROVE  /\ r.op = "join" => About(r) = {IDOf[r.node]}
           /\ r.op = "leave" => About(r) = {r.id}
<1>1. CASE r \in [op : {"join"}, node : Object]
  <2>1. DOMAIN r = {"op", "node"} /\ r.op = "join"
    BY <1>1
  <2> QED  BY <2>1 DEF About
<1>2. CASE r \in [op : {"leave"}, id : NodeID]
  <2>1. DOMAIN r = {"op", "id"} /\ r.op = "leave"
    BY <1>2
  <2> QED  BY <2>1 DEF About
<1> QED  BY <1>1, <1>2 DEF Request

LEMMA StepFields ==
    ASSUME NEW id, NEW k, NEW user, NEW type
    PROVE  /\ find(id).do = "find" /\ find(id).id = id
           /\ add(k, user).do = "add" /\ add(k, user).at = k
           /\ add(k, user).user = user
           /\ remove(k, user).do = "remove" /\ remove(k, user).at = k
           /\ remove(k, user).user = user
           /\ publish(type, id, user).do = "publish"
BY DEF find, add, remove, publish

LEMMA JoinFields ==
    ASSUME NEW o
    PROVE  join(o).do = "join" /\ join(o).node = o
BY DEF join

LEMMA LeaveFields ==
    ASSUME NEW id
    PROVE  leave(id).do = "leave" /\ leave(id).id = id
BY DEF leave

LEMMA Rests ==
    ASSUME NEW x1, NEW x2, NEW x3, NEW x4, NEW x5, NEW x6
    PROVE  /\ <<x1>>[1] = x1 /\ Tail(<<x1>>) = <<>>
           /\ <<x1, x2>>[1] = x1 /\ Tail(<<x1, x2>>) = <<x2>>
           /\ <<x1, x2, x3>>[1] = x1 /\ Tail(<<x1, x2, x3>>) = <<x2, x3>>
           /\ <<x1, x2, x3, x4>>[1] = x1
           /\ Tail(<<x1, x2, x3, x4>>) = <<x2, x3, x4>>
           /\ <<x1, x2, x3, x4, x5>>[1] = x1
           /\ Tail(<<x1, x2, x3, x4, x5>>) = <<x2, x3, x4, x5>>
           /\ <<x1, x2, x3, x4, x5, x6>>[1] = x1
           /\ Tail(<<x1, x2, x3, x4, x5, x6>>) = <<x2, x3, x4, x5, x6>>
OBVIOUS

LEMMA KnowsOne ==
    ASSUME NEW id, Nodes[id] # NoObject
    PROVE  Knows(<<Nodes[id]>>, <<id>>)
BY DEF Knows

LEMMA Appended ==
    ASSUME NEW x, NEW y
    PROVE  Append(<<x>>, y) = <<x, y>>
<1>1. <<x>> \in Seq({x, y}) /\ Len(<<x>>) = 1
  OBVIOUS
<1>2. Append(<<x>>, y) \in Seq({x, y}) /\ Len(Append(<<x>>, y)) = 2
  BY <1>1
<1>3. Append(<<x>>, y)[1] = x /\ Append(<<x>>, y)[2] = y
  BY <1>1
<1>4. <<x, y>> \in Seq({x, y}) /\ Len(<<x, y>>) = 2
  OBVIOUS
<1>5. \A k \in 1 .. 2 : Append(<<x>>, y)[k] = <<x, y>>[k]
  BY <1>3
<1> QED  BY <1>2, <1>4, <1>5, SeqEqual

LEMMA KnowsNext ==
    ASSUME NEW id, NEW other, NEW found, Knows(found, <<id>>), Nodes[other] # NoObject
    PROVE  Knows(Append(found, Nodes[other]), <<id, other>>)
<1>1. found = <<Nodes[id]>> /\ Nodes[id] # NoObject
  BY DEF Knows
<1>2. Append(found, Nodes[other]) = <<Nodes[id], Nodes[other]>>
  BY <1>1, Appended
<1> DEFINE ids == <<id, other>>
<1>3. DOMAIN ids = 1 .. 2 /\ ids[1] = id /\ ids[2] = other
  OBVIOUS
<1>4. <<Nodes[id], Nodes[other]>> = [k \in 1 .. 2 |-> Nodes[ids[k]]]
  BY <1>3
<1>5. \A k \in 1 .. 2 : Nodes[ids[k]] # NoObject
  BY <1>1, <1>3
<1> HIDE DEF ids
<1>6. Knows(Append(found, Nodes[other]), ids)
  BY <1>2, <1>3, <1>4, <1>5 DEF Knows
<1> QED  BY <1>6 DEF ids

LEMMA StageFrame ==
    ASSUME NEW q \in Call, Edits(q), NEW todo, NEW found, Stage(q, todo, found),
           Nodes'[q.id] = Nodes[q.id],
           q.op = "moveUser" => Nodes'[q.other] = Nodes[q.other],
           \A id \in NodeID : q.user \in usersAt(id)' => q.user \in usersAt(id)
    PROVE  Stage(q, todo, found)'
<1>1. /\ Nowhere(q.user) => Nowhere(q.user)'
      /\ OnlyAt(q.user, q.id) => OnlyAt(q.user, q.id)'
  BY DEF Nowhere, OnlyAt
<1>2. Knows(found, <<q.id>>) => Knows(found, <<q.id>>)'
  BY DEF Knows
<1>3. q.op = "moveUser" /\ Knows(found, <<q.id, q.other>>) =>
          Knows(found, <<q.id, q.other>>)'
  BY DEF Knows
<1> QED  BY <1>1, <1>2, <1>3 DEF Stage

----------------------------------------------------------------------------
(* What a step of a handler does to the users                              *)

Effect(todo, found, left, known) ==
    LET step   == todo[1]
        failed == step.do = "find" /\ Nodes[step.id] = NoObject
    IN
    /\ failed => left = <<>>
    /\ ~failed => left = Tail(todo)
    /\ ~failed => known = IF step.do = "find" THEN Append(found, Nodes[step.id])
                          ELSE found
    /\ connectedUsers' =
          CASE step.do = "add"    -> [connectedUsers EXCEPT ![found[step.at]] =
                                         @ \cup {step.user}]
            [] step.do = "remove" -> [connectedUsers EXCEPT ![found[step.at]] =
                                         @ \ {step.user}]
            [] OTHER              -> connectedUsers
    /\ CASE step.do = "join"  -> serving' = [op |-> "join", node |-> step.node]
         [] step.do = "leave" -> serving' = [op |-> "leave", id |-> step.id]
         [] OTHER             -> UNCHANGED serving

LEMMA EffectOfAdd ==
    ASSUME NEW todo, NEW found, NEW left, NEW known, Effect(todo, found, left, known),
           NEW k, NEW user, todo[1] = add(k, user)
    PROVE  /\ left = Tail(todo) /\ known = found /\ UNCHANGED serving
           /\ connectedUsers' =
                 [connectedUsers EXCEPT ![found[k]] = @ \cup {user}]
<1>1. todo[1].do = "add" /\ todo[1].at = k /\ todo[1].user = user
  BY StepFields
<1>2. left = Tail(todo) /\ known = found /\ UNCHANGED serving
  BY <1>1 DEF Effect
<1>3. connectedUsers' =
          [connectedUsers EXCEPT ![found[todo[1].at]] = @ \cup {todo[1].user}]
  BY <1>1 DEF Effect
<1> QED  BY <1>1, <1>2, <1>3

LEMMA EffectOfRemove ==
    ASSUME NEW todo, NEW found, NEW left, NEW known, Effect(todo, found, left, known),
           NEW k, NEW user, todo[1] = remove(k, user)
    PROVE  /\ left = Tail(todo) /\ known = found /\ UNCHANGED serving
           /\ connectedUsers' =
                 [connectedUsers EXCEPT ![found[k]] = @ \ {user}]
<1>1. todo[1].do = "remove" /\ todo[1].at = k /\ todo[1].user = user
  BY StepFields
<1>2. left = Tail(todo) /\ known = found /\ UNCHANGED serving
  BY <1>1 DEF Effect
<1>3. connectedUsers' =
          [connectedUsers EXCEPT ![found[todo[1].at]] = @ \ {todo[1].user}]
  BY <1>1 DEF Effect
<1> QED  BY <1>1, <1>2, <1>3

LEMMA HandleEffect ==
    ASSUME ServerTypeOK, NEW i, Handle(i)
    PROVE  /\ i \in DOMAIN handlers
           /\ UNCHANGED <<Nodes, goroutine, topic, raced>>
           /\ \E left, known :
                 /\ Advance(i, known, left)
                 /\ Effect(handlers[i].todo, handlers[i].found, left, known)
<1> DEFINE h == handlers[i]
           step == Head(h.todo)
<1>1. i \in DOMAIN handlers /\ UNCHANGED <<Nodes, goroutine, topic, raced>>
  BY DEF Handle
<1>2. step = h.todo[1]
  BY <1>1, HandlerFields
<1>3. CASE step.do = "find" /\ Nodes[step.id] = NoObject
  <2>1. Advance(i, <<>>, <<>>) /\ UNCHANGED <<serving, connectedUsers>>
    BY <1>3 DEF Handle
  <2>2. Effect(h.todo, h.found, <<>>, <<>>)
    BY <1>2, <1>3, <2>1 DEF Effect
  <2> QED  BY <1>1, <2>1, <2>2
<1>4. CASE ~(step.do = "find" /\ Nodes[step.id] = NoObject)
  <2> DEFINE known == IF step.do = "find" THEN Append(h.found, Nodes[step.id])
                      ELSE h.found
  <2>1. Advance(i, known, Tail(h.todo))
    BY <1>4 DEF Handle
  <2>2. connectedUsers' =
          CASE step.do = "add"    -> [connectedUsers EXCEPT ![h.found[step.at]] =
                                         @ \cup {step.user}]
            [] step.do = "remove" -> [connectedUsers EXCEPT ![h.found[step.at]] =
                                         @ \ {step.user}]
            [] OTHER              -> connectedUsers
    BY DEF Handle
  <2>3. (CASE step.do = "join"  -> serving' = [op |-> "join", node |-> step.node]
           [] step.do = "leave" -> serving' = [op |-> "leave", id |-> step.id]
           [] OTHER             -> UNCHANGED serving)
    BY DEF Handle, Ask
  <2>4. Effect(h.todo, h.found, Tail(h.todo), known)
    BY <1>2, <1>4, <2>2, <2>3 DEF Effect
  <2> QED  BY <1>1, <2>1, <2>4
<1> QED  BY <1>3, <1>4

\* The users at each node when one is added, and when one is removed.
LEMMA AddedAt ==
    ASSUME RegistryTypeOK, ServerTypeOK, MapInv, UNCHANGED Nodes,
           NEW at \in NodeID, Nodes[at] # NoObject, NEW user,
           connectedUsers' = [connectedUsers EXCEPT ![Nodes[at]] = @ \cup {user}]
    PROVE  /\ \A id \in NodeID : usersAt(id)' =
                  IF id = at THEN usersAt(id) \cup {user} ELSE usersAt(id)
           /\ \A o \in Object : goroutine[o] = "none" =>
                  connectedUsers'[o] = connectedUsers[o]
<1>1. connectedUsers \in [Object -> SUBSET User] /\ Nodes[at] \in Object
  BY DEF RegistryTypeOK, ServerTypeOK
<1>2. ASSUME NEW id \in NodeID
      PROVE  usersAt(id)' = IF id = at THEN usersAt(id) \cup {user} ELSE usersAt(id)
  <2>1. CASE Nodes[id] = NoObject
    BY <2>1 DEF usersAt
  <2>2. CASE Nodes[id] # NoObject /\ id # at
    <3>1. Nodes[id] # Nodes[at]
      BY <2>2 DEF MapInv
    <3> QED  BY <1>1, <2>2, <3>1 DEF usersAt
  <2>3. CASE id = at
    BY <1>1, <2>3 DEF usersAt
  <2> QED  BY <2>1, <2>2, <2>3
<1>3. goroutine[Nodes[at]] # "none"
  BY DEF MapInv
<1> QED  BY <1>1, <1>2, <1>3

LEMMA RemovedAt ==
    ASSUME RegistryTypeOK, ServerTypeOK, UNCHANGED Nodes, NEW o, NEW user,
           connectedUsers' = [connectedUsers EXCEPT ![o] = @ \ {user}]
    PROVE  /\ \A id \in NodeID : usersAt(id)' \subseteq usersAt(id)
           /\ \A id \in NodeID : Nodes[id] = o => user \notin usersAt(id)'
           /\ \A x \in Object : connectedUsers'[x] \subseteq connectedUsers[x]
<1>1. connectedUsers \in [Object -> SUBSET User]
  BY DEF ServerTypeOK
<1>2. \A x \in Object : /\ connectedUsers'[x] \subseteq connectedUsers[x]
                        /\ x = o => user \notin connectedUsers'[x]
  BY <1>1
<1>3. \A id \in NodeID : Nodes[id] \in Object \cup {NoObject}
  BY DEF RegistryTypeOK
<1> QED  BY <1>2, <1>3 DEF usersAt

LEMMA EditStep ==
    ASSUME TypeOK, MapInv, AtOne, NewIsEmpty, UNCHANGED <<Nodes, goroutine>>,
           NEW q \in Call, Edits(q), NEW todo, NEW found, Stage(q, todo, found),
           NEW left, NEW known, Effect(todo, found, left, known)
    PROVE  /\ UNCHANGED serving
           /\ left # <<>> => Stage(q, left, known)'
           /\ \A id \in NodeID, user \in User \ {q.user} :
                 user \in usersAt(id)' => user \in usersAt(id)
           /\ AtOne' /\ NewIsEmpty'
<1>0. /\ RegistryTypeOK /\ ServerTypeOK
      /\ q.id \in NodeID /\ q.user \in User
      /\ q.op = "moveUser" => q.other \in NodeID
  BY EditFields DEF TypeOK
<1>1. /\ \A ids : Knows(found, ids) => Knows(found, ids)'
      /\ \A ids : Knows(known, ids) => Knows(known, ids)'
  BY DEF Knows
<1>2. ASSUME UNCHANGED connectedUsers
      PROVE  /\ \A id \in NodeID : usersAt(id)' = usersAt(id)
             /\ AtOne' /\ NewIsEmpty'
             /\ \A user : Nowhere(user) => Nowhere(user)'
             /\ \A user, at : OnlyAt(user, at) => OnlyAt(user, at)'
  BY <1>2 DEF usersAt, AtOne, NewIsEmpty, Nowhere, OnlyAt
<1>3. ASSUME NEW o, connectedUsers' = [connectedUsers EXCEPT ![o] = @ \ {q.user}]
      PROVE  /\ \A id \in NodeID : usersAt(id)' \subseteq usersAt(id)
             /\ AtOne' /\ NewIsEmpty'
  BY <1>0, <1>3, RemovedAt DEF AtOne, NewIsEmpty
<1>4. ASSUME NEW at \in NodeID, Nodes[at] # NoObject, Nowhere(q.user),
             connectedUsers' = [connectedUsers EXCEPT ![Nodes[at]] = @ \cup {q.user}]
      PROVE  /\ \A id \in NodeID, user \in User \ {q.user} :
                    user \in usersAt(id)' => user \in usersAt(id)
             /\ AtOne' /\ NewIsEmpty'
  <2>1. /\ \A id \in NodeID : usersAt(id)' =
               IF id = at THEN usersAt(id) \cup {q.user} ELSE usersAt(id)
        /\ \A o \in Object : goroutine[o] = "none" =>
               connectedUsers'[o] = connectedUsers[o]
    BY <1>0, <1>4, AddedAt
  <2>2. NewIsEmpty'
    BY <2>1 DEF NewIsEmpty
  <2>3. AtOne'
    BY <1>4, <2>1 DEF AtOne, Nowhere
  <2> QED  BY <2>1, <2>2, <2>3
<1> DEFINE created == publish("CREATE_USER", q.id, q.user)
           deleted == publish("DELETE_USER", q.id, q.user)
           moved   == publish("CREATE_USER", q.other, q.user)
           Goal == /\ UNCHANGED serving
                   /\ left # <<>> => Stage(q, left, known)'
                   /\ \A id \in NodeID, user \in User \ {q.user} :
                         user \in usersAt(id)' => user \in usersAt(id)
                   /\ AtOne' /\ NewIsEmpty'
           At1  == /\ q.op = "createUser"
                   /\ todo = <<find(q.id), add(1, q.user), created>>
                   /\ found = <<>> /\ Nowhere(q.user)
           At2  == /\ q.op \in {"createUser", "addUser"}
                   /\ todo = <<add(1, q.user), created>>
                   /\ Knows(found, <<q.id>>) /\ Nowhere(q.user)
           At3  == q.op \in {"createUser", "addUser"} /\ todo = <<created>>
           At4  == /\ q.op = "deleteUser"
                   /\ todo = <<find(q.id), remove(1, q.user), deleted>>
                   /\ found = <<>>
           At5  == /\ q.op \in {"deleteUser", "removeUser"}
                   /\ todo = <<remove(1, q.user), deleted>>
                   /\ Knows(found, <<q.id>>)
           At6  == q.op \in {"deleteUser", "removeUser"} /\ todo = <<deleted>>
           At7  == /\ q.op = "moveUser"
                   /\ todo = <<find(q.id), find(q.other), remove(1, q.user),
                               add(2, q.user), deleted, moved>>
                   /\ found = <<>> /\ OnlyAt(q.user, q.id)
           At8  == /\ q.op = "moveUser"
                   /\ todo = <<find(q.other), remove(1, q.user), add(2, q.user),
                               deleted, moved>>
                   /\ Knows(found, <<q.id>>) /\ OnlyAt(q.user, q.id)
           At9  == /\ q.op = "moveUser"
                   /\ todo = <<remove(1, q.user), add(2, q.user), deleted, moved>>
                   /\ Knows(found, <<q.id, q.other>>) /\ OnlyAt(q.user, q.id)
           At10 == /\ q.op = "moveUser"
                   /\ todo = <<add(2, q.user), deleted, moved>>
                   /\ Knows(found, <<q.id, q.other>>) /\ Nowhere(q.user)
           At11 == q.op = "moveUser" /\ todo = <<deleted, moved>>
           At12 == q.op = "moveUser" /\ todo = <<moved>>
<1>5. ASSUME todo[1].do = "publish", left # <<>> => Stage(q, left, known)'
      PROVE  Goal
  BY <1>2, <1>5 DEF Effect
<1>6. ASSUME NEW id \in NodeID, todo[1] = find(id),
             Nodes[id] # NoObject => Stage(q, left, known)'
      PROVE  Goal
  <2>1. UNCHANGED <<serving, connectedUsers>> /\ (Nodes[id] = NoObject => left = <<>>)
    BY <1>6, StepFields DEF Effect
  <2> QED  BY <1>2, <1>6, <2>1
<1>7. CASE At1
  <2>1. todo[1] = find(q.id) /\ Tail(todo) = <<add(1, q.user), created>>
    BY <1>7, Rests
  <2>2. ASSUME Nodes[q.id] # NoObject PROVE Stage(q, left, known)'
    <3>1. left = Tail(todo) /\ known = Append(found, Nodes[q.id])
          /\ UNCHANGED connectedUsers
      BY <2>1, <2>2, StepFields DEF Effect
    <3>2. known = <<Nodes[q.id]>>
      BY <1>7, <3>1
    <3>3. Knows(known, <<q.id>>)'
      BY <1>1, <2>2, <3>2, KnowsOne
    <3>4. Nowhere(q.user)'
      BY <1>2, <1>7, <3>1
    <3> QED  BY <1>7, <2>1, <3>1, <3>3, <3>4 DEF Stage
  <2> QED  BY <1>0, <1>6, <2>1, <2>2
<1>8. CASE At2
  <2>1. todo[1] = add(1, q.user) /\ Tail(todo) = <<created>>
    BY <1>8, Rests
  <2>2. Nodes[q.id] # NoObject /\ found[1] = Nodes[q.id]
    BY <1>8 DEF Knows
  <2>3. /\ left = Tail(todo) /\ UNCHANGED serving
        /\ connectedUsers' = [connectedUsers EXCEPT ![Nodes[q.id]] = @ \cup {q.user}]
    BY <2>1, <2>2, EffectOfAdd
  <2>4. Stage(q, left, known)'
    BY <1>8, <2>1, <2>3 DEF Stage
  <2> QED  BY <1>0, <1>4, <1>8, <2>2, <2>3, <2>4
<1>9. CASE At3
  <2>1. todo[1].do = "publish" /\ Tail(todo) = <<>>
    BY <1>9, Rests, StepFields
  <2>2. left = <<>>
    BY <2>1 DEF Effect
  <2> QED  BY <1>5, <2>1, <2>2
<1>10. CASE At4
  <2>1. todo[1] = find(q.id) /\ Tail(todo) = <<remove(1, q.user), deleted>>
    BY <1>10, Rests
  <2>2. ASSUME Nodes[q.id] # NoObject PROVE Stage(q, left, known)'
    <3>1. left = Tail(todo) /\ known = Append(found, Nodes[q.id])
      BY <2>1, <2>2, StepFields DEF Effect
    <3>2. known = <<Nodes[q.id]>>
      BY <1>10, <3>1
    <3>3. Knows(known, <<q.id>>)'
      BY <1>1, <2>2, <3>2, KnowsOne
    <3> QED  BY <1>10, <2>1, <3>1, <3>3 DEF Stage
  <2> QED  BY <1>0, <1>6, <2>1, <2>2
<1>11. CASE At5
  <2>1. todo[1] = remove(1, q.user) /\ Tail(todo) = <<deleted>>
    BY <1>11, Rests
  <2>2. /\ left = Tail(todo) /\ UNCHANGED serving
        /\ connectedUsers' = [connectedUsers EXCEPT ![found[1]] = @ \ {q.user}]
    BY <2>1, EffectOfRemove
  <2>3. Stage(q, left, known)'
    BY <1>11, <2>1, <2>2 DEF Stage
  <2> QED  BY <1>3, <2>2, <2>3
<1>12. CASE At6
  <2>1. todo[1].do = "publish" /\ Tail(todo) = <<>>
    BY <1>12, Rests, StepFields
  <2>2. left = <<>>
    BY <2>1 DEF Effect
  <2> QED  BY <1>5, <2>1, <2>2
<1>13. CASE At7
  <2>1. /\ todo[1] = find(q.id)
        /\ Tail(todo) = <<find(q.other), remove(1, q.user), add(2, q.user),
                          deleted, moved>>
    BY <1>13, Rests
  <2>2. ASSUME Nodes[q.id] # NoObject PROVE Stage(q, left, known)'
    <3>1. left = Tail(todo) /\ known = Append(found, Nodes[q.id])
          /\ UNCHANGED connectedUsers
      BY <2>1, <2>2, StepFields DEF Effect
    <3>2. known = <<Nodes[q.id]>>
      BY <1>13, <3>1
    <3>3. Knows(known, <<q.id>>)'
      BY <1>1, <2>2, <3>2, KnowsOne
    <3>4. OnlyAt(q.user, q.id)'
      BY <1>2, <1>13, <3>1
    <3> QED  BY <1>13, <2>1, <3>1, <3>3, <3>4 DEF Stage
  <2> QED  BY <1>0, <1>6, <2>1, <2>2
<1>14. CASE At8
  <2>1. /\ todo[1] = find(q.other)
        /\ Tail(todo) = <<remove(1, q.user), add(2, q.user), deleted, moved>>
    BY <1>14, Rests
  <2>2. ASSUME Nodes[q.other] # NoObject PROVE Stage(q, left, known)'
    <3>1. left = Tail(todo) /\ known = Append(found, Nodes[q.other])
          /\ UNCHANGED connectedUsers
      BY <2>1, <2>2, StepFields DEF Effect
    <3>2. Knows(known, <<q.id, q.other>>)'
      BY <1>1, <1>14, <2>2, <3>1, KnowsNext
    <3>3. OnlyAt(q.user, q.id)'
      BY <1>2, <1>14, <3>1
    <3> QED  BY <1>14, <2>1, <3>1, <3>2, <3>3 DEF Stage
  <2> QED  BY <1>0, <1>6, <1>14, <2>1, <2>2
<1>15. CASE At9
  <2>1. /\ todo[1] = remove(1, q.user)
        /\ Tail(todo) = <<add(2, q.user), deleted, moved>>
    BY <1>15, Rests
  <2>2. found[1] = Nodes[q.id]
    BY <1>15 DEF Knows
  <2>3. /\ left = Tail(todo) /\ known = found /\ UNCHANGED serving
        /\ connectedUsers' = [connectedUsers EXCEPT ![Nodes[q.id]] = @ \ {q.user}]
    BY <2>1, <2>2, EffectOfRemove
  <2>4. Nowhere(q.user)'
    <3>1. /\ \A id \in NodeID : usersAt(id)' \subseteq usersAt(id)
          /\ q.user \notin usersAt(q.id)'
      BY <1>0, <2>3, RemovedAt
    <3> QED  BY <1>15, <3>1 DEF Nowhere, OnlyAt
  <2>5. Stage(q, left, known)'
    BY <1>1, <1>15, <2>1, <2>3, <2>4 DEF Stage
  <2> QED  BY <1>3, <2>3, <2>5
<1>16. CASE At10
  <2>1. todo[1] = add(2, q.user) /\ Tail(todo) = <<deleted, moved>>
    BY <1>16, Rests
  <2>2. found[2] = Nodes[q.other] /\ Nodes[q.other] # NoObject
    BY <1>16 DEF Knows
  <2>3. /\ left = Tail(todo) /\ UNCHANGED serving
        /\ connectedUsers' = [connectedUsers EXCEPT ![Nodes[q.other]] = @ \cup {q.user}]
    BY <2>1, <2>2, EffectOfAdd
  <2>4. Stage(q, left, known)'
    BY <1>16, <2>1, <2>3 DEF Stage
  <2> QED  BY <1>0, <1>4, <1>16, <2>2, <2>3, <2>4
<1>17. CASE At11
  <2>1. todo[1].do = "publish" /\ Tail(todo) = <<moved>>
    BY <1>17, Rests, StepFields
  <2>2. left = <<moved>>
    BY <2>1 DEF Effect
  <2>3. Stage(q, left, known)'
    BY <1>17, <2>2 DEF Stage
  <2> QED  BY <1>5, <2>1, <2>3
<1>18. CASE At12
  <2>1. todo[1].do = "publish" /\ Tail(todo) = <<>>
    BY <1>18, Rests, StepFields
  <2>2. left = <<>>
    BY <2>1 DEF Effect
  <2> QED  BY <1>5, <2>1, <2>2
<1>19. At1 \/ At2 \/ At3 \/ At4 \/ At5 \/ At6 \/ At7 \/ At8 \/ At9 \/ At10
         \/ At11 \/ At12
  BY DEF Stage
<1> HIDE DEF At1, At2, At3, At4, At5, At6, At7, At8, At9, At10, At11, At12
<1> QED
  BY <1>7, <1>8, <1>9, <1>10, <1>11, <1>12, <1>13, <1>14, <1>15, <1>16, <1>17,
     <1>18, <1>19

----------------------------------------------------------------------------
(* Every step keeps users at one node                                      *)

\* A plain request goes on as one, and what it asks for is among its nodes.
LEMMA PlainStep ==
    ASSUME NEW q \in Call, NEW todo \in Seq(Step), todo # <<>>, Plain(q, todo),
           NEW found, NEW left, NEW known, Effect(todo, found, left, known)
    PROVE  /\ UNCHANGED connectedUsers /\ Plain(q, left)
           /\ \/ UNCHANGED serving
              \/ serving'.op = "join" /\ IDOf[serving'.node] \in About(q)
              \/ serving'.op = "leave" /\ serving'.id \in About(q)
<1> DEFINE came == publish("NODE_JOINED", IDOf[q.node], NoUser)
           gone == publish("NODE_LEFT", q.id, NoUser)
<1>1. 1 \in DOMAIN todo
  OBVIOUS
<1>2. ASSUME todo[1].do \in {"find", "send", "publish"}
      PROVE  UNCHANGED <<connectedUsers, serving>> /\ left \in {<<>>, Tail(todo)}
  BY <1>2 DEF Effect
<1>3. CASE Creates(q)
  <2>1. CASE todo = <<join(q.node), came>>
    <3>1. todo[1] = join(q.node) /\ Tail(todo) = <<came>>
      BY <2>1, Rests
    <3>2. /\ left = <<came>> /\ UNCHANGED connectedUsers
          /\ serving' = [op |-> "join", node |-> q.node]
      BY <3>1, JoinFields DEF Effect
    <3> QED  BY <1>3, <3>2, PlainFields DEF Plain
  <2>2. CASE todo = <<came>>
    <3>1. todo[1].do = "publish" /\ Tail(todo) = <<>>
      BY <2>2, Rests, StepFields
    <3>2. UNCHANGED <<connectedUsers, serving>> /\ left = <<>>
      BY <1>2, <3>1
    <3> QED  BY <1>3, <3>2 DEF Plain
  <2> QED  BY <1>3, <2>1, <2>2 DEF Plain, Creates, Removes
<1>4. CASE Removes(q)
  <2>1. CASE todo = <<leave(q.id), gone>>
    <3>1. todo[1] = leave(q.id) /\ Tail(todo) = <<gone>>
      BY <2>1, Rests
    <3>2. /\ left = <<gone>> /\ UNCHANGED connectedUsers
          /\ serving' = [op |-> "leave", id |-> q.id]
      BY <3>1, LeaveFields DEF Effect
    <3> QED  BY <1>4, <3>2, PlainFields DEF Plain
  <2>2. CASE todo = <<gone>>
    <3>1. todo[1].do = "publish" /\ Tail(todo) = <<>>
      BY <2>2, Rests, StepFields
    <3>2. UNCHANGED <<connectedUsers, serving>> /\ left = <<>>
      BY <1>2, <3>1
    <3> QED  BY <1>4, <3>2 DEF Plain
  <2> QED  BY <1>4, <2>1, <2>2 DEF Plain, Creates, Removes
<1>5. CASE ~Creates(q) /\ ~Removes(q)
  <2>1. \A k \in DOMAIN todo :
            \/ todo[k].do \in {"find", "send"}
            \/ /\ todo[k].do = "publish"
               /\ todo[k].event.type \in {"MOVED_NODE", "COMMAND_RECEIVED"}
    BY <1>5 DEF Plain
  <2>2. UNCHANGED <<connectedUsers, serving>> /\ left \in {<<>>, Tail(todo)}
    BY <1>1, <1>2, <2>1
  <2>3. \A k \in DOMAIN left : k + 1 \in DOMAIN todo /\ left[k] = todo[k + 1]
    BY <2>2
  <2> QED  BY <1>5, <2>1, <2>2, <2>3 DEF Plain
<1> QED  BY <1>3, <1>4, <1>5

LEMMA HandleUsers ==
    ASSUME ProgramsInv, UsersInv, NEW i, Handle(i), run = "off", UNCHANGED run
    PROVE  UsersInv'
<1>0. /\ TypeOK /\ RegistryTypeOK /\ ServerTypeOK /\ MapInv /\ RegistryTypeOK'
  BY HandleType DEF ProgramsInv, TypeOK
<1>1. i \in DOMAIN handlers /\ UNCHANGED <<Nodes, goroutine, raced>>
  BY <1>0, HandleEffect
<1>2. PICK left, known :
          /\ Advance(i, known, left)
          /\ Effect(handlers[i].todo, handlers[i].found, left, known)
  BY <1>0, HandleEffect
<1>3. PICK from \in [DOMAIN handlers' -> DOMAIN handlers] :
          /\ \A j, k \in DOMAIN handlers' : from[j] = from[k] => j = k
          /\ \A j \in DOMAIN handlers' :
                IF from[j] = i
                THEN /\ left # <<>>
                     /\ handlers'[j].request = handlers[i].request
                     /\ handlers'[j].todo = left
                     /\ handlers'[j].found = known
                ELSE handlers'[j] = handlers[from[j]]
  <2>1. handlers \in Seq(Handler)
    BY <1>0 DEF ServerTypeOK
  <2> QED  BY <1>1, <1>2, <2>1, AdvancedTo
<1>4. CASE raced
  BY <1>1, <1>4 DEF UsersInv
<1>5. CASE ~raced
  <2>0. Apart /\ LeftAlone /\ Staged /\ NewIsEmpty /\ AtOne
    BY <1>5 DEF UsersInv
  <2>1. PICK q \in Call : q = handlers[i].request
    BY <1>0, <1>1, HandlerFields
  <2>2. PICK todo \in Seq(Step), found \in Seq(Object) :
            todo = handlers[i].todo /\ found = handlers[i].found /\ todo # <<>>
    BY <1>0, <1>1, HandlerFields
  <2>3. Effect(todo, found, left, known)
    BY <1>2, <2>2
  <2>4. IF Edits(q) THEN Stage(q, todo, found) ELSE Plain(q, todo)
    BY <1>1, <2>0, <2>1, <2>2 DEF Staged
  <2>5. \A j \in DOMAIN handlers' : from[j] \in DOMAIN handlers
            /\ handlers'[j].request = handlers[from[j]].request
    BY <1>3
  <2>6. Apart'
    <3> SUFFICES ASSUME NEW j \in DOMAIN handlers', NEW k \in DOMAIN handlers', j # k
                 PROVE  /\ About(handlers'[j].request) \cap About(handlers'[k].request) = {}
                        /\ UserOf(handlers'[j].request) \cap UserOf(handlers'[k].request) = {}
      BY DEF Apart
    <3>1. /\ from[j] \in DOMAIN handlers /\ from[k] \in DOMAIN handlers
          /\ from[j] # from[k]
          /\ handlers'[j].request = handlers[from[j]].request
          /\ handlers'[k].request = handlers[from[k]].request
      BY <1>3, <2>5
    <3> QED  BY <2>0, <3>1 DEF Apart
  <2>7. ASSUME NEW j \in DOMAIN handlers', from[j] # i,
               NEW p, p = handlers'[j].request
        PROVE  /\ p \in Call
               /\ About(p) \cap About(q) = {} /\ UserOf(p) \cap UserOf(q) = {}
    <3>1. from[j] \in DOMAIN handlers /\ p = handlers[from[j]].request
      BY <2>5, <2>7
    <3> QED  BY <1>0, <1>1, <2>0, <2>1, <2>7, <3>1, HandlerFields DEF Apart
  <2>8. CASE Edits(q)
    <3>1. /\ UNCHANGED serving
          /\ left # <<>> => Stage(q, left, known)'
          /\ \A id \in NodeID, user \in User \ {q.user} :
                user \in usersAt(id)' => user \in usersAt(id)
          /\ AtOne' /\ NewIsEmpty'
      BY <1>0, <1>1, <2>0, <2>3, <2>4, <2>8, EditStep
    <3>2. LeftAlone'
      BY <2>0, <2>5, <3>1 DEF LeftAlone
    <3>3. ASSUME NEW j \in DOMAIN handlers', NEW p, p = handlers'[j].request,
                 NEW more, more = handlers'[j].todo,
                 NEW seen, seen = handlers'[j].found
          PROVE  IF Edits(p) THEN Stage(p, more, seen)' ELSE Plain(p, more)
      <4>1. CASE from[j] = i
        <5>1. p = q /\ more = left /\ seen = known /\ left # <<>>
          BY <1>3, <2>1, <3>3, <4>1
        <5> QED  BY <2>8, <3>1, <5>1
      <4>2. CASE from[j] # i
        <5>1. /\ from[j] \in DOMAIN handlers
              /\ p = handlers[from[j]].request /\ more = handlers[from[j]].todo
              /\ seen = handlers[from[j]].found
          BY <1>3, <3>3, <4>2
        <5>2. IF Edits(p) THEN Stage(p, more, seen) ELSE Plain(p, more)
          BY <2>0, <5>1 DEF Staged
        <5>3. CASE Edits(p)
          <6>1. p \in Call /\ UserOf(p) \cap UserOf(q) = {}
            BY <2>7, <3>3, <4>2
          <6>2. p.user \in User \ {q.user}
            BY <2>8, <5>3, <6>1, EditFields
          <6> QED  BY <1>1, <3>1, <5>2, <5>3, <6>1, <6>2, StageFrame
        <5> QED  BY <5>2, <5>3
      <4> QED  BY <4>1, <4>2
    <3>4. Staged'
      BY <3>3 DEF Staged
    <3> QED  BY <1>0, <2>6, <3>1, <3>2, <3>4 DEF UsersInv
  <2>9. CASE ~Edits(q)
    <3>1. /\ UNCHANGED connectedUsers /\ Plain(q, left)
          /\ \/ UNCHANGED serving
             \/ serving'.op = "join" /\ IDOf[serving'.node] \in About(q)
             \/ serving'.op = "leave" /\ serving'.id \in About(q)
      BY <2>2, <2>3, <2>4, <2>9, PlainStep
    <3>2. \A id \in NodeID : usersAt(id)' = usersAt(id)
      BY <1>1, <3>1 DEF usersAt
    <3>3. AtOne' /\ NewIsEmpty'
      BY <1>1, <2>0, <3>1, <3>2 DEF AtOne, NewIsEmpty
    <3>4. UNCHANGED serving \/ serving' = Nothing \/ About(serving') \subseteq About(q)
      <4>1. serving' \in Request \cup {Nothing}
        BY <1>0 DEF RegistryTypeOK
      <4> QED  BY <3>1, <4>1, AboutRequest
    <3>5. LeftAlone'
      <4> SUFFICES ASSUME NEW j \in DOMAIN handlers', Edits(handlers'[j].request),
                          serving' # Nothing
                   PROVE  About(serving') \cap About(handlers'[j].request) = {}
        BY DEF LeftAlone
      <4>1. from[j] # i
        BY <1>3, <2>1, <2>9
      <4>2. About(handlers'[j].request) \cap About(q) = {}
        BY <2>7, <4>1
      <4>3. CASE UNCHANGED serving
        BY <2>0, <2>5, <4>3 DEF LeftAlone
      <4> QED  BY <3>4, <4>2, <4>3
    <3>6. ASSUME NEW j \in DOMAIN handlers', NEW p, p = handlers'[j].request,
                 NEW more, more = handlers'[j].todo,
                 NEW seen, seen = handlers'[j].found
          PROVE  IF Edits(p) THEN Stage(p, more, seen)' ELSE Plain(p, more)
      <4>1. CASE from[j] = i
        <5>1. p = q /\ more = left
          BY <1>3, <2>1, <3>6, <4>1
        <5> QED  BY <2>9, <3>1, <5>1
      <4>2. CASE from[j] # i
        <5>1. /\ from[j] \in DOMAIN handlers
              /\ p = handlers[from[j]].request /\ more = handlers[from[j]].todo
              /\ seen = handlers[from[j]].found
          BY <1>3, <3>6, <4>2
        <5>2. IF Edits(p) THEN Stage(p, more, seen) ELSE Plain(p, more)
          BY <2>0, <5>1 DEF Staged
        <5>3. CASE Edits(p)
          <6>1. p \in Call
            BY <2>7, <3>6, <4>2
          <6>2. p.user \in User
            BY <5>3, <6>1, EditFields
          <6> QED  BY <1>1, <3>2, <5>2, <5>3, <6>1, <6>2, StageFrame
        <5> QED  BY <5>2, <5>3
      <4> QED  BY <4>1, <4>2
    <3>7. Staged'
      BY <3>6 DEF Staged
    <3> QED  BY <2>6, <3>3, <3>5, <3>7 DEF UsersInv
  <2> QED  BY <2>8, <2>9
<1> QED  BY <1>4, <1>5

\* The stages of a request that is received in an orderly way.
LEMMA NewStage ==
    ASSUME NEW q \in Call, q.op # "ws", Orderly(q), AtOne, NEW found,
           found = IF FromDevice(q) THEN <<topic[q.id]>> ELSE <<>>,
           FromDevice(q) => topic[q.id] # NoObject
    PROVE  IF Edits(q) THEN Stage(q, StepsOf(q), found) ELSE Plain(q, StepsOf(q))
<1>1. q.op \in {"createUser", "addUser"} => Nowhere(q.user)
  BY DEF Orderly, Nowhere
<1>2. q.op = "moveUser" => OnlyAt(q.user, q.id)
  <2> SUFFICES ASSUME q.op = "moveUser", NEW id \in NodeID, q.user \in usersAt(id)
               PROVE  id = q.id
    BY DEF OnlyAt
  <2>1. q.user \in usersAt(q.id)
    BY DEF Orderly
  <2>2. q.id \in NodeID /\ q.user \in User
    BY EditFields DEF Edits
  <2> QED  BY <2>1, <2>2 DEF AtOne
<1>3. CASE q.op = "createUser"
  <2>1. StepsOf(q) = <<find(q.id), add(1, q.user),
                       publish("CREATE_USER", q.id, q.user)>>
    BY <1>3 DEF StepsOf, CreateUser
  <2>2. found = <<>> /\ Edits(q)
    BY <1>3 DEF FromDevice, Edits
  <2> QED  BY <1>1, <1>3, <2>1, <2>2 DEF Stage
<1>4. CASE q.op = "addUser"
  <2>1. StepsOf(q) = <<add(1, q.user), publish("CREATE_USER", q.id, q.user)>>
    BY <1>4 DEF StepsOf, handleMQTTCommand
  <2>2. Knows(found, <<q.id>>) /\ Edits(q)
    <3>1. found = <<Nodes[q.id]>> /\ Nodes[q.id] # NoObject
      BY <1>4 DEF FromDevice, Orderly
    <3> QED  BY <1>4, <3>1, KnowsOne DEF Edits
  <2> QED  BY <1>1, <1>4, <2>1, <2>2 DEF Stage
<1>5. CASE q.op = "deleteUser"
  <2>1. StepsOf(q) = <<find(q.id), remove(1, q.user),
                       publish("DELETE_USER", q.id, q.user)>>
    BY <1>5 DEF StepsOf, DeleteUser
  <2>2. found = <<>> /\ Edits(q)
    BY <1>5 DEF FromDevice, Edits
  <2> QED  BY <1>5, <2>1, <2>2 DEF Stage
<1>6. CASE q.op = "removeUser"
  <2>1. StepsOf(q) = <<remove(1, q.user), publish("DELETE_USER", q.id, q.user)>>
    BY <1>6 DEF StepsOf, handleMQTTCommand
  <2>2. Knows(found, <<q.id>>) /\ Edits(q)
    <3>1. found = <<Nodes[q.id]>> /\ Nodes[q.id] # NoObject
      BY <1>6 DEF FromDevice, Orderly
    <3> QED  BY <1>6, <3>1, KnowsOne DEF Edits
  <2> QED  BY <1>6, <2>1, <2>2 DEF Stage
<1>7. CASE q.op = "moveUser"
  <2>1. StepsOf(q) = <<find(q.id), find(q.other), remove(1, q.user),
                       add(2, q.user), publish("DELETE_USER", q.id, q.user),
                       publish("CREATE_USER", q.other, q.user)>>
    BY <1>7 DEF StepsOf, MoveUser
  <2>2. found = <<>> /\ Edits(q)
    BY <1>7 DEF FromDevice, Edits
  <2> QED  BY <1>2, <1>7, <2>1, <2>2 DEF Stage
<1>8. CASE q.op \in {"sendMessage", "sendUserMessage", "moveNode", "command"}
  <2>1. \/ StepsOf(q) = <<find(q.id), send(q.id)>>
        \/ StepsOf(q) = <<find(q.id), publish("MOVED_NODE", q.id, NoUser)>>
        \/ StepsOf(q) = <<publish("COMMAND_RECEIVED", q.id, NoUser)>>
    BY <1>8 DEF StepsOf, SendMessageHandler, SendUserMessage, MoveNodeHandler,
                commandHandler
  <2>2. \A k \in DOMAIN StepsOf(q) :
            \/ StepsOf(q)[k].do \in {"find", "send"}
            \/ /\ StepsOf(q)[k].do = "publish"
               /\ StepsOf(q)[k].event.type \in {"MOVED_NODE", "COMMAND_RECEIVED"}
    BY <2>1 DEF find, send, publish
  <2>3. ~Creates(q) /\ ~Removes(q) /\ ~Edits(q)
    BY <1>8 DEF Creates, Removes, Edits
  <2> QED  BY <2>2, <2>3 DEF Plain
<1>9. CASE Creates(q)
  <2>1. StepsOf(q) = <<join(q.node), publish("NODE_JOINED", IDOf[q.node], NoUser)>>
    BY <1>9 DEF Creates, StepsOf, CreateNodeHandler, ProcessMqttNodeMessage
  <2> QED  BY <1>9, <2>1 DEF Plain, Creates, Edits
<1>10. CASE Removes(q)
  <2>1. StepsOf(q) = <<leave(q.id), publish("NODE_LEFT", q.id, NoUser)>>
    BY <1>10 DEF Removes, StepsOf, RemoveNodeHandler, ProcessMqttNodeMessage
  <2> QED  BY <1>10, <2>1 DEF Plain, Removes, Edits
<1> QED
  BY <1>3, <1>4, <1>5, <1>6, <1>7, <1>8, <1>9, <1>10, CallFields DEF Creates, Removes

LEMMA ReceiveUsers ==
    ASSUME ProgramsInv, UsersInv, Receive, run = "off", UNCHANGED run
    PROVE  UsersInv'
<1>1. PICK q : q = Head(session)
  OBVIOUS
<1>2. q \in Call /\ q.op # "ws"
  <2>1. session \in Seq(Call) /\ session # <<>>
    BY DEF ProgramsInv, TypeOK, ServerTypeOK, Receive, Call
  <2> QED  BY <1>1, <2>1 DEF Receive
<1>3. PICK found : found = IF FromDevice(q) THEN <<topic[q.id]>> ELSE <<>>
  OBVIOUS
<1>4. PICK steps : steps = StepsOf(q)
  OBVIOUS
<1>5. /\ handlers' = Append(handlers, [request |-> q, todo |-> steps, found |-> found])
      /\ FromDevice(q) => topic[q.id] # NoObject
      /\ raced' = (raced \/ ~Orderly(q))
      /\ UNCHANGED <<Nodes, goroutine, serving, connectedUsers>>
  BY <1>1, <1>3, <1>4 DEF Receive, registry
<1>6. PICK n : n = Len(handlers) + 1
  OBVIOUS
<1>7. /\ DOMAIN handlers' = DOMAIN handlers \cup {n} /\ n \notin DOMAIN handlers
      /\ \A j \in DOMAIN handlers : handlers'[j] = handlers[j]
      /\ handlers'[n] = [request |-> q, todo |-> steps, found |-> found]
  <2>1. handlers \in Seq(Handler)
    BY DEF ProgramsInv, TypeOK, ServerTypeOK
  <2> QED  BY <1>5, <1>6, <2>1
<1>8. CASE raced'
  BY <1>8 DEF UsersInv
<1>9. CASE ~raced'
  <2>1. Orderly(q) /\ Apart /\ LeftAlone /\ Staged /\ NewIsEmpty /\ AtOne
    BY <1>5, <1>9 DEF UsersInv
  <2>2. \A id \in NodeID : usersAt(id)' = usersAt(id)
    BY <1>5 DEF usersAt
  <2>3. AtOne' /\ NewIsEmpty'
    BY <1>5, <2>1, <2>2 DEF AtOne, NewIsEmpty
  <2>4. \A j \in DOMAIN handlers :
            /\ About(handlers[j].request) \cap About(q) = {}
            /\ UserOf(handlers[j].request) \cap UserOf(q) = {}
    BY <2>1 DEF Orderly
  <2>5. Apart'
    BY <1>7, <2>1, <2>4 DEF Apart
  <2>6. LeftAlone'
    <3>1. serving # Nothing => About(serving) \cap About(q) = {}
      BY <2>1 DEF Orderly
    <3> QED  BY <1>5, <1>7, <2>1, <3>1 DEF LeftAlone
  <2>7. ASSUME NEW j \in DOMAIN handlers', NEW p, p = handlers'[j].request,
               NEW more, more = handlers'[j].todo,
               NEW seen, seen = handlers'[j].found
        PROVE  IF Edits(p) THEN Stage(p, more, seen)' ELSE Plain(p, more)
    <3>1. p \in Call
      <4>1. CASE j = n
        BY <1>2, <1>7, <2>7, <4>1
      <4>2. CASE j \in DOMAIN handlers
        BY <1>7, <2>7, <4>2, HandlerFields DEF ProgramsInv, TypeOK
      <4> QED  BY <1>7, <4>1, <4>2
    <3>2. IF Edits(p) THEN Stage(p, more, seen) ELSE Plain(p, more)
      <4>1. CASE j = n
        <5>1. p = q /\ more = steps /\ seen = found
          BY <1>7, <2>7, <4>1
        <5> QED  BY <1>2, <1>3, <1>4, <1>5, <2>1, <5>1, NewStage
      <4>2. CASE j \in DOMAIN handlers
        BY <1>7, <2>1, <2>7, <4>2 DEF Staged
      <4> QED  BY <1>7, <4>1, <4>2
    <3>3. CASE Edits(p)
      <4>1. p.user \in User
        BY <3>1, <3>3, EditFields
      <4> QED  BY <1>5, <2>2, <3>1, <3>2, <3>3, StageFrame
    <3> QED  BY <3>2, <3>3
  <2>8. Staged'
    BY <2>7 DEF Staged
  <2> QED  BY <2>3, <2>5, <2>6, <2>8 DEF UsersInv
<1> QED  BY <1>8, <1>9

\* A step that takes nobody anywhere, and changes no node but those of the
\* request that the network goroutine serves.
LEMMA UsersFrame ==
    ASSUME ServerTypeOK, UsersInv, UNCHANGED <<handlers, connectedUsers, raced, run>>,
           serving' \in {serving, Nothing},
           \A id \in NodeID : Nodes'[id] = Nodes[id]
               \/ (serving # Nothing /\ id \in About(serving)),
           \A id \in NodeID : usersAt(id)' \subseteq usersAt(id),
           \A o \in Object : goroutine'[o] = "none" => goroutine[o] = "none"
    PROVE  UsersInv'
<1>1. CASE raced
  BY <1>1 DEF UsersInv
<1>2. CASE ~raced
  <2>1. Apart /\ LeftAlone /\ Staged /\ NewIsEmpty /\ AtOne
    BY <1>2 DEF UsersInv
  <2>2. Apart' /\ LeftAlone' /\ NewIsEmpty' /\ AtOne'
    <3>1. Apart'
      BY <2>1 DEF Apart
    <3>2. LeftAlone'
      BY <2>1 DEF LeftAlone
    <3>3. NewIsEmpty'
      BY <2>1 DEF NewIsEmpty
    <3>4. AtOne'
      BY <2>1 DEF AtOne
    <3> QED  BY <3>1, <3>2, <3>3, <3>4
  <2>3. ASSUME NEW j \in DOMAIN handlers, NEW p, p = handlers[j].request,
               NEW more, more = handlers[j].todo,
               NEW seen, seen = handlers[j].found
        PROVE  IF Edits(p) THEN Stage(p, more, seen)' ELSE Plain(p, more)
    <3>1. p \in Call
      BY <2>3, HandlerFields
    <3>2. IF Edits(p) THEN Stage(p, more, seen) ELSE Plain(p, more)
      BY <2>1, <2>3 DEF Staged
    <3>3. CASE Edits(p)
      <4>1. /\ p.user \in User /\ p.id \in NodeID /\ p.id \in About(p)
            /\ p.op = "moveUser" => p.other \in NodeID /\ p.other \in About(p)
        BY <3>1, <3>3, EditFields
      <4>2. serving # Nothing => About(serving) \cap About(p) = {}
        BY <2>1, <2>3, <3>3 DEF LeftAlone
      <4>3. Nodes'[p.id] = Nodes[p.id]
            /\ (p.op = "moveUser" => Nodes'[p.other] = Nodes[p.other])
        BY <4>1, <4>2
      <4> QED  BY <3>1, <3>2, <3>3, <4>3, StageFrame
    <3> QED  BY <3>2, <3>3
  <2>4. Staged'
    BY <2>3 DEF Staged
  <2> QED  BY <2>2, <2>4 DEF UsersInv
<1> QED  BY <1>1, <1>2

LEMMA NetworkUsers ==
    ASSUME ProgramsInv, UsersInv, NetworkGoroutine, UNCHANGED <<runner, server>>
    PROVE  UsersInv'
<1>0. /\ RegistryTypeOK /\ ServerTypeOK /\ UNCHANGED <<handlers, connectedUsers, raced, run>>
      /\ connectedUsers \in [Object -> SUBSET User]
  BY DEF ProgramsInv, TypeOK, runner, server, ServerTypeOK
<1>1. CASE addNode
  <2>1. /\ serving.op = "join" /\ serving \in Request /\ serving # Nothing
        /\ serving.node \in Object /\ IDOf[serving.node] \in NodeID
    <3>1. serving.op = "join" /\ serving.node \in Object /\ IDOf[serving.node] \in NodeID
      BY <1>0, <1>1, ServedObject DEF addNode
    <3> QED  BY <1>0, <3>1 DEF RegistryTypeOK, Nothing
  <2>2. About(serving) = {IDOf[serving.node]}
    BY <2>1, AboutRequest
  <2>3. /\ Nodes' = [Nodes EXCEPT ![IDOf[serving.node]] = serving.node]
        /\ serving' = Nothing
        /\ goroutine' = [goroutine EXCEPT ![serving.node] = "started"]
    BY <1>1 DEF addNode
  <2>4. goroutine[serving.node] = "none"
    BY <2>1 DEF ProgramsInv, FleetInv
  <2>5. \A id \in NodeID : Nodes'[id] = Nodes[id] \/ id \in About(serving)
    BY <2>2, <2>3 DEF RegistryTypeOK
  <2>6. \A o \in Object : goroutine'[o] = "none" => goroutine[o] = "none"
    BY <1>0, <2>1, <2>3 DEF RegistryTypeOK
  <2>7. CASE ~raced
    <3>1. connectedUsers[serving.node] = {}
      BY <2>1, <2>4, <2>7 DEF UsersInv, NewIsEmpty
    <3>2. ASSUME NEW id \in NodeID PROVE usersAt(id)' \subseteq usersAt(id)
      <4>1. CASE id = IDOf[serving.node]
        <5>1. Nodes'[id] = serving.node
          BY <1>0, <2>1, <2>3, <4>1 DEF RegistryTypeOK
        <5> QED  BY <1>0, <3>1, <5>1 DEF usersAt
      <4>2. CASE id # IDOf[serving.node]
        <5>1. Nodes'[id] = Nodes[id]
          BY <1>0, <2>1, <2>3, <4>2 DEF RegistryTypeOK
        <5> QED  BY <1>0, <5>1 DEF usersAt
      <4> QED  BY <4>1, <4>2
    <3> QED  BY <1>0, <2>1, <2>3, <2>5, <2>6, <3>2, UsersFrame
  <2>8. CASE raced
    BY <1>0, <2>8 DEF UsersInv
  <2> QED  BY <2>7, <2>8
<1>2. CASE removeNode
  <2>1. /\ serving.id \in NodeID /\ serving \in Request /\ serving # Nothing
        /\ serving.op = "leave"
    <3>1. serving.op = "leave" /\ serving.id \in NodeID
      BY <1>0, <1>2, ServedIdentifier DEF removeNode
    <3> QED  BY <1>0, <3>1 DEF RegistryTypeOK, Nothing
  <2>2. About(serving) = {serving.id}
    BY <2>1, AboutRequest
  <2>3. /\ Nodes' = Nodes \/ Nodes' = [Nodes EXCEPT ![serving.id] = NoObject]
        /\ serving' = Nothing /\ UNCHANGED goroutine
    BY <1>2 DEF removeNode
  <2>4. ASSUME NEW id \in NodeID
        PROVE  /\ Nodes'[id] = Nodes[id] \/ id \in About(serving)
               /\ usersAt(id)' \subseteq usersAt(id)
    <3>1. Nodes'[id] = Nodes[id] \/ (id = serving.id /\ Nodes'[id] = NoObject)
      BY <1>0, <2>3 DEF RegistryTypeOK
    <3> QED  BY <1>0, <2>2, <3>1 DEF usersAt
  <2> QED  BY <1>0, <2>1, <2>3, <2>4, UsersFrame
<1> QED  BY <1>1, <1>2 DEF NetworkGoroutine

LEMMA QuietUsers ==
    ASSUME ProgramsInv, UsersInv,
           UNCHANGED <<serving, Nodes, handlers, connectedUsers, raced, run>>,
           \A o \in Object : goroutine'[o] = "none" => goroutine[o] = "none"
    PROVE  UsersInv'
<1>1. \A id \in NodeID : usersAt(id)' \subseteq usersAt(id)
  BY DEF usersAt
<1> QED  BY <1>1, UsersFrame DEF ProgramsInv, TypeOK

LEMMA BatchUsers ==
    ASSUME ProgramsInv, ProgramsInv', UsersInv, run # "off", UNCHANGED server
    PROVE  UsersInv'
<1>1. handlers' = <<>> /\ connectedUsers' = [o \in Object |-> {}]
  BY DEF ProgramsInv, FleetInv, UsersInv, server
<1>2. \A id \in NodeID : usersAt(id)' = {}
  <2>1. \A id \in NodeID : Nodes'[id] \in Object \cup {NoObject}
    BY DEF ProgramsInv, TypeOK, RegistryTypeOK
  <2> QED  BY <1>1, <2>1 DEF usersAt
<1>3. Apart' /\ LeftAlone' /\ Staged'
  BY <1>1 DEF Apart, LeftAlone, Staged
<1>4. NewIsEmpty' /\ AtOne'
  BY <1>1, <1>2 DEF NewIsEmpty, AtOne
<1> QED  BY <1>1, <1>3, <1>4 DEF UsersInv

LEMMA InitUsers ==
    ASSUME Init
    PROVE  UsersInv
<1>1. handlers = <<>> /\ connectedUsers = [o \in Object |-> {}]
      /\ Nodes = [id \in NodeID |-> NoObject]
  BY DEF Init, NoNodes
<1>2. \A id \in NodeID : usersAt(id) = {}
  BY <1>1 DEF usersAt
<1>3. Apart /\ LeftAlone /\ Staged
  BY <1>1 DEF Apart, LeftAlone, Staged
<1>4. NewIsEmpty /\ AtOne
  BY <1>1, <1>2 DEF NewIsEmpty, AtOne
<1> QED  BY <1>1, <1>3, <1>4 DEF UsersInv

LEMMA StepUsers ==
    ASSUME ProgramsInv, ProgramsInv', UsersInv, [Next]_vars
    PROVE  UsersInv'
<1>1. CASE Shared(NetworkGoroutine)
  BY <1>1, NetworkUsers DEF Shared
<1>2. CASE \E o \in Object : Shared(NodeGoroutine(o))
  <2>1. PICK o \in Object : NodeGoroutine(o) /\ UNCHANGED <<runner, server>>
    BY <1>2 DEF Shared
  <2>2. UNCHANGED <<serving, Nodes, handlers, connectedUsers, raced, run>>
    BY <2>1 DEF NodeGoroutine, RunNode, StopNode, runner, server
  <2>3. \A x \in Object : goroutine'[x] = "none" => goroutine[x] = "none"
    <3>1. goroutine \in [Object -> {"none", "started", "running", "stopped"}]
      BY DEF ProgramsInv, TypeOK, RegistryTypeOK
    <3> QED  BY <2>1, <3>1 DEF NodeGoroutine, RunNode, StopNode
  <2> QED  BY <2>2, <2>3, QuietUsers
<1>3. CASE Batch(RunnerNext)
  BY <1>3, BatchUsers DEF Batch
<1>4. CASE Server(ServerNext)
  <2>1. ServerNext /\ run = "off" /\ UNCHANGED run
    BY <1>4 DEF Server, runner
  <2>2. CASE Receive
    BY <2>1, <2>2, ReceiveUsers
  <2>3. CASE ConnectSocket
    <3>1. UNCHANGED <<serving, Nodes, handlers, connectedUsers, raced, goroutine>>
      BY <2>3 DEF ConnectSocket, registry
    <3> QED  BY <2>1, <3>1, QuietUsers
  <2>4. ASSUME NEW i, Handle(i) PROVE UsersInv'
    BY <2>1, <2>4, HandleUsers
  <2>5. ASSUME NEW i, WriteEvent(i) PROVE UsersInv'
    <3>1. UNCHANGED <<serving, Nodes, handlers, connectedUsers, raced, goroutine>>
      BY <2>5 DEF WriteEvent, registry
    <3> QED  BY <2>1, <3>1, QuietUsers
  <2> QED  BY <2>1, <2>2, <2>3, <2>4, <2>5 DEF ServerNext
<1>5. CASE UNCHANGED vars
  <2>1. UNCHANGED <<serving, Nodes, handlers, connectedUsers, raced, run, goroutine>>
    BY <1>5 DEF vars, registry, runner, server
  <2> QED  BY <2>1, QuietUsers
<1> QED  BY <1>1, <1>2, <1>3, <1>4, <1>5 DEF Next

\* The handlers of users and nodes (commands.go, mqtt_commands.go): as long as
\* requests about the same nodes or the same user do not overlap, no interleaving
\* of any number of them leaves a user at two nodes of the map.
THEOREM NobodyIsAtTwoNodes == Spec => []UserAtOneNode
<1>1. UsersInv => UserAtOneNode
  <2> SUFFICES ASSUME AtOne, NEW user \in User
               PROVE  Cardinality({id \in NodeID : user \in usersAt(id)}) <= 1
    BY DEF UsersInv, UserAtOneNode
  <2>1. CASE Nowhere(user)
    <3>1. {id \in NodeID : user \in usersAt(id)} = {}
      BY <2>1 DEF Nowhere
    <3> QED  BY <3>1, FS_EmptySet
  <2>2. CASE ~Nowhere(user)
    <3>1. PICK at \in NodeID : user \in usersAt(at)
      BY <2>2 DEF Nowhere
    <3>2. {id \in NodeID : user \in usersAt(id)} = {at}
      BY <3>1 DEF AtOne
    <3> QED  BY <3>2, FS_Singleton
  <2> QED  BY <2>1, <2>2
<1> QED  BY <1>1, InitUsers, StepUsers, ProgramsInvariant, PTL DEF Spec

=============================================================================
