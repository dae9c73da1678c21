---------------------------- MODULE NodeRegistry ----------------------------
(***************************************************************************)
(* What the batch program and the server share: the goroutine that owns    *)
(* the map of nodes (internal/network/network.go), the life of the         *)
(* goroutine of each node object (internal/node), and the event bus        *)
(* (internal/eventBus/eventBus.go).  What nodes do with packets is in the  *)
(* modules of the routers and of the medium.                               *)
(***************************************************************************)
EXTENDS Naturals, Sequences, FiniteSets

CONSTANTS
    Object,     \* the node objects that can be created
    Physical,   \* those that stand for a device behind the MQTT broker
    NodeID,
    IDOf,       \* the identifier of each object
    User,
    NoObject,
    NoUser,
    BusCap      \* the room in a subscriber's channel: 100 in the code

ASSUME RegistryAssumption ==
    /\ Physical \subseteq Object
    /\ IDOf \in [Object -> NodeID]
    /\ NoObject \notin Object
    /\ NoUser \notin User
    /\ BusCap \in Nat \ {0}

VARIABLES
    process,     \* running, exited, or how it died: panicked or fatal
    serving,     \* what the network goroutine has received and not yet done
    Nodes,       \* the map of nodes
    goroutine,   \* none, started, running or stopped: that of each object
    told,        \* the objects whose quit channel is closed
    topic,       \* the object that handles a device's commands
    iterating,   \* the traffic generator reads the map, without its lock
    channels,    \* those of the subscribers of the bus
    lost         \* how many events of each type each subscriber has missed

registry == <<serving, Nodes, goroutine, told, topic>>
bus      == <<channels, lost>>

EventType ==
    {"NODE_JOINED", "NODE_LEFT", "MOVED_NODE", "CREATE_USER", "DELETE_USER",
     "COMMAND_RECEIVED", "MESSAGE_SENT", "MESSAGE_DELIVERED"}

Event == [type : EventType, id : NodeID, user : User \cup {NoUser}]

Request == [op : {"join"}, node : Object] \cup [op : {"leave"}, id : NodeID]

Nothing == [op |-> "none"]

NoneLost == [k \in EventType |-> 0]

members == {id \in NodeID : Nodes[id] # NoObject}

----------------------------------------------------------------------------
(* The network goroutine                                                   *)

\* The channels of requests have no buffer: Join and Leave return when the
\* network goroutine has received the request, and before it acts on it.
Ask(request) ==
    /\ serving = Nothing
    /\ serving' = request

\* A write to a map that is being iterated may be noticed, which is fatal.
MapWritten == process' \in IF iterating THEN {"running", "fatal"} ELSE {"running"}

addNode ==
    /\ process = "running"
    /\ serving.op = "join"
    /\ Nodes' = [Nodes EXCEPT ![IDOf[serving.node]] = serving.node]
    /\ goroutine' = [goroutine EXCEPT ![serving.node] = "started"]
    /\ MapWritten
    /\ serving' = Nothing
    /\ UNCHANGED <<told, topic, iterating, bus>>

\* A mutant: the goroutine is not told.
MutantForgetNode ==
    /\ process = "running"
    /\ serving.op = "leave"
    /\ Nodes' = [Nodes EXCEPT ![serving.id] = NoObject]
    /\ MapWritten
    /\ serving' = Nothing
    /\ UNCHANGED <<goroutine, told, topic, iterating, bus>>

\* Closing the quit channel of an object a second time would be a panic.
removeNode ==
    /\ process = "running"
    /\ serving.op = "leave"
    /\ LET node == Nodes[serving.id] IN
       IF node = NoObject
       THEN UNCHANGED <<process, Nodes, told>>
       ELSE /\ told' = told \cup {node}
            /\ IF node \in told
               THEN process' = "panicked" /\ UNCHANGED Nodes
               ELSE /\ Nodes' = [Nodes EXCEPT ![serving.id] = NoObject]
                    /\ MapWritten
    /\ serving' = Nothing
    /\ UNCHANGED <<goroutine, topic, iterating, bus>>

----------------------------------------------------------------------------
(* The goroutine of a node                                                 *)

\* Run: a physical node subscribes to the topic of its device's commands,
\* instead of whoever did so before,
RunNode(o) ==
    /\ process = "running"
    /\ goroutine[o] = "started"
    /\ goroutine' = [goroutine EXCEPT ![o] = "running"]
    /\ topic' = IF o \in Physical THEN [topic EXCEPT ![IDOf[o]] = o] ELSE topic
    /\ UNCHANGED <<process, serving, Nodes, told, iterating, bus>>

\* and does not unsubscribe.
StopNode(o) ==
    /\ process = "running"
    /\ goroutine[o] = "running"
    /\ o \in told
    /\ goroutine' = [goroutine EXCEPT ![o] = "stopped"]
    /\ UNCHANGED <<process, serving, Nodes, told, topic, iterating, bus>>

----------------------------------------------------------------------------
(* The event bus                                                           *)

Subscribe ==
    /\ channels' = Append(channels, <<>>)
    /\ lost' = Append(lost, NoneLost)

\* A mutant: wait until every subscriber has room.
MutantBlockingPublish(e) ==
    /\ \A i \in DOMAIN channels : Len(channels[i]) < BusCap
    /\ channels' = [i \in DOMAIN channels |-> Append(channels[i], e)]
    /\ UNCHANGED lost

\* A mutant: the channels have no bound.
MutantUnboundedPublish(e) ==
    /\ channels' = [i \in DOMAIN channels |-> Append(channels[i], e)]
    /\ UNCHANGED lost

\* A subscriber whose channel is full misses the event.  (The subscribers get
\* it one after the other; nothing here compares two of them.)
Publish(e) ==
    LET full(i) == Len(channels[i]) = BusCap IN
    /\ channels' = [i \in DOMAIN channels |->
          IF full(i) THEN channels[i] ELSE Append(channels[i], e)]
    /\ lost' = [i \in DOMAIN lost |->
          IF full(i) THEN [lost[i] EXCEPT ![e.type] = @ + 1] ELSE lost[i]]

TakeEvent(i) ==
    /\ channels[i] # <<>>
    /\ channels' = [channels EXCEPT ![i] = Tail(@)]
    /\ UNCHANGED lost

----------------------------------------------------------------------------

NoNodes ==
    /\ process = "running"
    /\ serving = Nothing
    /\ Nodes = [id \in NodeID |-> NoObject]
    /\ goroutine = [o \in Object |-> "none"]
    /\ told = {}
    /\ topic = [id \in NodeID |-> NoObject]
    /\ iterating = FALSE

NetworkGoroutine == addNode \/ removeNode

NodeGoroutine(o) == RunNode(o) \/ StopNode(o)

\* A channel holds no more than it has room for.
BusTypeOK ==
    /\ channels \in Seq(Seq(Event))
    /\ \A i \in DOMAIN channels : Len(channels[i]) <= BusCap
    /\ lost \in Seq([EventType -> Nat])
    /\ Len(lost) = Len(channels)

RegistryTypeOK ==
    /\ process \in {"running", "exited", "panicked", "fatal"}
    /\ serving \in Request \cup {Nothing}
    /\ Nodes \in [NodeID -> Object \cup {NoObject}]
    /\ goroutine \in [Object -> {"none", "started", "running", "stopped"}]
    /\ told \subseteq Object
    /\ topic \in [NodeID -> Physical \cup {NoObject}]
    /\ iterating \in BOOLEAN
    /\ BusTypeOK

=============================================================================
