--------------------------- MODULE CommandServer ---------------------------
(***************************************************************************)
(* The server (cmd/simulator/main.go): the HTTP handlers                   *)
(* (internal/commands/commands.go) and the web sockets                     *)
(* (internal/server/websocket.go), the registration of physical nodes and  *)
(* the commands of their devices (internal/mqtt/mqtt_commands.go,          *)
(* internal/node/physicalNode.go).  A request is handled in a goroutine of *)
(* its own, the messages of the broker one after the other.                *)
(***************************************************************************)
EXTENDS NodeRegistry, SequencesExt

CONSTANTS
    Session,     \* sequences of requests that front ends and devices make
    MaxHandlers  \* how many are handled at a time

HTTPCall ==
    [op : {"createNode"}, node : Object \ Physical]
    \cup [op : {"removeNode", "sendMessage", "moveNode", "command"}, id : NodeID]
    \cup [op : {"createUser", "deleteUser", "sendUserMessage"},
          id : NodeID, user : User]
    \cup [op : {"moveUser"}, id : NodeID, user : User, other : NodeID]
    \cup [op : {"ws"}]

BrokerMessage ==
    [op : {"register"}, node : Physical]
    \cup [op : {"remove"}, id : NodeID]
    \cup [op : {"addUser", "removeUser"}, id : NodeID, user : User]

\* A request creates a new object (and a user whom no other one creates).
ASSUME ServerAssumption ==
    /\ Session \subseteq Seq(HTTPCall \cup BrokerMessage)
    /\ \A s \in Session : \A i, j \in DOMAIN s :
          "node" \in DOMAIN s[i] /\ "node" \in DOMAIN s[j] =>
              (s[i].node = s[j].node => i = j)
    /\ MaxHandlers \in Nat

VARIABLES
    session,        \* the requests yet to come
    handlers,       \* those being handled: the request, what is left to do,
                    \* and the node objects found so far
    connectedUsers, \* the users at each node object
    sockets,        \* whether the front end of each subscriber is there
    shownNodes,     \* what the first front end shows
    shownUsers,
    raced           \* a request came that was not Orderly

server == <<session, handlers, connectedUsers, sockets, shownNodes, shownUsers,
            raced>>

----------------------------------------------------------------------------
(* What each handler does, step by step                                    *)

join(o)           == [do |-> "join", node |-> o]
leave(id)         == [do |-> "leave", id |-> id]
find(id)          == [do |-> "find", id |-> id]
add(k, user)      == [do |-> "add", at |-> k, user |-> user]
remove(k, user)   == [do |-> "remove", at |-> k, user |-> user]
send(id)          == [do |-> "send", id |-> id]
publish(type, id, user) ==
    [do |-> "publish", event |-> [type |-> type, id |-> id, user |-> user]]

Step ==
    [do : {"join"}, node : Object]
    \cup [do : {"leave", "find", "send"}, id : NodeID]
    \cup [do : {"add", "remove"}, at : 1 .. 2, user : User]
    \cup [do : {"publish"}, event : Event]

CreateNodeHandler(q) ==
    <<join(q.node), publish("NODE_JOINED", IDOf[q.node], NoUser)>>

RemoveNodeHandler(q) == <<leave(q.id), publish("NODE_LEFT", q.id, NoUser)>>

SendMessageHandler(q) == <<find(q.id), send(q.id)>>

MoveNodeHandler(q) == <<find(q.id), publish("MOVED_NODE", q.id, NoUser)>>

CreateUser(q) ==
    <<find(q.id), add(1, q.user), publish("CREATE_USER", q.id, q.user)>>

DeleteUser(q) ==
    <<find(q.id), remove(1, q.user), publish("DELETE_USER", q.id, q.user)>>

SendUserMessage(q) == <<find(q.id), send(q.id)>>

\* A mutant: add first.
MutantAddFirst(q) ==
    <<find(q.id), find(q.other), add(2, q.user), remove(1, q.user),
      publish("DELETE_USER", q.id, q.user),
      publish("CREATE_USER", q.other, q.user)>>

\* A mutant: the second event names the first node.
MutantShownAtOldNode(q) ==
    <<find(q.id), find(q.other), remove(1, q.user), add(2, q.user),
      publish("DELETE_USER", q.id, q.user),
      publish("CREATE_USER", q.id, q.user)>>

MoveUser(q) ==
    <<find(q.id), find(q.other), remove(1, q.user), add(2, q.user),
      publish("DELETE_USER", q.id, q.user),
      publish("CREATE_USER", q.other, q.user)>>

commandHandler(q) == <<publish("COMMAND_RECEIVED", q.id, NoUser)>>

ProcessMqttNodeMessage(q) ==
    IF q.op = "register"
    THEN <<join(q.node), publish("NODE_JOINED", IDOf[q.node], NoUser)>>
    ELSE <<leave(q.id), publish("NODE_LEFT", q.id, NoUser)>>

\* A device's command, at the object that listens to its topic.
handleMQTTCommand(q) ==
    IF q.op = "addUser"
    THEN <<add(1, q.user), publish("CREATE_USER", q.id, q.user)>>
    ELSE <<remove(1, q.user), publish("DELETE_USER", q.id, q.user)>>

StepsOf(q) ==
    CASE q.op = "createNode"            -> CreateNodeHandler(q)
      [] q.op = "removeNode"            -> RemoveNodeHandler(q)
      [] q.op = "sendMessage"           -> SendMessageHandler(q)
      [] q.op = "moveNode"              -> MoveNodeHandler(q)
      [] q.op = "createUser"            -> CreateUser(q)
      [] q.op = "deleteUser"            -> DeleteUser(q)
      [] q.op = "sendUserMessage"       -> SendUserMessage(q)
      [] q.op = "moveUser"              -> MoveUser(q)
      [] q.op = "command"               -> commandHandler(q)
      [] q.op \in {"register", "remove"} -> ProcessMqttNodeMessage(q)
      [] q.op \in {"addUser", "removeUser"} -> handleMQTTCommand(q)

Handler ==
    [request : HTTPCall \cup BrokerMessage, todo : Seq(Step) \ {<<>>},
     found : Seq(Object)]

----------------------------------------------------------------------------
(* Requests come and are handled                                           *)

FromDevice(q) == q.op \in {"addUser", "removeUser"}

About(q) ==
    IF "node" \in DOMAIN q THEN {IDOf[q.node]}
    ELSE {q.id} \cup (IF "other" \in DOMAIN q THEN {q.other} ELSE {})

usersAt(id) == IF Nodes[id] = NoObject THEN {} ELSE connectedUsers[Nodes[id]]

UserOf(q) == IF "user" \in DOMAIN q THEN {q.user} ELSE {}

\* A request is about nodes and a user that nothing else is being done to (a user
\* who is being moved is at no node for a while, and a device may report that
\* very user); it moves a user who is there, or adds one who is nowhere; and a
\* device's command reaches the node that represents the device.
Orderly(q) ==
    /\ \A i \in DOMAIN handlers :
          /\ About(handlers[i].request) \cap About(q) = {}
          /\ UserOf(handlers[i].request) \cap UserOf(q) = {}
    /\ serving # Nothing => About(serving) \cap About(q) = {}
    /\ q.op = "moveUser" => q.user \in usersAt(q.id) /\ q.other \in members
    /\ q.op \in {"createUser", "addUser"} =>
          \A id \in NodeID : q.user \notin usersAt(id)
    /\ FromDevice(q) => topic[q.id] = Nodes[q.id]

Receive ==
    /\ process = "running"
    /\ session # <<>> /\ Head(session).op # "ws"
    /\ Len(handlers) < MaxHandlers
    /\ LET q == Head(session) IN
       /\ q \in BrokerMessage =>
              \A i \in DOMAIN handlers : handlers[i].request \notin BrokerMessage
       /\ FromDevice(q) => topic[q.id] # NoObject
       /\ handlers' = Append(handlers,
             [request |-> q, todo |-> StepsOf(q),
              found |-> IF FromDevice(q) THEN <<topic[q.id]>> ELSE <<>>])
       /\ raced' = (raced \/ ~Orderly(q))
    /\ session' = Tail(session)
    /\ UNCHANGED <<process, registry, iterating, bus, connectedUsers, sockets,
                   shownNodes, shownUsers>>

\* What is left of the handler after a step, or after an error.
Advance(i, found, todo) ==
    handlers' = IF todo = <<>> THEN RemoveAt(handlers, i)
                ELSE [handlers EXCEPT ![i].found = found, ![i].todo = todo]

\* Join and Leave wait for the network goroutine; Publish waits for nobody.
Handle(i) ==
    LET h    == handlers[i]
        step == Head(h.todo)
        object == h.found[step.at]
    IN
    /\ process = "running"
    /\ i \in DOMAIN handlers
    /\ IF step.do = "find" /\ Nodes[step.id] = NoObject
       THEN Advance(i, <<>>, <<>>)
       ELSE Advance(i, IF step.do = "find"
                       THEN Append(h.found, Nodes[step.id]) ELSE h.found,
                    Tail(h.todo))
    /\ CASE step.do = "join"  -> Ask([op |-> "join", node |-> step.node])
         [] step.do = "leave" -> Ask([op |-> "leave", id |-> step.id])
         [] OTHER             -> UNCHANGED serving
    /\ connectedUsers' =
          CASE step.do = "add"    -> [connectedUsers EXCEPT ![object] = @ \cup {step.user}]
            [] step.do = "remove" -> [connectedUsers EXCEPT ![object] = @ \ {step.user}]
            [] OTHER              -> connectedUsers
    /\ CASE step.do = "publish" -> Publish(step.event)
         [] step.do = "send"    -> \/ UNCHANGED bus
                                   \/ Publish([type |-> "MESSAGE_SENT",
                                               id |-> step.id, user |-> NoUser])
         [] OTHER               -> UNCHANGED bus
    /\ UNCHANGED <<process, Nodes, goroutine, told, topic, iterating, session,
                   sockets, shownNodes, shownUsers, raced>>

----------------------------------------------------------------------------
(* Web sockets                                                             *)

\* wsHandler: a request to open one, which becomes a subscriber.
ConnectSocket ==
    /\ process = "running"
    /\ session # <<>> /\ Head(session).op = "ws"
    /\ session' = Tail(session)
    /\ Subscribe
    /\ sockets' = Append(sockets, TRUE)
    /\ UNCHANGED <<process, registry, iterating, handlers,
                   connectedUsers, shownNodes, shownUsers, raced>>

\* A front end adds and removes the nodes and users it is told of.
Show(e) ==
    /\ shownNodes' =
          CASE e.type = "NODE_JOINED" -> shownNodes \cup {e.id}
            [] e.type = "NODE_LEFT"   -> shownNodes \ {e.id}
            [] OTHER                  -> shownNodes
    /\ shownUsers' =
          CASE e.type \in {"NODE_JOINED", "NODE_LEFT"} ->
                  {s \in shownUsers : s[1] # e.id}
            [] e.type = "CREATE_USER" -> shownUsers \cup {<<e.id, e.user>>}
            [] e.type = "DELETE_USER" -> shownUsers \ {<<e.id, e.user>>}
            [] OTHER                  -> shownUsers

\* The loop of wsHandler.  When a write fails it ends, and its channel stays
\* among the subscribers.
WriteEvent(i) ==
    /\ process = "running"
    /\ i \in DOMAIN sockets
    /\ sockets[i]
    /\ TakeEvent(i)
    /\ \/ /\ IF i = 1 THEN Show(Head(channels[1]))
             ELSE UNCHANGED <<shownNodes, shownUsers>>
          /\ UNCHANGED sockets
       \/ /\ sockets' = [sockets EXCEPT ![i] = FALSE]
          /\ UNCHANGED <<shownNodes, shownUsers>>
    /\ UNCHANGED <<process, registry, iterating, session, handlers,
                   connectedUsers, raced>>

ServerNext ==
    \/ Receive \/ ConnectSocket
    \/ \E i \in 1 .. MaxHandlers : Handle(i)
    \/ \E i \in DOMAIN sockets : WriteEvent(i)

----------------------------------------------------------------------------
(* Properties                                                              *)

ServerTypeOK ==
    /\ session \in Seq(HTTPCall \cup BrokerMessage)
    /\ handlers \in Seq(Handler)
    /\ Len(handlers) <= MaxHandlers
    /\ connectedUsers \in [Object -> SUBSET User]
    /\ sockets \in Seq(BOOLEAN) /\ Len(sockets) <= Len(channels)
    /\ shownNodes \subseteq NodeID
    /\ shownUsers \subseteq NodeID \X (User \cup {NoUser})
    /\ raced \in BOOLEAN

\* Events are published before a join or a removal takes effect, and after the
\* users have changed.  Whatever the interleaving of requests about different
\* nodes, a front end that has missed no event shows, when all is done, the nodes
\* there are and the users at them.
FrontEndAgrees ==
    /\ handlers = <<>> /\ serving = Nothing /\ ~raced
    /\ sockets # <<>> /\ sockets[1] /\ channels[1] = <<>> /\ lost[1] = NoneLost
    => /\ shownNodes = members
       /\ shownUsers = {s \in NodeID \X User : s[2] \in usersAt(s[1])}

\* A user who is being moved is for a while at no node, and never at two.
UserAtOneNode ==
    ~raced => \A user \in User :
        Cardinality({id \in NodeID : user \in usersAt(id)}) <= 1

\* No node object goes on running that is neither the node of its identifier nor
\* told to stop, unless a node with the same identifier was registered on top.
NoOrphans ==
    \A o \in Object : goroutine[o] \in {"started", "running"} =>
        \/ Nodes[IDOf[o]] = o
        \/ o \in told
        \/ \E other \in Object \ {o} :
              IDOf[other] = IDOf[o] /\ goroutine[other] # "none"

\* However many front ends have gone away without unsubscribing, and however slow
\* the others read: every request is answered.
RequestsReturn == handlers # <<>> ~> handlers = <<>>

=============================================================================
