---------------------------- MODULE MeshDelivery ----------------------------
(***************************************************************************)
(* What the medium, the txWorkers and the channels between them promise a  *)
(* router, without saying how: nothing of time, carrier sense, collisions, *)
(* callbacks or the map of transmissions.                                  *)
(*                                                                         *)
(* A node's packets are transmitted in the order in which they were queued,*)
(* each one once.  A transmission may reach the nodes that were members    *)
(* and in range when it began, each at most once and only while in range,  *)
(* each at a time of its own; it may miss any of them.  What a node hears  *)
(* somebody created, and every node on the way had it before.              *)
(* A transmission may overtake another on its way to a node.               *)
(***************************************************************************)
EXTENDS Naturals, Sequences

CONSTANTS
    Node,
    PacketID,
    Place,      \* where nodes can be
    Near,       \* the pairs of places in range of each other
    Home,       \* where each node is at first
    Members,    \* the nodes that are members at first
    Capacity    \* the room in an inbox

VARIABLES
    place,
    members,
    known,      \* the packets each node has created or taken from its inbox
    outbox,     \* what each node is still to transmit
    underway,   \* the transmissions, with the nodes each may still reach
    inbox

vars == <<place, members, known, outbox, underway, inbox>>

Transmission == [packet : PacketID, sender : Node, to : SUBSET Node]

TypeOK ==
    /\ place \in [Node -> Place]
    /\ members \subseteq Node
    /\ known \in [Node -> SUBSET PacketID]
    /\ outbox \in [Node -> Seq(PacketID)]
    /\ underway \in Seq(Transmission)
    /\ inbox \in [Node -> Seq(PacketID)]

InReach(m, n) == <<place[m], place[n]>> \in Near

Init ==
    /\ place = Home
    /\ members = Members
    /\ known = [n \in Node |-> {}]
    /\ outbox = [n \in Node |-> <<>>]
    /\ underway = <<>>
    /\ inbox = [n \in Node |-> <<>>]

\* A router queues a packet: one that it creates, or one that it knows.
Create(n, p) ==
    /\ n \in members
    /\ known' = [known EXCEPT ![n] = @ \cup {p}]
    /\ outbox' = [outbox EXCEPT ![n] = Append(@, p)]
    /\ UNCHANGED <<place, members, underway, inbox>>

Forward(n, p) ==
    /\ p \in known[n]
    /\ outbox' = [outbox EXCEPT ![n] = Append(@, p)]
    /\ UNCHANGED <<place, members, known, underway, inbox>>

Transmit(n) ==
    /\ outbox[n] # <<>>
    /\ \E to \in SUBSET {m \in members \ {n} : InReach(n, m)} :
          underway' = Append(underway,
                [packet |-> Head(outbox[n]), sender |-> n, to |-> to])
    /\ outbox' = [outbox EXCEPT ![n] = Tail(@)]
    /\ UNCHANGED <<place, members, known, inbox>>

Deliver(i, m) ==
    /\ m \in underway[i].to
    /\ InReach(underway[i].sender, m)
    /\ Len(inbox[m]) < Capacity
    /\ inbox' = [inbox EXCEPT ![m] = Append(@, underway[i].packet)]
    /\ underway' = [underway EXCEPT ![i].to = @ \ {m}]
    /\ UNCHANGED <<place, members, known, outbox>>

Lose(i, m) ==
    /\ m \in underway[i].to
    /\ underway' = [underway EXCEPT ![i].to = @ \ {m}]
    /\ UNCHANGED <<place, members, known, outbox, inbox>>

\* The router's node takes what has arrived.
Take(n) ==
    /\ inbox[n] # <<>>
    /\ known' = [known EXCEPT ![n] = @ \cup {Head(inbox[n])}]
    /\ inbox' = [inbox EXCEPT ![n] = Tail(@)]
    /\ UNCHANGED <<place, members, outbox, underway>>

Join(n) ==
    /\ members' = members \cup {n}
    /\ UNCHANGED <<place, known, outbox, underway, inbox>>

Leave(n) ==
    /\ members' = members \ {n}
    /\ UNCHANGED <<place, known, outbox, underway, inbox>>

Move(n) ==
    /\ n \in members
    /\ \E to \in Place : place' = [place EXCEPT ![n] = to]
    /\ UNCHANGED <<members, known, outbox, underway, inbox>>

Next ==
    \/ \E n \in Node :
          \/ \E p \in PacketID : Create(n, p) \/ Forward(n, p)
          \/ Transmit(n) \/ Take(n) \/ Join(n) \/ Leave(n) \/ Move(n)
    \/ \E i \in DOMAIN underway, m \in Node : Deliver(i, m) \/ Lose(i, m)

Spec == Init /\ [][Next]_vars

=============================================================================
