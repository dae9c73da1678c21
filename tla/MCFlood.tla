------------------------------- MODULE MCFlood -------------------------------
(* Small meshes for FloodRouter.                                           *)
EXTENDS FloodRouter, TLC

CONSTANTS a, b, c, u, v

\* A line a - b - c.
Line3 == a :> {b} @@ b :> {a, c} @@ c :> {b}

Call(name, n) == [call |-> name, node |-> n, wait |-> TRUE]
Connect(n, x) ==
    [call |-> "AddConnectedUser", node |-> n, user |-> x, wait |-> TRUE]
Data(from, to, fl) ==
    [call |-> "SendData", node |-> from, dest |-> to, flags |-> fl,
     wait |-> TRUE]
UserMsg(from, sender, to, fl) ==
    [call |-> "SendUserMessage", node |-> from, from |-> sender, to |-> to,
     flags |-> fl, wait |-> TRUE]
AnyTime(call) == [call EXCEPT !.wait = FALSE]

Up == <<Call("Join", a), Call("Join", b), Call("Join", c)>>

\* Two packets go out together; the node in the middle leaves, and its ticker
\* goes on; one node shouts while another joins; a user is written to, announced
\* and gone.
Floods ==
    {Up \o <<Data(a, b, REQ_ACK), AnyTime(Data(a, c, REQ_ACK))>>,
     Up \o <<Data(a, c, REQ_ACK), AnyTime(Call("Leave", b)), Call("Tick", b)>>,
     <<Call("Join", a), Call("Join", b), Data(a, BROADCAST_ADDR, NoFlags),
       AnyTime(Call("Join", c))>>,
     <<Call("Join", c), AnyTime(Connect(c, u)), Call("Join", b), Call("Join", a),
       UserMsg(a, v, u, REQ_ACK), AnyTime(Call("Tick", c)),
       [Connect(c, u) EXCEPT !.call = "RemoveConnectedUser"]>>}

\* The first and the second packet of a, after its announcement.
MCReaches == \A k \in {2, 3} : Reaches(a, c, <<a, k>>)

=============================================================================
