------------------------------- MODULE MCAODV -------------------------------
(* Small meshes for AODVRouter.                                            *)
EXTENDS AODVProperties, FiniteSets

CONSTANTS a, b, c, d, u, v

Links(pairs) ==
    [n \in Node |-> {m \in Node : {m, n} \in pairs}]

Line3 == Links({{a, b}, {b, c}})
Line4 == Links({{a, b}, {b, c}, {c, d}})
Diamond == Links({{a, b}, {a, c}, {b, d}, {c, d}})

\* Hops[n][k]: the nodes within k hops of n.
Hops ==
    [n \in Node |->
        LET ball[k \in 0 .. Cardinality(Node)] ==
              IF k = 0 THEN {n}
              ELSE ball[k - 1] \cup UNION {InRange[m] : m \in ball[k - 1]}
        IN  ball]

HopDistance ==
    [n \in Node |-> [t \in Node |->
        IF \E k \in 0 .. Cardinality(Node) : t \in Hops[n][k]
        THEN CHOOSE k \in 0 .. Cardinality(Node) :
                t \in Hops[n][k] /\ \A j \in 0 .. k - 1 : t \notin Hops[n][j]
        ELSE 255]]

Data(from, to, fl) ==
    [call |-> "SendData", node |-> from, dest |-> to, flags |-> fl,
     wait |-> FALSE]
UserMsg(from, sender, to, fl) ==
    [call |-> "SendUserMessage", node |-> from, from |-> sender, to |-> to,
     flags |-> fl, wait |-> FALSE]
Gone(n) == [call |-> "Leave", node |-> n, wait |-> FALSE]
Connect(n, x) ==
    [call |-> "AddConnectedUser", node |-> n, user |-> x, wait |-> FALSE]
Disconnect(n, x) ==
    [call |-> "RemoveConnectedUser", node |-> n, user |-> x, wait |-> FALSE]
WhenQuiet(call) == [call EXCEPT !.wait = TRUE]

AckedAToC == {<<Connect(c, u), Data(a, c, REQ_ACK)>>}
PlainAToC == {<<Connect(c, u), Data(a, c, NoFlags)>>}
BothWays  == {<<Data(a, c, NoFlags), Data(c, a, NoFlags)>>}
PlainAToD == {<<Data(a, d, NoFlags), Data(d, a, NoFlags)>>}
Shout     == {<<Data(a, BROADCAST_ADDR, NoFlags)>>}
LeaveD == {<<Connect(d, u), WhenQuiet(Gone(d)), WhenQuiet(Data(a, d, REQ_ACK)),
             WhenQuiet(Data(n, d, NoFlags))>> : n \in {a, c}}
LeaveInFlight == {<<Connect(d, u), WhenQuiet(Data(b, d, REQ_ACK)), Gone(d)>>}
UserBreaks == {<<Connect(c, u), WhenQuiet(UserMsg(a, v, u, REQ_ACK)),
                WhenQuiet(UserMsg(b, v, u, NoFlags))>>}
UserGone == {<<Connect(c, u), WhenQuiet(UserMsg(n, v, u, NoFlags)),
               Disconnect(c, u)>> : n \in {a, b}}
UserFar == {<<Connect(d, u), WhenQuiet(UserMsg(a, v, u, NoFlags))>>}

\* b learns the way to a from the lookup of v, who is nowhere; c leaves.
Drains == {<<Connect(c, u), WhenQuiet(UserMsg(a, v, u, REQ_ACK))>>,
           <<Connect(c, u), WhenQuiet(UserMsg(a, u, v, NoFlags)),
             WhenQuiet(Gone(c)), WhenQuiet(UserMsg(a, v, u, REQ_ACK))>>}
Lookups == PlainAToD \cup BothWays \cup Shout \cup UserGone
               \cup UserFar
Breaks == LeaveD \cup LeaveInFlight \cup UserBreaks
LookupsAndBreaks == Lookups \cup Breaks

MCBreakReported == BreakReported(b, a, c)

=============================================================================
