-------------------------- MODULE MCMeshPrograms ---------------------------
(* Small scenarios and sessions for MeshPrograms.                          *)
EXTENDS MeshPrograms

CONSTANTS a, b, p1, p2, na, nb, np, u, v

\* p1 and p2 are the same device, registered twice.
Ids == a :> na @@ b :> nb @@ p1 :> np @@ p2 :> np

Ships == <<a, b>>

Plan(mode, count, fail, drain, signal) ==
    [mode |-> mode, joinCount |-> count, failures |-> fail, invalid |-> FALSE,
     drain |-> drain, signal |-> signal, ticks |-> 1]

\* The second waits for more nodes than there are; the fourth is long enough for
\* events to be missed.
Plans ==
    {Plan("after_join_count", 1, 0, FALSE, TRUE),
     Plan("after_join_count", 3, 0, FALSE, TRUE),
     Plan("after_delay", 0, 1, TRUE, FALSE),
     [Plan("immediate", 0, 0, FALSE, FALSE) EXCEPT !.ticks = 2],
     Plan("after_join_count", 2, 1, FALSE, FALSE),
     Plan("never", 0, 0, FALSE, FALSE),
     [Plan("immediate", 0, 0, FALSE, FALSE) EXCEPT !.invalid = TRUE]}

Create(o)       == [op |-> "createNode", node |-> o]
Register(o)     == [op |-> "register", node |-> o]
At(op, id)      == [op |-> op, id |-> id]
For(op, id, user) == [op |-> op, id |-> id, user |-> user]
Move(id, user, other) ==
    [op |-> "moveUser", id |-> id, user |-> user, other |-> other]

Connect == [op |-> "ws"]

\* A user moves between two nodes; nodes come and go, and a second front end;
\* a device's user moves away; a device is registered again.
Sessions ==
    {<<Create(a), Create(b), For("createUser", na, u), Move(na, u, nb)>>,
     <<Create(a), For("createUser", na, u), For("deleteUser", na, u),
       At("moveNode", na), At("removeNode", na)>>,
     <<Connect, Create(a), At("command", na), At("sendMessage", nb)>>,
     <<Register(p1), For("addUser", np, u), Create(a), Move(np, u, na),
       At("remove", np)>>,
     <<Register(p1), For("addUser", np, u), Register(p2),
       For("removeUser", np, u), For("sendUserMessage", np, v)>>}

=============================================================================
