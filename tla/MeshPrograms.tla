---------------------------- MODULE MeshPrograms ----------------------------
(***************************************************************************)
(* The two programs: the batch program, which runs a scenario, and the     *)
(* server, which obeys front ends and devices.                             *)
(***************************************************************************)
EXTENDS SimRunner, CommandServer

vars == <<process, registry, iterating, bus, runner, server>>

\* The batch program has a scenario and no subscriber yet; the server has a front
\* end from the start.
Init ==
    /\ NoNodes
    /\ \/ /\ run = "start" /\ scenario \in Scenario
          /\ channels = <<>> /\ lost = <<>> /\ sockets = <<>> /\ session = <<>>
       \/ /\ run = "off" /\ scenario = CHOOSE s \in Scenario : TRUE
          /\ channels = <<<<>>>> /\ lost = <<NoneLost>> /\ sockets = <<TRUE>>
          /\ session \in Session
    /\ RunnerInit
    /\ handlers = <<>> /\ connectedUsers = [o \in Object |-> {}]
    /\ shownNodes = {} /\ shownUsers = {} /\ raced = FALSE

Batch(action) == run # "off" /\ action /\ UNCHANGED server

Server(action) == run = "off" /\ action /\ UNCHANGED runner

Shared(action) == action /\ UNCHANGED <<runner, server>>

Next ==
    \/ Shared(NetworkGoroutine)
    \/ \E o \in Object : Shared(NodeGoroutine(o))
    \/ Batch(RunnerNext)
    \/ Server(ServerNext)

Spec == Init /\ [][Next]_vars

\* The Go scheduler runs every goroutine that can go on; signals, requests and
\* front ends come if they like.
Fairness ==
    /\ WF_vars(Shared(NetworkGoroutine))
    /\ \A o \in Object : WF_vars(Shared(NodeGoroutine(o)))
    /\ WF_vars(Batch(Run)) /\ WF_vars(Batch(Flush))
    /\ WF_vars(Batch(triggerStart))
    /\ WF_vars(Batch(startTrafficGenerator))
    /\ WF_vars(Batch(FailureSimulator))
    /\ WF_vars(Batch(consumeEvents))
    /\ \A i \in 1 .. MaxHandlers : WF_vars(Server(Handle(i)))

FairSpec == Spec /\ Fairness

\* Every variable keeps to its type, and no channel exceeds its capacity.
TypeOK == RegistryTypeOK /\ RunnerTypeOK /\ ServerTypeOK

=============================================================================
