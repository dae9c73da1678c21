------------------------------ MODULE SimRunner ------------------------------
(***************************************************************************)
(* The batch program (cmd/batch/main.go) and its runner                    *)
(* (internal/sim/runner.go): Run, the goroutines that start the traffic,   *)
(* the traffic generator, the failure simulator, the consumer of events    *)
(* with the counters (internal/metrics/collector.go), and the signal that  *)
(* ends the run early.  Of the routers only the events they publish about  *)
(* a message are kept.                                                     *)
(***************************************************************************)
EXTENDS NodeRegistry

CONSTANTS
    Fleet,      \* the node objects that Run creates, in this order
    Scenario    \* the scenario files; their duration is in ticks of the
                \* traffic generator

\* Identifiers of 31 random bits do not collide.
ASSUME RunnerAssumption ==
    /\ Fleet \in Seq(Object)
    /\ \A i, j \in DOMAIN Fleet : IDOf[Fleet[i]] = IDOf[Fleet[j]] => i = j
    /\ Scenario # {}
    /\ \A s \in Scenario :
          /\ {s.joinCount, s.failures, s.ticks} \subseteq Nat
          /\ {s.invalid, s.drain, s.signal} \subseteq BOOLEAN

VARIABLES
    scenario,
    run,         \* where Run is; off in the server
    joined,      \* how many nodes have joined
    starters,    \* goroutines that are to start the traffic
    started,     \* the channel startTrafficCh is closed
    generator,   \* where startTrafficGenerator is
    ticks,
    quit,        \* the channel r.quit is closed
    signalled,   \* main has received a signal
    failing,     \* where the failure simulator is
    failures,    \* how many nodes it has yet to remove
    doomed,      \* the node that it has picked
    leaving,     \* what LeaveAll has yet to ask for
    owed,        \* the events that routers may yet publish
    published,   \* how many events of each type there were
    counters     \* those of the metrics

runner ==
    <<scenario, run, joined, starters, started, generator, ticks, quit,
      signalled, failing, failures, doomed, leaving, owed, published, counters>>

RunnerInit ==
    /\ joined = 0 /\ starters = 0 /\ started = FALSE
    /\ generator = "off" /\ ticks = 0
    /\ quit = FALSE /\ signalled = FALSE
    /\ failing = "off" /\ failures = scenario.failures /\ doomed = {}
    /\ leaving = {}
    /\ owed = NoneLost /\ published = NoneLost /\ counters = NoneLost

----------------------------------------------------------------------------
(* Run                                                                     *)

Modes == {"immediate", "after_delay", "after_join_count"}

\* The two errors of Run: a flood router with known routes only, which it
\* notices first, and an unknown mode, for which it leaves the generator behind.
StartRun ==
    /\ process = "running"
    /\ run = "start"
    /\ IF scenario.invalid
       THEN /\ run' = "returned"
            /\ UNCHANGED <<generator, starters, started, bus>>
       ELSE /\ Subscribe
            /\ generator' = "waiting"
            /\ started' = (scenario.mode = "immediate")
            /\ starters' = IF scenario.mode = "after_delay" THEN 1 ELSE 0
            /\ run' = IF scenario.mode \in Modes THEN "joining" ELSE "returned"
    /\ UNCHANGED <<process, registry, iterating, scenario, joined, ticks, quit,
                   signalled, failing, failures, doomed, leaving, owed,
                   published, counters>>

\* A mutant: off by one.
MutantPastCount ==
    /\ scenario.mode = "after_join_count"
    /\ joined + 1 > scenario.joinCount

\* From the last of the nodes that the start waits for, each one starts it.
EnoughJoined ==
    /\ scenario.mode = "after_join_count"
    /\ joined + 1 >= scenario.joinCount

JoinNext ==
    /\ process = "running"
    /\ run = "joining"
    /\ joined < Len(Fleet)
    /\ Ask([op |-> "join", node |-> Fleet[joined + 1]])
    /\ joined' = joined + 1
    /\ starters' = IF EnoughJoined THEN starters + 1 ELSE starters
    /\ UNCHANGED <<process, Nodes, goroutine, told, topic, iterating, bus,
                   scenario, run, started, generator, ticks, quit, signalled,
                   failing, failures, doomed, leaving, owed, published, counters>>

startFailureSimulator ==
    /\ process = "running"
    /\ run = "joining"
    /\ joined = Len(Fleet)
    /\ failing' = IF failures > 0 THEN "sleeping" ELSE "done"
    /\ run' = "waiting"
    /\ UNCHANGED <<process, registry, iterating, bus, scenario, joined, starters,
                   started, generator, ticks, quit, signalled, failures, doomed,
                   leaving, owed, published, counters>>

\* The drain ends when nothing was on the air for long, or at its deadline.
AfterQuit ==
    /\ process = "running"
    /\ \/ /\ run = "waiting" /\ quit
          /\ run' = IF scenario.drain THEN "draining" ELSE "leaving"
          /\ UNCHANGED leaving
       \/ /\ run = "draining"
          /\ run' = "leaving"
          /\ UNCHANGED leaving
       \/ /\ run = "leaving"
          /\ leaving' = members
          /\ run' = "teardown"
    /\ UNCHANGED <<process, registry, iterating, bus, scenario, joined, starters,
                   started, generator, ticks, quit, signalled, failing, failures,
                   doomed, owed, published, counters>>

\* A mutant: a request is dropped when the network goroutine is busy.
MutantDroppedLeave ==
    /\ process = "running"
    /\ run = "teardown"
    /\ \E id \in leaving :
          /\ serving' = IF serving = Nothing
                        THEN [op |-> "leave", id |-> id] ELSE serving
          /\ leaving' = leaving \ {id}
    /\ UNCHANGED <<process, Nodes, goroutine, told, topic, iterating, bus,
                   scenario, run, joined, starters, started, generator, ticks,
                   quit, signalled, failing, failures, doomed, owed, published,
                   counters>>

LeaveAll ==
    /\ process = "running"
    /\ run = "teardown"
    /\ \E id \in leaving :
          /\ Ask([op |-> "leave", id |-> id])
          /\ leaving' = leaving \ {id}
    /\ UNCHANGED <<process, Nodes, goroutine, told, topic, iterating, bus,
                   scenario, run, joined, starters, started, generator, ticks,
                   quit, signalled, failing, failures, doomed, owed, published,
                   counters>>

\* wg.Wait: of all the goroutines only the generator is waited for.
ReturnRun ==
    /\ process = "running"
    /\ run = "teardown"
    /\ leaving = {}
    /\ generator \in {"ended", "stopped"}
    /\ run' = "returned"
    /\ UNCHANGED <<process, registry, iterating, bus, scenario, joined, starters,
                   started, generator, ticks, quit, signalled, failing, failures,
                   doomed, leaving, owed, published, counters>>

----------------------------------------------------------------------------
(* The traffic                                                             *)

\* A mutant: without sync.Once, a second close is a panic.
MutantTriggerTwice ==
    /\ process = "running"
    /\ starters > 0
    /\ starters' = starters - 1
    /\ started' = TRUE
    /\ process' = IF started THEN "panicked" ELSE "running"
    /\ UNCHANGED <<registry, iterating, bus, scenario, run, joined, generator,
                   ticks, quit, signalled, failing, failures, doomed, leaving,
                   owed, published, counters>>

triggerStart ==
    /\ process = "running"
    /\ starters > 0
    /\ starters' = starters - 1
    /\ started' = TRUE
    /\ UNCHANGED <<process, registry, iterating, bus, scenario, run, joined,
                   generator, ticks, quit, signalled, failing, failures, doomed,
                   leaving, owed, published, counters>>

\* close(r.quit), by the generator or by Stop: the second time it is a panic.
CloseQuit ==
    /\ quit' = TRUE
    /\ process' = IF quit THEN "panicked" ELSE "running"

BeginTraffic ==
    /\ process = "running"
    /\ generator = "waiting"
    /\ started
    /\ generator' = "looping"
    /\ UNCHANGED <<process, registry, iterating, bus, scenario, run, joined,
                   starters, started, ticks, quit, signalled, failing, failures,
                   doomed, leaving, owed, published, counters>>

\* The top of the loop: the time is over, or the generator waits for its next
\* tick or for quit.
LoopTraffic ==
    /\ process = "running"
    /\ generator = "looping"
    /\ \/ CloseQuit /\ generator' = "ended"
       \/ /\ ticks < scenario.ticks
          /\ generator' = "selecting"
          /\ UNCHANGED <<process, quit>>
    /\ UNCHANGED <<registry, iterating, bus, scenario, run, joined, starters,
                   started, ticks, signalled, failing, failures, doomed, leaving,
                   owed, published, counters>>

SelectTraffic ==
    /\ process = "running"
    /\ generator = "selecting"
    /\ \/ /\ ticks' = ticks + 1
          /\ iterating' = (Cardinality(members) >= 2)
          /\ generator' = IF iterating' THEN "emitting" ELSE "looping"
       \/ /\ quit
          /\ generator' = "stopped"
          /\ UNCHANGED <<ticks, iterating>>
    /\ UNCHANGED <<process, registry, bus, scenario, run, joined, starters,
                   started, quit, signalled, failing, failures, doomed, leaving,
                   owed, published, counters>>

\* It has copied the map, and lets a router send, or finds nothing to send.
emitRandomTraffic ==
    /\ process = "running"
    /\ generator = "emitting"
    /\ iterating' = FALSE
    /\ generator' = "looping"
    /\ owed' \in {owed, [owed EXCEPT !["MESSAGE_SENT"] = @ + 1,
                                     !["MESSAGE_DELIVERED"] = @ + 1]}
    /\ UNCHANGED <<process, registry, bus, scenario, run, joined, starters,
                   started, ticks, quit, signalled, failing, failures, doomed,
                   leaving, published, counters>>

\* The routers publish what becomes of a message, in either order, or do not.
RouterPublishes(type) ==
    /\ process = "running"
    /\ owed[type] > 0
    /\ owed' = [owed EXCEPT ![type] = @ - 1]
    /\ \/ /\ \E id \in members :
                Publish([type |-> type, id |-> id, user |-> NoUser])
          /\ published' = [published EXCEPT ![type] = @ + 1]
       \/ UNCHANGED <<bus, published>>
    /\ UNCHANGED <<process, registry, iterating, scenario, run, joined, starters,
                   started, generator, ticks, quit, signalled, failing, failures,
                   doomed, leaving, counters>>

\* A mutant: deliveries are counted as messages sent.
MutantCountSent(type) == "MESSAGE_SENT"

\* The counter of the metrics that an event of this type adds to.
CounterOf(type) == type

\* The consumer's loop, and the methods of the Collector.
consumeEvents ==
    /\ process = "running"
    /\ run # "off"
    /\ channels # <<>>
    /\ TakeEvent(1)
    /\ counters' = [counters EXCEPT ![CounterOf(Head(channels[1]).type)] = @ + 1]
    /\ UNCHANGED <<process, registry, iterating, scenario, run, joined, starters,
                   started, generator, ticks, quit, signalled, failing, failures,
                   doomed, leaving, owed, published>>

----------------------------------------------------------------------------
(* Failures, signals and the end                                           *)

\* The failure simulator picks a node of those there are,
PickVictim ==
    /\ process = "running"
    /\ failing = "sleeping"
    /\ \/ /\ quit
          /\ failing' = "done"
          /\ UNCHANGED doomed
       \/ /\ members = {}
          /\ failing' = "done"
          /\ UNCHANGED doomed
       \/ /\ failing' = "removing"
          /\ \E id \in members : doomed' = {id}
    /\ UNCHANGED <<process, registry, iterating, bus, scenario, run, joined,
                   starters, started, generator, ticks, quit, signalled, failures,
                   leaving, owed, published, counters>>

\* and asks for its removal when LeaveAll may have done so before.
RemoveVictim ==
    /\ process = "running"
    /\ failing = "removing"
    /\ \E id \in doomed : Ask([op |-> "leave", id |-> id])
    /\ doomed' = {}
    /\ failures' = failures - 1
    /\ failing' = IF failures > 1 THEN "sleeping" ELSE "done"
    /\ UNCHANGED <<process, Nodes, goroutine, told, topic, iterating, bus,
                   scenario, run, joined, starters, started, generator, ticks,
                   quit, signalled, leaving, owed, published, counters>>

\* main receives a signal and calls Stop, whatever Run is doing.
Stop ==
    /\ process = "running"
    /\ run # "off"
    /\ scenario.signal /\ ~signalled
    /\ signalled' = TRUE
    /\ CloseQuit
    /\ UNCHANGED <<registry, iterating, bus, scenario, run, joined, starters,
                   started, generator, ticks, failing, failures, doomed, leaving,
                   owed, published, counters>>

\* main writes the counters to the file, and the process ends.
Flush ==
    /\ process = "running"
    /\ run = "returned"
    /\ process' = "exited"
    /\ UNCHANGED <<registry, iterating, bus, runner>>

Run ==
    StartRun \/ JoinNext \/ startFailureSimulator \/ AfterQuit \/ LeaveAll
        \/ ReturnRun

startTrafficGenerator ==
    BeginTraffic \/ LoopTraffic \/ SelectTraffic \/ emitRandomTraffic

FailureSimulator == PickVictim \/ RemoveVictim

RunnerNext ==
    \/ Run \/ triggerStart \/ startTrafficGenerator \/ consumeEvents
    \/ \E type \in {"MESSAGE_SENT", "MESSAGE_DELIVERED"} : RouterPublishes(type)
    \/ FailureSimulator \/ Stop \/ Flush

----------------------------------------------------------------------------
(* Properties                                                              *)

RunnerTypeOK ==
    /\ scenario \in Scenario
    /\ run \in {"off", "start", "joining", "waiting", "draining", "leaving",
                "teardown", "returned"}
    /\ joined \in 0 .. Len(Fleet)
    /\ starters \in Nat /\ started \in BOOLEAN
    /\ generator \in {"off", "waiting", "looping", "selecting", "emitting",
                      "ended", "stopped"}
    /\ ticks \in 0 .. scenario.ticks
    /\ generator = "selecting" => ticks < scenario.ticks
    /\ quit \in BOOLEAN /\ signalled \in BOOLEAN
    /\ failing \in {"off", "sleeping", "removing", "done"}
    /\ failing \in {"sleeping", "removing"} => failures > 0
    /\ failures \in Nat /\ doomed \subseteq NodeID
    /\ leaving \subseteq NodeID
    /\ {owed, published, counters} \subseteq [EventType -> Nat]

\* However many goroutines start the traffic, however often failures and the
\* teardown remove the same node: a closed channel is closed again only when a
\* signal comes and the traffic comes to its end by itself.
PanicsOnlyWhenSignalled ==
    process = "panicked" => signalled /\ generator = "ended"

\* When Run has returned after a teardown, every node that had joined was told to
\* stop or is just being told, those included that fail meanwhile; but for the
\* last one, whose join may not be done when LeaveAll reads the map.
TornDown ==
    run = "returned" /\ joined > 0 =>
        \A i \in 1 .. joined - 1 :
            \/ Fleet[i] \in told
            \/ serving = [op |-> "leave", id |-> IDOf[Fleet[i]]]

\* Each event is counted once, under its own type, unless the channel was full
\* when it was published, or it is still in there.
EventsAreCounted ==
    run # "off" /\ channels # <<>> =>
        \A type \in EventType :
            published[type] =
                counters[type] + lost[1][type]
                + Cardinality({i \in DOMAIN channels[1] :
                                 channels[1][i].type = type})

\* The traffic of this scenario does start.
Startable ==
    scenario.mode = "after_join_count" => scenario.joinCount <= Len(Fleet)

\* However failures, the signal and the traffic interleave, the run comes to an
\* end, and the metrics are written unless the process has died.
RunEnds == run = "start" /\ Startable ~> process # "running"

=============================================================================
