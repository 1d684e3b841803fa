--------------------------- MODULE AgentLifecycle ---------------------------
(***************************************************************************)
(* agent/main.py and agent/heartbeat.py: the main thread that registers    *)
(* the agent, starts its four component threads, restarts the dead ones    *)
(* and shuts everything down on a signal; the run()/stop() flag of each    *)
(* component; the health server and its readiness; the heartbeats.         *)
(*                                                                         *)
(* The main thread is straight-line code around one loop.  Its calls are   *)
(* the sequences StartPlan, MonitorPlan and StopPlan, and `phase' and      *)
(* `step' say which call it makes next.  Signal handlers run in the main   *)
(* thread between any two of its calls.                                    *)
(***************************************************************************)
EXTENDS Naturals, Sequences

VARIABLES
    phase,       \* where the main thread is
    step,        \* the next call of the plan of that phase
    signalled,   \* shutdown_event
    agentRunning,\* Agent.running
    created,     \* components initialize_components has created
    thread,      \* state of each component's thread
    flag,        \* the `running' attribute of each component
    health,      \* HeartbeatSender.component_health
    server,      \* the health server: never started, listening or closed
    ready,       \* HealthServer.ready
    posting,     \* the heartbeat thread is inside send_heartbeat
    registered,  \* the registration POST succeeded
    seen         \* last message of this agent that reached the backend

mainVars == <<phase, step, signalled, agentRunning, created, registered>>
vars == <<mainVars, thread, flag, health, server, ready, posting, seen>>

Components == {"collector", "actuator", "heartbeat", "websocket"}
Watched == {"collector", "actuator", "websocket"}  \* keys of component_health

Op(op, c) == [op |-> op, c |-> c]

StartPlan ==
    << Op("start", "collector"), Op("healthy", "collector"),
       Op("start", "actuator"), Op("healthy", "actuator"),
       Op("start", "heartbeat"),
       Op("start", "websocket"), Op("healthy", "websocket") >>

MonitorPlan ==
    << Op("restart", "collector"), Op("restart", "actuator"),
       Op("restart", "heartbeat"), Op("restart", "websocket") >>

StopPlan ==
    << Op("unhealthy", "collector"), Op("unhealthy", "actuator"),
       Op("unhealthy", "websocket"),
       Op("stop", "collector"), Op("stop", "actuator"),
       Op("stop", "websocket"), Op("stop", "heartbeat"),
       Op("final", "heartbeat"), Op("close", "heartbeat"),
       Op("deregister", "heartbeat") >>

Plan(p) == CASE p = "starting" -> StartPlan
             [] p = "monitor" -> MonitorPlan
             [] p = "stopping" -> StopPlan

Init ==
    /\ phase = "register" /\ step = 1
    /\ signalled = FALSE /\ agentRunning = FALSE
    /\ created = {} /\ registered = FALSE
    /\ thread = [c \in Components |-> "none"]
    /\ flag = [c \in Components |-> FALSE]
    /\ health = [c \in Watched |-> FALSE]
    /\ server = "none" /\ ready = FALSE
    /\ posting = FALSE
    /\ seen = "nothing"

-----------------------------------------------------------------------------
\* Agent.run: the phases of the main thread

Goto(p) == phase' = p /\ step' = 1

Register ==
    /\ phase = "register"
    /\ \/ registered' = TRUE /\ seen' = "registered" /\ Goto("init")
       \/ Goto("exited") /\ UNCHANGED <<registered, seen>>
    /\ UNCHANGED <<signalled, agentRunning, created, thread, flag, health,
                   server, ready, posting>>

\* initialize_components: the constructors of the collector and the actuator
\* raise when there is no Kubernetes configuration, and `finally' is next.
Initialize ==
    /\ phase = "init"
    /\ \/ created' = Components /\ Goto("starting")
       \/ created' \in {{}, {"collector"}} /\ Goto("stopping")
    /\ UNCHANGED <<signalled, agentRunning, registered, thread, flag, health,
                   server, ready, posting, seen>>

SetRunning ==
    /\ phase = "starting" /\ step > Len(StartPlan)
    /\ agentRunning' = TRUE
    /\ Goto("test")
    /\ UNCHANGED <<signalled, created, registered, thread, flag, health,
                   server, ready, posting, seen>>

\* Mutant: the loop tests Agent.running only.
MonitorTestMutant ==
    /\ phase = "test"
    /\ Goto(IF agentRunning THEN "monitor" ELSE "stopping")
    /\ UNCHANGED <<signalled, agentRunning, created, registered, thread, flag,
                   health, server, ready, posting, seen>>

MonitorTest ==
    /\ phase = "test"
    /\ Goto(IF agentRunning /\ ~signalled THEN "monitor" ELSE "stopping")
    /\ UNCHANGED <<signalled, agentRunning, created, registered, thread, flag,
                   health, server, ready, posting, seen>>

\* time.sleep(30) at the end of a pass; a signal does not cut it short.
MonitorSleep ==
    /\ phase = "monitor" /\ step > Len(MonitorPlan)
    /\ Goto("test")
    /\ UNCHANGED <<signalled, agentRunning, created, registered, thread, flag,
                   health, server, ready, posting, seen>>

Exit ==
    /\ phase = "stopping" /\ step > Len(StopPlan)
    /\ Goto("exited")
    /\ UNCHANGED <<signalled, agentRunning, created, registered, thread, flag,
                   health, server, ready, posting, seen>>

\* handle_shutdown_signal
Signal ==
    /\ phase # "exited" /\ ~signalled
    /\ signalled' = TRUE
    /\ agentRunning' = FALSE
    /\ UNCHANGED <<phase, step, created, registered, thread, flag, health,
                   server, ready, posting, seen>>

-----------------------------------------------------------------------------
\* The calls the main thread makes

\* The main thread makes call o on component c and goes on to the next one.
Call(o, c) ==
    /\ phase \in {"starting", "monitor", "stopping"}
    /\ step <= Len(Plan(phase))
    /\ Plan(phase)[step] = Op(o, c)
    /\ step' = step + 1
    /\ UNCHANGED <<phase, signalled, agentRunning, created, registered>>

StartThread(c) ==
    /\ Call("start", c)
    /\ thread' = [thread EXCEPT ![c] = "new"]
    /\ UNCHANGED <<flag, health, server, ready, posting, seen>>

\* set_component_health and update_readiness: the server, if there is one yet,
\* takes the health of the collector as its readiness.
SetHealth(c, h) ==
    /\ health' = [health EXCEPT ![c] = h]
    /\ ready' = IF server # "none" THEN health'["collector"] ELSE ready
    /\ UNCHANGED <<thread, flag, server, posting, seen>>

SetHealthy(c) == Call("healthy", c) /\ SetHealth(c, TRUE)

\* stop_components skips a component that was never created.
Skip(c) ==
    /\ c \notin created
    /\ UNCHANGED <<thread, flag, health, server, ready, posting, seen>>

SetUnhealthy(c) ==
    /\ Call("unhealthy", c)
    /\ \/ "heartbeat" \in created /\ SetHealth(c, FALSE)
       \/ Skip("heartbeat")

\* Mutant: the heartbeat thread is never restarted.
RestartMutant(c) ==
    /\ Call("restart", c)
    /\ thread' = IF thread[c] = "dead" /\ c # "heartbeat"
                 THEN [thread EXCEPT ![c] = "new"] ELSE thread
    /\ UNCHANGED <<flag, health, server, ready, posting, seen>>

\* One of the four checks of a pass of monitor_components.
Restart(c) ==
    /\ Call("restart", c)
    /\ thread' = IF thread[c] = "dead" THEN [thread EXCEPT ![c] = "new"]
                 ELSE thread
    /\ UNCHANGED <<flag, health, server, ready, posting, seen>>

\* stop() of a component clears the flag its loop tests.
StopComponent(c) ==
    /\ Call("stop", c)
    /\ \/ /\ c \in created
          /\ flag' = [flag EXCEPT ![c] = FALSE]
          /\ UNCHANGED <<thread, health, server, ready, posting, seen>>
       \/ Skip(c)

\* The rest of HeartbeatSender.stop: the last heartbeat, then the server.
FinalHeartbeat ==
    /\ Call("final", "heartbeat")
    /\ \/ /\ "heartbeat" \in created
          /\ seen' \in {seen, "stopping"}
          /\ UNCHANGED <<thread, flag, health, server, ready, posting>>
       \/ Skip("heartbeat")

CloseServer ==
    /\ Call("close", "heartbeat")
    /\ \/ /\ "heartbeat" \in created
          /\ server' = IF server = "up" THEN "closed" ELSE server
          /\ UNCHANGED <<thread, flag, health, ready, posting, seen>>
       \/ Skip("heartbeat")

\* deregister_from_backend, after joins that give up after ten seconds.
Deregister ==
    /\ Call("deregister", "heartbeat")
    /\ seen' \in {seen, "deregistered"}
    /\ UNCHANGED <<thread, flag, health, server, ready, posting>>

-----------------------------------------------------------------------------
\* The component threads; they are daemons and end with the process

Alive == phase # "exited"

\* The first statement of every run() sets the flag its loop tests.
ThreadBegin(c) ==
    /\ Alive /\ thread[c] = "new"
    /\ flag' = [flag EXCEPT ![c] = TRUE]
    /\ thread' = [thread EXCEPT ![c] = IF c = "heartbeat" THEN "serve" ELSE "loop"]
    /\ UNCHANGED <<mainVars, health, server, ready, posting, seen>>

\* A loop whose flag is down ends, as soon as it gets to test it.
ThreadEnd(c) ==
    /\ Alive /\ thread[c] = "loop" /\ ~flag[c]
    /\ c = "heartbeat" => ~posting
    /\ thread' = [thread EXCEPT ![c] = "dead"]
    /\ UNCHANGED <<mainVars, flag, health, server, ready, posting, seen>>

\* The WebSocket thread ends by itself when the first connection fails, or,
\* its flag down, when the reconnection attempts are used up.
WebSocketGivesUp ==
    /\ Alive /\ thread["websocket"] = "loop"
    /\ thread' = [thread EXCEPT !["websocket"] = "dead"]
    /\ flag' \in {flag, [flag EXCEPT !["websocket"] = FALSE]}
    /\ UNCHANGED <<mainVars, health, server, ready, posting, seen>>

ReadyAtStart == FALSE

\* start_health_server: a new server is not ready.
ServerUp ==
    /\ Alive /\ thread["heartbeat"] = "serve" /\ server # "up"
    /\ server' = "up"
    /\ ready' = ReadyAtStart
    /\ thread' = [thread EXCEPT !["heartbeat"] = "loop"]
    /\ UNCHANGED <<mainVars, flag, health, posting, seen>>

\* The port is taken: start_health_server raises and the thread dies.
ServerFails ==
    /\ Alive /\ thread["heartbeat"] = "serve"
    /\ thread' = [thread EXCEPT !["heartbeat"] = "dead"]
    /\ UNCHANGED <<mainVars, flag, health, server, ready, posting, seen>>

\* send_heartbeat: the loop has tested its flag and the POST is under way.
HeartbeatBegin ==
    /\ Alive /\ thread["heartbeat"] = "loop" /\ flag["heartbeat"] /\ ~posting
    /\ posting' = TRUE
    /\ UNCHANGED <<mainVars, thread, flag, health, server, ready, seen>>

HeartbeatEnd ==
    /\ Alive /\ posting
    /\ posting' = FALSE
    /\ seen' \in {seen, "healthy"}
    /\ UNCHANGED <<mainVars, thread, flag, health, server, ready>>

-----------------------------------------------------------------------------
Main ==
    \/ Register \/ Initialize \/ SetRunning \/ MonitorTest \/ MonitorSleep
    \/ Exit \/ FinalHeartbeat \/ CloseServer \/ Deregister
    \/ \E c \in Components : StartThread(c) \/ Restart(c) \/ StopComponent(c)
    \/ \E c \in Watched : SetHealthy(c) \/ SetUnhealthy(c)

Heartbeat == ServerUp \/ ServerFails \/ HeartbeatBegin \/ HeartbeatEnd

Next ==
    \/ Main \/ Signal \/ Heartbeat \/ WebSocketGivesUp
    \/ \E c \in Components : ThreadBegin(c) \/ ThreadEnd(c)

Spec == Init /\ [][Next]_vars

\* Every thread is scheduled and every call of the main thread returns (POSTs
\* and joins have timeouts).  A WebSocket loop may stay in its recv().  A
\* heartbeat thread that may begin a new POST must at least end one.  Signals
\* and a WebSocket that gives up are free.
Fairness ==
    /\ WF_vars(Main)
    /\ WF_vars(ServerUp \/ ServerFails)
    /\ WF_vars(HeartbeatEnd)
    /\ \A c \in Components : WF_vars(ThreadBegin(c))
    /\ \A c \in Components \ {"websocket"} : WF_vars(ThreadEnd(c))

FairSpec == Spec /\ Fairness
-----------------------------------------------------------------------------
\* A signal is never forgotten, not even one that arrives while components are
\* being started and before Agent.running is set.
SignalEndsAgent == signalled ~> phase = "exited"

\* A dead thread is noticed and replaced while the agent is monitored.
DeadIsRestarted ==
    \A c \in Components :
        (phase = "monitor" /\ thread[c] = "dead")
            ~> (thread[c] # "dead" \/ phase \in {"stopping", "exited"})

\* An agent that is running, with its health server up and its collector
\* healthy, becomes ready.
HealthyBecomesReady ==
    <>[](phase \in {"test", "monitor"} /\ server = "up" /\ health["collector"])
        => <>ready
=============================================================================
