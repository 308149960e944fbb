---------------------------- MODULE CloudSessions ----------------------------
(***************************************************************************)
(* Sessions that run in the cloud.  The server's manager gives a new       *)
(* session to an endpoint that has room, or spawns one: a sandbox with a   *)
(* runner, which connects by a socket, registers, is asked to start the    *)
(* sessions that wait for it, runs an agent for each and reports what      *)
(* becomes of them.  Manager and registry are the server's memory; between *)
(* an endpoint's runner and the server there is one socket, with a queue   *)
(* in each direction, that may drop and be connected again.                *)
(***************************************************************************)
EXTENDS Integers, Sequences, FiniteSets, SequencesExt

CONSTANTS Sessions,     \* sessions, each created at most once
          Endpoints,    \* the sandboxes that can be spawned
          NoEndpoint,
          Capacity,     \* maxConcurrentSessions
          MaxFaults     \* bound: failing calls, spawns, sockets and runners

ASSUME CloudAssumption == /\ NoEndpoint \notin Endpoints
                          /\ Capacity \in Nat \ {0}
                          /\ MaxFaults \in Nat

VARIABLES session,          \* per session: its creation, and what the server knows of it
          pendingEndpoints, \* endpoints whose token the manager has stored
          online,           \* endpoints in the registry, all of them 'online'
          endpointSessions, \* per endpoint: the sessions that count against its capacity
          joined,           \* endpoints whose socket is in their room
          runner,           \* per endpoint: its process and its socket
          handlers,         \* per endpoint: how often setupHandlers was called
          activeSessions,   \* per endpoint: the sessions its runner keeps
          agents,           \* per endpoint: the sessions whose agent process runs
          exited,           \* per endpoint: the sessions a timer will remove
          signalled,        \* per endpoint: the sessions whose agent was sent SIGTERM
          toServer,         \* per endpoint: events sent to the server, or buffered
          toRunner,         \* per endpoint: events sent to the runner
          disturbed,        \* history: endpoints that lost their socket or runner
          faults            \* faults so far

server == <<session, pendingEndpoints, online, endpointSessions, joined>>
process == <<runner, handlers, activeSessions, agents, exited, signalled>>
vars == <<server, process, toServer, toRunner, disturbed, faults>>

Points == {"idle", "spawn", "spawned", "store", "done", "failed"}
Over == {"ended", "error"}
Statuses == {"none", "pending", "starting", "running"} \cup Over
Processes == {"off", "up", "connected", "disconnected", "rejected", "gone"}

Event == [type : {"started", "ended", "error"}, of : Sessions]
             \cup [type : {"register", "unregister"}]
Start == [type : {"start"}, of : Sessions]

TypeOK == /\ session \in [Sessions -> [pc : Points, endpoint : Endpoints \cup {NoEndpoint},
                                       status : Statuses, assigned : BOOLEAN]]
          /\ pendingEndpoints \subseteq Endpoints
          /\ online \subseteq Endpoints
          /\ endpointSessions \in [Endpoints -> SUBSET Sessions]
          /\ \A e \in Endpoints \ online : endpointSessions[e] = {} /\ e \notin joined
          /\ joined \subseteq Endpoints
          /\ runner \in [Endpoints -> Processes]
          /\ handlers \in [Endpoints -> Nat]
          /\ activeSessions \in [Endpoints -> SUBSET Sessions]
          /\ agents \in [Endpoints -> SUBSET Sessions]
          /\ exited \in [Endpoints -> SUBSET Sessions]
          /\ signalled \in [Endpoints -> SUBSET Sessions]
          /\ toServer \in [Endpoints -> Seq(Event)]
          /\ toRunner \in [Endpoints -> Seq(Start)]
          /\ disturbed \subseteq Endpoints
          /\ faults \in 0..MaxFaults

Init == /\ session = [s \in Sessions |-> [pc |-> "idle", endpoint |-> NoEndpoint,
                                          status |-> "none", assigned |-> FALSE]]
        /\ pendingEndpoints = {}
        /\ online = {}
        /\ endpointSessions = [e \in Endpoints |-> {}]
        /\ joined = {}
        /\ runner = [e \in Endpoints |-> "off"]
        /\ handlers = [e \in Endpoints |-> 0]
        /\ activeSessions = [e \in Endpoints |-> {}]
        /\ agents = [e \in Endpoints |-> {}]
        /\ exited = [e \in Endpoints |-> {}]
        /\ signalled = [e \in Endpoints |-> {}]
        /\ toServer = [e \in Endpoints |-> <<>>]
        /\ toRunner = [e \in Endpoints |-> <<>>]
        /\ disturbed = {}
        /\ faults = 0

Fault == faults < MaxFaults /\ faults' = faults + 1
About(type, s) == [type |-> type, of |-> s]
Send(e, events) == toServer' = [toServer EXCEPT ![e] = @ \o events]

\* io.to('endpoint:...').emit: reaches the socket that is in the room, if any.
Ask(e, requests) ==
    toRunner' = IF e \in joined' THEN [toRunner EXCEPT ![e] = @ \o requests] ELSE toRunner
-----------------------------------------------------------------------------
(* The server: creation of a session.                                      *)

Load(e) == Cardinality(endpointSessions[e])
Available == {e \in online : Load(e) < Capacity}

\* The available endpoint with least sessions, or a new one.
Create(s) ==
    /\ session[s].pc = "idle"
    /\ \/ \E e \in Available :
              /\ \A f \in Available : Load(e) <= Load(f)
              /\ session' = [session EXCEPT ![s].pc = "store", ![s].endpoint = e]
       \/ /\ Available = {}
          /\ \E e \in Endpoints :
                /\ runner[e] = "off"
                /\ \A t \in Sessions : session[t].pc = "spawn" => session[t].endpoint # e
                /\ session' = [session EXCEPT ![s].pc = "spawn", ![s].endpoint = e]
    /\ UNCHANGED <<pendingEndpoints, online, endpointSessions, joined, process,
                   toServer, toRunner, disturbed, faults>>

\* The sandbox is there and its runner has been started; the server does not know yet.
SandboxUp(s) ==
    /\ session[s].pc = "spawn"
    /\ session' = [session EXCEPT ![s].pc = "spawned"]
    /\ runner' = [runner EXCEPT ![session[s].endpoint] = "up"]
    /\ UNCHANGED <<pendingEndpoints, online, endpointSessions, joined, handlers,
                   activeSessions, agents, exited, signalled, toServer, toRunner, disturbed,
                   faults>>

\* Only now is the token kept by which the runner will be let in.
SpawnReturns(s) ==
    /\ session[s].pc = "spawned"
    /\ session' = [session EXCEPT ![s].pc = "store"]
    /\ pendingEndpoints' = pendingEndpoints \cup {session[s].endpoint}
    /\ UNCHANGED <<online, endpointSessions, joined, process, toServer, toRunner,
                   disturbed, faults>>

\* E2B or the database fails: the request is answered with an error.  A sandbox that
\* was started stays.
CreateFails(s) ==
    /\ session[s].pc \in {"spawn", "spawned", "store"}
    /\ Fault
    /\ session' = [session EXCEPT ![s].pc = "failed"]
    /\ UNCHANGED <<pendingEndpoints, online, endpointSessions, joined, process,
                   toServer, toRunner, disturbed>>

\* Mutant: an endpoint that has not registered yet counts sessions, too.
CountedAlways(e, s) == [endpointSessions EXCEPT ![e] = @ \cup {s}]

\* The sessions counted once s is assigned to e: an endpoint that has not registered
\* counts none.
Counted(e, s) == IF e \in online THEN [endpointSessions EXCEPT ![e] = @ \cup {s}]
                                ELSE endpointSessions

\* Mutant: the session is left to wait for the registration in every case.
StartsAtOnceNever(e) == FALSE

\* Whether the endpoint has registered, and the session is started at once.
StartsAtOnce(e) == e \in online

\* The session is in the database: keep it in memory, assign it, which counts only if
\* the endpoint has registered, and ask for its start if it has.
Store(s) ==
    LET e == session[s].endpoint IN
    /\ session[s].pc = "store"
    /\ session' = [session EXCEPT ![s].pc = "done", ![s].assigned = TRUE,
                       ![s].status = IF StartsAtOnce(e) THEN "starting" ELSE "pending"]
    /\ endpointSessions' = Counted(e, s)
    /\ UNCHANGED joined
    /\ Ask(e, IF StartsAtOnce(e) THEN <<About("start", s)>> ELSE <<>>)
    /\ UNCHANGED <<pendingEndpoints, online, process, toServer, disturbed, faults>>
-----------------------------------------------------------------------------
(* The server: events of a runner.                                         *)

\* The next event is of this type.  A connected socket delivers; a socket whose process
\* has exited still delivers what was sent.
Hears(e, type) == /\ toServer[e] # <<>>
                  /\ Head(toServer[e]).type = type
                  /\ runner[e] \in {"connected", "gone"}
                  /\ toServer' = [toServer EXCEPT ![e] = Tail(@)]

\* registerEndpoint: a new record, that counts no session.
Emptied(e) == [endpointSessions EXCEPT ![e] = {}]

\* The sessions that startPendingSessionsForEndpoint asks for.
Waiting(e) == {s \in Sessions : session[s].endpoint = e /\ session[s].status = "pending"}

\* The endpoint is put in the registry with no sessions, and asked to start those that
\* wait for it; their status stays.  (A socket that has closed is in no room.)
Register(e) ==
    /\ Hears(e, "register")
    /\ online' = online \cup {e}
    /\ endpointSessions' = Emptied(e)
    /\ joined' = IF runner[e] = "connected" THEN joined \cup {e} ELSE joined
    /\ \E order \in SetToSeqs(Waiting(e)) :
           Ask(e, [i \in DOMAIN order |-> About("start", order[i])])
    /\ UNCHANGED <<session, pendingEndpoints, process, disturbed, faults>>

\* Out of the registry, with the assignments of the sessions it counted.
Unregister(e) ==
    /\ Hears(e, "unregister")
    /\ online' = online \ {e}
    /\ session' = [s \in Sessions |-> IF s \in endpointSessions[e]
                                      THEN [session[s] EXCEPT !.assigned = FALSE]
                                      ELSE session[s]]
    /\ endpointSessions' = Emptied(e)
    /\ joined' = joined \ {e}
    /\ UNCHANGED <<pendingEndpoints, process, toRunner, disturbed, faults>>

Started(e) ==
    /\ Hears(e, "started")
    /\ session' = [session EXCEPT ![Head(toServer[e]).of].status = "running"]
    /\ UNCHANGED <<pendingEndpoints, online, endpointSessions, joined, process, toRunner,
                   disturbed, faults>>

\* unassignSession: the endpoint counts the session no longer, if it was assigned.
Unassigned(s) == IF session[s].assigned
                 THEN [endpointSessions EXCEPT ![session[s].endpoint] = @ \ {s}]
                 ELSE endpointSessions

\* sessionEnded and sessionError, whatever the status was.
Finish(s, status) ==
    /\ session' = [session EXCEPT ![s].status = status, ![s].assigned = FALSE]
    /\ endpointSessions' = Unassigned(s)

Finished(e) ==
    /\ \E status \in Over : Hears(e, status) /\ Finish(Head(toServer[e]).of, status)
    /\ UNCHANGED <<pendingEndpoints, online, joined, process, toRunner, disturbed, faults>>
-----------------------------------------------------------------------------
(* The runner.                                                             *)

\* findEndpointByToken: the server knows the token.
Admitted(e) == e \in pendingEndpoints

\* Connected, for the first time or again: what was buffered is sent, then the
\* registration, and the handlers are set up, in addition to those there are.  A token
\* the server does not know has the socket closed, and closed by the server it is not
\* connected again.
Connect(e) ==
    /\ runner[e] \in {"up", "disconnected"}
    /\ \/ /\ ~Admitted(e)
          /\ runner' = [runner EXCEPT ![e] = "rejected"]
          /\ UNCHANGED <<handlers, toServer>>
       \/ /\ Admitted(e)
          /\ runner' = [runner EXCEPT ![e] = "connected"]
          /\ handlers' = [handlers EXCEPT ![e] = @ + 1]
          /\ Send(e, <<[type |-> "register"]>>)
    /\ UNCHANGED <<server, activeSessions, agents, exited, signalled, toRunner, disturbed,
                   faults>>

\* Mutant: no check of the capacity.
FullNever(kept) == FALSE

\* The runner's own check of its capacity.
Full(kept) == Cardinality(kept) >= Capacity

\* A session is not started when there is no room, or when it is there already.
Refuses(e, s) == Full(activeSessions[e]) \/ s \in activeSessions[e]

\* Each of n handlers that finds no room says so.
Refusals(n, s, kept) == IF Full(kept) THEN [i \in 1..n |-> About("error", s)] ELSE <<>>

StartRequested(e) == /\ runner[e] = "connected"
                     /\ toRunner[e] # <<>>
                     /\ toRunner' = [toRunner EXCEPT ![e] = Tail(@)]

RefuseStart(e) ==
    LET s == Head(toRunner[e]).of IN
    /\ StartRequested(e)
    /\ Refuses(e, s)
    /\ Send(e, Refusals(handlers[e], s, activeSessions[e]))
    /\ UNCHANGED <<server, process, disturbed, faults>>

\* The first handler starts the agent; the other ones run before it goes on, and find
\* the session there.  Spawning can throw, and then the session is forgotten, or be
\* told later that there is no such program: an error before or after 'started', and
\* the session is kept for ever.
StartSession(e) ==
    LET s == Head(toRunner[e]).of
        kept == activeSessions[e] \cup {s}
        others == Refusals(handlers[e] - 1, s, kept)
        started == About("started", s)
        error == About("error", s)
    IN
    /\ StartRequested(e)
    /\ ~Refuses(e, s)
    /\ \/ /\ agents' = [agents EXCEPT ![e] = @ \cup {s}]
          /\ activeSessions' = [activeSessions EXCEPT ![e] = kept]
          /\ Send(e, others \o <<started>>)
          /\ UNCHANGED faults
       \/ /\ Fault
          /\ Send(e, others \o <<error>>)
          /\ UNCHANGED <<agents, activeSessions>>
       \/ /\ Fault
          /\ activeSessions' = [activeSessions EXCEPT ![e] = kept]
          /\ \E told \in {<<started, error>>, <<error, started>>} : Send(e, others \o told)
          /\ UNCHANGED agents
    /\ UNCHANGED <<server, runner, handlers, exited, signalled, disturbed>>

\* An agent process exits, with code 0 or not; the session is kept for 5 seconds more.
AgentExit(e, s) ==
    /\ runner[e] # "gone"
    /\ s \in agents[e]
    /\ agents' = [agents EXCEPT ![e] = @ \ {s}]
    /\ exited' = [exited EXCEPT ![e] = @ \cup {s}]
    /\ \E type \in Over : Send(e, <<About(type, s)>>)
    /\ UNCHANGED <<server, runner, handlers, activeSessions, signalled, toRunner, disturbed,
                   faults>>

\* An agent that its runner has left ends, which nobody reports.
AgentEnds(e, s) ==
    /\ runner[e] = "gone"
    /\ s \in agents[e]
    /\ agents' = [agents EXCEPT ![e] = @ \ {s}]
    /\ UNCHANGED <<server, runner, handlers, activeSessions, exited, signalled, toServer,
                   toRunner, disturbed, faults>>

ForgetSession(e, s) ==
    /\ s \in exited[e]
    /\ exited' = [exited EXCEPT ![e] = @ \ {s}]
    /\ activeSessions' = [activeSessions EXCEPT ![e] = @ \ {s}]
    /\ UNCHANGED <<server, runner, handlers, agents, signalled, toServer, toRunner, disturbed,
                   faults>>
-----------------------------------------------------------------------------
(* Faults of sockets and runners.                                          *)

Disturb(e) == Fault /\ disturbed' = disturbed \cup {e}

\* The socket drops: what is on its way is lost.  The server's 'disconnect' handler
\* changes nothing; the endpoint stays in the registry.
Drop(e) ==
    /\ runner[e] = "connected"
    /\ Disturb(e)
    /\ runner' = [runner EXCEPT ![e] = "disconnected"]
    /\ joined' = joined \ {e}
    /\ toServer' = [toServer EXCEPT ![e] = <<>>]
    /\ toRunner' = [toRunner EXCEPT ![e] = <<>>]
    /\ UNCHANGED <<session, pendingEndpoints, online, endpointSessions, handlers,
                   activeSessions, agents, exited, signalled>>

\* The process is gone and with it what it keeps; `left` are agents that survive.
Gone(e, left) ==
    /\ runner' = [runner EXCEPT ![e] = "gone"]
    /\ activeSessions' = [activeSessions EXCEPT ![e] = {}]
    /\ exited' = [exited EXCEPT ![e] = {}]
    /\ agents' = [agents EXCEPT ![e] = left]
    /\ joined' = joined \ {e}
    /\ toRunner' = [toRunner EXCEPT ![e] = <<>>]

\* The sandbox's hour is over, or the runner gives up connecting and exits, which
\* leaves its agents.  What was sent may be lost.
Die(e) ==
    /\ runner[e] \in {"up", "connected", "disconnected"}
    /\ Disturb(e)
    /\ \E left \in {{}, agents[e]} : Gone(e, left)
    /\ \/ runner[e] = "connected" /\ UNCHANGED toServer
       \/ toServer' = [toServer EXCEPT ![e] = <<>>]
    /\ UNCHANGED <<session, pendingEndpoints, online, endpointSessions, handlers, signalled>>

\* Mutant: the agents are not told to stop.
StoppedNone(e) == {}

\* The agents that stopSession sends SIGTERM.
Stopped(e) == agents[e] \cap activeSessions[e]

\* SIGTERM: stop every session kept, unregister, disconnect, exit.  An agent that is slow
\* to stop outlives the runner, whose exit gives up on the SIGKILL that would follow.
CleanUp(e) ==
    /\ runner[e] \in {"up", "connected", "disconnected"}
    /\ Disturb(e)
    /\ Gone(e, agents[e])
    /\ signalled' = [signalled EXCEPT ![e] = Stopped(e)]
    /\ IF runner[e] = "connected"
       THEN LET ended == {About("ended", s) : s \in activeSessions[e]}
            IN Send(e, SetToSeq(ended) \o <<[type |-> "unregister"]>>)
       ELSE toServer' = [toServer EXCEPT ![e] = <<>>]
    /\ UNCHANGED <<session, pendingEndpoints, online, endpointSessions, handlers>>

ServerHears(e) == Register(e) \/ Unregister(e) \/ Started(e) \/ Finished(e)
RunnerHears(e) == RefuseStart(e) \/ StartSession(e)

Next == \/ \E s \in Sessions : \/ Create(s) \/ SandboxUp(s) \/ SpawnReturns(s)
                               \/ CreateFails(s) \/ Store(s)
        \/ \E e \in Endpoints : \/ ServerHears(e) \/ Connect(e) \/ RunnerHears(e)
                                \/ Drop(e) \/ Die(e) \/ CleanUp(e)
        \/ \E e \in Endpoints, s \in Sessions : \/ AgentExit(e, s) \/ AgentEnds(e, s)
                                              \/ ForgetSession(e, s)

\* The runner's process connects, and both event loops handle what a live socket
\* delivers.  Nothing makes a sandbox start, an agent exit or a fault happen.
Fairness == \A e \in Endpoints : /\ WF_vars(Connect(e))
                                 /\ WF_vars(ServerHears(e))
                                 /\ WF_vars(RunnerHears(e))

Spec == Init /\ [][Next]_vars /\ Fairness
-----------------------------------------------------------------------------
(* Properties.                                                             *)

\* No endpoint runs more agents than it may, though the server sends it too many
\* (see PlacedWithinCapacity), twice, and several handlers take each request: the
\* runner's own check is all there is (vibe-runner/index.ts:184).
AgentsWithinCapacity == \A e \in Endpoints : Cardinality(agents[e]) <= Capacity

\* What "Must have capacity" (endpointRegistry.ts:97) says of the choice of an
\* endpoint: no endpoint is assigned more sessions than it can take.
PlacedWithinCapacity ==
    \A e \in Endpoints :
        Cardinality({s \in Sessions : session[s].assigned /\ session[s].endpoint = e}) <= Capacity

\* A session the server calls ended or failed has no agent running but one that was told
\* to stop when its runner was, unless the runner connected twice and so answered a
\* request twice (cloudSessionManager.ts:266, vibe-runner/index.ts:430).
OverMeansOver ==
    \A s \in Sessions : LET e == session[s].endpoint IN
        session[s].status \in Over /\ handlers[e] <= 1 => s \notin agents[e] \ signalled[e]

\* Mutant: only the sessions an endpoint counts are sent messages.
ReachesCounted(s) == LET e == session[s].endpoint IN
    s \in endpointSessions[e] /\ e \in joined /\ s \in activeSessions[e] \cap agents[e]

\* Whether a message to the session would be written to its agent: message:to-claude
\* looks for the assignment, the room for the socket, the runner for the session.
Reaches(s) == LET e == session[s].endpoint IN
    session[s].assigned /\ e \in joined /\ s \in activeSessions[e] \cap agents[e]

\* A session that the server says is running, and is, can be sent messages, as long
\* as its endpoint was never disturbed: its assignment is there whatever registration
\* does to the sessions counted (endpointRegistry.ts:54, handlers.ts:133).
RunningReachable ==
    \A s \in Sessions : LET e == session[s].endpoint IN
        /\ session[s].status = "running"
        /\ e \notin disturbed
        /\ s \in agents[e]
        => Reaches(s)

\* A session that was created runs, or is over, in the end, unless its endpoint is
\* disturbed or was rejected: whether the endpoint registers before or after the
\* session is stored, one of the two asks for the start (cloudSessionManager.ts:161,
\* handlers.ts:65).
EverySessionStarts ==
    \A s \in Sessions : \A e \in Endpoints :
        session[s].pc = "done" /\ session[s].endpoint = e
            ~> \/ session[s].status \in {"running"} \cup Over
               \/ e \in disturbed
               \/ runner[e] = "rejected"
=============================================================================
