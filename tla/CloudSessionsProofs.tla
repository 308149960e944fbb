------------------------- MODULE CloudSessionsProofs -------------------------
(***************************************************************************)
(* Theorems about CloudSessions, for any sessions, endpoints and capacity. *)
(* Base is what the runner's capacity rests on; Talks what server and      *)
(* runner know of each other: for every endpoint, its sessions are its own *)
(* (Placed), its runner registers before anything else (Registered), is    *)
(* asked for a session once (Once), and keeps what is assigned to it as    *)
(* long as nothing disturbs it (Calm).                                     *)
(***************************************************************************)
EXTENDS CloudSessions, FiniteSetTheorems, SequenceTheorems, TLAPS

\* Every endpoint has its process and the sets that it keeps.
Domains == /\ DOMAIN runner = Endpoints /\ runner = [e \in Endpoints |-> runner[e]]
           /\ DOMAIN agents = Endpoints /\ agents = [e \in Endpoints |-> agents[e]]
           /\ DOMAIN exited = Endpoints /\ exited = [e \in Endpoints |-> exited[e]]
           /\ DOMAIN activeSessions = Endpoints
           /\ activeSessions = [e \in Endpoints |-> activeSessions[e]]
           /\ DOMAIN signalled = Endpoints

\* Why: as long as its runner lives, an agent's session is kept, also while the timer
\* of an earlier session is pending, none is told to stop, and the sessions kept are within
\* the capacity.
Kept(e) == /\ IsFiniteSet(activeSessions[e]) /\ Cardinality(activeSessions[e]) <= Capacity
           /\ IsFiniteSet(agents[e]) /\ Cardinality(agents[e]) <= Capacity
           /\ runner[e] # "gone" => /\ agents[e] \subseteq activeSessions[e]
                                    /\ agents[e] \cap exited[e] = {}
                                    /\ signalled[e] = {}
           /\ exited[e] \subseteq activeSessions[e]

Keeps == Domains /\ \A e \in Endpoints : Kept(e)

SessionRow == [pc : Points, endpoint : Endpoints \cup {NoEndpoint}, status : Statuses,
               assigned : BOOLEAN]

\* A sandbox that is being spawned for a session is not being spawned for another one,
\* and has no process yet.
Spawning == /\ session \in [Sessions -> SessionRow]
            /\ \A s \in Sessions : session[s].pc = "spawn" =>
                   /\ session[s].endpoint \in Endpoints
                   /\ runner[session[s].endpoint] = "off"
                   /\ \A t \in Sessions : session[t].pc = "spawn"
                                           /\ session[t].endpoint = session[s].endpoint => t = s

Base == Keeps /\ online \subseteq Endpoints /\ Spawning
-----------------------------------------------------------------------------
(* What a runner keeps.                                                    *)

\* What another endpoint keeps does not change by a step of e.
Apart(e) == \A f \in Endpoints \ {e} : /\ runner'[f] = runner[f]
                                       /\ agents'[f] = agents[f]
                                       /\ exited'[f] = exited[f]
                                       /\ activeSessions'[f] = activeSessions[f]
                                       /\ signalled'[f] = signalled[f]

LEMMA Elsewhere ==
    ASSUME Keeps, NEW e \in Endpoints, Domains', Apart(e), Kept(e)'
    PROVE  Keeps'
BY DEF Keeps, Apart, Kept

LEMMA Smaller ==
    ASSUME NEW S, NEW T, IsFiniteSet(T), S \subseteq T, Cardinality(T) <= Capacity
    PROVE  IsFiniteSet(S) /\ Cardinality(S) <= Capacity
BY FS_Subset, FS_CardinalityType, CloudAssumption

\* A start: the runner's own check has left room for one session more.
LEMMA StartKept ==
    ASSUME Keeps, NEW e \in Endpoints, StartSession(e)
    PROVE  Keeps'
<1> DEFINE s == Head(toRunner[e]).of
           kept == activeSessions[e] \cup {s}
<1>1. /\ Kept(e)
      /\ runner[e] = "connected"
      /\ ~(Cardinality(activeSessions[e]) >= Capacity)
      /\ s \notin activeSessions[e]
  BY DEF Keeps, StartSession, StartRequested, Refuses, Full
<1>2. /\ UNCHANGED <<runner, exited, signalled>>
      /\ \/ agents' = [agents EXCEPT ![e] = @ \cup {s}]
            /\ activeSessions' = [activeSessions EXCEPT ![e] = kept]
         \/ UNCHANGED <<agents, activeSessions>>
         \/ UNCHANGED agents /\ activeSessions' = [activeSessions EXCEPT ![e] = kept]
  BY DEF StartSession
<1>3. Domains' /\ Apart(e)
  BY <1>2 DEF Keeps, Domains, Apart
<1> HIDE DEF s
<1>4. IsFiniteSet(kept) /\ Cardinality(kept) <= Capacity
  <2>1. IsFiniteSet(activeSessions[e])
    BY <1>1 DEF Kept
  <2>2. Cardinality(activeSessions[e]) \in Nat
    BY <2>1, FS_CardinalityType
  <2>3. IsFiniteSet(kept) /\ Cardinality(kept) = Cardinality(activeSessions[e]) + 1
    BY <1>1, <2>1, FS_AddElement
  <2> QED
    BY <1>1, <2>2, <2>3, CloudAssumption
<1>5. ASSUME activeSessions'[e] = kept, agents'[e] \in {agents[e], agents[e] \cup {s}}
      PROVE  Kept(e)'
  <2>1. agents'[e] \subseteq kept
    BY <1>1, <1>5 DEF Kept
  <2>2. IsFiniteSet(agents'[e]) /\ Cardinality(agents'[e]) <= Capacity
    BY <1>4, <2>1, Smaller
  <2> QED
    BY <1>1, <1>2, <1>4, <1>5, <2>1, <2>2 DEF Kept
<1>6. Kept(e)'
  BY <1>1, <1>2, <1>5 DEF Kept, Keeps, Domains
<1> QED
  BY <1>3, <1>6, Elsewhere

LEMMA ExitKept ==
    ASSUME Keeps, NEW e \in Endpoints, NEW s,
           AgentExit(e, s) \/ AgentEnds(e, s) \/ ForgetSession(e, s)
    PROVE  Keeps'
<1>1. /\ Domains' /\ Apart(e)
      /\ UNCHANGED <<runner, signalled>>
      /\ \/ /\ runner[e] # "gone"
            /\ s \in agents[e]
            /\ agents'[e] = agents[e] \ {s}
            /\ exited'[e] = exited[e] \cup {s}
            /\ activeSessions'[e] = activeSessions[e]
         \/ /\ runner[e] = "gone"
            /\ agents'[e] = agents[e] \ {s}
            /\ exited'[e] = exited[e]
            /\ activeSessions'[e] = activeSessions[e]
         \/ /\ s \in exited[e]
            /\ agents'[e] = agents[e]
            /\ exited'[e] = exited[e] \ {s}
            /\ activeSessions'[e] = activeSessions[e] \ {s}
  BY DEF Keeps, Domains, Apart, AgentExit, AgentEnds, ForgetSession
<1>2. /\ IsFiniteSet(agents'[e]) /\ Cardinality(agents'[e]) <= Capacity
      /\ IsFiniteSet(activeSessions'[e]) /\ Cardinality(activeSessions'[e]) <= Capacity
  <2>1. agents'[e] \subseteq agents[e] /\ activeSessions'[e] \subseteq activeSessions[e]
    BY <1>1
  <2> QED
    BY <2>1, Smaller DEF Keeps, Kept
<1>3. Kept(e)'
  BY <1>1, <1>2 DEF Keeps, Kept
<1> QED
  BY <1>1, <1>3, Elsewhere

LEMMA GoneKept ==
    ASSUME Keeps, NEW e \in Endpoints, NEW left, left \subseteq agents[e], Gone(e, left),
           DOMAIN signalled' = Endpoints,
           \A f \in Endpoints \ {e} : signalled'[f] = signalled[f]
    PROVE  Keeps'
<1>1. /\ Domains' /\ Apart(e)
      /\ runner'[e] = "gone"
      /\ activeSessions'[e] = {} /\ exited'[e] = {} /\ agents'[e] = left
  BY DEF Keeps, Domains, Apart, Gone
<1>2. IsFiniteSet(left) /\ Cardinality(left) <= Capacity
  BY Smaller DEF Keeps, Kept
<1>3. IsFiniteSet({}) /\ Cardinality({}) <= Capacity
  BY FS_EmptySet, CloudAssumption
<1>4. Kept(e)'
  BY <1>1, <1>2, <1>3 DEF Kept
<1> QED
  BY <1>1, <1>4, Elsewhere

\* The socket comes and goes; only a process that is not gone has one.
LEMMA SocketKept ==
    ASSUME Keeps, NEW e \in Endpoints,
           UNCHANGED <<agents, exited, activeSessions, signalled>>, runner[e] # "gone",
           \E status : runner' = [runner EXCEPT ![e] = status]
    PROVE  Keeps'
<1>1. Domains' /\ Apart(e)
  BY DEF Keeps, Domains, Apart
<1>2. Kept(e)'
  BY DEF Keeps, Domains, Kept
<1> QED
  BY <1>1, <1>2, Elsewhere

LEMMA KeepsKept == ASSUME Base, Next PROVE Keeps'
<1>1. CASE UNCHANGED <<runner, agents, exited, activeSessions, signalled>>
  BY <1>1 DEF Base, Keeps, Domains, Kept
<1>2. ASSUME NEW s \in Sessions, Create(s) \/ SpawnReturns(s) \/ CreateFails(s) \/ Store(s)
      PROVE  Keeps'
  BY <1>1, <1>2 DEF Create, SpawnReturns, CreateFails, Store, process
<1>3. ASSUME NEW s \in Sessions, SandboxUp(s) PROVE Keeps'
  <2> DEFINE e == session[s].endpoint
  <2>1. e \in Endpoints /\ runner[e] = "off"
    BY <1>3 DEF Base, Spawning, SandboxUp
  <2>2. /\ UNCHANGED <<agents, exited, activeSessions, signalled>>
        /\ runner' = [runner EXCEPT ![e] = "up"]
    BY <1>3 DEF SandboxUp
  <2> QED
    BY <2>1, <2>2, SocketKept DEF Base
<1>4. ASSUME NEW e \in Endpoints, ServerHears(e) PROVE Keeps'
  BY <1>1, <1>4 DEF ServerHears, Register, Unregister, Started, Finished, process
<1>5. ASSUME NEW e \in Endpoints, RefuseStart(e) PROVE Keeps'
  BY <1>1, <1>5 DEF RefuseStart, process
<1>6. ASSUME NEW e \in Endpoints, Connect(e) \/ Drop(e) PROVE Keeps'
  <2>1. UNCHANGED <<agents, exited, activeSessions, signalled>> /\ runner[e] # "gone"
    BY <1>6 DEF Connect, Drop
  <2>2. \E status : runner' = [runner EXCEPT ![e] = status]
    BY <1>6 DEF Connect, Drop
  <2> QED
    BY <2>1, <2>2, SocketKept DEF Base
<1>7. ASSUME NEW e \in Endpoints, Die(e) \/ CleanUp(e) PROVE Keeps'
  <2>1. PICK left : left \subseteq agents[e] /\ Gone(e, left)
    BY <1>7 DEF Die, CleanUp
  <2>2. /\ DOMAIN signalled' = Endpoints
        /\ \A f \in Endpoints \ {e} : signalled'[f] = signalled[f]
    BY <1>7 DEF Die, CleanUp, Base, Keeps, Domains
  <2> QED
    BY <2>1, <2>2, GoneKept DEF Base
<1> QED
  BY <1>2, <1>3, <1>4, <1>5, <1>6, <1>7, StartKept, ExitKept DEF Next, RunnerHears, Base
-----------------------------------------------------------------------------
(* Sandboxes that are being spawned.                                       *)

\* Most steps begin no spawn and leave the processes that are off alone.
LEMMA NoSpawn ==
    ASSUME Spawning, session' \in [Sessions -> SessionRow],
           \A s \in Sessions : session'[s].pc = "spawn" =>
               session[s].pc = "spawn" /\ session'[s].endpoint = session[s].endpoint,
           \A e \in Endpoints : runner[e] = "off" => runner'[e] = "off"
    PROVE  Spawning'
BY DEF Spawning

LEMMA SpawningKept == ASSUME Base, Next PROVE Spawning'
<1> DEFINE Alone == \A e \in Endpoints : runner[e] = "off" => runner'[e] = "off"
<1>1. Spawning /\ session \in [Sessions -> SessionRow]
  BY DEF Base, Spawning
<1>2. CASE UNCHANGED <<session, runner>>
  BY <1>1, <1>2 DEF Spawning
<1>3. ASSUME NEW s \in Sessions, Create(s) PROVE Spawning'
  <2>1. PICK e \in Endpoints, pc \in {"store", "spawn"} :
            /\ session' = [session EXCEPT ![s].pc = pc, ![s].endpoint = e]
            /\ pc = "spawn" => /\ runner[e] = "off"
                               /\ \A t \in Sessions : session[t].pc = "spawn"
                                                       => session[t].endpoint # e
    BY <1>3 DEF Create, Available, Base
  <2>2. session' \in [Sessions -> SessionRow]
    BY <1>1, <2>1 DEF SessionRow, Points
  <2>3. /\ session'[s].pc = pc /\ session'[s].endpoint = e
        /\ \A t \in Sessions \ {s} : session'[t] = session[t]
    BY <1>1, <2>1 DEF SessionRow
  <2>4. UNCHANGED runner
    BY <1>3 DEF Create, process
  <2> QED
    BY <1>1, <2>1, <2>2, <2>3, <2>4 DEF Spawning
<1>4. ASSUME NEW s \in Sessions, SandboxUp(s) PROVE Spawning'
  <2> DEFINE e == session[s].endpoint
  <2>1. /\ session[s].pc = "spawn"
        /\ session' = [session EXCEPT ![s].pc = "spawned"]
        /\ runner' = [runner EXCEPT ![e] = "up"]
    BY <1>4 DEF SandboxUp
  <2>2. session' \in [Sessions -> SessionRow]
    BY <1>1, <2>1 DEF SessionRow, Points
  <2>3. /\ session'[s].pc = "spawned"
        /\ \A t \in Sessions \ {s} : session'[t] = session[t]
    BY <1>1, <2>1 DEF SessionRow
  <2>4. \A f \in Endpoints \ {e} : runner'[f] = runner[f]
    BY <2>1 DEF Base, Keeps, Domains
  <2> QED
    BY <1>1, <2>1, <2>2, <2>3, <2>4 DEF Spawning
<1>5. ASSUME NEW s, NEW r,
             session' = [session EXCEPT ![s] = r],
             s \in Sessions => r \in SessionRow /\ r.endpoint = session[s].endpoint
                             /\ (r.pc = "spawn" => session[s].pc = "spawn"),
             UNCHANGED runner
      PROVE  Spawning'
  <2>1. session' \in [Sessions -> SessionRow]
    BY <1>1, <1>5
  <2>2. \A t \in Sessions : session'[t] = session[t] \/ (t = s /\ session'[t] = r)
    BY <1>1, <1>5
  <2> QED
    BY <1>1, <1>5, <2>1, <2>2, NoSpawn
<1>6. ASSUME NEW s \in Sessions, SpawnReturns(s) PROVE Spawning'
  <2> DEFINE r == [session[s] EXCEPT !.pc = "store"]
  <2>1. session' = [session EXCEPT ![s] = r] /\ UNCHANGED runner
    BY <1>1, <1>6 DEF SpawnReturns, process
  <2>2. r \in SessionRow /\ r.endpoint = session[s].endpoint /\ r.pc = "store"
    BY <1>1 DEF SessionRow, Points
  <2> HIDE DEF r
  <2> QED
    BY <1>5, <2>1, <2>2
<1>7. ASSUME NEW s \in Sessions, CreateFails(s) PROVE Spawning'
  <2> DEFINE r == [session[s] EXCEPT !.pc = "failed"]
  <2>1. session' = [session EXCEPT ![s] = r] /\ UNCHANGED runner
    BY <1>1, <1>7 DEF CreateFails, process
  <2>2. r \in SessionRow /\ r.endpoint = session[s].endpoint /\ r.pc = "failed"
    BY <1>1 DEF SessionRow, Points
  <2> HIDE DEF r
  <2> QED
    BY <1>5, <2>1, <2>2
<1>8. ASSUME NEW s \in Sessions, Store(s) PROVE Spawning'
  <2> DEFINE status == IF StartsAtOnce(session[s].endpoint) THEN "starting" ELSE "pending"
             r == [session[s] EXCEPT !.pc = "done", !.assigned = TRUE, !.status = status]
  <2>1. session' = [session EXCEPT ![s] = r] /\ UNCHANGED runner
    BY <1>1, <1>8 DEF Store, process
  <2>2. status \in Statuses
    BY DEF Statuses
  <2> HIDE DEF status
  <2>3. r \in SessionRow /\ r.endpoint = session[s].endpoint /\ r.pc = "done"
    BY <1>1, <2>2 DEF SessionRow, Points
  <2> HIDE DEF r
  <2> QED
    BY <1>5, <2>1, <2>3
<1>9. ASSUME NEW e \in Endpoints, Started(e) \/ Finished(e) PROVE Spawning'
  <2> DEFINE s == Head(toServer[e]).of
             r(status, assigned) == [session[s] EXCEPT !.status = status, !.assigned = assigned]
  <2>1. ASSUME s \in Sessions, NEW status \in Statuses, NEW assigned \in BOOLEAN
        PROVE  /\ r(status, assigned) \in SessionRow
               /\ r(status, assigned).endpoint = session[s].endpoint
               /\ r(status, assigned).pc = session[s].pc
    BY <1>1, <2>1 DEF SessionRow
  <2>2. UNCHANGED runner
    BY <1>9 DEF Started, Finished, process
  <2>3. CASE Started(e)
    <3>1. session' = [session EXCEPT ![s] = r("running", session[s].assigned)]
      BY <1>1, <2>3 DEF Started, SessionRow
    <3>2. "running" \in Statuses /\ (s \in Sessions => session[s].assigned \in BOOLEAN)
      BY <1>1 DEF Statuses, SessionRow
    <3> HIDE DEF r, s
    <3> QED
      BY <1>5, <2>1, <2>2, <3>1, <3>2
  <2>4. CASE Finished(e)
    <3>1. PICK status \in Over : session' = [session EXCEPT ![s] = r(status, FALSE)]
      BY <1>1, <2>4 DEF Finished, Finish, SessionRow
    <3>2. status \in Statuses
      BY DEF Over, Statuses
    <3> HIDE DEF r, s
    <3> QED
      BY <1>5, <2>1, <2>2, <3>1, <3>2
  <2> QED
    BY <1>9, <2>3, <2>4
<1>10. ASSUME NEW e \in Endpoints, Unregister(e) PROVE Spawning'
  <2> DEFINE r(s) == IF s \in endpointSessions[e] THEN [session[s] EXCEPT !.assigned = FALSE]
                                                  ELSE session[s]
  <2>1. session' = [s \in Sessions |-> r(s)] /\ UNCHANGED runner
    BY <1>10 DEF Unregister, process
  <2>2. \A s \in Sessions : /\ r(s) \in SessionRow
                           /\ r(s).endpoint = session[s].endpoint
                           /\ r(s).pc = session[s].pc
    BY <1>1 DEF SessionRow
  <2> HIDE DEF r
  <2> QED
    BY <1>1, <2>1, <2>2, NoSpawn
<1>11. ASSUME NEW e \in Endpoints,
              \/ Register(e) \/ RunnerHears(e)
              \/ \E s \in Sessions : AgentExit(e, s) \/ AgentEnds(e, s) \/ ForgetSession(e, s)
       PROVE  Spawning'
  BY <1>2, <1>11 DEF Register, RunnerHears, RefuseStart, StartSession, AgentExit, AgentEnds,
                     ForgetSession, server, process
<1>12. ASSUME NEW e \in Endpoints, Connect(e) \/ Drop(e) \/ Die(e) \/ CleanUp(e) PROVE Spawning'
  <2>1. UNCHANGED session /\ runner[e] # "off"
    BY <1>12 DEF Connect, Drop, Die, CleanUp, server
  <2>2. \E status : runner' = [runner EXCEPT ![e] = status]
    BY <1>12 DEF Connect, Drop, Die, CleanUp, Gone
  <2>3. Alone
    BY <2>1, <2>2 DEF Base, Keeps, Domains
  <2> HIDE DEF Alone
  <2> QED
    BY <1>1, <2>1, <2>3, NoSpawn DEF Alone
<1> QED
  BY <1>3, <1>4, <1>6, <1>7, <1>8, <1>9, <1>10, <1>11, <1>12 DEF Next, ServerHears
-----------------------------------------------------------------------------
LEMMA InitHolds == ASSUME Init PROVE Base
<1>1. IsFiniteSet({}) /\ Cardinality({}) = 0
  BY FS_EmptySet
<1>2. Keeps
  BY <1>1, CloudAssumption DEF Init, Keeps, Domains, Kept
<1>3. Spawning
  BY DEF Init, Spawning, SessionRow, Points, Statuses
<1> QED
  BY <1>2, <1>3 DEF Base, Init

LEMMA BaseStep == ASSUME Base, [Next]_vars PROVE Base'
<1>1. CASE Next
  <2>1. online' \subseteq Endpoints
    BY <1>1 DEF Base, Next, Create, SandboxUp, SpawnReturns, CreateFails, Store, ServerHears,
                Register, Unregister, Started, Finished, Connect, RunnerHears, RefuseStart,
                StartSession, Drop, Die, CleanUp, AgentExit, AgentEnds, ForgetSession, server
  <2> QED
    BY <1>1, <2>1, KeepsKept, SpawningKept DEF Base
<1>2. CASE UNCHANGED vars
  BY <1>2 DEF Base, Keeps, Domains, Kept, Spawning, vars, server, process
<1> QED
  BY <1>1, <1>2
-----------------------------------------------------------------------------
(* What is on its way between the server and the runners.                  *)

\* The events of a queue.
Of(q) == {q[i] : i \in 1..Len(q)}

\* The session is in memory, and its endpoint is e.
Mine(e, s) == s \in Sessions /\ session[s].pc = "done" /\ session[s].endpoint = e

\* Nothing is known of a session before it is stored, and only finitely many were asked for.
Rows == /\ \A s \in Sessions : session[s].pc # "idle" => session[s].endpoint \in Endpoints
        /\ \A s \in Sessions : session[s].pc # "done" =>
                                   session[s].status = "none" /\ ~session[s].assigned
        /\ IsFiniteSet({s \in Sessions : session[s].pc # "idle"})

\* What an endpoint counts, keeps, hears and says is about sessions of its own.
Placed(e) == /\ \A s \in endpointSessions[e] : Mine(e, s)
             /\ \A s \in activeSessions[e] \cup agents[e] : Mine(e, s)
             /\ \A x \in Of(toRunner[e]) : Mine(e, x.of)
             /\ \A x \in Of(toServer[e]) : x.type \in {"started"} \cup Over => Mine(e, x.of)

\* The runner's first registration is yet to be made, or to be heard.
Registers(e) == \E x \in Of(toServer[e]) : x.type = "register"
Unheard(e) == handlers[e] = 0 \/ Registers(e)

\* A runner that has connected once registers once, and until this is heard it is in no
\* registry, was asked for nothing and has nothing to tell.
Registered(e) ==
    /\ runner[e] = "connected" => handlers[e] >= 1
    /\ handlers[e] = 0 => toServer[e] = <<>>
    /\ handlers[e] <= 1 =>
          /\ \A i \in 2..Len(toServer[e]) : toServer[e][i].type # "register"
          /\ Unheard(e) => /\ e \notin online
                           /\ toRunner[e] = <<>>
                           /\ activeSessions[e] = {} /\ agents[e] = {} /\ exited[e] = {}
                           /\ \A x \in Of(toServer[e]) : x.type \in {"register", "unregister"}

\* The start of s is on its way to the runner of e, or has been made there and its agent
\* was not told to stop.
Asked(e, s) == \E x \in Of(toRunner[e]) : x.of = s
Alive(e, s) == s \in agents[e] \ signalled[e] \/ Asked(e, s)

\* A runner that has connected once is asked once for a session, before it has it; and
\* nobody says that it is over as long as it is asked for or runs.
Once(e) == handlers[e] <= 1 =>
    /\ \A i, j \in 1..Len(toRunner[e]) : toRunner[e][i].of = toRunner[e][j].of => i = j
    /\ \A s \in activeSessions[e] : ~Asked(e, s)
    /\ \A s \in Sessions : Alive(e, s) =>
          /\ session[s].status \notin Over
          /\ \A x \in Of(toServer[e]) : ~(x.type \in Over /\ x.of = s)

\* An endpoint that was never disturbed connects once, is in its room as soon as it has
\* anything to do, and tells no agent to stop; what waits for it, or is alive there, is
\* assigned to it.
Calm(e) == e \notin disturbed =>
    /\ runner[e] \notin {"disconnected", "gone"}
    /\ runner[e] \in {"off", "up"} => handlers[e] = 0
    /\ handlers[e] <= 1
    /\ signalled[e] = {}
    /\ \A x \in Of(toServer[e]) : x.type # "unregister"
    /\ toRunner[e] # <<>> \/ agents[e] # {} => e \in joined
    /\ \A s \in Sessions : Mine(e, s) /\ (session[s].status = "pending" \/ Alive(e, s)) =>
                               session[s].assigned

Talk(e) == Placed(e) /\ Registered(e) /\ Once(e) /\ Calm(e)

-----------------------------------------------------------------------------
(* Queues.                                                                 *)

LEMMA QueueTail ==
    ASSUME NEW S, NEW q \in Seq(S), q # <<>>
    PROVE  /\ Tail(q) \in Seq(S) /\ Head(q) = q[1] /\ Head(q) \in S
           /\ Len(q) \in Nat /\ Len(q) >= 1 /\ Len(Tail(q)) = Len(q) - 1
           /\ \A i \in 1..Len(Tail(q)) : Tail(q)[i] = q[i + 1]
           /\ Head(q) \in Of(q) /\ Of(Tail(q)) \subseteq Of(q) /\ Of(q) \subseteq S
<1>1. Len(q) \in Nat /\ Len(q) >= 1
  BY EmptySeq
<1>2. /\ Tail(q) \in Seq(S) /\ Head(q) = q[1] /\ Head(q) \in S
      /\ Len(Tail(q)) = Len(q) - 1
      /\ \A i \in 1..Len(Tail(q)) : Tail(q)[i] = q[i + 1]
  BY <1>1, HeadTailProperties
<1>3. \A i \in 1..Len(Tail(q)) : i + 1 \in 1..Len(q)
  BY <1>1, <1>2
<1>4. Of(q) \subseteq S
  BY ElementOfSeq DEF Of
<1> QED
  BY <1>1, <1>2, <1>3, <1>4 DEF Of

LEMMA QueueConcat ==
    ASSUME NEW S, NEW q \in Seq(S), NEW r \in Seq(S)
    PROVE  /\ q \o r \in Seq(S)
           /\ Of(q \o r) \subseteq Of(q) \cup Of(r)
           /\ Len(q) \in Nat /\ Len(r) \in Nat /\ Len(q \o r) = Len(q) + Len(r)
           /\ \A i \in 1..Len(q) : (q \o r)[i] = q[i]
           /\ \A i \in 1..Len(q \o r) : \/ i \in 1..Len(q) /\ (q \o r)[i] = q[i]
                                        \/ i - Len(q) \in 1..Len(r)
                                           /\ (q \o r)[i] = r[i - Len(q)]
<1>1. /\ q \o r \in Seq(S)
      /\ Len(q) \in Nat /\ Len(r) \in Nat /\ Len(q \o r) = Len(q) + Len(r)
      /\ \A i \in 1..Len(q) + Len(r) : (q \o r)[i] = IF i <= Len(q) THEN q[i]
                                                                   ELSE r[i - Len(q)]
  BY ConcatProperties, LenProperties
<1>2. \A i \in 1..Len(q) : (q \o r)[i] = q[i]
  BY <1>1
<1>3. \A i \in 1..Len(q \o r) : \/ i \in 1..Len(q) /\ (q \o r)[i] = q[i]
                                \/ i - Len(q) \in 1..Len(r) /\ (q \o r)[i] = r[i - Len(q)]
  BY <1>1
<1>4. Of(q \o r) \subseteq Of(q) \cup Of(r)
  BY <1>3 DEF Of
<1> QED
  BY <1>1, <1>2, <1>3, <1>4

LEMMA QueueAppend ==
    ASSUME NEW S, NEW q \in Seq(S), NEW x \in S
    PROVE  /\ Len(q) \in Nat /\ Len(q \o <<x>>) = Len(q) + 1
           /\ \A i \in 1..Len(q \o <<x>>) : \/ i \in 1..Len(q) /\ (q \o <<x>>)[i] = q[i]
                                            \/ i = Len(q) + 1 /\ (q \o <<x>>)[i] = x
           /\ Of(q \o <<x>>) \subseteq Of(q) \cup {x}
<1>1. <<x>> \in Seq(S) /\ Len(<<x>>) = 1 /\ <<x>>[1] = x
  OBVIOUS
<1>2. /\ Len(q) \in Nat /\ Len(q \o <<x>>) = Len(q) + 1
      /\ \A i \in 1..Len(q) + 1 : (q \o <<x>>)[i] = IF i <= Len(q) THEN q[i]
                                                               ELSE <<x>>[i - Len(q)]
  BY <1>1, ConcatProperties, LenProperties
<1>3. \A i \in 1..Len(q \o <<x>>) : \/ i \in 1..Len(q) /\ (q \o <<x>>)[i] = q[i]
                                    \/ i = Len(q) + 1 /\ (q \o <<x>>)[i] = x
  <2>1. ASSUME NEW i \in 1..Len(q \o <<x>>), ~(i <= Len(q))
        PROVE  i = Len(q) + 1 /\ i - Len(q) = 1
    BY <1>2, <2>1
  <2> QED
    BY <1>1, <1>2, <2>1
<1> QED
  BY <1>2, <1>3 DEF Of

\* The sequences of a finite set are sequences of its elements, without repetition.
LEMMA SetSequences ==
    ASSUME NEW S, IsFiniteSet(S)
    PROVE  /\ SetToSeq(S) \in Seq(S)
           /\ \A q \in SetToSeqs(S) : /\ q \in Seq(S)
                                      /\ \A i, j \in 1..Len(q) : q[i] = q[j] => i = j
<1> DEFINE n == Cardinality(S)
<1>1. n \in Nat /\ ExistsBijection(1..n, S)
  BY FS_CardinalityType
<1>2. \A q \in [1..n -> S] : q \in Seq(S) /\ Len(q) = n
  BY <1>1, SeqDef
<1>3. \E q \in [1..n -> S] : IsInjective(q)
  BY <1>1 DEF ExistsBijection, Bijection, Injection
<1>4. SetToSeq(S) \in [1..n -> S]
  BY <1>3 DEF SetToSeq
<1>5. \A q \in SetToSeqs(S) : /\ q \in [1..n -> S]
                              /\ \A i, j \in 1..n : q[i] = q[j] => i = j
  BY DEF SetToSeqs
<1> QED
  BY <1>2, <1>4, <1>5
-----------------------------------------------------------------------------
(* Types.                                                                  *)

LEMMA EventFacts ==
    /\ \A x \in Event : /\ x.type \in {"started", "ended", "error", "register", "unregister"}
                        /\ x.type \in {"started"} \cup Over => x.of \in Sessions
    /\ \A x \in Start : x.of \in Sessions /\ x = About("start", x.of)
    /\ \A s \in Sessions : /\ About("start", s) \in Start /\ About("start", s).of = s
                           /\ \A type \in {"started"} \cup Over :
                                  /\ About(type, s) \in Event
                                  /\ About(type, s).type = type /\ About(type, s).of = s
    /\ [type |-> "register"] \in Event /\ [type |-> "unregister"] \in Event
BY DEF Event, Start, Over, About

\* What the runner of e says, with or without being heard.
LEMMA Says ==
    ASSUME TypeOK, NEW e \in Endpoints, NEW events \in Seq(Event), Send(e, events)
    PROVE  /\ toServer' \in [Endpoints -> Seq(Event)]
           /\ toServer'[e] = toServer[e] \o events
           /\ \A f \in Endpoints \ {e} : toServer'[f] = toServer[f]
<1>1. toServer[e] \o events \in Seq(Event)
  BY QueueConcat DEF TypeOK
<1> QED
  BY <1>1 DEF Send, TypeOK

\* What the server asks of e.
LEMMA Asks ==
    ASSUME TypeOK, NEW e \in Endpoints, NEW requests \in Seq(Start), Ask(e, requests)
    PROVE  /\ toRunner' \in [Endpoints -> Seq(Start)]
           /\ toRunner'[e] = IF e \in joined' THEN toRunner[e] \o requests ELSE toRunner[e]
           /\ \A f \in Endpoints \ {e} : toRunner'[f] = toRunner[f]
<1>1. toRunner[e] \o requests \in Seq(Start)
  BY QueueConcat DEF TypeOK
<1> QED
  BY <1>1 DEF Ask, TypeOK

LEMMA Heard ==
    ASSUME TypeOK, NEW e \in Endpoints, NEW type, Hears(e, type)
    PROVE  /\ toServer' \in [Endpoints -> Seq(Event)]
           /\ toServer[e] # <<>> /\ Head(toServer[e]).type = type
           /\ toServer'[e] = Tail(toServer[e])
           /\ \A f \in Endpoints \ {e} : toServer'[f] = toServer[f]
<1>1. toServer[e] \in Seq(Event) /\ toServer[e] # <<>>
  BY DEF TypeOK, Hears
<1>2. Tail(toServer[e]) \in Seq(Event)
  BY <1>1, QueueTail
<1> QED
  BY <1>2 DEF TypeOK, Hears

LEMMA Requested ==
    ASSUME TypeOK, NEW e \in Endpoints, StartRequested(e)
    PROVE  /\ toRunner' \in [Endpoints -> Seq(Start)]
           /\ toRunner[e] # <<>>
           /\ toRunner'[e] = Tail(toRunner[e])
           /\ \A f \in Endpoints \ {e} : toRunner'[f] = toRunner[f]
           /\ Head(toRunner[e]).of \in Sessions
<1>1. toRunner[e] \in Seq(Start) /\ toRunner[e] # <<>>
  BY DEF TypeOK, StartRequested
<1>2. Tail(toRunner[e]) \in Seq(Start) /\ Head(toRunner[e]) \in Start
  BY <1>1, QueueTail
<1> QED
  BY <1>2, EventFacts DEF TypeOK, StartRequested

LEMMA RefusalsTyped ==
    ASSUME NEW n \in Int, NEW s \in Sessions, NEW kept
    PROVE  /\ Refusals(n, s, kept) \in Seq(Event)
           /\ \A x \in Of(Refusals(n, s, kept)) : x = About("error", s)
           /\ n <= 0 => Refusals(n, s, kept) = <<>>
<1> DEFINE all == [i \in 1..n |-> About("error", s)]
<1>1. About("error", s) \in Event
  BY EventFacts DEF Over
<1>2. <<>> \in Seq(Event) /\ Len(<<>>) = 0
  BY EmptySeq
<1>3. CASE n <= 0
  <2>1. 1..n = {} /\ 1..0 = {}
    BY <1>3
  <2>2. all = <<>>
    BY <2>1
  <2>3. Refusals(n, s, kept) = <<>>
    BY <2>2 DEF Refusals
  <2> QED
    BY <1>2, <2>3 DEF Of
<1>4. CASE n > 0
  <2>1. n \in Nat
    BY <1>4
  <2>2. all \in [1..n -> Event]
    BY <1>1
  <2>3. all \in Seq(Event) /\ Len(all) = n
    BY <2>1, <2>2, SeqDef
  <2>4. \A x \in Of(all) : x = About("error", s)
    BY <2>3 DEF Of
  <2> QED
    BY <1>2, <1>4, <2>3, <2>4 DEF Refusals, Of
<1> QED
  BY <1>3, <1>4

\* What a start says: refusals by the other handlers, and one or two events of its own.
LEMMA StartTold ==
    ASSUME TypeOK, NEW e \in Endpoints, StartSession(e)
    PROVE  LET s == Head(toRunner[e]).of
               kept == activeSessions[e] \cup {s}
               started == About("started", s)
               error == About("error", s)
           IN  \E told \in {<<started>>, <<error>>, <<started, error>>, <<error, started>>} :
                  /\ told \in Seq(Event)
                  /\ Send(e, Refusals(handlers[e] - 1, s, kept) \o told)
                  /\ Refusals(handlers[e] - 1, s, kept) \o told \in Seq(Event)
                  /\ \/ /\ told = <<started>>
                        /\ agents' = [agents EXCEPT ![e] = @ \cup {s}]
                        /\ activeSessions' = [activeSessions EXCEPT ![e] = kept]
                     \/ /\ UNCHANGED agents
                        /\ \/ UNCHANGED activeSessions
                           \/ activeSessions' = [activeSessions EXCEPT ![e] = kept]
<1> DEFINE s == Head(toRunner[e]).of
           kept == activeSessions[e] \cup {s}
           started == About("started", s)
           error == About("error", s)
           others == Refusals(handlers[e] - 1, s, kept)
           tolds == {<<started>>, <<error>>, <<started, error>>, <<error, started>>}
<1>1. s \in Sessions /\ handlers[e] - 1 \in Int
  BY Requested DEF StartSession, TypeOK
<1>2. started \in Event /\ error \in Event
  BY <1>1, EventFacts DEF Over
<1>3. others \in Seq(Event)
  BY <1>1, RefusalsTyped
<1>4. \E told \in tolds :
          /\ Send(e, others \o told)
          /\ \/ /\ told = <<started>>
                /\ agents' = [agents EXCEPT ![e] = @ \cup {s}]
                /\ activeSessions' = [activeSessions EXCEPT ![e] = kept]
             \/ /\ UNCHANGED agents
                /\ \/ UNCHANGED activeSessions
                   \/ activeSessions' = [activeSessions EXCEPT ![e] = kept]
  <2>1. \/ /\ Send(e, others \o <<started>>)
           /\ agents' = [agents EXCEPT ![e] = @ \cup {s}]
           /\ activeSessions' = [activeSessions EXCEPT ![e] = kept]
        \/ /\ Send(e, others \o <<error>>)
           /\ UNCHANGED <<agents, activeSessions>>
        \/ /\ \E told \in {<<started, error>>, <<error, started>>} : Send(e, others \o told)
           /\ UNCHANGED agents
           /\ activeSessions' = [activeSessions EXCEPT ![e] = kept]
    BY DEF StartSession
  <2> HIDE DEF started, error, others, s, kept
  <2>2. CASE Send(e, others \o <<started>>)
             /\ agents' = [agents EXCEPT ![e] = @ \cup {s}]
             /\ activeSessions' = [activeSessions EXCEPT ![e] = kept]
    BY <2>2
  <2>3. CASE Send(e, others \o <<error>>) /\ UNCHANGED <<agents, activeSessions>>
    BY <2>3
  <2>4. CASE /\ \E told \in {<<started, error>>, <<error, started>>} : Send(e, others \o told)
             /\ UNCHANGED agents
             /\ activeSessions' = [activeSessions EXCEPT ![e] = kept]
    BY <2>4
  <2> QED
    BY <2>1, <2>2, <2>3, <2>4
<1> HIDE DEF started, error, others, s
<1>5. \A told \in tolds : told \in Seq(Event)
  <2>1. <<started>> \in Seq(Event) /\ <<error>> \in Seq(Event)
    BY <1>2
  <2>2. <<started, error>> \in Seq(Event) /\ <<error, started>> \in Seq(Event)
    BY <1>2
  <2> QED
    BY <2>1, <2>2
<1>6. \A told \in tolds : others \o told \in Seq(Event)
  BY <1>3, <1>5, QueueConcat
<1> HIDE DEF kept
<1>7. \E told \in tolds :
          /\ told \in Seq(Event)
          /\ Send(e, others \o told)
          /\ others \o told \in Seq(Event)
          /\ \/ /\ told = <<started>>
                /\ agents' = [agents EXCEPT ![e] = @ \cup {s}]
                /\ activeSessions' = [activeSessions EXCEPT ![e] = kept]
             \/ /\ UNCHANGED agents
                /\ \/ UNCHANGED activeSessions
                   \/ activeSessions' = [activeSessions EXCEPT ![e] = kept]
  BY <1>4, <1>5, <1>6
<1> QED
  BY <1>7 DEF started, error, others, s, kept

\* The ends that a runner reports before it exits.
LEMMA EndsTyped ==
    ASSUME TypeOK, Base, NEW e \in Endpoints
    PROVE  LET ended == {About("ended", s) : s \in activeSessions[e]}
           IN  /\ SetToSeq(ended) \in Seq(Event)
               /\ \A x \in Of(SetToSeq(ended)) : \E s \in activeSessions[e] : x = About("ended", s)
<1> DEFINE S == activeSessions[e]
           ended == {About("ended", s) : s \in S}
           f == [s \in S |-> About("ended", s)]
<1>1. IsFiniteSet(S) /\ S \subseteq Sessions
  BY DEF Base, Keeps, Kept, TypeOK
<1>2. f \in Surjection(S, ended)
  BY DEF Surjection
<1>3. IsFiniteSet(ended)
  BY <1>1, <1>2, FS_Surjection
<1>4. ended \subseteq Event
  BY <1>1, EventFacts DEF Over
<1>5. SetToSeq(ended) \in Seq(ended)
  BY <1>3, SetSequences
<1>6. SetToSeq(ended) \in Seq(Event)
  BY <1>4, <1>5, SeqMonotonic
<1>7. \A i \in 1..Len(SetToSeq(ended)) : SetToSeq(ended)[i] \in ended
  BY <1>5, ElementOfSeq
<1> QED
  BY <1>6, <1>7 DEF Of

\* Registration asks for every session that waits, once, in some order.
LEMMA RegisterAsks ==
    ASSUME TypeOK, Rows, NEW e \in Endpoints, NEW order \in SetToSeqs(Waiting(e))
    PROVE  LET requests == [i \in DOMAIN order |-> About("start", order[i])]
           IN  /\ requests \in Seq(Start)
               /\ \A i, j \in 1..Len(requests) : requests[i].of = requests[j].of => i = j
               /\ \A x \in Of(requests) : x.of \in Waiting(e)
<1> DEFINE requests == [i \in DOMAIN order |-> About("start", order[i])]
<1>1. Waiting(e) \subseteq {s \in Sessions : session[s].pc # "idle"}
  BY DEF Waiting, Rows
<1>2. IsFiniteSet(Waiting(e))
  BY <1>1, FS_Subset DEF Rows
<1>3. order \in Seq(Waiting(e)) /\ \A i, j \in 1..Len(order) : order[i] = order[j] => i = j
  BY <1>2, SetSequences
<1>4. /\ Len(order) \in Nat /\ DOMAIN order = 1..Len(order)
      /\ \A i \in 1..Len(order) : order[i] \in Waiting(e)
  BY <1>3, LenProperties, ElementOfSeq
<1>5. \A i \in 1..Len(order) : About("start", order[i]) \in Start
                               /\ About("start", order[i]).of = order[i]
  BY <1>4, EventFacts DEF Waiting
<1>6. requests \in [1..Len(order) -> Start]
  BY <1>4, <1>5
<1>7. requests \in Seq(Start) /\ Len(requests) = Len(order)
  BY <1>4, <1>6, SeqDef
<1> QED
  BY <1>3, <1>4, <1>5, <1>7 DEF Of
-----------------------------------------------------------------------------
\* What the server keeps, besides the sessions.
RegistryOK == /\ pendingEndpoints \subseteq Endpoints
              /\ online \subseteq Endpoints
              /\ endpointSessions \in [Endpoints -> SUBSET Sessions]
              /\ \A e \in Endpoints \ online : endpointSessions[e] = {} /\ e \notin joined
              /\ joined \subseteq Endpoints

\* The runners.
RunnersOK == /\ runner \in [Endpoints -> Processes]
             /\ handlers \in [Endpoints -> Nat]
             /\ activeSessions \in [Endpoints -> SUBSET Sessions]
             /\ agents \in [Endpoints -> SUBSET Sessions]
             /\ exited \in [Endpoints -> SUBSET Sessions]
             /\ signalled \in [Endpoints -> SUBSET Sessions]

QueuesOK == /\ toServer \in [Endpoints -> Seq(Event)]
            /\ toRunner \in [Endpoints -> Seq(Start)]

Types == /\ session \in [Sessions -> SessionRow]
         /\ RegistryOK /\ RunnersOK /\ QueuesOK
         /\ disturbed \subseteq Endpoints /\ faults \in 0..MaxFaults

LEMMA TypeParts == (TypeOK <=> Types) /\ (Types' => TypeOK')
BY DEF Types, TypeOK, RegistryOK, RunnersOK, QueuesOK, SessionRow

LEMMA CreationTypes ==
    ASSUME TypeOK, Rows, Base', NEW s \in Sessions,
           Create(s) \/ SandboxUp(s) \/ SpawnReturns(s) \/ CreateFails(s) \/ Store(s)
    PROVE  TypeOK'
<1>1. session' \in [Sessions -> SessionRow]
  BY DEF Base, Spawning
<1>2. RegistryOK /\ RunnersOK /\ QueuesOK /\ session[s] \in SessionRow
      /\ disturbed \subseteq Endpoints /\ faults \in 0..MaxFaults
  BY TypeParts DEF Types
<1>3. faults' \in 0..MaxFaults /\ disturbed' \subseteq Endpoints
  BY <1>2, CloudAssumption DEF Create, SandboxUp, SpawnReturns, CreateFails, Store, Fault
<1>4. CASE Create(s) \/ CreateFails(s)
  BY <1>1, <1>2, <1>3, <1>4, TypeParts DEF Types, Create, CreateFails, process, RegistryOK, RunnersOK,
                                           QueuesOK
<1>5. CASE SandboxUp(s)
  BY <1>1, <1>2, <1>3, <1>5, TypeParts DEF Types, SandboxUp, RegistryOK, RunnersOK, QueuesOK, Processes
<1>6. CASE SpawnReturns(s)
  <2>1. session[s].endpoint \in Endpoints
    BY <1>6 DEF SpawnReturns, Rows
  <2> QED
    BY <1>1, <1>2, <1>3, <1>6, <2>1, TypeParts DEF Types, SpawnReturns, process, RegistryOK, RunnersOK,
                                                   QueuesOK
<1>7. CASE Store(s)
  <2> DEFINE e == session[s].endpoint
             requests == IF StartsAtOnce(e) THEN <<About("start", s)>> ELSE <<>>
  <2>1. /\ UNCHANGED <<pendingEndpoints, online, joined, process, toServer>>
        /\ endpointSessions' = Counted(e, s)
        /\ Ask(e, requests)
        /\ e \in Endpoints
    BY <1>7 DEF Store, Rows
  <2>2. requests \in Seq(Start)
    BY EventFacts
  <2> HIDE DEF requests
  <2>3. QueuesOK'
    BY <1>2, <2>1, <2>2, Asks DEF QueuesOK
  <2>4. RegistryOK'
    BY <1>2, <2>1 DEF RegistryOK, Counted
  <2>5. RunnersOK'
    BY <1>2, <2>1 DEF RunnersOK, process
  <2> QED
    BY <1>1, <1>3, <2>3, <2>4, <2>5, TypeParts DEF Types
<1> QED
  BY <1>4, <1>5, <1>6, <1>7

LEMMA ServerTypes ==
    ASSUME TypeOK, Rows, Base', NEW e \in Endpoints, ServerHears(e)
    PROVE  TypeOK'
<1>1. session' \in [Sessions -> SessionRow]
  BY DEF Base, Spawning
<1>2. RegistryOK /\ RunnersOK /\ QueuesOK
      /\ disturbed \subseteq Endpoints /\ faults \in 0..MaxFaults
  BY TypeParts DEF Types
<1>3. UNCHANGED <<pendingEndpoints, process, disturbed, faults>>
  BY DEF ServerHears, Register, Unregister, Started, Finished
<1>4. toServer' \in [Endpoints -> Seq(Event)]
  BY Heard DEF ServerHears, Register, Unregister, Started, Finished
<1>5. RunnersOK' /\ pendingEndpoints' \subseteq Endpoints
      /\ disturbed' \subseteq Endpoints /\ faults' \in 0..MaxFaults
  BY <1>2, <1>3 DEF RunnersOK, RegistryOK, process
<1>6. CASE Register(e)
  <2>1. PICK order \in SetToSeqs(Waiting(e)) :
            Ask(e, [i \in DOMAIN order |-> About("start", order[i])])
    BY <1>6 DEF Register
  <2>2. toRunner' \in [Endpoints -> Seq(Start)]
    BY <2>1, RegisterAsks, Asks
  <2>3. RegistryOK'
    BY <1>2, <1>3, <1>6 DEF Register, RegistryOK, Emptied
  <2> QED
    BY <1>1, <1>4, <1>5, <2>2, <2>3, TypeParts DEF Types, QueuesOK
<1>7. CASE Unregister(e)
  <2>1. RegistryOK'
    BY <1>2, <1>3, <1>7 DEF Unregister, RegistryOK, Emptied
  <2> QED
    BY <1>1, <1>2, <1>4, <1>5, <1>7, <2>1, TypeParts DEF Types, Unregister, QueuesOK
<1>8. CASE Started(e)
  BY <1>1, <1>2, <1>4, <1>5, <1>8, TypeParts DEF Types, Started, QueuesOK, RegistryOK
<1>9. CASE Finished(e)
  <2>1. PICK s : endpointSessions' = Unassigned(s)
    BY <1>9 DEF Finished, Finish
  <2>2. endpointSessions' \in [Endpoints -> SUBSET Sessions]
        /\ \A f \in Endpoints : endpointSessions'[f] \subseteq endpointSessions[f]
    BY <1>2, <2>1 DEF RegistryOK, Unassigned
  <2>3. UNCHANGED <<online, joined, pendingEndpoints, toRunner>>
    BY <1>9 DEF Finished
  <2>4. RegistryOK'
    BY <1>2, <2>2, <2>3 DEF RegistryOK
  <2> QED
    BY <1>1, <1>2, <1>4, <1>5, <2>3, <2>4, TypeParts DEF Types, QueuesOK
<1> QED
  BY <1>6, <1>7, <1>8, <1>9 DEF ServerHears

LEMMA RunnerTypes ==
    ASSUME TypeOK, Base, NEW e \in Endpoints,
           \/ Connect(e) \/ RunnerHears(e) \/ Drop(e) \/ Die(e) \/ CleanUp(e)
           \/ \E s \in Sessions : AgentExit(e, s) \/ AgentEnds(e, s) \/ ForgetSession(e, s)
    PROVE  TypeOK'
<1>1. session \in [Sessions -> SessionRow] /\ RegistryOK /\ RunnersOK /\ QueuesOK
      /\ disturbed \subseteq Endpoints /\ faults \in 0..MaxFaults
  BY TypeParts DEF Types
<1>2. UNCHANGED <<session, pendingEndpoints, online, endpointSessions>>
      /\ joined' \in {joined, joined \ {e}}
  BY DEF Connect, RunnerHears, RefuseStart, StartSession, Drop, Die, CleanUp, AgentExit,
         AgentEnds, ForgetSession, Gone, server
<1>3. RegistryOK' /\ session' \in [Sessions -> SessionRow]
  BY <1>1, <1>2 DEF RegistryOK
<1>4. faults' \in 0..MaxFaults /\ disturbed' \subseteq Endpoints
  BY <1>1, CloudAssumption DEF Connect, RunnerHears, RefuseStart, StartSession, Drop, Die, CleanUp,
         AgentExit, AgentEnds, ForgetSession, Gone, Disturb, Fault, process
<1>5. SUFFICES RunnersOK' /\ QueuesOK'
  BY <1>3, <1>4, TypeParts DEF Types
<1>0. [toServer EXCEPT ![e] = <<>>] \in [Endpoints -> Seq(Event)]
  BY <1>1 DEF QueuesOK
<1>6. CASE Connect(e)
  <2>1. toServer' \in [Endpoints -> Seq(Event)]
    <3>1. <<[type |-> "register"]>> \in Seq(Event)
      BY EventFacts
    <3> QED
      BY <1>1, <1>6, <3>1, Says DEF Connect, QueuesOK
  <2>2. runner' \in [Endpoints -> Processes]
    BY <1>1, <1>6 DEF Connect, RunnersOK, Processes
  <2>3. handlers' \in [Endpoints -> Nat]
    BY <1>1, <1>6 DEF Connect, RunnersOK
  <2> QED
    BY <1>1, <1>6, <2>1, <2>2, <2>3 DEF Connect, RunnersOK, QueuesOK
<1>7. CASE RefuseStart(e)
  <2>1. Refusals(handlers[e], Head(toRunner[e]).of, activeSessions[e]) \in Seq(Event)
    BY <1>1, <1>7, Requested, RefusalsTyped DEF RefuseStart, RunnersOK
  <2>2. QueuesOK'
    BY <1>7, <2>1, Says, Requested DEF RefuseStart, QueuesOK
  <2> QED
    BY <1>1, <1>7, <2>2 DEF RefuseStart, RunnersOK, process
<1>8. CASE StartSession(e)
  <2> DEFINE s == Head(toRunner[e]).of
  <2>1. s \in Sessions /\ toRunner' \in [Endpoints -> Seq(Start)]
    BY <1>8, Requested DEF StartSession
  <2>2. UNCHANGED <<runner, handlers, exited, signalled>>
    BY <1>8 DEF StartSession
  <2>3. /\ toServer' \in [Endpoints -> Seq(Event)]
        /\ \/ agents' = [agents EXCEPT ![e] = @ \cup {s}]
           \/ UNCHANGED agents
        /\ \/ activeSessions' = [activeSessions EXCEPT ![e] = @ \cup {s}]
           \/ UNCHANGED activeSessions
    BY <1>8, StartTold, Says
  <2> HIDE DEF s
  <2>4. agents' \in [Endpoints -> SUBSET Sessions]
    <3>1. agents \in [Endpoints -> SUBSET Sessions]
      BY <1>1 DEF RunnersOK
    <3>2. agents[e] \cup {s} \in SUBSET Sessions
      BY <2>1, <3>1
    <3> QED
      BY <2>3, <3>1, <3>2
  <2>5. activeSessions' \in [Endpoints -> SUBSET Sessions]
    <3>1. activeSessions \in [Endpoints -> SUBSET Sessions]
      BY <1>1 DEF RunnersOK
    <3>2. activeSessions[e] \cup {s} \in SUBSET Sessions
      BY <2>1, <3>1
    <3> QED
      BY <2>3, <3>1, <3>2
  <2> QED
    BY <1>1, <2>1, <2>2, <2>3, <2>4, <2>5 DEF RunnersOK, QueuesOK
<1>9. ASSUME NEW s \in Sessions, AgentExit(e, s) PROVE RunnersOK' /\ QueuesOK'
  <2>1. PICK type \in Over : Send(e, <<About(type, s)>>)
    BY <1>9 DEF AgentExit
  <2>2. <<About(type, s)>> \in Seq(Event)
    <3>1. About(type, s) \in Event
      BY EventFacts
    <3> QED
      BY <3>1
  <2>3. toServer' \in [Endpoints -> Seq(Event)]
    BY <2>1, <2>2, Says
  <2> QED
    BY <1>1, <1>9, <2>3 DEF AgentExit, RunnersOK, QueuesOK
<1>10. ASSUME NEW s \in Sessions, AgentEnds(e, s) \/ ForgetSession(e, s)
       PROVE  RunnersOK' /\ QueuesOK'
  <2>1. CASE AgentEnds(e, s)
    BY <1>1, <2>1 DEF AgentEnds, RunnersOK, QueuesOK
  <2>2. CASE ForgetSession(e, s)
    BY <1>1, <2>2 DEF ForgetSession, RunnersOK, QueuesOK
  <2> QED
    BY <1>10, <2>1, <2>2
<1>11. CASE Drop(e)
  <2>1. runner' \in [Endpoints -> Processes]
    BY <1>1, <1>11 DEF Drop, RunnersOK, Processes
  <2>2. UNCHANGED <<handlers, activeSessions, agents, exited, signalled>>
    BY <1>11 DEF Drop
  <2>3. QueuesOK'
    BY <1>1, <1>11 DEF Drop, QueuesOK
  <2> QED
    BY <1>1, <2>1, <2>2, <2>3 DEF RunnersOK
<1>12. CASE Die(e) \/ CleanUp(e)
  <2>1. PICK left : left \subseteq agents[e] /\ Gone(e, left)
    BY <1>12 DEF Die, CleanUp
  <2>2. RunnersOK' /\ toRunner' \in [Endpoints -> Seq(Start)]
    <3>1. signalled' \in [Endpoints -> SUBSET Sessions]
      BY <1>1, <1>12 DEF Die, CleanUp, Stopped, RunnersOK
    <3>2. UNCHANGED handlers
      BY <1>12 DEF Die, CleanUp
    <3>3. /\ runner' \in [Endpoints -> Processes]
          /\ activeSessions' \in [Endpoints -> SUBSET Sessions]
          /\ exited' \in [Endpoints -> SUBSET Sessions]
      BY <1>1, <2>1 DEF Gone, RunnersOK, Processes
    <3>4. agents' \in [Endpoints -> SUBSET Sessions]
      BY <1>1, <2>1 DEF Gone, RunnersOK
    <3>5. toRunner' \in [Endpoints -> Seq(Start)]
      BY <1>1, <2>1 DEF Gone, QueuesOK
    <3> QED
      BY <1>1, <3>1, <3>2, <3>3, <3>4, <3>5 DEF RunnersOK
  <2>3. CASE Die(e)
    BY <1>0, <1>1, <2>2, <2>3 DEF Die, QueuesOK
  <2>4. CASE CleanUp(e)
    <3> DEFINE ended == {About("ended", s) : s \in activeSessions[e]}
               told == SetToSeq(ended) \o <<[type |-> "unregister"]>>
    <3>1. <<[type |-> "unregister"]>> \in Seq(Event) /\ SetToSeq(ended) \in Seq(Event)
      BY EventFacts, EndsTyped
    <3>2. told \in Seq(Event)
      BY <3>1, QueueConcat
    <3>3. Send(e, told) \/ toServer' = [toServer EXCEPT ![e] = <<>>]
      BY <2>4 DEF CleanUp
    <3> HIDE DEF told
    <3> QED
      BY <1>0, <1>1, <2>2, <3>2, <3>3, Says DEF QueuesOK
  <2> QED
    BY <1>12, <2>3, <2>4
<1> QED
  BY <1>6, <1>7, <1>8, <1>9, <1>10, <1>11, <1>12 DEF RunnerHears

LEMMA TypesKept == ASSUME TypeOK, Base, Rows, Next PROVE TypeOK'
<1>1. Base'
  BY BaseStep
<1> QED
  BY <1>1, CreationTypes, ServerTypes, RunnerTypes DEF Next
-----------------------------------------------------------------------------
(* What every step leaves alone.                                           *)

Still(f) == /\ runner'[f] = runner[f] /\ handlers'[f] = handlers[f]
            /\ activeSessions'[f] = activeSessions[f]
            /\ agents'[f] = agents[f] /\ exited'[f] = exited[f]
            /\ signalled'[f] = signalled[f]
            /\ toServer'[f] = toServer[f] /\ toRunner'[f] = toRunner[f]
            /\ endpointSessions'[f] = endpointSessions[f]
            /\ f \in online' <=> f \in online
            /\ f \in joined' <=> f \in joined
            /\ f \in disturbed' <=> f \in disturbed

\* The sessions of f are the same ones, in the same state.
SameRows(f) == \A s \in Sessions : /\ Mine(f, s)' <=> Mine(f, s)
                                   /\ Mine(f, s) => session'[s] = session[s]

LEMMA TalkStays ==
    ASSUME NEW f \in Endpoints, Talk(f), Still(f), SameRows(f), TypeOK
    PROVE  Talk(f)'
<1>1. \A s : (Mine(f, s)' <=> Mine(f, s)) /\ (Mine(f, s) => session'[s] = session[s])
  BY DEF SameRows, Mine
<1>2. Placed(f)'
  BY <1>1 DEF Talk, Placed, Still
<1>3. Registered(f)'
  BY DEF Talk, Registered, Unheard, Registers, Still
<1>4. \A s : Alive(f, s)' <=> Alive(f, s)
  BY DEF Alive, Asked, Still
<1>5. \A s \in Sessions : Alive(f, s) => Mine(f, s)
  BY DEF Talk, Placed, Alive, Asked
<1>6. Once(f)'
  <2>1. \A s : Asked(f, s)' <=> Asked(f, s)
    BY DEF Asked, Still
  <2> QED
    BY <1>1, <1>4, <1>5, <2>1 DEF Talk, Once, Still
<1>7. Calm(f)'
  BY <1>1, <1>4 DEF Talk, Calm, Still
<1> QED
  BY <1>2, <1>3, <1>6, <1>7 DEF Talk

\* A step of e is nothing to the others.
Others(e) == \A f \in Endpoints \ {e} : Still(f) /\ SameRows(f)

Talks == Rows /\ \A e \in Endpoints : Talk(e)

LEMMA TalksStay ==
    ASSUME TypeOK, Talks, NEW e \in Endpoints, Others(e), Talk(e)', Rows'
    PROVE  Talks'
BY TalkStays DEF Talks, Others

\* A session stays where it was put.
LEMMA RowsStay ==
    ASSUME Rows,
           \A s \in Sessions : session'[s].pc # "idle" =>
               session[s].pc # "idle" /\ session'[s].endpoint = session[s].endpoint,
           \A s \in Sessions : session'[s].pc # "done" =>
               session'[s].status = "none" /\ ~session'[s].assigned
    PROVE  Rows'
<1>1. {s \in Sessions : session'[s].pc # "idle"} \subseteq {s \in Sessions : session[s].pc # "idle"}
  OBVIOUS
<1>2. IsFiniteSet({s \in Sessions : session'[s].pc # "idle"})
  BY <1>1, FS_Subset DEF Rows
<1> QED
  BY <1>2 DEF Rows
-----------------------------------------------------------------------------
(* Steps of the server.                                                    *)

LEMMA CreationTalks ==
    ASSUME TypeOK, Base, Talks, NEW s \in Sessions,
           Create(s) \/ SandboxUp(s) \/ SpawnReturns(s) \/ CreateFails(s)
    PROVE  Talks'
<1>1. session \in [Sessions -> SessionRow]
  BY DEF Base, Spawning
<1>2. /\ session[s].pc # "done" /\ session'[s].pc # "done"
      /\ session'[s].status = session[s].status /\ session'[s].assigned = session[s].assigned
      /\ \A t \in Sessions \ {s} : session'[t] = session[t]
  BY <1>1 DEF Create, SandboxUp, SpawnReturns, CreateFails, SessionRow
<1>3. \A f \in Endpoints : SameRows(f)
  BY <1>2 DEF SameRows, Mine
<1>4. Rows'
  <2>1. CASE Create(s)
    <3>1. session'[s].endpoint \in Endpoints
      BY <1>1, <2>1 DEF Create, Available, TypeOK, SessionRow
    <3>2. {t \in Sessions : session'[t].pc # "idle"}
            \subseteq {t \in Sessions : session[t].pc # "idle"} \cup {s}
      BY <1>2
    <3>3. IsFiniteSet({t \in Sessions : session[t].pc # "idle"} \cup {s})
      BY FS_AddElement DEF Talks, Rows
    <3>4. IsFiniteSet({t \in Sessions : session'[t].pc # "idle"})
      BY <3>2, <3>3, FS_Subset
    <3> QED
      BY <1>2, <3>1, <3>4 DEF Talks, Rows
  <2>2. CASE SandboxUp(s) \/ SpawnReturns(s) \/ CreateFails(s)
    <3>1. session[s].pc # "idle" /\ session'[s].endpoint = session[s].endpoint
      BY <1>1, <2>2 DEF SandboxUp, SpawnReturns, CreateFails, SessionRow
    <3> QED
      BY <1>2, <3>1, RowsStay DEF Talks, Rows
  <2> QED
    BY <2>1, <2>2
<1>5. CASE Create(s) \/ SpawnReturns(s) \/ CreateFails(s)
  <2>1. \A f \in Endpoints : Still(f)
    BY <1>5 DEF Create, SpawnReturns, CreateFails, process, Still
  <2> QED
    BY <1>3, <1>4, <2>1, TalkStays DEF Talks
<1>6. CASE SandboxUp(s)
  <2>1. PICK e \in Endpoints : e = session[s].endpoint /\ runner[e] = "off"
    BY <1>6 DEF SandboxUp, Base, Spawning
  <2>2. /\ runner'[e] = "up"
        /\ \A f \in Endpoints \ {e} : runner'[f] = runner[f]
        /\ UNCHANGED <<pendingEndpoints, online, endpointSessions, joined, handlers,
                       activeSessions, agents, exited, signalled, toServer, toRunner,
                       disturbed>>
    BY <1>6, <2>1 DEF SandboxUp, TypeOK
  <2>3. Others(e)
    BY <1>3, <2>2 DEF Others, Still
  <2>4. Talk(e)
    BY <2>1 DEF Talks
  <2>5. SameRows(e)
    BY <1>3, <2>1
  <2>6. \A t : (Mine(e, t)' <=> Mine(e, t)) /\ (Mine(e, t) => session'[t] = session[t])
    BY <2>5 DEF SameRows, Mine
  <2>7. Placed(e)' /\ Registered(e)'
    BY <2>2, <2>4, <2>6 DEF Talk, Placed, Registered, Unheard, Registers
  <2>8. \A t : (Alive(e, t)' <=> Alive(e, t)) /\ (Asked(e, t)' <=> Asked(e, t))
    BY <2>2 DEF Alive, Asked
  <2>9. \A t : Alive(e, t) => Mine(e, t)
    BY <2>4 DEF Talk, Placed, Alive, Asked
  <2>10. Once(e)'
    BY <2>2, <2>4, <2>6, <2>8, <2>9 DEF Talk, Once
  <2>11. Calm(e)'
    BY <2>1, <2>2, <2>4, <2>6, <2>8 DEF Talk, Calm
  <2> QED
    BY <1>4, <2>1, <2>3, <2>7, <2>10, <2>11, TalksStay DEF Talk
<1> QED
  BY <1>5, <1>6

\* Where only the types and the subjects of events count.
LEMMA SaysMore ==
    ASSUME TypeOK, NEW e \in Endpoints, NEW events \in Seq(Event), Send(e, events)
    PROVE  /\ Of(toServer'[e]) \subseteq Of(toServer[e]) \cup Of(events)
           /\ (/\ \A x \in Of(events) : x.type # "register"
               /\ \A i \in 2..Len(toServer[e]) : toServer[e][i].type # "register")
                 => \A i \in 2..Len(toServer'[e]) : toServer'[e][i].type # "register"
           /\ \A f \in Endpoints \ {e} : toServer'[f] = toServer[f]
<1>1. toServer'[e] = toServer[e] \o events /\ toServer[e] \in Seq(Event)
  BY Says DEF TypeOK
<1>2. /\ Of(toServer[e] \o events) \subseteq Of(toServer[e]) \cup Of(events)
      /\ \A i \in 1..Len(toServer[e] \o events) :
            \/ i \in 1..Len(toServer[e]) /\ (toServer[e] \o events)[i] = toServer[e][i]
            \/ (toServer[e] \o events)[i] \in Of(events)
  BY <1>1, QueueConcat DEF Of
<1>3. Len(toServer[e]) \in Nat
  BY <1>1, LenProperties
<1>4. ASSUME NEW i \in 2..Len(toServer'[e])
      PROVE  \/ i \in 2..Len(toServer[e]) /\ toServer'[e][i] = toServer[e][i]
             \/ toServer'[e][i] \in Of(events)
  BY <1>1, <1>2, <1>3, QueueConcat
<1>5. \A f \in Endpoints \ {e} : toServer'[f] = toServer[f]
  BY Says
<1> QED
  BY <1>1, <1>2, <1>4, <1>5

LEMMA HearsLess ==
    ASSUME TypeOK, NEW e \in Endpoints, NEW type, Hears(e, type)
    PROVE  /\ Of(toServer'[e]) \subseteq Of(toServer[e])
           /\ Head(toServer[e]) \in Of(toServer[e]) /\ Head(toServer[e]).type = type
           /\ toServer[e] # <<>>
           /\ (\A i \in 2..Len(toServer[e]) : toServer[e][i].type # "register")
                 => \A x \in Of(toServer'[e]) : x.type # "register"
           /\ \A i \in 2..Len(toServer'[e]) : toServer'[e][i] \in Of(toServer'[e])
           /\ \A f \in Endpoints \ {e} : toServer'[f] = toServer[f]
           /\ runner[e] \in {"connected", "gone"}
<1>1. /\ toServer[e] \in Seq(Event) /\ toServer[e] # <<>>
      /\ toServer'[e] = Tail(toServer[e]) /\ Head(toServer[e]).type = type
      /\ \A f \in Endpoints \ {e} : toServer'[f] = toServer[f]
  BY Heard DEF TypeOK
<1>2. /\ Len(toServer[e]) \in Nat /\ Len(toServer'[e]) = Len(toServer[e]) - 1
      /\ \A i \in 1..Len(toServer'[e]) : toServer'[e][i] = toServer[e][i + 1]
      /\ Head(toServer[e]) \in Of(toServer[e])
      /\ Of(toServer'[e]) \subseteq Of(toServer[e])
  BY <1>1, QueueTail
<1>3. \A i \in 1..Len(toServer'[e]) : i + 1 \in 2..Len(toServer[e])
  BY <1>2
<1> QED
  BY <1>1, <1>2, <1>3 DEF Of, Hears

\* A session is stored: until now nothing was said of it.
LEMMA StoreTalks ==
    ASSUME TypeOK, Base, Talks, NEW s \in Sessions, Store(s)
    PROVE  Talks'
<1>1. session \in [Sessions -> SessionRow]
  BY DEF Base, Spawning
<1>2. PICK e \in Endpoints : e = session[s].endpoint
  BY DEF Store, Talks, Rows
<1> DEFINE status == IF StartsAtOnce(e) THEN "starting" ELSE "pending"
           requests == IF StartsAtOnce(e) THEN <<About("start", s)>> ELSE <<>>
<1>3. /\ session[s].pc = "store"
      /\ session' = [session EXCEPT ![s].pc = "done", ![s].assigned = TRUE, ![s].status = status]
      /\ endpointSessions' = Counted(e, s)
      /\ Ask(e, requests)
      /\ UNCHANGED <<joined, pendingEndpoints, online, process, toServer, disturbed>>
  BY <1>2 DEF Store
<1>4. /\ session'[s].pc = "done" /\ session'[s].assigned /\ session'[s].endpoint = e
      /\ session'[s].status = status
      /\ \A t \in Sessions \ {s} : session'[t] = session[t]
  BY <1>1, <1>2, <1>3 DEF SessionRow
<1>5. \A f \in Endpoints \ {e} : SameRows(f)
  BY <1>2, <1>3, <1>4 DEF SameRows, Mine
<1>6. requests \in Seq(Start)
  BY EventFacts
<1>7. /\ toRunner'[e] = IF e \in joined THEN toRunner[e] \o requests ELSE toRunner[e]
      /\ \A f \in Endpoints \ {e} : toRunner'[f] = toRunner[f]
  BY <1>3, <1>6, Asks
<1>8. /\ \A f \in Endpoints \ {e} : endpointSessions'[f] = endpointSessions[f]
      /\ endpointSessions'[e] \subseteq endpointSessions[e] \cup {s}
  BY <1>3 DEF Counted, TypeOK
<1>9. Others(e)
  BY <1>3, <1>5, <1>7, <1>8 DEF Others, Still, process
<1>10. Rows'
  BY <1>2, <1>3, <1>4, RowsStay DEF Talks, Rows
<1>11. Talk(e) /\ toRunner[e] \in Seq(Start)
  BY DEF Talks, TypeOK
<1>12. \A t : Mine(e, t)' <=> Mine(e, t) \/ t = s
  BY <1>2, <1>4 DEF Mine
<1>13. ~Mine(e, s) /\ s \notin agents[e] /\ s \notin activeSessions[e] /\ ~Asked(e, s)
       /\ \A x \in Of(toServer[e]) : ~(x.type \in Over /\ x.of = s)
  BY <1>3, <1>11 DEF Mine, Talk, Placed, Asked
<1>14. /\ runner'[e] = runner[e] /\ handlers'[e] = handlers[e] /\ toServer'[e] = toServer[e]
       /\ activeSessions'[e] = activeSessions[e] /\ agents'[e] = agents[e]
       /\ exited'[e] = exited[e] /\ signalled'[e] = signalled[e]
       /\ UNCHANGED <<joined, online, disturbed>>
  BY <1>3 DEF process
<1>15. CASE toRunner'[e] = toRunner[e]
  <2>1. \A t : (Asked(e, t)' <=> Asked(e, t)) /\ (Alive(e, t)' <=> Alive(e, t))
    BY <1>14, <1>15 DEF Asked, Alive
  <2>2. Placed(e)' /\ Registered(e)'
    BY <1>8, <1>11, <1>12, <1>14, <1>15 DEF Talk, Placed, Registered, Unheard, Registers
  <2>3. Once(e)'
    BY <1>4, <1>11, <1>13, <1>14, <1>15, <2>1 DEF Talk, Once, Alive
  <2>4. Calm(e)'
    BY <1>4, <1>11, <1>12, <1>14, <1>15, <2>1 DEF Talk, Calm, Mine
  <2> QED
    BY <1>9, <1>10, <2>2, <2>3, <2>4, TalksStay DEF Talk
<1>16. CASE e \in joined /\ e \in online /\ toRunner'[e] = toRunner[e] \o <<About("start", s)>>
  <2>1. /\ Len(toRunner[e]) \in Nat
        /\ \A i \in 1..Len(toRunner'[e]) :
              \/ i \in 1..Len(toRunner[e]) /\ toRunner'[e][i] = toRunner[e][i]
              \/ i = Len(toRunner[e]) + 1 /\ toRunner'[e][i] = About("start", s)
        /\ Of(toRunner'[e]) \subseteq Of(toRunner[e]) \cup {About("start", s)}
        /\ About("start", s).of = s
    <3>1. About("start", s) \in Start /\ About("start", s).of = s
      BY EventFacts
    <3> QED
      BY <1>11, <1>16, <3>1, QueueAppend
  <2>2. \A t : Asked(e, t)' => Asked(e, t) \/ t = s
    BY <2>1 DEF Asked
  <2>3. Placed(e)'
    BY <1>8, <1>11, <1>12, <1>14, <2>1 DEF Talk, Placed
  <2>4. Registered(e)'
    BY <1>11, <1>14, <1>16 DEF Talk, Registered, Unheard, Registers
  <2>5. ASSUME handlers[e] <= 1, NEW i \in 1..Len(toRunner'[e]), NEW j \in 1..Len(toRunner'[e]),
               toRunner'[e][i].of = toRunner'[e][j].of
        PROVE  i = j
    <3>1. \A k \in 1..Len(toRunner[e]) : toRunner[e][k].of # s
      BY <1>13 DEF Asked, Of
    <3> QED
      BY <1>11, <2>1, <2>5, <3>1 DEF Talk, Once
  <2>6. status # "pending" /\ status \notin Over
    BY <1>16 DEF Over, StartsAtOnce
  <2>7. Once(e)'
    BY <1>4, <1>11, <1>13, <1>14, <2>2, <2>5, <2>6 DEF Talk, Once, Alive
  <2>8. Calm(e)'
    BY <1>4, <1>11, <1>12, <1>14, <1>16, <2>2 DEF Talk, Calm, Mine, Alive
  <2> QED
    BY <1>9, <1>10, <2>3, <2>4, <2>7, <2>8, TalksStay DEF Talk
<1>17. toRunner[e] \o <<>> = toRunner[e]
  BY <1>11, ConcatEmptySeq
<1> QED
  BY <1>7, <1>15, <1>16, <1>17 DEF StartsAtOnce

LEMMA Silence == Of(<<>>) = {} /\ Len(<<>>) = 0
BY EmptySeq DEF Of

\* Whoever is heard has connected; and when it has connected once, its registration is
\* no longer on its way afterwards.
LEMMA HeardRegistered ==
    ASSUME TypeOK, NEW e \in Endpoints, Talk(e), NEW type, Hears(e, type),
           runner'[e] = runner[e], handlers'[e] = handlers[e]
    PROVE  Registered(e)' /\ handlers[e] # 0
BY HearsLess DEF Talk, Registered, Unheard, Registers

\* The first registration comes before everything else: it asks for what waits, once.
LEMMA RegisterTalks ==
    ASSUME TypeOK, Talks, NEW e \in Endpoints, Register(e)
    PROVE  Talks'
<1>1. /\ Talk(e) /\ Hears(e, "register")
      /\ UNCHANGED <<session, pendingEndpoints, process, disturbed>>
  BY DEF Talks, Register
<1>2. /\ online' = online \cup {e} /\ joined' \in {joined, joined \cup {e}}
      /\ endpointSessions' = Emptied(e)
  BY DEF Register
<1>3. PICK requests \in Seq(Start) :
          /\ Ask(e, requests)
          /\ \A i, j \in 1..Len(requests) : requests[i].of = requests[j].of => i = j
          /\ \A x \in Of(requests) : x.of \in Waiting(e)
  <2>1. PICK order \in SetToSeqs(Waiting(e)) :
            Ask(e, [i \in DOMAIN order |-> About("start", order[i])])
    BY DEF Register
  <2> QED
    BY <2>1, RegisterAsks DEF Talks
<1>4. /\ toRunner'[e] = IF e \in joined' THEN toRunner[e] \o requests ELSE toRunner[e]
      /\ \A f \in Endpoints \ {e} : toRunner'[f] = toRunner[f]
      /\ toRunner[e] \in Seq(Start)
  BY <1>3, Asks DEF TypeOK
<1>5. endpointSessions'[e] = {}
      /\ \A f \in Endpoints \ {e} : endpointSessions'[f] = endpointSessions[f]
  BY <1>2 DEF Emptied, TypeOK
<1>6. /\ Of(toServer'[e]) \subseteq Of(toServer[e])
      /\ Registers(e)
      /\ \A f \in Endpoints \ {e} : toServer'[f] = toServer[f]
  BY <1>1, HearsLess DEF Registers
<1>7. Others(e)
  BY <1>1, <1>2, <1>4, <1>5, <1>6 DEF Others, Still, SameRows, Mine, process
<1>8. Rows'
  BY <1>1 DEF Talks, Rows
<1>9. \A s : (Mine(e, s)' <=> Mine(e, s)) /\ (s \in Waiting(e) => Mine(e, s))
  BY <1>1 DEF Mine, Waiting, Talks, Rows
<1>10. Of(toRunner'[e]) \subseteq Of(toRunner[e]) \cup Of(requests)
  BY <1>4, QueueConcat
<1>11. Placed(e)'
  BY <1>1, <1>3, <1>5, <1>6, <1>9, <1>10 DEF Talk, Placed, process
<1>12. Registered(e)' /\ handlers[e] # 0
  BY <1>1, HeardRegistered DEF process
<1>13. ASSUME handlers[e] <= 1
       PROVE  /\ toRunner'[e] \in {<<>>, requests} /\ (toRunner'[e] # <<>> => e \in joined')
              /\ activeSessions[e] = {} /\ agents[e] = {}
              /\ \A x \in Of(toServer[e]) : x.type \in {"register", "unregister"}
              /\ \A s : Alive(e, s)' => s \in Waiting(e)
  <2>1. /\ toRunner[e] = <<>> /\ activeSessions[e] = {} /\ agents[e] = {}
        /\ \A x \in Of(toServer[e]) : x.type \in {"register", "unregister"}
    BY <1>1, <1>6, <1>13 DEF Talk, Registered, Unheard
  <2>2. toRunner'[e] \in {<<>>, requests} /\ (toRunner'[e] # <<>> => e \in joined')
    BY <1>3, <1>4, <2>1, ConcatEmptySeq
  <2>3. \A s : Alive(e, s)' => s \in Waiting(e)
    BY <1>1, <1>3, <2>1, <2>2, Silence DEF Alive, Asked, process
  <2> QED
    BY <2>1, <2>2, <2>3
<1>14. Once(e)'
  BY <1>1, <1>3, <1>6, <1>13, Silence DEF Once, Waiting, Over, process
<1>15. Calm(e)'
  BY <1>1, <1>6, <1>9, <1>13 DEF Talk, Calm, Waiting, Mine, process
<1> QED
  BY <1>7, <1>8, <1>11, <1>12, <1>14, <1>15, TalksStay DEF Talk

\* Only a runner that was disturbed unregisters.
LEMMA UnregisterTalks ==
    ASSUME TypeOK, Talks, NEW e \in Endpoints, Unregister(e)
    PROVE  Talks'
<1>1. /\ Talk(e) /\ Hears(e, "unregister")
      /\ online' = online \ {e} /\ joined' = joined \ {e}
      /\ endpointSessions' = Emptied(e)
      /\ UNCHANGED <<pendingEndpoints, process, toRunner, disturbed>>
  BY DEF Talks, Unregister
<1>2. \A s \in Sessions : /\ session'[s].pc = session[s].pc
                          /\ session'[s].endpoint = session[s].endpoint
                          /\ session'[s].status = session[s].status
                          /\ ~session[s].assigned => ~session'[s].assigned
                          /\ s \notin endpointSessions[e] => session'[s] = session[s]
  BY TypeParts DEF Unregister, Types, SessionRow
<1>3. \A f, s : Mine(f, s)' <=> Mine(f, s)
  BY <1>2 DEF Mine
<1>4. \A f \in Endpoints \ {e} : SameRows(f)
  BY <1>1, <1>2, <1>3 DEF SameRows, Talk, Placed, Mine
<1>5. endpointSessions'[e] = {}
      /\ \A f \in Endpoints \ {e} : endpointSessions'[f] = endpointSessions[f]
  BY <1>1 DEF Emptied, TypeOK
<1>6. /\ Of(toServer'[e]) \subseteq Of(toServer[e])
      /\ \E x \in Of(toServer[e]) : x.type = "unregister"
      /\ \A f \in Endpoints \ {e} : toServer'[f] = toServer[f]
  BY <1>1, HearsLess
<1>7. Others(e)
  BY <1>1, <1>4, <1>5, <1>6 DEF Others, Still, process
<1>8. Rows'
  BY <1>2, RowsStay DEF Talks, Rows
<1>9. Placed(e)'
  BY <1>1, <1>3, <1>5, <1>6 DEF Talk, Placed, process
<1>10. Registered(e)'
  BY <1>1, HeardRegistered DEF process
<1>11. Once(e)'
  <2>1. \A s : (Alive(e, s)' <=> Alive(e, s)) /\ (Asked(e, s)' <=> Asked(e, s))
    BY <1>1 DEF Alive, Asked, process
  <2> QED
    BY <1>1, <1>2, <1>6, <2>1 DEF Talk, Once, process
<1>12. Calm(e)'
  BY <1>1, <1>6 DEF Talk, Calm
<1> QED
  BY <1>7, <1>8, <1>9, <1>10, <1>11, <1>12, TalksStay DEF Talk

\* What the runner says of a session changes the session's row: of one of its own
\* sessions, that stays where it is.
LEMMA ToldRow ==
    ASSUME TypeOK, Talks, NEW e \in Endpoints, NEW s, Mine(e, s), NEW row,
           row.pc = "done", row.endpoint = e, session' = [session EXCEPT ![s] = row]
    PROVE  /\ session'[s] = row /\ \A t \in Sessions \ {s} : session'[t] = session[t]
           /\ \A f, t : Mine(f, t)' <=> Mine(f, t)
           /\ \A f \in Endpoints \ {e} : SameRows(f)
           /\ Rows'
<1>1. s \in Sessions /\ session[s].pc = "done" /\ session[s].endpoint = e
  BY DEF Mine
<1>2. session'[s] = row /\ \A t \in Sessions \ {s} : session'[t] = session[t]
  BY <1>1 DEF TypeOK
<1>3. \A f, t : Mine(f, t)' <=> Mine(f, t)
  BY <1>1, <1>2 DEF Mine
<1>4. \A f \in Endpoints \ {e} : SameRows(f)
  BY <1>2, <1>3 DEF SameRows, Mine
<1>5. Rows'
  BY <1>1, <1>2, RowsStay DEF Talks, Rows
<1> QED
  BY <1>2, <1>3, <1>4, <1>5

LEMMA StartedTalks ==
    ASSUME TypeOK, Talks, NEW e \in Endpoints, Started(e)
    PROVE  Talks'
<1>1. PICK s : s = Head(toServer[e]).of
  OBVIOUS
<1>2. /\ Talk(e) /\ Hears(e, "started")
      /\ session' = [session EXCEPT ![s].status = "running"]
      /\ UNCHANGED <<pendingEndpoints, online, endpointSessions, joined, process, toRunner,
                     disturbed>>
  BY <1>1 DEF Talks, Started
<1>3. Mine(e, s)
  BY <1>1, <1>2, HearsLess DEF Talk, Placed
<1>4. PICK row : row = [session[s] EXCEPT !.status = "running"]
  OBVIOUS
<1>5. /\ session' = [session EXCEPT ![s] = row]
      /\ row.pc = "done" /\ row.endpoint = e
      /\ row.status = "running" /\ row.assigned = session[s].assigned
  BY <1>2, <1>3, <1>4, TypeParts DEF Types, SessionRow, Mine
<1>6. /\ session'[s].status = "running" /\ session'[s].assigned = session[s].assigned
      /\ \A t \in Sessions \ {s} : session'[t] = session[t]
      /\ \A f, t : Mine(f, t)' <=> Mine(f, t)
      /\ \A f \in Endpoints \ {e} : SameRows(f)
      /\ Rows'
  BY <1>3, <1>5, ToldRow
<1>7. /\ Of(toServer'[e]) \subseteq Of(toServer[e])
      /\ \A f \in Endpoints \ {e} : toServer'[f] = toServer[f]
  BY <1>2, HearsLess
<1>8. Others(e)
  BY <1>2, <1>6, <1>7 DEF Others, Still, process
<1>9. Placed(e)'
  BY <1>2, <1>6, <1>7 DEF Talk, Placed, process
<1>10. Registered(e)'
  BY <1>2, HeardRegistered DEF process
<1>11. \A t : (Alive(e, t)' <=> Alive(e, t)) /\ (Asked(e, t)' <=> Asked(e, t))
  BY <1>2 DEF Alive, Asked, process
<1>12. Once(e)'
  <2>1. \A t \in Sessions : session[t].status \notin Over => session'[t].status \notin Over
    BY <1>6 DEF Over
  <2> QED
    BY <1>2, <1>7, <1>11, <2>1 DEF Talk, Once, process
<1>13. Calm(e)'
  <2>1. \A t \in Sessions : /\ session'[t].status = "pending" => session[t].status = "pending"
                            /\ session'[t].assigned = session[t].assigned
    BY <1>6
  <2> QED
    BY <1>2, <1>6, <1>7, <1>11, <2>1 DEF Talk, Calm, process
<1> QED
  BY <1>6, <1>8, <1>9, <1>10, <1>12, <1>13, TalksStay DEF Talk

\* The end of a session is reported when it is alive no more.
LEMMA FinishedTalks ==
    ASSUME TypeOK, Talks, NEW e \in Endpoints, Finished(e)
    PROVE  Talks'
<1>0. PICK s : s = Head(toServer[e]).of
  OBVIOUS
<1>1. PICK status \in Over : Hears(e, status) /\ Finish(s, status)
  BY <1>0 DEF Finished
<1>2. /\ Talk(e)
      /\ session' = [session EXCEPT ![s].status = status, ![s].assigned = FALSE]
      /\ endpointSessions' = Unassigned(s)
      /\ UNCHANGED <<pendingEndpoints, online, joined, process, toRunner, disturbed>>
  BY <1>1 DEF Talks, Finished, Finish
<1>3. /\ Head(toServer[e]) \in Of(toServer[e]) /\ Head(toServer[e]).type = status
      /\ Of(toServer'[e]) \subseteq Of(toServer[e])
      /\ \A f \in Endpoints \ {e} : toServer'[f] = toServer[f]
  BY <1>1, HearsLess
<1>4. Mine(e, s)
  BY <1>0, <1>1, <1>2, <1>3 DEF Talk, Placed
<1>5. /\ session'[s].status = status
      /\ \A t \in Sessions \ {s} : session'[t] = session[t]
      /\ \A f, t : Mine(f, t)' <=> Mine(f, t)
      /\ \A f \in Endpoints \ {e} : SameRows(f)
      /\ Rows'
  <2>1. PICK row : row = [session[s] EXCEPT !.status = status, !.assigned = FALSE]
    OBVIOUS
  <2>2. /\ session' = [session EXCEPT ![s] = row]
        /\ row.pc = "done" /\ row.endpoint = e
        /\ row.status = status
    BY <1>2, <1>4, <2>1, TypeParts DEF Types, SessionRow, Mine
  <2>3. /\ session'[s] = row /\ \A t \in Sessions \ {s} : session'[t] = session[t]
        /\ \A f, t : Mine(f, t)' <=> Mine(f, t)
        /\ \A f \in Endpoints \ {e} : SameRows(f)
        /\ Rows'
    BY <1>4, <2>2, ToldRow
  <2> QED
    BY <2>2, <2>3
<1>6. /\ endpointSessions'[e] \subseteq endpointSessions[e]
      /\ \A f \in Endpoints \ {e} : endpointSessions'[f] = endpointSessions[f]
  BY <1>2, <1>4 DEF Unassigned, Mine, TypeOK
<1>7. Others(e)
  BY <1>2, <1>3, <1>5, <1>6 DEF Others, Still, process
<1>8. Placed(e)'
  BY <1>2, <1>3, <1>5, <1>6 DEF Talk, Placed, process
<1>9. Registered(e)'
  BY <1>1, <1>2, HeardRegistered DEF process
<1>10. \A t : (Alive(e, t)' <=> Alive(e, t)) /\ (Asked(e, t)' <=> Asked(e, t))
  BY <1>2 DEF Alive, Asked, process
<1>11. handlers[e] <= 1 => ~Alive(e, s)
  BY <1>0, <1>1, <1>2, <1>3, <1>4 DEF Talk, Once, Mine
<1>12. Once(e)'
  BY <1>2, <1>3, <1>5, <1>10, <1>11 DEF Talk, Once, process
<1>13. Calm(e)'
  <2>1. status # "pending"
    BY DEF Over
  <2> QED
    BY <1>2, <1>3, <1>5, <1>10, <1>11, <2>1 DEF Talk, Calm, process
<1> QED
  BY <1>5, <1>7, <1>8, <1>9, <1>12, <1>13, TalksStay DEF Talk

-----------------------------------------------------------------------------
(* Steps of the runner.                                                    *)

\* The runner takes a request: it was connected and asked, and so has registered.
LEMMA Takes ==
    ASSUME TypeOK, NEW e \in Endpoints, Talk(e), StartRequested(e)
    PROVE  /\ runner[e] = "connected" /\ toRunner[e] # <<>> /\ handlers[e] >= 1
           /\ Head(toRunner[e]).of \in Sessions /\ Asked(e, Head(toRunner[e]).of)
           /\ handlers[e] <= 1 => ~Unheard(e)
           /\ Of(toRunner'[e]) \subseteq Of(toRunner[e])
           /\ \A f \in Endpoints \ {e} : toRunner'[f] = toRunner[f]
           /\ handlers[e] <= 1 =>
                 /\ \A x \in Of(toRunner'[e]) : x.of # Head(toRunner[e]).of
                 /\ \A i, j \in 1..Len(toRunner'[e]) :
                        toRunner'[e][i].of = toRunner'[e][j].of => i = j
<1>1. /\ runner[e] = "connected" /\ toRunner[e] # <<>> /\ handlers[e] >= 1
      /\ toRunner[e] \in Seq(Start)
  BY DEF StartRequested, Talk, Registered, TypeOK
<1>2. /\ toRunner'[e] = Tail(toRunner[e])
      /\ Head(toRunner[e]).of \in Sessions
      /\ \A f \in Endpoints \ {e} : toRunner'[f] = toRunner[f]
  BY Requested
<1>3. /\ Len(toRunner[e]) \in Nat /\ Len(toRunner'[e]) = Len(toRunner[e]) - 1
      /\ Len(toRunner[e]) >= 1 /\ Head(toRunner[e]) = toRunner[e][1]
      /\ \A i \in 1..Len(toRunner'[e]) : toRunner'[e][i] = toRunner[e][i + 1]
      /\ Head(toRunner[e]) \in Of(toRunner[e])
      /\ Of(toRunner'[e]) \subseteq Of(toRunner[e])
  BY <1>1, <1>2, QueueTail
<1>4. Asked(e, Head(toRunner[e]).of)
  BY <1>3 DEF Asked
<1>5. handlers[e] <= 1 => ~Unheard(e)
  BY <1>1 DEF Talk, Registered
<1>6. ASSUME handlers[e] <= 1
      PROVE  /\ \A i \in 1..Len(toRunner'[e]) : toRunner'[e][i].of # Head(toRunner[e]).of
             /\ \A i, j \in 1..Len(toRunner'[e]) :
                    toRunner'[e][i].of = toRunner'[e][j].of => i = j
  <2>1. \A i \in 1..Len(toRunner'[e]) : i + 1 \in 1..Len(toRunner[e]) /\ i + 1 # 1
    BY <1>3
  <2>2. \A i, j \in 1..Len(toRunner[e]) : toRunner[e][i].of = toRunner[e][j].of => i = j
    BY <1>6 DEF Talk, Once
  <2>3. 1 \in 1..Len(toRunner[e])
    BY <1>3
  <2>4. \A i \in 1..Len(toRunner'[e]) : toRunner'[e][i].of # Head(toRunner[e]).of
    BY <1>3, <2>1, <2>2, <2>3
  <2>5. ASSUME NEW i \in 1..Len(toRunner'[e]), NEW j \in 1..Len(toRunner'[e]),
               toRunner'[e][i].of = toRunner'[e][j].of
        PROVE  i = j
    <3>1. i + 1 = j + 1
      BY <1>3, <2>1, <2>2, <2>5
    <3> QED
      BY <3>1
  <2> QED
    BY <2>4, <2>5
<1>7. handlers[e] <= 1 => \A x \in Of(toRunner'[e]) : x.of # Head(toRunner[e]).of
  BY <1>6 DEF Of
<1> QED
  BY <1>1, <1>2, <1>3, <1>4, <1>5, <1>6, <1>7


\* What the runner says of its sessions, and is no registration, undoes nothing that was
\* heard.
LEMMA SaysPlaced ==
    ASSUME TypeOK, NEW e \in Endpoints, Talk(e), NEW events \in Seq(Event), Send(e, events),
           \A x \in Of(events) : x.type \in {"started"} \cup Over /\ Mine(e, x.of)
    PROVE  /\ \A x \in Of(toServer'[e]) :
                  x.type \in {"started"} \cup Over => Mine(e, x.of)
           /\ handlers[e] <= 1 =>
                  \A i \in 2..Len(toServer'[e]) : toServer'[e][i].type # "register"
           /\ (\E x \in Of(toServer'[e]) : x.type = "register") => Registers(e)
           /\ (\E x \in Of(toServer'[e]) : x.type = "unregister") =>
                  \E x \in Of(toServer[e]) : x.type = "unregister"
           /\ \A x \in Of(toServer'[e]) : x \in Of(toServer[e]) \/ x \in Of(events)
           /\ \A f \in Endpoints \ {e} : toServer'[f] = toServer[f]
<1>1. \A x \in Of(events) : x.type # "register" /\ x.type # "unregister"
  BY DEF Over
<1>2. /\ Of(toServer'[e]) \subseteq Of(toServer[e]) \cup Of(events)
      /\ (\A i \in 2..Len(toServer[e]) : toServer[e][i].type # "register")
            => \A i \in 2..Len(toServer'[e]) : toServer'[e][i].type # "register"
      /\ \A f \in Endpoints \ {e} : toServer'[f] = toServer[f]
  BY <1>1, SaysMore
<1> QED
  BY <1>1, <1>2 DEF Talk, Placed, Registered, Registers

\* A step of the runner of e: the server's memory stays as it is.
LEMMA RunnerSteps ==
    ASSUME TypeOK, Talks, NEW e \in Endpoints,
           UNCHANGED <<session, online, endpointSessions>>,
           joined' \in {joined, joined \ {e}}, disturbed' \in {disturbed, disturbed \cup {e}},
           \A f \in Endpoints \ {e} : /\ runner'[f] = runner[f] /\ handlers'[f] = handlers[f]
                                      /\ activeSessions'[f] = activeSessions[f]
                                      /\ agents'[f] = agents[f] /\ exited'[f] = exited[f]
                                      /\ signalled'[f] = signalled[f]
                                      /\ toServer'[f] = toServer[f]
                                      /\ toRunner'[f] = toRunner[f]
    PROVE  Others(e) /\ Rows' /\ \A s : Mine(e, s)' <=> Mine(e, s)
BY DEF Others, Still, SameRows, Mine, Talks, Rows

\* An admitted socket registers, and if it is the first time there was nothing to say.
LEMMA ConnectTalks ==
    ASSUME TypeOK, Talks, NEW e \in Endpoints, Connect(e)
    PROVE  Talks'
<1>1. /\ Talk(e) /\ runner[e] \in {"up", "disconnected"}
      /\ UNCHANGED <<session, pendingEndpoints, online, endpointSessions, joined,
                     activeSessions, agents, exited, signalled, toRunner, disturbed>>
  BY DEF Talks, Connect, server
<1>2. \A t : (Alive(e, t)' <=> Alive(e, t)) /\ (Asked(e, t)' <=> Asked(e, t))
  BY <1>1 DEF Alive, Asked
<1>3. CASE runner' = [runner EXCEPT ![e] = "rejected"] /\ UNCHANGED <<handlers, toServer>>
  <2>1. runner'[e] = "rejected" /\ \A f \in Endpoints \ {e} : runner'[f] = runner[f]
    BY <1>3 DEF TypeOK
  <2>2. Others(e) /\ Rows' /\ \A s : Mine(e, s)' <=> Mine(e, s)
    BY <1>1, <1>3, <2>1, RunnerSteps
  <2>3. Placed(e)' /\ Registered(e)' /\ Once(e)'
    BY <1>1, <1>2, <1>3, <2>1, <2>2 DEF Talk, Placed, Registered, Unheard, Registers, Once
  <2>4. Calm(e)'
    BY <1>1, <1>2, <1>3, <2>1, <2>2 DEF Talk, Calm
  <2> QED
    BY <2>2, <2>3, <2>4, TalksStay DEF Talk
<1>4. CASE /\ runner' = [runner EXCEPT ![e] = "connected"]
           /\ handlers' = [handlers EXCEPT ![e] = @ + 1]
           /\ Send(e, <<[type |-> "register"]>>)
  <2>1. /\ runner'[e] = "connected" /\ \A f \in Endpoints \ {e} : runner'[f] = runner[f]
        /\ handlers[e] \in Nat /\ handlers'[e] = handlers[e] + 1
        /\ \A f \in Endpoints \ {e} : handlers'[f] = handlers[f]
    BY <1>4 DEF TypeOK
  <2>2. PICK x \in Event : x = [type |-> "register"] /\ x.type = "register"
    BY EventFacts
  <2>3. /\ toServer'[e] = toServer[e] \o <<x>> /\ toServer[e] \in Seq(Event)
        /\ \A f \in Endpoints \ {e} : toServer'[f] = toServer[f]
    <3>1. <<x>> \in Seq(Event) /\ Send(e, <<x>>)
      BY <1>4, <2>2
    <3> QED
      BY <3>1, Says DEF TypeOK
  <2>4. Of(toServer'[e]) \subseteq Of(toServer[e]) \cup {x}
        /\ Len(toServer'[e]) = Len(toServer[e]) + 1
    BY <2>3, QueueAppend
  <2>5. Others(e) /\ Rows' /\ \A s : Mine(e, s)' <=> Mine(e, s)
    BY <1>1, <2>1, <2>3, RunnerSteps
  <2>6. ASSUME handlers'[e] <= 1
        PROVE  /\ handlers[e] = 0 /\ Len(toServer'[e]) = 1
               /\ \A y \in Of(toServer'[e]) : y.type = "register"
               /\ e \notin online /\ toRunner[e] = <<>>
               /\ activeSessions[e] = {} /\ agents[e] = {} /\ exited[e] = {}
    <3>1. handlers[e] = 0
      BY <2>1, <2>6
    <3>2. /\ toServer[e] = <<>> /\ e \notin online /\ toRunner[e] = <<>>
          /\ activeSessions[e] = {} /\ agents[e] = {} /\ exited[e] = {}
      BY <1>1, <3>1 DEF Talk, Registered, Unheard
    <3> QED
      BY <2>2, <2>4, <3>1, <3>2, Silence
  <2>7. Placed(e)'
    BY <1>1, <2>2, <2>4, <2>5 DEF Talk, Placed, Over
  <2>8. Registered(e)'
    <3>1. handlers'[e] >= 1 /\ handlers'[e] # 0
      BY <2>1
    <3>2. handlers'[e] <= 1 => 2..Len(toServer'[e]) = {}
      <4>1. handlers'[e] <= 1 => Len(toServer'[e]) = 1
        BY <2>6
      <4>2. 2..1 = {}
        OBVIOUS
      <4> QED
        BY <4>1, <4>2
    <3> QED
      BY <1>1, <2>6, <3>1, <3>2 DEF Registered
  <2>9. Once(e)'
    BY <1>1, <1>2, <2>6, Silence DEF Once, Alive, Asked
  <2>10. Calm(e)'
    <3>1. ASSUME e \notin disturbed PROVE handlers[e] = 0
      BY <1>1, <3>1 DEF Talk, Calm
    <3>2. ASSUME e \notin disturbed PROVE handlers'[e] <= 1
      BY <2>1, <3>1, <3>2
    <3> QED
      BY <1>1, <1>2, <2>1, <2>5, <2>6, <3>2 DEF Talk, Calm
  <2> QED
    BY <2>5, <2>7, <2>8, <2>9, <2>10, TalksStay DEF Talk
<1> QED
  BY <1>3, <1>4 DEF Connect

\* A request that is refused: the session was not there, and it does not come.
LEMMA RefuseStartTalks ==
    ASSUME TypeOK, Base, Talks, NEW e \in Endpoints, RefuseStart(e)
    PROVE  Talks'
<1>1. PICK s : s = Head(toRunner[e]).of
  OBVIOUS
<1>2. /\ Talk(e) /\ StartRequested(e)
      /\ Send(e, Refusals(handlers[e], s, activeSessions[e]))
      /\ UNCHANGED <<session, pendingEndpoints, online, endpointSessions, joined, process,
                     disturbed>>
  BY <1>1 DEF Talks, RefuseStart, server
<1>3. /\ runner[e] = "connected" /\ toRunner[e] # <<>> /\ handlers[e] >= 1
      /\ s \in Sessions /\ Asked(e, s)
      /\ handlers[e] <= 1 => ~Unheard(e)
      /\ Of(toRunner'[e]) \subseteq Of(toRunner[e])
      /\ \A f \in Endpoints \ {e} : toRunner'[f] = toRunner[f]
      /\ handlers[e] <= 1 =>
            /\ \A x \in Of(toRunner'[e]) : x.of # s
            /\ \A i, j \in 1..Len(toRunner'[e]) :
                   toRunner'[e][i].of = toRunner'[e][j].of => i = j
  BY <1>1, <1>2, Takes
<1>4. Mine(e, s)
  BY <1>2, <1>3 DEF Talk, Placed, Asked
<1>5. PICK events \in Seq(Event) : /\ Send(e, events)
                                   /\ \A x \in Of(events) : x = About("error", s)
  BY <1>2, <1>3, RefusalsTyped DEF TypeOK
<1>6. \A x \in Of(events) : x.type = "error" /\ x.of = s
  BY <1>5, <1>3, EventFacts DEF Over
<1>7. /\ \A x \in Of(toServer'[e]) :
             x.type \in {"started"} \cup Over => Mine(e, x.of)
      /\ handlers[e] <= 1 =>
             \A i \in 2..Len(toServer'[e]) : toServer'[e][i].type # "register"
      /\ (\E x \in Of(toServer'[e]) : x.type = "register") => Registers(e)
      /\ (\E x \in Of(toServer'[e]) : x.type = "unregister") =>
             \E x \in Of(toServer[e]) : x.type = "unregister"
      /\ \A x \in Of(toServer'[e]) : x \in Of(toServer[e]) \/ x \in Of(events)
      /\ \A f \in Endpoints \ {e} : toServer'[f] = toServer[f]
  <2>1. \A x \in Of(events) : x.type \in {"started"} \cup Over /\ Mine(e, x.of)
    BY <1>4, <1>6 DEF Over
  <2> QED
    BY <1>2, <1>5, <2>1, SaysPlaced
<1>8. Others(e) /\ Rows' /\ \A t : Mine(e, t)' <=> Mine(e, t)
  BY <1>2, <1>3, <1>7, RunnerSteps DEF process
<1>9. \A t : (Alive(e, t)' => Alive(e, t)) /\ (Asked(e, t)' => Asked(e, t))
  BY <1>2, <1>3 DEF Alive, Asked, process
<1>10. Placed(e)'
  BY <1>2, <1>3, <1>7, <1>8 DEF Talk, Placed, process
<1>11. Registered(e)'
  BY <1>2, <1>3, <1>7 DEF Registered, Unheard, Registers, process
<1>12. Once(e)'
  <2>1. agents[e] \subseteq activeSessions[e]
    BY <1>3 DEF Base, Keeps, Kept
  <2>2. handlers[e] <= 1 => ~Alive(e, s)'
    BY <1>2, <1>3, <2>1 DEF Talk, Once, Alive, Asked, process
  <2> QED
    BY <1>2, <1>3, <1>6, <1>7, <1>9, <2>2 DEF Talk, Once, process
<1>13. Calm(e)'
  BY <1>2, <1>3, <1>7, <1>8, <1>9 DEF Talk, Calm, process
<1> QED
  BY <1>8, <1>10, <1>11, <1>12, <1>13, TalksStay DEF Talk


\* A request that is taken: the session is alive as before, or its end is told.
LEMMA StartSessionTalks ==
    ASSUME TypeOK, Base, Talks, NEW e \in Endpoints, StartSession(e)
    PROVE  Talks'
<1>1. PICK s : s = Head(toRunner[e]).of
  OBVIOUS
<1>2. /\ Talk(e) /\ StartRequested(e) /\ ~Refuses(e, s)
      /\ UNCHANGED <<session, pendingEndpoints, online, endpointSessions, joined,
                     runner, handlers, exited, signalled, disturbed>>
  BY <1>1 DEF Talks, StartSession, server
<1>3. /\ runner[e] = "connected" /\ toRunner[e] # <<>> /\ handlers[e] >= 1
      /\ s \in Sessions /\ Asked(e, s)
      /\ handlers[e] <= 1 => ~Unheard(e)
      /\ Of(toRunner'[e]) \subseteq Of(toRunner[e])
      /\ \A f \in Endpoints \ {e} : toRunner'[f] = toRunner[f]
      /\ handlers[e] <= 1 =>
            /\ \A x \in Of(toRunner'[e]) : x.of # s
            /\ \A i, j \in 1..Len(toRunner'[e]) :
                   toRunner'[e][i].of = toRunner'[e][j].of => i = j
  BY <1>1, <1>2, Takes
<1>4. Mine(e, s) /\ s \notin activeSessions[e] /\ agents[e] \subseteq activeSessions[e]
  BY <1>2, <1>3 DEF Talk, Placed, Asked, Refuses, Base, Keeps, Kept
<1>5. PICK started, error : started = About("started", s) /\ error = About("error", s)
  OBVIOUS
<1>6. /\ started.type = "started" /\ started.of = s /\ error.type = "error" /\ error.of = s
  BY <1>3, <1>5, EventFacts DEF Over
<1>7. PICK others, told :
          /\ told \in {<<started>>, <<error>>, <<started, error>>, <<error, started>>}
          /\ told \in Seq(Event) /\ others \in Seq(Event)
          /\ Send(e, others \o told) /\ others \o told \in Seq(Event)
          /\ \A x \in Of(others) : x = error
          /\ handlers[e] <= 1 => others = <<>>
          /\ \/ /\ told = <<started>>
                /\ agents' = [agents EXCEPT ![e] = @ \cup {s}]
                /\ activeSessions' = [activeSessions EXCEPT ![e] = @ \cup {s}]
             \/ /\ UNCHANGED agents
                /\ \/ UNCHANGED activeSessions
                   \/ activeSessions' = [activeSessions EXCEPT ![e] = @ \cup {s}]
  <2>1. handlers[e] - 1 \in Int /\ (handlers[e] <= 1 => handlers[e] - 1 <= 0)
    BY DEF TypeOK
  <2>2. PICK others : others = Refusals(handlers[e] - 1, s, activeSessions[e] \cup {s})
    OBVIOUS
  <2>3. others \in Seq(Event) /\ (\A x \in Of(others) : x = error)
        /\ (handlers[e] <= 1 => others = <<>>)
    BY <1>3, <1>5, <2>1, <2>2, RefusalsTyped
  <2>4. \E told \in {<<started>>, <<error>>, <<started, error>>, <<error, started>>} :
          /\ told \in Seq(Event)
          /\ Send(e, others \o told) /\ others \o told \in Seq(Event)
          /\ \/ /\ told = <<started>>
                /\ agents' = [agents EXCEPT ![e] = @ \cup {s}]
                /\ activeSessions' = [activeSessions EXCEPT ![e] = activeSessions[e] \cup {s}]
             \/ /\ UNCHANGED agents
                /\ \/ UNCHANGED activeSessions
                   \/ activeSessions' = [activeSessions EXCEPT ![e] = activeSessions[e] \cup {s}]
    <3>1. LET r == Head(toRunner[e]).of
              kept == activeSessions[e] \cup {r}
              begun == About("started", r)
              failed == About("error", r)
          IN  \E told \in {<<begun>>, <<failed>>, <<begun, failed>>, <<failed, begun>>} :
                 /\ told \in Seq(Event)
                 /\ Send(e, Refusals(handlers[e] - 1, r, kept) \o told)
                 /\ Refusals(handlers[e] - 1, r, kept) \o told \in Seq(Event)
                 /\ \/ /\ told = <<begun>>
                       /\ agents' = [agents EXCEPT ![e] = @ \cup {r}]
                       /\ activeSessions' = [activeSessions EXCEPT ![e] = kept]
                    \/ /\ UNCHANGED agents
                       /\ \/ UNCHANGED activeSessions
                          \/ activeSessions' = [activeSessions EXCEPT ![e] = kept]
      BY StartTold
    <3> QED
      BY <1>1, <1>5, <2>2, <3>1
  <2> QED
    BY <2>3, <2>4
<1>8. PICK events : /\ events = others \o told /\ events \in Seq(Event) /\ Send(e, events)
                    /\ \A x \in Of(events) : x \in {started, error}
                    /\ handlers[e] <= 1 => events = told
  <2>1. Of(others \o told) \subseteq Of(others) \cup Of(told)
    BY <1>7, QueueConcat
  <2>2. \A x \in Of(told) : x \in {started, error}
    BY <1>7 DEF Of
  <2>3. handlers[e] <= 1 => others \o told = told
    BY <1>7, ConcatEmptySeq
  <2> QED
    BY <1>7, <2>1, <2>2, <2>3
<1>9. /\ \A x \in Of(toServer'[e]) :
             x.type \in {"started"} \cup Over => Mine(e, x.of)
      /\ handlers[e] <= 1 =>
             \A i \in 2..Len(toServer'[e]) : toServer'[e][i].type # "register"
      /\ (\E x \in Of(toServer'[e]) : x.type = "register") => Registers(e)
      /\ (\E x \in Of(toServer'[e]) : x.type = "unregister") =>
             \E x \in Of(toServer[e]) : x.type = "unregister"
      /\ \A x \in Of(toServer'[e]) : x \in Of(toServer[e]) \/ x \in Of(events)
      /\ \A f \in Endpoints \ {e} : toServer'[f] = toServer[f]
  <2>1. \A x \in Of(events) : x.type \in {"started"} \cup Over /\ Mine(e, x.of)
    BY <1>4, <1>6, <1>8 DEF Over
  <2> QED
    BY <1>2, <1>8, <2>1, SaysPlaced
<1>10. /\ \A f \in Endpoints \ {e} : agents'[f] = agents[f]
                                     /\ activeSessions'[f] = activeSessions[f]
       /\ activeSessions'[e] \subseteq activeSessions[e] \cup {s}
       /\ \/ agents'[e] = agents[e] \cup {s} /\ told = <<started>>
          \/ agents'[e] = agents[e]
  BY <1>7 DEF TypeOK
<1>11. Others(e) /\ Rows' /\ \A t : Mine(e, t)' <=> Mine(e, t)
  BY <1>2, <1>3, <1>9, <1>10, RunnerSteps
<1>12. \A t : (Alive(e, t)' => Alive(e, t)) /\ (Asked(e, t)' => Asked(e, t))
  BY <1>2, <1>3, <1>10 DEF Alive, Asked
<1>13. Placed(e)'
  BY <1>2, <1>3, <1>4, <1>9, <1>10, <1>11 DEF Talk, Placed
<1>14. Registered(e)'
  BY <1>2, <1>3, <1>9 DEF Registered, Unheard, Registers
<1>15. Once(e)'
  <2>1. ASSUME handlers[e] <= 1 PROVE ~Asked(e, s)' /\ s \notin agents[e]
    BY <1>3, <1>4, <2>1 DEF Asked
  <2>2. ASSUME handlers[e] <= 1, agents'[e] = agents[e] \cup {s}, told = <<started>>
        PROVE  \A x \in Of(events) : x.type \notin Over
    BY <1>6, <1>8, <2>2 DEF Of, Over
  <2>3. ASSUME handlers[e] <= 1, NEW t \in Sessions, Alive(e, t)'
        PROVE  \A x \in Of(toServer'[e]) : ~(x.type \in Over /\ x.of = t)
    <3>1. \A x \in Of(toServer[e]) : ~(x.type \in Over /\ x.of = t)
      BY <1>2, <1>12, <2>3 DEF Talk, Once
    <3>2. CASE t # s
      BY <1>6, <1>8, <1>9, <3>1, <3>2
    <3>3. CASE t = s
      <4>1. agents'[e] = agents[e] \cup {s} /\ told = <<started>>
        BY <1>10, <2>1, <2>3, <3>3 DEF Alive
      <4> QED
        BY <1>9, <2>2, <2>3, <3>1, <4>1
    <3> QED
      BY <3>2, <3>3
  <2>4. ASSUME handlers[e] <= 1, NEW t \in activeSessions'[e] PROVE ~Asked(e, t)'
    BY <1>2, <1>10, <1>12, <2>1, <2>4 DEF Talk, Once
  <2> QED
    BY <1>2, <1>3, <1>12, <2>3, <2>4 DEF Talk, Once
<1>16. Calm(e)'
  <2>1. toRunner'[e] # <<>> \/ agents'[e] # {} => toRunner[e] # <<>>
    BY <1>3
  <2> QED
    BY <1>2, <1>9, <1>11, <1>12, <2>1 DEF Talk, Calm
<1> QED
  BY <1>11, <1>13, <1>14, <1>15, <1>16, TalksStay DEF Talk

\* The end of an agent is told when it is there no more.
LEMMA AgentExitTalks ==
    ASSUME TypeOK, Base, Talks, NEW e \in Endpoints, NEW s \in Sessions, AgentExit(e, s)
    PROVE  Talks'
<1>1. /\ Talk(e) /\ runner[e] # "gone" /\ s \in agents[e]
      /\ UNCHANGED <<session, pendingEndpoints, online, endpointSessions, joined,
                     runner, handlers, activeSessions, signalled, toRunner, disturbed>>
  BY DEF Talks, AgentExit, server
<1>2. /\ agents'[e] = agents[e] \ {s} /\ exited'[e] = exited[e] \cup {s}
      /\ \A f \in Endpoints \ {e} : agents'[f] = agents[f] /\ exited'[f] = exited[f]
  BY DEF AgentExit, TypeOK
<1>3. Mine(e, s) /\ s \in activeSessions[e]
  BY <1>1 DEF Talk, Placed, Base, Keeps, Kept
<1>4. PICK x \in Event : Send(e, <<x>>) /\ x.type \in Over /\ x.of = s
  <2>1. PICK type \in Over : Send(e, <<About(type, s)>>)
    BY DEF AgentExit
  <2>2. /\ About(type, s) \in Event /\ About(type, s).type = type /\ About(type, s).of = s
    BY EventFacts
  <2> QED
    BY <2>1, <2>2
<1>5. PICK events \in Seq(Event) : Send(e, events) /\ \A y \in Of(events) : y = x
  <2>1. <<x>> \in Seq(Event) /\ \A y \in Of(<<x>>) : y = x
    BY <1>4 DEF Of
  <2> QED
    BY <1>4, <2>1
<1>6. /\ \A y \in Of(toServer'[e]) :
             y.type \in {"started"} \cup Over => Mine(e, y.of)
      /\ handlers[e] <= 1 =>
             \A i \in 2..Len(toServer'[e]) : toServer'[e][i].type # "register"
      /\ (\E y \in Of(toServer'[e]) : y.type = "register") => Registers(e)
      /\ (\E y \in Of(toServer'[e]) : y.type = "unregister") =>
             \E y \in Of(toServer[e]) : y.type = "unregister"
      /\ \A y \in Of(toServer'[e]) : y \in Of(toServer[e]) \/ y \in Of(events)
      /\ \A f \in Endpoints \ {e} : toServer'[f] = toServer[f]
  <2>1. \A y \in Of(events) : y.type \in {"started"} \cup Over /\ Mine(e, y.of)
    BY <1>3, <1>4, <1>5
  <2> QED
    BY <1>1, <1>5, <2>1, SaysPlaced
<1>7. Others(e) /\ Rows' /\ \A t : Mine(e, t)' <=> Mine(e, t)
  BY <1>1, <1>2, <1>6, RunnerSteps
<1>8. \A t : (Alive(e, t)' => Alive(e, t)) /\ (Asked(e, t)' <=> Asked(e, t))
  BY <1>1, <1>2 DEF Alive, Asked
<1>9. Placed(e)'
  BY <1>1, <1>2, <1>6, <1>7 DEF Talk, Placed
<1>10. Registered(e)'
  <2>1. handlers[e] <= 1 => ~Unheard(e)
    BY <1>1 DEF Talk, Registered
  <2>2. handlers[e] # 0
    BY <2>1 DEF Unheard
  <2> QED
    BY <1>1, <1>6, <2>1, <2>2 DEF Talk, Registered, Unheard, Registers
<1>11. Once(e)'
  <2>1. handlers[e] <= 1 => ~Alive(e, s)'
    BY <1>1, <1>2, <1>3, <1>8 DEF Talk, Once, Alive
  <2> QED
    BY <1>1, <1>4, <1>5, <1>6, <1>8, <2>1 DEF Talk, Once
<1>12. Calm(e)'
  BY <1>1, <1>2, <1>6, <1>7, <1>8 DEF Talk, Calm
<1> QED
  BY <1>7, <1>9, <1>10, <1>11, <1>12, TalksStay DEF Talk

\* An agent that outlived its runner ends: nothing is told.
LEMMA AgentEndsTalks ==
    ASSUME TypeOK, Talks, NEW e \in Endpoints, NEW s \in Sessions, AgentEnds(e, s)
    PROVE  Talks'
<1>1. /\ Talk(e) /\ runner[e] = "gone"
      /\ UNCHANGED <<session, pendingEndpoints, online, endpointSessions, joined, runner,
                     handlers, activeSessions, exited, signalled, toServer, toRunner, disturbed>>
  BY DEF Talks, AgentEnds, server
<1>2. /\ agents'[e] \subseteq agents[e]
      /\ \A f \in Endpoints \ {e} : agents'[f] = agents[f]
  BY DEF AgentEnds, TypeOK
<1>3. Others(e) /\ Rows' /\ \A t : Mine(e, t)' <=> Mine(e, t)
  BY <1>1, <1>2, RunnerSteps
<1>4. \A t : (Alive(e, t)' => Alive(e, t)) /\ (Asked(e, t)' <=> Asked(e, t))
  BY <1>1, <1>2 DEF Alive, Asked
<1>5. Placed(e)' /\ Once(e)'
  BY <1>1, <1>2, <1>3, <1>4 DEF Talk, Placed, Once
<1>6. Registered(e)'
  BY <1>1, <1>2 DEF Talk, Registered, Unheard, Registers
<1>7. Calm(e)'
  BY <1>1 DEF Talk, Calm
<1> QED
  BY <1>3, <1>5, <1>6, <1>7, TalksStay DEF Talk

\* The timer only forgets.
LEMMA ForgetTalks ==
    ASSUME TypeOK, Talks, NEW e \in Endpoints, NEW s \in Sessions, ForgetSession(e, s)
    PROVE  Talks'
<1>1. /\ Talk(e)
      /\ UNCHANGED <<session, pendingEndpoints, online, endpointSessions, joined,
                     runner, handlers, agents, signalled, toServer, toRunner, disturbed>>
  BY DEF Talks, ForgetSession, server
<1>2. /\ activeSessions'[e] \subseteq activeSessions[e] /\ exited'[e] \subseteq exited[e]
      /\ \A f \in Endpoints \ {e} : /\ activeSessions'[f] = activeSessions[f]
                                    /\ exited'[f] = exited[f]
  BY DEF ForgetSession, TypeOK
<1>3. Others(e) /\ Rows' /\ \A t : Mine(e, t)' <=> Mine(e, t)
  BY <1>1, <1>2, RunnerSteps
<1>4. \A t : (Alive(e, t)' <=> Alive(e, t)) /\ (Asked(e, t)' <=> Asked(e, t))
  BY <1>1 DEF Alive, Asked
<1>5. Placed(e)' /\ Once(e)'
  BY <1>1, <1>2, <1>3, <1>4 DEF Talk, Placed, Once
<1>6. Registered(e)'
  BY <1>1, <1>2 DEF Talk, Registered, Unheard, Registers
<1>7. Calm(e)'
  BY <1>1, <1>3, <1>4 DEF Talk, Calm
<1> QED
  BY <1>3, <1>5, <1>6, <1>7, TalksStay DEF Talk

\* Socket or process lost: what was to be heard is not, and nothing more is asked.
LEMMA LostTalks ==
    ASSUME TypeOK, Talks, NEW e \in Endpoints,
           UNCHANGED <<session, online, endpointSessions, handlers>>,
           joined' = joined \ {e}, disturbed' = disturbed \cup {e},
           NEW status \in {"disconnected", "gone"}, runner' = [runner EXCEPT ![e] = status],
           toRunner' = [toRunner EXCEPT ![e] = <<>>],
           \A f \in Endpoints \ {e} : /\ activeSessions'[f] = activeSessions[f]
                                      /\ agents'[f] = agents[f] /\ exited'[f] = exited[f]
                                      /\ signalled'[f] = signalled[f]
                                      /\ toServer'[f] = toServer[f],
           activeSessions'[e] \subseteq activeSessions[e], exited'[e] \subseteq exited[e],
           agents'[e] \subseteq agents[e], signalled[e] \subseteq signalled'[e],
           handlers[e] = 0 => toServer'[e] = <<>>,
           \A i \in 2..Len(toServer'[e]) :
               handlers[e] <= 1 => toServer'[e][i].type # "register",
           \A x \in Of(toServer'[e]) :
               x \in Of(toServer[e]) \/ x.type = "unregister"
               \/ (agents'[e] \subseteq signalled'[e] /\ x.type = "ended" /\ x.of \in activeSessions[e])
    PROVE  Talks'
<1>1. Talk(e)
  BY DEF Talks
<1>2. /\ runner'[e] = status /\ toRunner'[e] = <<>>
      /\ \A f \in Endpoints \ {e} : runner'[f] = runner[f] /\ toRunner'[f] = toRunner[f]
  BY DEF TypeOK
<1>3. Others(e) /\ Rows' /\ \A t : Mine(e, t)' <=> Mine(e, t)
  BY <1>2, RunnerSteps
<1>4. \A t : ~Asked(e, t)'
  BY <1>2, Silence DEF Asked
<1>5. \A t : Alive(e, t)' => t \in agents'[e] \ signalled'[e] /\ Alive(e, t)
  BY <1>4 DEF Alive
<1>6. Placed(e)'
  BY <1>1, <1>2, <1>3, Silence DEF Talk, Placed, Over
<1>7. Registered(e)'
  <2>1. ASSUME Unheard(e)' PROVE Unheard(e)
    BY <2>1 DEF Unheard, Registers
  <2>2. ASSUME handlers[e] <= 1, Unheard(e)'
        PROVE  /\ e \notin online /\ activeSessions[e] = {} /\ agents[e] = {} /\ exited[e] = {}
               /\ \A x \in Of(toServer'[e]) : x.type \in {"register", "unregister"}
    BY <1>1, <2>1, <2>2 DEF Talk, Registered
  <2> QED
    BY <1>1, <1>2, <2>2 DEF Talk, Registered
<1>8. Once(e)'
  <2>1. 1..Len(toRunner'[e]) = {}
    BY <1>2, Silence
  <2>2. ASSUME handlers[e] <= 1, NEW t \in Sessions, Alive(e, t)'
        PROVE  /\ session[t].status \notin Over
               /\ \A x \in Of(toServer'[e]) : ~(x.type \in Over /\ x.of = t)
    <3>1. t \in agents'[e] \ signalled'[e] /\ Alive(e, t)
      BY <1>5, <2>2
    <3>2. /\ session[t].status \notin Over
          /\ \A x \in Of(toServer[e]) : ~(x.type \in Over /\ x.of = t)
      BY <1>1, <2>2, <3>1 DEF Talk, Once
    <3> QED
      BY <3>1, <3>2 DEF Over
  <2> QED
    BY <1>4, <2>1, <2>2 DEF Once
<1>9. Calm(e)'
  BY DEF Calm
<1> QED
  BY <1>3, <1>6, <1>7, <1>8, <1>9, TalksStay DEF Talk

LEMMA DropDieTalks ==
    ASSUME TypeOK, Talks, NEW e \in Endpoints, Drop(e) \/ Die(e)
    PROVE  Talks'
<1>1. /\ Talk(e)
      /\ UNCHANGED <<session, online, endpointSessions, handlers>>
      /\ joined' = joined \ {e} /\ disturbed' = disturbed \cup {e}
      /\ toRunner' = [toRunner EXCEPT ![e] = <<>>]
      /\ \/ UNCHANGED toServer
         \/ toServer' = [toServer EXCEPT ![e] = <<>>]
  BY DEF Talks, Drop, Die, Disturb, Gone
<1>2. PICK status \in {"disconnected", "gone"} : runner' = [runner EXCEPT ![e] = status]
  BY DEF Drop, Die, Gone
<1>3. /\ \A f \in Endpoints \ {e} : /\ activeSessions'[f] = activeSessions[f]
                                    /\ agents'[f] = agents[f] /\ exited'[f] = exited[f]
      /\ UNCHANGED signalled
      /\ activeSessions'[e] \subseteq activeSessions[e] /\ exited'[e] \subseteq exited[e]
      /\ agents'[e] \subseteq agents[e]
  BY DEF Drop, Die, Gone, TypeOK
<1>4. /\ toServer'[e] \in {toServer[e], <<>>}
      /\ \A f \in Endpoints \ {e} : toServer'[f] = toServer[f]
  BY <1>1 DEF TypeOK
<1>5. /\ handlers[e] = 0 => toServer'[e] = <<>>
      /\ \A x \in Of(toServer'[e]) : x \in Of(toServer[e])
  BY <1>1, <1>4, Silence DEF Talk, Registered
<1>6. \A i \in 2..Len(toServer'[e]) : handlers[e] <= 1 => toServer'[e][i].type # "register"
  <2>1. 2..Len(<<>>) = {}
    BY Silence
  <2> QED
    BY <1>1, <1>4, <2>1 DEF Talk, Registered
<1> QED
  BY <1>1, <1>2, <1>3, <1>4, <1>5, <1>6, LostTalks

\* What is told before the exit: the ends of the sessions kept, and the unregistration.
LEMMA CleanUpTalks ==
    ASSUME TypeOK, Base, Talks, NEW e \in Endpoints, CleanUp(e)
    PROVE  Talks'
<1>1. /\ Talk(e)
      /\ UNCHANGED <<session, online, endpointSessions, handlers>>
      /\ joined' = joined \ {e} /\ disturbed' = disturbed \cup {e}
      /\ toRunner' = [toRunner EXCEPT ![e] = <<>>]
      /\ runner' = [runner EXCEPT ![e] = "gone"]
  BY DEF Talks, CleanUp, Disturb, Gone
<1>2. /\ \A f \in Endpoints \ {e} : /\ activeSessions'[f] = activeSessions[f]
                                    /\ agents'[f] = agents[f] /\ exited'[f] = exited[f]
                                    /\ signalled'[f] = signalled[f]
      /\ activeSessions'[e] = {} /\ exited'[e] = {} /\ agents'[e] = agents[e]
      /\ agents'[e] \subseteq signalled'[e] /\ signalled[e] \subseteq signalled'[e]
  <2>1. agents[e] \subseteq activeSessions[e] /\ runner[e] # "gone"
    BY DEF CleanUp, Base, Keeps, Kept
  <2>2. signalled[e] = {}
    BY DEF CleanUp, Base, Keeps, Kept
  <2> QED
    BY <2>1, <2>2 DEF CleanUp, Gone, Stopped, TypeOK
<1>3. PICK events \in Seq(Event) :
          /\ \A x \in Of(events) : \/ x.type = "unregister"
                                   \/ x.type = "ended" /\ x.of \in activeSessions[e]
          /\ \/ runner[e] = "connected" /\ Send(e, events)
             \/ toServer' = [toServer EXCEPT ![e] = <<>>]
  <2>1. PICK unregister \in Event, ends \in Seq(Event) :
            /\ unregister.type = "unregister"
            /\ \A x \in Of(ends) : x.type = "ended" /\ x.of \in activeSessions[e]
            /\ \/ runner[e] = "connected" /\ Send(e, ends \o <<unregister>>)
               \/ toServer' = [toServer EXCEPT ![e] = <<>>]
    <3> DEFINE ends == SetToSeq({About("ended", s) : s \in activeSessions[e]})
               unregister == [type |-> "unregister"]
    <3>1. unregister \in Event /\ unregister.type = "unregister"
      BY EventFacts
    <3>2. ends \in Seq(Event) /\ \A x \in Of(ends) : \E s \in activeSessions[e] : x = About("ended", s)
      BY EndsTyped
    <3>3. \A s \in activeSessions[e] : About("ended", s).type = "ended" /\ About("ended", s).of = s
      BY DEF About
    <3>4. \/ runner[e] = "connected" /\ Send(e, ends \o <<unregister>>)
          \/ toServer' = [toServer EXCEPT ![e] = <<>>]
      BY DEF CleanUp
    <3> HIDE DEF ends, unregister
    <3> QED
      BY <3>1, <3>2, <3>3, <3>4
  <2>2. ends \o <<unregister>> \in Seq(Event)
        /\ Of(ends \o <<unregister>>) \subseteq Of(ends) \cup {unregister}
    <3>1. <<unregister>> \in Seq(Event)
      OBVIOUS
    <3> QED
      BY <3>1, QueueConcat, QueueAppend
  <2> QED
    BY <2>1, <2>2
<1>4. CASE runner[e] = "connected" /\ Send(e, events)
  <2>1. /\ \A x \in Of(toServer'[e]) : x \in Of(toServer[e]) \/ x \in Of(events)
        /\ \A i \in 2..Len(toServer'[e]) : handlers[e] <= 1 => toServer'[e][i].type # "register"
        /\ \A f \in Endpoints \ {e} : toServer'[f] = toServer[f]
    BY <1>1, <1>3, <1>4, SaysMore DEF Talk, Registered
  <2>2. handlers[e] # 0
    BY <1>1, <1>4 DEF Talk, Registered
  <2> QED
    BY <1>1, <1>2, <1>3, <2>1, <2>2, LostTalks
<1>5. CASE toServer' = [toServer EXCEPT ![e] = <<>>]
  <2>1. toServer'[e] = <<>> /\ \A f \in Endpoints \ {e} : toServer'[f] = toServer[f]
    BY <1>5 DEF TypeOK
  <2>2. Of(toServer'[e]) = {} /\ 2..Len(toServer'[e]) = {}
    BY <2>1, Silence
  <2> QED
    BY <1>1, <1>2, <2>1, <2>2, LostTalks
<1> QED
  BY <1>3, <1>4, <1>5
-----------------------------------------------------------------------------
(* The invariant.                                                          *)

IInv == TypeOK /\ Base /\ Talks

LEMMA InitTalks == ASSUME Init PROVE TypeOK /\ Talks
<1>1. TypeOK
  BY CloudAssumption DEF Init, TypeOK, Points, Statuses, Processes
<1>2. {s \in Sessions : session[s].pc # "idle"} = {}
  BY DEF Init
<1>3. Rows
  BY <1>2, FS_EmptySet DEF Init, Rows
<1>4. ASSUME NEW e \in Endpoints PROVE Talk(e)
  <2>1. /\ runner[e] = "off" /\ handlers[e] = 0 /\ e \notin online /\ e \notin joined
        /\ endpointSessions[e] = {} /\ activeSessions[e] = {} /\ agents[e] = {}
        /\ exited[e] = {} /\ signalled[e] = {} /\ toServer[e] = <<>> /\ toRunner[e] = <<>>
        /\ \A s : ~Mine(e, s)
    BY DEF Init, Mine
  <2>2. /\ Of(toServer[e]) = {} /\ Of(toRunner[e]) = {}
        /\ 1..Len(toRunner[e]) = {} /\ 2..Len(toServer[e]) = {}
    BY <2>1, Silence
  <2>3. \A s : ~Asked(e, s) /\ ~Alive(e, s)
    BY <2>1, <2>2 DEF Asked, Alive
  <2>4. Placed(e) /\ Registered(e)
    BY <2>1, <2>2 DEF Placed, Registered
  <2>5. Once(e) /\ Calm(e)
    BY <2>1, <2>2, <2>3 DEF Once, Calm
  <2> QED
    BY <2>4, <2>5 DEF Talk
<1> QED
  BY <1>1, <1>3, <1>4 DEF Talks

LEMMA NextTalks == ASSUME IInv, Next PROVE Talks'
<1>1. TypeOK /\ Base /\ Talks
  BY DEF IInv
<1>2. ASSUME NEW s \in Sessions,
             Create(s) \/ SandboxUp(s) \/ SpawnReturns(s) \/ CreateFails(s) \/ Store(s)
      PROVE  Talks'
  BY <1>1, <1>2, CreationTalks, StoreTalks
<1>3. ASSUME NEW e \in Endpoints, ServerHears(e) PROVE Talks'
  BY <1>1, <1>3, RegisterTalks, UnregisterTalks, StartedTalks, FinishedTalks DEF ServerHears
<1>4. ASSUME NEW e \in Endpoints, RunnerHears(e) PROVE Talks'
  BY <1>1, <1>4, RefuseStartTalks, StartSessionTalks DEF RunnerHears
<1>5. ASSUME NEW e \in Endpoints, Connect(e) \/ Drop(e) \/ Die(e) \/ CleanUp(e) PROVE Talks'
  BY <1>1, <1>5, ConnectTalks, DropDieTalks, CleanUpTalks
<1>6. ASSUME NEW e \in Endpoints, NEW s \in Sessions,
             AgentExit(e, s) \/ AgentEnds(e, s) \/ ForgetSession(e, s)
      PROVE  Talks'
  BY <1>1, <1>6, AgentExitTalks, AgentEndsTalks, ForgetTalks
<1> QED
  BY <1>2, <1>3, <1>4, <1>5, <1>6 DEF Next

LEMMA StutterTalks == ASSUME IInv, UNCHANGED vars PROVE TypeOK' /\ Talks'
<1>1. TypeOK'
  BY DEF IInv, TypeOK, vars, server, process
<1>2. Rows' /\ \A e \in Endpoints : Still(e) /\ SameRows(e)
  BY DEF IInv, Talks, Rows, Still, SameRows, Mine, vars, server, process
<1> QED
  BY <1>1, <1>2, TalkStays DEF IInv, Talks

LEMMA InvariantHolds == Spec => []IInv
<1>1. Init => IInv
  BY InitHolds, InitTalks DEF IInv
<1>2. IInv /\ [Next]_vars => IInv'
  <2>1. IInv /\ Next => IInv'
    BY NextTalks, TypesKept, BaseStep DEF IInv, Talks
  <2>2. IInv /\ UNCHANGED vars => IInv'
    BY StutterTalks, BaseStep DEF IInv
  <2> QED
    BY <2>1, <2>2
<1> QED
  BY <1>1, <1>2, PTL DEF Spec
-----------------------------------------------------------------------------
\* Every reachable state is of the model's types; in particular an endpoint that is not in
\* the registry counts no session and is in no room (endpointRegistry.ts).
THEOREM TypesAlways == Spec => []TypeOK
<1>1. IInv => TypeOK
  BY DEF IInv
<1> QED
  BY <1>1, InvariantHolds, PTL

\* A session that the server calls ended or failed has no agent but one that was told to
\* stop when its runner was, unless the runner set its handlers up twice: one handler takes
\* each request once, it says that a session is over only when its agent is gone or was told
\* to stop, and the server asks for a session only once.
THEOREM OverMeansOverHolds == Spec => []OverMeansOver
<1>1. ASSUME IInv, NEW s \in Sessions, session[s].status \in Over,
             handlers[session[s].endpoint] <= 1
      PROVE  LET e == session[s].endpoint IN s \notin agents[e] \ signalled[e]
  <2>1. PICK e \in Endpoints : e = session[s].endpoint
    <3>1. session[s].pc # "idle"
      BY <1>1 DEF IInv, Talks, Rows, Over
    <3> QED
      BY <1>1, <3>1 DEF IInv, Talks, Rows
  <2>2. Talk(e)
    BY <1>1 DEF IInv, Talks
  <2> QED
    BY <1>1, <2>1, <2>2 DEF Talk, Once, Alive
<1>2. IInv => OverMeansOver
  BY <1>1 DEF OverMeansOver
<1> QED
  BY <1>2, InvariantHolds, PTL

\* A session that runs at an endpoint that was never disturbed can be sent messages: it is
\* assigned there, though a registration empties what the endpoint counts, its socket is in
\* the endpoint's room, and the runner keeps it for as long as it has an agent.
THEOREM RunningReachableHolds == Spec => []RunningReachable
<1>1. ASSUME IInv, NEW s \in Sessions, session[s].status = "running",
             session[s].endpoint \notin disturbed, s \in agents[session[s].endpoint]
      PROVE  Reaches(s)
  <2>1. session[s].pc = "done"
    BY <1>1 DEF IInv, Talks, Rows
  <2>2. PICK e \in Endpoints : e = session[s].endpoint
    BY <1>1, <2>1 DEF IInv, Talks, Rows
  <2>3. Talk(e) /\ Kept(e)
    BY <1>1 DEF IInv, Talks, Base, Keeps
  <2>4. Mine(e, s) /\ Alive(e, s)
    BY <1>1, <2>1, <2>2, <2>3 DEF Mine, Alive, Talk, Calm
  <2>5. runner[e] # "gone" /\ e \in joined /\ session[s].assigned
    BY <1>1, <2>2, <2>3, <2>4 DEF Talk, Calm
  <2> QED
    BY <1>1, <2>2, <2>3, <2>5 DEF Reaches, Kept
<1>2. IInv => RunningReachable
  BY <1>1 DEF RunningReachable
<1> QED
  BY <1>2, InvariantHolds, PTL
-----------------------------------------------------------------------------
\* No endpoint runs more agents than its capacity, however many sessions the server
\* places on it, however often it reconnects and asks again.
THEOREM AgentsWithinCapacityHolds == Spec => []AgentsWithinCapacity
<1>1. Init => Base
  BY InitHolds
<1>2. Base /\ [Next]_vars => Base'
  BY BaseStep
<1>3. Base => AgentsWithinCapacity
  BY DEF Base, Keeps, Kept, AgentsWithinCapacity
<1> QED
  BY <1>1, <1>2, <1>3, PTL DEF Spec
=============================================================================
