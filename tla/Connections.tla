----------------------------- MODULE Connections -----------------------------
(***************************************************************************)
(* The sockets of one account from their handshake to their disconnect,    *)
(* what the server keeps about them (the event router's connections, the   *)
(* RPC listeners), the daemon status it broadcasts for one machine, and    *)
(* RPC calls relayed from one socket to another.                           *)
(*                                                                         *)
(* The handler of io.on("connection") awaits the verification of the       *)
(* token; only then does it register the connection and listen to events.  *)
(* What a client sends before that is heard by nobody, and so is its       *)
(* disconnect.  A heartbeat of the daemon awaits the look-up of its        *)
(* machine before it broadcasts.  All other code here runs without an      *)
(* await, but for the answer of the target of a call.                      *)
(***************************************************************************)
EXTENDS Integers, FiniteSets

CONSTANTS Sockets,      \* connections the account's clients make
          Methods,      \* RPC methods they register
          Calls,        \* rpc-call events
          Nobody        \* no socket is registered

ASSUME ConnectionsAssumption == Nobody \notin Sockets

VARIABLES daemons,      \* the sockets of machine-scoped clients, of one machine
          state,        \* per socket, see States
          connections,  \* the account's set in eventRouter.userConnections
          rpcListeners, \* the account's map of methods to sockets
          status,       \* the last daemon status broadcast
          late,         \* history: a heartbeat broadcast it after its socket was gone
          beating,      \* sockets with a heartbeat whose machine is being looked up
          call          \* per rpc-call: [pc, target, executed]

vars == <<daemons, state, connections, rpcListeners, status, late, beating, call>>

\* verifying: connected, the token is not verified yet
\* lost: disconnected while verifying
\* open: set up and connected;  ghost: set up after it disconnected
States == {"new", "verifying", "lost", "open", "ghost", "closed"}

NewCall == [pc |-> "new", target |-> Nobody, executed |-> FALSE]

\* dropped: sent before the server listened
Call == [pc : {"new", "dropped", "waiting", "ok", "error"}, target : Sockets \cup {Nobody},
         executed : BOOLEAN]

TypeOK ==
    /\ daemons \subseteq Sockets
    /\ state \in [Sockets -> States]
    /\ connections \subseteq Sockets
    /\ rpcListeners \in [Methods -> Sockets \cup {Nobody}]
    /\ status \in {"unknown", "online", "offline"}
    /\ late \in BOOLEAN
    /\ beating \subseteq daemons
    /\ call \in [Calls -> Call]
    /\ \A c \in Calls : call[c].pc \in {"waiting", "ok"} => call[c].target \in Sockets

Init ==
    /\ daemons \in SUBSET Sockets
    /\ state = [s \in Sockets |-> "new"]
    /\ connections = {}
    /\ rpcListeners = [m \in Methods |-> Nobody]
    /\ status = "unknown"
    /\ late = FALSE
    /\ beating = {}
    /\ call = [c \in Calls |-> NewCall]

Connected(s) == state[s] \in {"verifying", "open"}

\* The ephemeral event that tells user-scoped clients the status of the daemon.
Broadcast(what, tooLate) == status' = what /\ late' = tooLate
-----------------------------------------------------------------------------
(* The connection handler.                                                 *)

\* The handshake, up to `await auth.verifyToken(token)`.
Handshake(s) ==
    /\ state[s] = "new"
    /\ state' = [state EXCEPT ![s] = "verifying"]
    /\ UNCHANGED <<daemons, connections, rpcListeners, status, late, beating, call>>

\* The token is verified: the connection is registered and its handlers are set,
\* whether or not the socket is still connected.
Verified(s) ==
    /\ state[s] \in {"verifying", "lost"}
    /\ state' = [state EXCEPT ![s] = IF @ = "lost" THEN "ghost" ELSE "open"]
    /\ connections' = connections \cup {s}
    /\ IF s \in daemons THEN Broadcast("online", FALSE) ELSE UNCHANGED <<status, late>>
    /\ UNCHANGED <<daemons, rpcListeners, beating, call>>

\* The token is refused: the server disconnects the socket.
Refused(s) ==
    /\ state[s] \in {"verifying", "lost"}
    /\ state' = [state EXCEPT ![s] = "closed"]
    /\ UNCHANGED <<daemons, connections, rpcListeners, status, late, beating, call>>

\* Nobody hears the disconnect of a socket that is not set up.
DisconnectUnheard(s) ==
    /\ state[s] = "verifying"
    /\ state' = [state EXCEPT ![s] = "lost"]
    /\ UNCHANGED <<daemons, connections, rpcListeners, status, late, beating, call>>

\* Mutant: the methods of the account are removed, not those of the socket.
RemoveListenersAll(s) == rpcListeners' = [m \in Methods |-> Nobody]

\* Mutant: one method is removed, and not all of the socket's.
RemoveListenersOne(s) ==
    \/ UNCHANGED rpcListeners /\ \A m \in Methods : rpcListeners[m] # s
    \/ \E m \in Methods : /\ rpcListeners[m] = s
                          /\ rpcListeners' = [rpcListeners EXCEPT ![m] = Nobody]

\* The 'disconnect' handler of rpcHandler removes what is still this socket's.
RemoveListeners(s) ==
    rpcListeners' = [m \in Methods |-> IF rpcListeners[m] = s THEN Nobody ELSE rpcListeners[m]]

\* Mutant: offline only if the machine had no other connection before.
OfflineIfOnly(s) == s \in daemons /\ connections \cap daemons = {}

\* Every machine-scoped connection broadcasts its end.
BroadcastsOffline(s) == s \in daemons

\* The two 'disconnect' handlers, one after the other.
Disconnect(s) ==
    /\ state[s] = "open"
    /\ state' = [state EXCEPT ![s] = "closed"]
    /\ connections' = connections \ {s}
    /\ IF BroadcastsOffline(s) THEN Broadcast("offline", FALSE) ELSE UNCHANGED <<status, late>>
    /\ RemoveListeners(s)
    /\ UNCHANGED <<daemons, beating, call>>
-----------------------------------------------------------------------------
(* machine-alive, which the daemon of the machine sends.                   *)

\* The heartbeat, up to `await activityCache.isMachineValid(...)`.
MachineAlive(s) ==
    /\ state[s] = "open" /\ s \in daemons
    /\ beating' = beating \cup {s}
    /\ UNCHANGED <<daemons, state, connections, rpcListeners, status, late, call>>

\* The machine is looked up: if it is found the clients are told that it is online,
\* whether or not the socket is still connected.  The socket may have more
\* heartbeats under way.
AliveChecked(s) ==
    /\ s \in beating
    /\ beating' \in {beating, beating \ {s}}
    /\ \/ Broadcast("online", state[s] # "open")
       \/ UNCHANGED <<status, late>>
    /\ UNCHANGED <<daemons, state, connections, rpcListeners, call>>
-----------------------------------------------------------------------------
(* RPC.                                                                    *)

\* rpc-register: the last one wins.
Register(s, m) ==
    /\ state[s] = "open"
    /\ rpcListeners' = [rpcListeners EXCEPT ![m] = s]
    /\ UNCHANGED <<daemons, state, connections, status, late, beating, call>>

\* rpc-unregister is ignored from a socket that is not the listener.
Unregister(s, m) ==
    /\ state[s] = "open"
    /\ rpcListeners' = [rpcListeners EXCEPT ![m] = IF @ = s THEN Nobody ELSE @]
    /\ UNCHANGED <<daemons, state, connections, status, late, beating, call>>

Callable(s, m) ==
    /\ rpcListeners[m] # Nobody
    /\ Connected(rpcListeners[m])
    /\ rpcListeners[m] # s

\* rpc-call: forwarded to the listener, or refused at once; dropped when the
\* server does not listen yet.
MakeCall(c, s, m) ==
    /\ call[c].pc = "new"
    /\ \/ /\ state[s] = "verifying"
          /\ call' = [call EXCEPT ![c].pc = "dropped"]
       \/ /\ state[s] = "open" /\ ~Callable(s, m)
          /\ call' = [call EXCEPT ![c].pc = "error"]
       \/ /\ state[s] = "open" /\ Callable(s, m)
          /\ call' = [call EXCEPT ![c].pc = "waiting", ![c].target = rpcListeners[m]]
    /\ UNCHANGED <<daemons, state, connections, rpcListeners, status, late, beating>>

\* The target acknowledges the request; an acknowledgement after the timeout is
\* dropped.
Answer(c) ==
    /\ call[c].target # Nobody /\ ~call[c].executed
    /\ state[call[c].target] = "open"
    /\ call' = [call EXCEPT ![c].executed = TRUE, ![c].pc = IF @ = "waiting" THEN "ok" ELSE @]
    /\ UNCHANGED <<daemons, state, connections, rpcListeners, status, late, beating>>

\* Mutant: a call to a target that has disconnected has no timeout.
MayTimeOutConnected(c) == state[call[c].target] = "open"

\* `timeout(30000)` runs whatever became of the target.
MayTimeOut(c) == TRUE

TimeOut(c) ==
    /\ call[c].pc = "waiting"
    /\ MayTimeOut(c)
    /\ call' = [call EXCEPT ![c].pc = "error"]
    /\ UNCHANGED <<daemons, state, connections, rpcListeners, status, late, beating>>
-----------------------------------------------------------------------------
Next ==
    \/ \E s \in Sockets : \/ Handshake(s) \/ Verified(s) \/ Refused(s)
                          \/ DisconnectUnheard(s) \/ Disconnect(s)
                          \/ MachineAlive(s) \/ AliveChecked(s)
    \/ \E s \in Sockets, m \in Methods : Register(s, m) \/ Unregister(s, m)
    \/ \E c \in Calls, s \in Sockets, m \in Methods : MakeCall(c, s, m)
    \/ \E c \in Calls : Answer(c) \/ TimeOut(c)

\* Tokens are verified and timers fire; clients owe nothing.
Fairness == /\ \A s \in Sockets : WF_vars(Verified(s) \/ Refused(s))
            /\ \A c \in Calls : WF_vars(TimeOut(c))

SafeSpec == Init /\ [][Next]_vars

Spec == SafeSpec /\ Fairness
-----------------------------------------------------------------------------
(* Properties                                                              *)

\* The listener of a method is connected and set up: calls are not forwarded
\* to a socket that is gone, whichever way it went (rpcHandler.ts:151-163).
ListenersOpen == \A m \in Methods : rpcListeners[m] # Nobody => state[rpcListeners[m]] = "open"

\* When a client reconnects and registers its methods again before the server has
\* noticed that the old socket is gone, the late disconnect or rpc-unregister of
\* the old one does not take them away (rpcHandler.ts:45, 155).
OnlyListenerReleases ==
    [][\A m \in Methods, s \in Sockets :
          rpcListeners[m] = s /\ rpcListeners'[m] = Nobody
              => state'[s] # "open" \/ Unregister(s, m)]_vars

\* A call the server accepted is answered, with the target's answer or an error,
\* although the target may disconnect or never answer (rpcHandler.ts:110-139).
EveryCallAnswered == \A c \in Calls : call[c].pc = "waiting" ~> call[c].pc \in {"ok", "error"}

\* A machine is not left online: when its last connection is removed, its clients
\* are told (socket.ts:153-161), and only a heartbeat whose machine was still being
\* looked up then can tell them otherwise (machineUpdateHandler.ts:34-47).
OfflineAnnounced == status = "online" /\ ~late => connections \cap daemons # {}
=============================================================================
