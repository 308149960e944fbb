-------------------------- MODULE ConnectionsProofs --------------------------
(***************************************************************************)
(* Theorems about Connections, for any sockets, methods and calls.         *)
(***************************************************************************)
EXTENDS Connections, TLAPS

\* An open socket is registered: its disconnect is what removes it.
OpenRegistered == \A s \in Sockets : state[s] = "open" => s \in connections

\* The type invariant, and the three invariants, which are inductive with it.
IInv == TypeOK /\ ListenersOpen /\ OpenRegistered /\ OfflineAnnounced

\* The initial state satisfies the invariant.
LEMMA InitIInv == Init => IInv
<1> SUFFICES ASSUME Init PROVE IInv
  OBVIOUS
<1>1. TypeOK
  BY DEF Init, TypeOK, States, NewCall, Call
<1>2. ListenersOpen /\ OpenRegistered
  BY DEF Init, ListenersOpen, OpenRegistered
<1>3. OfflineAnnounced
  BY DEF Init, OfflineAnnounced
<1> QED
  BY <1>1, <1>2, <1>3 DEF IInv

\* The connection handler and the disconnects leave the calls alone.
LEMMA SocketTypeOK ==
    ASSUME TypeOK, NEW s \in Sockets,
           \/ Handshake(s) \/ Verified(s) \/ Refused(s) \/ DisconnectUnheard(s) \/ Disconnect(s)
    PROVE  TypeOK'
<1>1. state' \in [Sockets -> States]
  BY DEF TypeOK, States, Handshake, Verified, Refused, DisconnectUnheard, Disconnect
<1>2. connections' \subseteq Sockets
  BY DEF TypeOK, Handshake, Verified, Refused, DisconnectUnheard, Disconnect
<1>3. rpcListeners' \in [Methods -> Sockets \cup {Nobody}]
  BY DEF TypeOK, Handshake, Verified, Refused, DisconnectUnheard, Disconnect, RemoveListeners
<1>4. status' \in {"unknown", "online", "offline"} /\ late' \in BOOLEAN
  BY DEF TypeOK, Handshake, Verified, Refused, DisconnectUnheard, Disconnect, Broadcast
<1>5. UNCHANGED <<daemons, beating, call>>
  BY DEF Handshake, Verified, Refused, DisconnectUnheard, Disconnect
<1> QED
  BY <1>1, <1>2, <1>3, <1>4, <1>5 DEF TypeOK

\* Heartbeats are the daemons'.
LEMMA AliveTypeOK ==
    ASSUME TypeOK, NEW s \in Sockets, MachineAlive(s) \/ AliveChecked(s) PROVE TypeOK'
BY DEF TypeOK, MachineAlive, AliveChecked, Broadcast

\* A listener is the socket that registers, or nobody.
LEMMA RegistrationTypeOK ==
    ASSUME TypeOK, NEW s \in Sockets, NEW m \in Methods, Register(s, m) \/ Unregister(s, m)
    PROVE  TypeOK'
<1>1. rpcListeners' \in [Methods -> Sockets \cup {Nobody}]
  BY DEF TypeOK, Register, Unregister
<1> QED
  BY <1>1 DEF TypeOK, Register, Unregister

\* A call is forwarded to a listener, which is a socket.
LEMMA CallTypeOK ==
    ASSUME TypeOK, NEW c \in Calls,
           \/ \E s \in Sockets, m \in Methods : MakeCall(c, s, m)
           \/ Answer(c) \/ TimeOut(c)
    PROVE  TypeOK'
<1> DEFINE GoodCall(r) == r \in Call /\ (r.pc \in {"waiting", "ok"} => r.target \in Sockets)
<1>1. call \in [Calls -> Call] /\ \A d \in Calls : GoodCall(call[d])
  BY DEF TypeOK
<1>2. SUFFICES ASSUME NEW r, GoodCall(r), call' = [call EXCEPT ![c] = r]
               PROVE  call' \in [Calls -> Call] /\ \A d \in Calls : GoodCall(call'[d])
  <2>1. UNCHANGED <<daemons, state, connections, rpcListeners, status, late, beating>>
    BY DEF MakeCall, Answer, TimeOut
  <2>2. \E r : GoodCall(r) /\ call' = [call EXCEPT ![c] = r]
    <3>1. ASSUME NEW s \in Sockets, NEW m \in Methods, MakeCall(c, s, m)
          PROVE  \E r : GoodCall(r) /\ call' = [call EXCEPT ![c] = r]
      <4>1. CASE call' = [call EXCEPT ![c].pc = "dropped"]
        <5>1. GoodCall([call[c] EXCEPT !.pc = "dropped"])
          BY <1>1 DEF Call
        <5> QED
          BY <4>1, <5>1
      <4>2. CASE call' = [call EXCEPT ![c].pc = "error"]
        <5>1. GoodCall([call[c] EXCEPT !.pc = "error"])
          BY <1>1 DEF Call
        <5> QED
          BY <4>2, <5>1
      <4>3. CASE /\ call' = [call EXCEPT ![c].pc = "waiting", ![c].target = rpcListeners[m]]
                 /\ Callable(s, m)
        <5>1. rpcListeners[m] \in Sockets
          BY <4>3 DEF Callable, TypeOK
        <5>2. GoodCall([call[c] EXCEPT !.pc = "waiting", !.target = rpcListeners[m]])
          BY <1>1, <5>1 DEF Call
        <5>3. call' = [call EXCEPT ![c] =
                         [call[c] EXCEPT !.pc = "waiting", !.target = rpcListeners[m]]]
          BY <1>1, <4>3 DEF Call
        <5> QED
          BY <5>2, <5>3
      <4> QED
        BY <3>1, <4>1, <4>2, <4>3 DEF MakeCall
    <3>2. CASE Answer(c)
      <4> DEFINE r == [call[c] EXCEPT !.executed = TRUE,
                         !.pc = IF call[c].pc = "waiting" THEN "ok" ELSE call[c].pc]
      <4>1. call[c].target \in Sockets
        BY <1>1, <3>2 DEF Answer, Call
      <4>2. GoodCall(r)
        BY <1>1, <4>1 DEF Call
      <4>3. call' = [call EXCEPT ![c] = r]
        BY <1>1, <3>2 DEF Answer, Call
      <4> QED
        BY <4>2, <4>3
    <3>3. CASE TimeOut(c)
      <4>1. GoodCall([call[c] EXCEPT !.pc = "error"])
        BY <1>1 DEF Call
      <4> QED
        BY <3>3, <4>1 DEF TimeOut
    <3> QED
      BY <3>1, <3>2, <3>3
  <2> QED
    BY <2>1, <2>2 DEF TypeOK
<1> QED
  BY <1>1, <1>2

\* Every step keeps the types.
LEMMA NextTypeOK == ASSUME TypeOK, [Next]_vars PROVE TypeOK'
<1>1. CASE UNCHANGED vars
  BY <1>1 DEF TypeOK, vars
<1>2. CASE Next
  BY <1>2, SocketTypeOK, AliveTypeOK, RegistrationTypeOK, CallTypeOK DEF Next
<1> QED
  BY <1>1, <1>2

\* A listener stays open unless it disconnects, and then it is removed.
LEMMA NextListenersOpen == ASSUME TypeOK, ListenersOpen, [Next]_vars PROVE ListenersOpen'
<1>1. ASSUME NEW s \in Sockets,
             Handshake(s) \/ Verified(s) \/ Refused(s) \/ DisconnectUnheard(s)
      PROVE  ListenersOpen'
  BY <1>1 DEF TypeOK, ListenersOpen, Handshake, Verified, Refused, DisconnectUnheard
<1>2. ASSUME NEW s \in Sockets, Disconnect(s) PROVE ListenersOpen'
  BY <1>2, ConnectionsAssumption DEF TypeOK, ListenersOpen, Disconnect, RemoveListeners
<1>3. ASSUME NEW s \in Sockets, NEW m \in Methods, Register(s, m) \/ Unregister(s, m)
      PROVE  ListenersOpen'
  BY <1>3 DEF TypeOK, ListenersOpen, Register, Unregister
<1>4. ASSUME UNCHANGED <<state, rpcListeners>> PROVE ListenersOpen'
  BY <1>4 DEF ListenersOpen
<1> QED
  BY <1>1, <1>2, <1>3, <1>4 DEF Next, vars, MakeCall, Answer, TimeOut, MachineAlive, AliveChecked

\* A socket is registered as it opens and removed as it closes.
LEMMA NextOpenRegistered == ASSUME TypeOK, OpenRegistered, [Next]_vars PROVE OpenRegistered'
<1>1. ASSUME NEW s \in Sockets,
             \/ Handshake(s) \/ Verified(s) \/ Refused(s) \/ DisconnectUnheard(s) \/ Disconnect(s)
      PROVE  OpenRegistered'
  BY <1>1 DEF TypeOK, OpenRegistered, Handshake, Verified, Refused, DisconnectUnheard, Disconnect
<1>2. ASSUME UNCHANGED <<state, connections>> PROVE OpenRegistered'
  BY <1>2 DEF OpenRegistered
<1> QED
  BY <1>1, <1>2 DEF Next, vars, MachineAlive, AliveChecked, Register, Unregister, MakeCall,
     Answer, TimeOut

\* Either the last connection of the machine is not the one removed, or the machine is
\* announced offline; a heartbeat is late or its socket is a connection of the machine.
LEMMA NextOfflineAnnounced ==
    ASSUME TypeOK, OpenRegistered, OfflineAnnounced, [Next]_vars PROVE OfflineAnnounced'
<1>1. ASSUME NEW s \in Sockets, Verified(s) PROVE OfflineAnnounced'
  BY <1>1 DEF OfflineAnnounced, Verified, Broadcast
<1>2. ASSUME NEW s \in Sockets, Disconnect(s) PROVE OfflineAnnounced'
  BY <1>2 DEF OfflineAnnounced, Disconnect, BroadcastsOffline, Broadcast
<1>3. ASSUME UNCHANGED <<daemons, connections, status, late>> PROVE OfflineAnnounced'
  BY <1>3 DEF OfflineAnnounced
<1>4. ASSUME NEW s \in Sockets, AliveChecked(s), Broadcast("online", state[s] # "open")
      PROVE  OfflineAnnounced'
  <2>1. s \in daemons
    BY <1>4 DEF TypeOK, AliveChecked
  <2>2. state[s] = "open" => s \in connections
    BY DEF OpenRegistered
  <2> QED
    BY <1>4, <2>1, <2>2 DEF OfflineAnnounced, AliveChecked, Broadcast
<1>5. ASSUME NEW s \in Sockets, AliveChecked(s) PROVE OfflineAnnounced'
  BY <1>3, <1>4, <1>5 DEF AliveChecked
<1> QED
  BY <1>1, <1>2, <1>3, <1>5 DEF Next, vars, Handshake, Refused, DisconnectUnheard, MachineAlive,
     Register, Unregister, MakeCall, Answer, TimeOut

\* IInv holds in every reachable state.
THEOREM Invariance == Spec => []IInv
<1>1. IInv /\ [Next]_vars => IInv'
  BY NextTypeOK, NextListenersOpen, NextOpenRegistered, NextOfflineAnnounced DEF IInv
<1> QED
  BY InitIInv, <1>1, PTL DEF Spec, SafeSpec

\* Calls are never forwarded to a socket that is gone: the listener of a method is
\* open (rpcHandler.ts:151-163), for any number of sockets and methods.
THEOREM ListenersOpenHolds == Spec => []ListenersOpen
<1>1. IInv => ListenersOpen
  BY DEF IInv
<1> QED
  BY Invariance, <1>1, PTL

\* A machine without a connection is not left online (socket.ts:153-161), unless by a
\* heartbeat that was still being looked up (machineUpdateHandler.ts:34-47).
THEOREM OfflineAnnouncedHolds == Spec => []OfflineAnnounced
<1>1. IInv => OfflineAnnounced
  BY DEF IInv
<1> QED
  BY Invariance, <1>1, PTL

\* Only the listener of a method gives it up, by unregistering or disconnecting
\* (rpcHandler.ts:45 and 155).
THEOREM OnlyListenerReleasesHolds == Spec => OnlyListenerReleases
<1> DEFINE Kept ==
      \A m \in Methods, s \in Sockets :
          rpcListeners[m] = s /\ rpcListeners'[m] = Nobody
              => state'[s] # "open" \/ Unregister(s, m)
<1>1. ASSUME IInv, [Next]_vars PROVE Kept
  <2>1. ASSUME UNCHANGED rpcListeners PROVE Kept
    BY <2>1, ConnectionsAssumption
  <2>2. ASSUME NEW s \in Sockets, Disconnect(s) PROVE Kept
    <3> SUFFICES ASSUME NEW k \in Methods, NEW t \in Sockets,
                        rpcListeners[k] = t, rpcListeners'[k] = Nobody
                 PROVE  state'[t] # "open"
      OBVIOUS
    <3>1. t = s
      BY <2>2, ConnectionsAssumption DEF Disconnect, RemoveListeners
    <3> QED
      BY <1>1, <2>2, <3>1 DEF Disconnect, IInv, TypeOK
  <2>3. ASSUME NEW s \in Sockets, NEW m \in Methods, Register(s, m) PROVE Kept
    BY <1>1, <2>3, ConnectionsAssumption DEF Register, IInv, TypeOK
  <2>4. ASSUME NEW s \in Sockets, NEW m \in Methods, Unregister(s, m) PROVE Kept
    <3> SUFFICES ASSUME NEW k \in Methods, NEW t \in Sockets,
                        rpcListeners[k] = t, rpcListeners'[k] = Nobody
                 PROVE  Unregister(t, k)
      OBVIOUS
    <3>1. k = m /\ t = s
      BY <1>1, <2>4, ConnectionsAssumption DEF Unregister, IInv, TypeOK
    <3> QED
      BY <2>4, <3>1
  <2> QED
    BY <1>1, <2>1, <2>2, <2>3, <2>4 DEF Next, vars, Handshake, Verified, Refused,
       DisconnectUnheard, MachineAlive, AliveChecked, MakeCall, Answer, TimeOut
<1>2. IInv /\ [Next]_vars => [Kept]_vars
  BY <1>1
<1> QED
  BY Invariance, <1>2, PTL DEF Spec, SafeSpec, OnlyListenerReleases
=============================================================================
