-------------------------- MODULE SessionSyncProofs --------------------------
(***************************************************************************)
(* Theorems about SessionSync, for any sockets, messages, requests and     *)
(* bounds, and any allowed failures and exits.  The inductive invariant is *)
(* a conjunction of named parts, each about one thing the handlers share:  *)
(* where a message is on its way (Places), the rows of sessions and what   *)
(* was announced of them (Lifecycle), the two counters (UpdateNumbers,     *)
(* Numbers), the order of a sender (Order), what is announced of a message *)
(* (Once), and what a client has been given (Fetched).                     *)
(***************************************************************************)
EXTENDS SessionSync, FiniteSetTheorems, SequenceTheorems, TLAPS

USE DEF Sids, Events, Live, database, clients, requests, faults

\* The first of a queue, and the others.
LEMMA QueueHead ==
    ASSUME NEW S, NEW q \in Seq(S), q # <<>>
    PROVE  /\ Head(q) = q[1] /\ q[1] \in S
           /\ Tail(q) \in Seq(S) /\ Len(q) >= 1 /\ Len(Tail(q)) = Len(q) - 1
           /\ \A i \in 1..Len(Tail(q)) : Tail(q)[i] = q[i + 1]
<1>1. Len(q) \in Nat /\ Len(q) >= 1
  BY EmptySeq
<1> QED
  BY <1>1, HeadTailProperties
-----------------------------------------------------------------------------
(* What the steps of the `message` handler do to it.                       *)

Handlers == handler \in [Sockets -> Handler]

\* Only the handler of socket s has changed.
Moved(s) == Handlers' /\ \A t \in Sockets \ {s} : handler'[t] = handler[t]

LEMMA Moves ==
    ASSUME Handlers, NEW s \in Sockets, NEW r \in Handler, handler' = [handler EXCEPT ![s] = r]
    PROVE  Moved(s) /\ handler'[s] = r
BY DEF Moved, Handlers

LEMMA Returns ==
    ASSUME Handlers, NEW s \in Sockets, Return(s)
    PROVE  Moved(s) /\ handler'[s] = Idle
<1>1. Idle \in Handler
  BY SessionSyncAssumption DEF Idle, Handler
<1> QED
  BY <1>1, Moves DEF Return

LEMMA Resolves ==
    ASSUME Handlers, inbox \in [Sockets -> Seq(Events)], NEW s \in Sockets, ResolveSession(s)
    PROVE  /\ Moved(s)
           /\ Turn(s) = inbox[s][1]
           /\ \/ handler'[s].pc = "idle"
              \/ handler'[s].pc = "userSeq" /\ handler'[s].n = Turn(s)
<1> DEFINE r == [handler[s] EXCEPT !.pc = "userSeq", !.n = Turn(s)]
<1>1. Turn(s) \in Events /\ Turn(s) = inbox[s][1]
  <2>1. inbox[s] \in Seq(Events) /\ inbox[s] # <<>>
    BY DEF ResolveSession
  <2> QED
    BY <2>1, QueueHead DEF Turn
<1>2. r \in Handler
  <2>1. Turn(s) \in 0..MaxSends
    BY <1>1, SessionSyncAssumption
  <2> QED
    BY <2>1 DEF Handlers, Handler
<1>3. handler' = [handler EXCEPT ![s] = r] \/ UNCHANGED handler
  BY DEF ResolveSession, Handlers
<1>4. CASE UNCHANGED handler
  BY <1>1, <1>4 DEF ResolveSession, Handlers, Moved
<1>5. CASE handler' = [handler EXCEPT ![s] = r]
  <2>1. r.pc = "userSeq" /\ r.n = Turn(s)
    BY DEF Handlers, Handler
  <2> HIDE DEF r
  <2> QED
    BY <1>1, <1>2, <1>5, <2>1, Moves
<1> QED
  BY <1>3, <1>4, <1>5

LEMMA AllocatesUpdate ==
    ASSUME Handlers, userSeq \in Nat, NEW s \in Sockets, AllocateUpdateSeq(s)
    PROVE  /\ Moved(s)
           /\ handler'[s] = [handler[s] EXCEPT !.pc = "sessionSeq", !.updSeq = NextUserSeq]
<1> DEFINE r == [handler[s] EXCEPT !.pc = "sessionSeq", !.updSeq = NextUserSeq]
<1>1. r \in Handler
  <2>1. NextUserSeq \in Nat
    BY DEF NextUserSeq
  <2> QED
    BY <2>1 DEF Handlers, Handler
<1>2. handler' = [handler EXCEPT ![s] = r]
  BY DEF AllocateUpdateSeq, Handlers
<1> QED
  BY <1>1, <1>2, Moves

LEMMA AllocatesMessage ==
    ASSUME Handlers, \A sid \in Live : sessions[sid].seq \in Nat,
           NEW s \in Sockets, AllocateMessageSeq(s)
    PROVE  /\ Moved(s)
           /\ \/ /\ Event(s).sid \in Live
                 /\ \E pc \in {"dedup", "create"} :
                       handler'[s] = [handler[s] EXCEPT !.pc = pc,
                                                        !.msgSeq = NextMessageSeq(Event(s).sid)]
              \/ /\ Event(s).sid \notin Live
                 /\ handler'[s].pc = "idle"
<1> DEFINE r(pc) == [handler[s] EXCEPT !.pc = pc, !.msgSeq = NextMessageSeq(Event(s).sid)]
<1>1. CASE Event(s).sid \in Live
  <2>1. NextMessageSeq(Event(s).sid) \in Nat
    BY <1>1 DEF NextMessageSeq
  <2>2. PICK pc \in {"dedup", "create"} : handler' = [handler EXCEPT ![s] = r(pc)]
    BY <1>1 DEF AllocateMessageSeq, Handlers
  <2>3. r(pc) \in Handler
    BY <2>1 DEF Handlers, Handler
  <2> QED
    BY <1>1, <2>2, <2>3, Moves
<1>2. CASE Event(s).sid \notin Live
  BY <1>2, Returns DEF AllocateMessageSeq, Idle
<1> QED
  BY <1>1, <1>2

LEMMA Advances ==
    ASSUME Handlers, NEW s \in Sockets, FindExisting(s) \/ CreateMessage(s)
    PROVE  /\ Moved(s)
           /\ \/ handler'[s].pc = "idle"
              \/ FindExisting(s) /\ handler'[s] = [handler[s] EXCEPT !.pc = "create"]
              \/ /\ CreateMessage(s)
                 /\ MayInsert(handler[s].n)
                 /\ handler'[s] = [handler[s] EXCEPT !.pc = "emit"]
<1>1. ASSUME NEW pc \in {"create", "emit"}, handler' = [handler EXCEPT ![s].pc = pc]
      PROVE  Moved(s) /\ handler'[s] = [handler[s] EXCEPT !.pc = pc]
  <2>1. [handler[s] EXCEPT !.pc = pc] \in Handler
    BY DEF Handlers, Handler
  <2>2. handler' = [handler EXCEPT ![s] = [handler[s] EXCEPT !.pc = pc]]
    BY <1>1 DEF Handlers
  <2> QED
    BY <2>1, <2>2, Moves
<1> QED
  BY <1>1, Returns DEF FindExisting, CreateMessage, Idle
-----------------------------------------------------------------------------
(* The places of an event: a queue, then a handler.                        *)

\* Every row, queue and handler is of an event that was sent, a handler and a queue of
\* one that its own socket sent, later ones behind earlier ones; ids are not used again.
Handled(s) ==
    handler[s].pc # "idle" => handler[s].n \in 1..Len(sent) /\ sent[handler[s].n].from = s

Queues(s) ==
    \A i \in 1..Len(inbox[s]) :
        /\ inbox[s][i] \in 1..Len(sent) /\ sent[inbox[s][i]].from = s
        /\ handler[s].pc # "idle" => handler[s].n < inbox[s][i]
        /\ \A j \in 1..Len(inbox[s]) : i < j => inbox[s][i] < inbox[s][j]

Places ==
    /\ Live \subseteq 1..created
    /\ \A n \in 1..Len(sent) : sent[n].sid <= created
    /\ \A s \in Sockets : Handled(s) /\ Queues(s)
    /\ \A m \in messages : m.n <= Len(sent) /\ sent[m.n].sid \in Live

\* A session that a request is about to announce as new exists or did; it was announced
\* by no other request and will be by none.
Creating(r) == creator[r].pc = "emit"

CreatorsFit ==
    \A r \in Creators : Creating(r) =>
        /\ creator[r].sid \in 1..created
        /\ \A q \in Creators : Creating(q) /\ creator[q].sid = creator[r].sid => q = r
        /\ \A i \in DOMAIN log : log[i].type = "new-session" => log[i].sid # creator[r].sid

LEMMA HandlerTypes ==
    ASSUME TypeOK, NEW s \in Sockets, HandlerStep(s) \/ MessageFails(s)
    PROVE  Handlers'
<1>1. Handlers /\ userSeq \in Nat /\ inbox \in [Sockets -> Seq(Events)]
  BY DEF TypeOK, Handlers
<1>2. \A sid \in Live : sessions[sid].seq \in Nat
  BY DEF TypeOK
<1> QED
  BY <1>1, <1>2, Returns, Resolves, AllocatesUpdate, AllocatesMessage, Advances
  DEF HandlerStep, AnnounceMessage, MessageFails, Moved

LEMMA CreatorTypes ==
    ASSUME TypeOK, NEW r \in Creators, CreatorStep(r) \/ CreateFails(r)
    PROVE  creator' \in [Creators -> Creator]
<1> DEFINE Goes(q) == creator' = [creator EXCEPT ![r] = q]
<1>1. creator \in [Creators -> Creator] /\ creator[r] \in Creator
  BY DEF TypeOK
<1>2. ASSUME NEW q \in Creator, Goes(q) PROVE creator' \in [Creators -> Creator]
  BY <1>1, <1>2
<1>3. ASSUME NEW pc \in {"new", "userSeq", "insert", "emit", "done", "error"}
      PROVE  /\ [creator[r] EXCEPT !.pc = pc] \in Creator
             /\ \A u \in Nat : [creator[r] EXCEPT !.pc = pc, !.updSeq = u] \in Creator
             /\ \A sid \in 0..MaxSessions : [creator[r] EXCEPT !.pc = pc, !.sid = sid] \in Creator
  BY <1>1, <1>3 DEF Creator
<1>4. \A pc : creator' = [creator EXCEPT ![r].pc = pc] => Goes([creator[r] EXCEPT !.pc = pc])
  BY <1>1
<1>5. CASE FindByTag(r)
  <2>1. \/ creator' = [creator EXCEPT ![r].pc = "userSeq"]
        \/ \E sid \in Live : Goes([creator[r] EXCEPT !.pc = "done", !.sid = sid])
    BY <1>1, <1>5 DEF FindByTag
  <2>2. \A sid \in Live : sid \in 0..MaxSessions
    BY SessionSyncAssumption DEF TypeOK
  <2> HIDE DEF Goes
  <2> QED
    BY <1>2, <1>3, <1>4, <2>1, <2>2
<1>6. CASE AllocateCreateSeq(r)
  <2>1. NextUserSeq \in Nat
    BY DEF TypeOK, NextUserSeq
  <2>2. Goes([creator[r] EXCEPT !.pc = "insert", !.updSeq = NextUserSeq])
    BY <1>1, <1>6 DEF AllocateCreateSeq
  <2> QED
    BY <1>2, <1>3, <2>1, <2>2
<1>7. CASE InsertSession(r)
  <2>1. \/ creator' = [creator EXCEPT ![r].pc = "error"]
        \/ /\ created + 1 \in 0..MaxSessions
           /\ Goes([creator[r] EXCEPT !.pc = "emit", !.sid = created + 1])
    <3>1. MaxSessions \in Nat /\ created \in 0..MaxSessions
      BY SessionSyncAssumption DEF TypeOK
    <3>2. AddSession(creator[r].tag) => created + 1 \in 0..MaxSessions
      BY <3>1 DEF AddSession
    <3> QED
      BY <1>1, <1>7, <3>2 DEF InsertSession
  <2> HIDE DEF Goes
  <2> QED
    BY <1>2, <1>3, <1>4, <2>1
<1>8. CASE AnnounceSession(r) \/ CreateFails(r)
  <2>1. \E pc \in {"done", "error"} : creator' = [creator EXCEPT ![r].pc = pc]
    BY <1>8 DEF AnnounceSession, CreateFails
  <2> HIDE DEF Goes
  <2> QED
    BY <1>2, <1>3, <1>4, <2>1
<1> QED
  BY <1>5, <1>6, <1>7, <1>8 DEF CreatorStep

LEMMA DeleterTypes ==
    ASSUME TypeOK, NEW r \in Deleters, DeleteSession(r) \/ NotifyStep(r) \/ DeleteFails(r)
    PROVE  deleter' \in [Deleters -> Deleter]
<1>1. deleter \in [Deleters -> Deleter] /\ deleter[r] \in Deleter
  BY DEF TypeOK
<1>2. ASSUME NEW q \in Deleter, deleter' = [deleter EXCEPT ![r] = q]
      PROVE  deleter' \in [Deleters -> Deleter]
  BY <1>1, <1>2
<1>3. CASE AllocateDeleteSeq(r)
  <2>1. NextUserSeq \in Nat
    BY DEF TypeOK, NextUserSeq
  <2>2. [deleter[r] EXCEPT !.pc = "emit", !.updSeq = NextUserSeq] \in Deleter
    BY <1>1, <2>1 DEF Deleter
  <2>3. deleter' = [deleter EXCEPT ![r] = [deleter[r] EXCEPT !.pc = "emit",
                                                            !.updSeq = NextUserSeq]]
    BY <1>1, <1>3 DEF AllocateDeleteSeq
  <2> QED
    BY <1>2, <2>2, <2>3
<1>4. CASE DeleteSession(r) \/ AnnounceDelete(r) \/ DeleteFails(r)
  <2>1. PICK pc \in {"notify", "done", "error", "failed"} :
            deleter' = [deleter EXCEPT ![r].pc = pc]
    BY <1>4 DEF DeleteSession, AnnounceDelete, DeleteFails
  <2>2. [deleter[r] EXCEPT !.pc = pc] \in Deleter
    BY <1>1 DEF Deleter
  <2>3. deleter' = [deleter EXCEPT ![r] = [deleter[r] EXCEPT !.pc = pc]]
    BY <1>1, <2>1
  <2> QED
    BY <1>2, <2>2, <2>3
<1> QED
  BY <1>3, <1>4 DEF NotifyStep

Sent == [from : Sockets, sid : Sids, localId : LocalIds \cup {NoLocalId}]

LEMMA SentTypes == ASSUME TypeOK PROVE \A n \in 1..Len(sent) : sent[n] \in Sent /\ sent[n].sid \in Sids
<1>1. sent \in Seq(Sent)
  BY DEF TypeOK, Sent
<1>2. \A n \in 1..Len(sent) : sent[n] \in Sent
  BY <1>1
<1> QED
  BY <1>2 DEF Sent

LEMMA HandledEvents ==
    ASSUME TypeOK, Places, NEW s \in Sockets, handler[s].pc # "idle"
    PROVE  handler[s].n \in 1..Len(sent) /\ handler[s].n \in Events /\ Event(s) \in Sent
<1>1. Len(sent) \in Nat /\ Len(sent) <= MaxSends /\ MaxSends \in Nat
  BY SessionSyncAssumption, LenProperties DEF TypeOK
<1>2. handler[s].n \in 1..Len(sent)
  BY DEF Places, Handled
<1> QED
  BY <1>1, <1>2, SentTypes DEF Event

-----------------------------------------------------------------------------
(* What a step does to the log.                                            *)

MessageUpdate(s) == [type |-> "new-message", sid |-> Event(s).sid, seq |-> handler[s].updSeq,
                     n |-> handler[s].n, msgSeq |-> handler[s].msgSeq]

SessionUpdate(r) == [type |-> "new-session", sid |-> creator[r].sid, seq |-> creator[r].updSeq,
                     n |-> 0, msgSeq |-> 0]

DeleteUpdate(r) == [type |-> "delete-session", sid |-> deleter[r].sid, seq |-> deleter[r].updSeq,
                    n |-> 0, msgSeq |-> 0]

\* An update is the last one of the log, and the others stay.
Appends(u) == /\ u \in Update /\ log' \in Seq(Update)
              /\ Len(log) \in Nat /\ Len(log') = Len(log) + 1
              /\ DOMAIN log = 1..Len(log) /\ DOMAIN log' = 1..Len(log')
              /\ log'[Len(log')] = u
              /\ \A i \in 1..Len(log) : log'[i] = log[i]

LEMMA LogGrows ==
    ASSUME log \in Seq(Update), NEW u \in Update, log' = Append(log, u)
    PROVE  Appends(u)
<1> HIDE DEF Live
<1> QED
  BY AppendProperties DEF Appends

LEMMA LogSteps ==
    ASSUME TypeOK, Places, CreatorsFit, Next
    PROVE  \/ UNCHANGED log
           \/ \E s \in Sockets : AnnounceMessage(s) /\ Appends(MessageUpdate(s))
           \/ \E r \in Creators : AnnounceSession(r) /\ Appends(SessionUpdate(r))
           \/ \E r \in Deleters : AnnounceDelete(r) /\ Appends(DeleteUpdate(r))
<1> log \in Seq(Update)
  BY DEF TypeOK
<1>1. ASSUME NEW s \in Sockets, AnnounceMessage(s) PROVE Appends(MessageUpdate(s))
  <2>1. handler[s] \in Handler /\ log' = Append(log, MessageUpdate(s))
    BY <1>1 DEF TypeOK, AnnounceMessage, MessageUpdate
  <2>2. Event(s).sid \in Sids
    BY <1>1, SentTypes DEF AnnounceMessage, Places, Handled, Event
  <2>3. MessageUpdate(s) \in Update
    BY <2>1, <2>2 DEF Handler, Update, MessageUpdate
  <2> QED
    BY <2>1, <2>3, LogGrows
<1>2. ASSUME NEW r \in Creators, AnnounceSession(r) PROVE Appends(SessionUpdate(r))
  <2>1. creator[r] \in Creator /\ log' = Append(log, SessionUpdate(r)) /\ created \in 0..MaxSessions
    BY <1>2 DEF TypeOK, AnnounceSession, SessionUpdate
  <2>2. creator[r].sid \in Sids
    BY <1>2, <2>1, SessionSyncAssumption DEF AnnounceSession, CreatorsFit, Creating
  <2>3. SessionUpdate(r) \in Update
    BY <2>1, <2>2, SessionSyncAssumption DEF Creator, Update, SessionUpdate
  <2> QED
    BY <2>1, <2>3, LogGrows
<1>3. ASSUME NEW r \in Deleters, AnnounceDelete(r) PROVE Appends(DeleteUpdate(r))
  <2>1. deleter[r] \in Deleter /\ log' = Append(log, DeleteUpdate(r))
    BY <1>3 DEF TypeOK, AnnounceDelete, DeleteUpdate
  <2>2. DeleteUpdate(r) \in Update
    BY <2>1, SessionSyncAssumption DEF Deleter, Update, DeleteUpdate
  <2> QED
    BY <2>1, <2>2, LogGrows
<1> QED
  BY <1>1, <1>2, <1>3
  DEF Next, ClientStep, HandlerStep, CreatorStep, NotifyStep, Fault, Handshake, Connect, Disconnect,
      FetchMessages, Send, ResolveSession, AllocateUpdateSeq, AllocateMessageSeq, FindExisting,
      CreateMessage, MessageFails, FindByTag, AllocateCreateSeq, InsertSession, CreateFails,
      DeleteSession, AllocateDeleteSeq, DeleteFails, Crash, NotificationFails, Exit
-----------------------------------------------------------------------------
(* What a step does to the rows of sessions and messages.                  *)

Keeps == UNCHANGED <<sessions, created, messages>>

Counts(s) == /\ AllocateMessageSeq(s)
             /\ Event(s).sid \in Live
             /\ sessions' = [sessions EXCEPT ![Event(s).sid].seq = NextMessageSeq(Event(s).sid)]
             /\ UNCHANGED <<created, messages>>

Stores(s) == /\ CreateMessage(s) \/ MessageFails(s)
             /\ handler[s].pc = "create"
             /\ MayInsert(handler[s].n)
             /\ messages' = messages \cup {NewMessage(s)}
             /\ UNCHANGED <<sessions, created>>

Adds(r) == /\ InsertSession(r) \/ CreateFails(r)
           /\ MayCreate(creator[r].tag)
           /\ AddSession(creator[r].tag)
           /\ UNCHANGED messages

Removes(r) == /\ DeleteSession(r) \/ DeleteFails(r)
              /\ deleter[r].sid \in Live
              /\ RemoveSession(deleter[r].sid)
              /\ UNCHANGED created

LEMMA RowSteps ==
    ASSUME Next
    PROVE  \/ Keeps
           \/ \E s \in Sockets : Counts(s) \/ Stores(s)
           \/ \E r \in Creators : Adds(r)
           \/ \E r \in Deleters : Removes(r)
<1>1. CASE \E s \in Sockets : ClientStep(s)
  BY <1>1 DEF ClientStep, Handshake, Connect, Disconnect, FetchMessages, Send, Keeps
<1>2. CASE \E s \in Sockets : HandlerStep(s) \/ MessageFails(s)
  BY <1>2 DEF HandlerStep, ResolveSession, AllocateUpdateSeq, AllocateMessageSeq, FindExisting,
              CreateMessage, AnnounceMessage, MessageFails, Keeps, Counts, Stores
<1>3. CASE \E r \in Creators : CreatorStep(r) \/ CreateFails(r)
  BY <1>3 DEF CreatorStep, FindByTag, AllocateCreateSeq, InsertSession, AnnounceSession,
              CreateFails, Keeps, Adds
<1>4. CASE \E r \in Deleters : DeleteSession(r) \/ NotifyStep(r) \/ DeleteFails(r)
  BY <1>4 DEF DeleteSession, Deletable, NotifyStep, AllocateDeleteSeq, AnnounceDelete, DeleteFails,
              Keeps, Removes
<1>5. CASE Crash \/ \E r \in Deleters : NotificationFails(r)
  BY <1>5 DEF Crash, NotificationFails, Exit, Keeps
<1> QED
  BY <1>1, <1>2, <1>3, <1>4, <1>5 DEF Next, Fault

Rows == /\ created \in 0..MaxSessions
        /\ Live \subseteq Sids
        /\ \A sid \in Live : sessions[sid] \in [tag : Tags, seq : Nat]
        /\ messages \subseteq Message /\ IsFiniteSet(messages)

\* What a new session changes.
LEMMA AddsRow ==
    ASSUME NEW tag, AddSession(tag), Places, created \in 0..MaxSessions
    PROVE  /\ created' = created + 1 /\ created' \in 0..MaxSessions
           /\ created' \notin Live
           /\ Live' = Live \cup {created'}
           /\ \A sid \in Live : sessions'[sid] = sessions[sid]
           /\ sessions'[created'] = [tag |-> tag, seq |-> 0]
<1>1. MaxSessions \in Nat
  BY SessionSyncAssumption
<1> QED
  BY <1>1 DEF AddSession, Places

\* The row of a handler's message; its place in the session is a number, as there are
\* finitely many rows.
LEMMA NewMessages ==
    ASSUME TypeOK, Places, NEW s \in Sockets, handler[s].pc # "idle"
    PROVE  /\ NewMessage(s) \in Message
           /\ NewMessage(s).n = handler[s].n /\ NewMessage(s).seq = handler[s].msgSeq
<1> DEFINE at == Cardinality(Stored(Event(s).sid)) + 1
<1>1. handler[s] \in Handler /\ handler[s].n \in Events
  BY HandledEvents DEF TypeOK
<1>2. Cardinality(Stored(Event(s).sid)) \in Nat
  <2>1. Stored(Event(s).sid) \subseteq messages
    BY DEF Stored
  <2>2. IsFiniteSet(Stored(Event(s).sid))
    BY <2>1, FS_Subset DEF TypeOK
  <2> QED
    BY <2>2, FS_CardinalityType
<1>3. NewMessage(s) = [n |-> handler[s].n, seq |-> handler[s].msgSeq, at |-> at] /\ at \in Nat
  BY <1>2 DEF NewMessage
<1> HIDE DEF at
<1> QED
  BY <1>1, <1>3 DEF Handler, Message

LEMMA RowTypes ==
    ASSUME TypeOK, Places, Next
    PROVE  Rows'
<1>1. CASE Keeps
  BY <1>1 DEF Keeps, Rows, TypeOK
<1>2. ASSUME NEW s \in Sockets, Counts(s) PROVE Rows'
  <2> DEFINE sid == Event(s).sid
  <2>1. /\ sessions' = [sessions EXCEPT ![sid] = [sessions[sid] EXCEPT !.seq = NextMessageSeq(sid)]]
        /\ sid \in Live
        /\ UNCHANGED <<created, messages>>
    BY <1>2 DEF Counts
  <2>2. Rows
    BY DEF TypeOK, Rows
  <2> HIDE DEF sid
  <2>3. [sessions[sid] EXCEPT !.seq = NextMessageSeq(sid)] \in [tag : Tags, seq : Nat]
    BY <2>1, <2>2 DEF Rows, NextMessageSeq
  <2> QED
    BY <2>1, <2>2, <2>3 DEF Rows
<1>3. ASSUME NEW s \in Sockets, Stores(s) PROVE Rows'
  <2>1. NewMessage(s) \in Message
    BY <1>3, NewMessages DEF Stores
  <2>2. IsFiniteSet(messages')
    BY <1>3, FS_AddElement DEF Stores, TypeOK
  <2> QED
    BY <1>3, <2>1, <2>2 DEF Stores, Rows, TypeOK
<1>4. ASSUME NEW r \in Creators, Adds(r) PROVE Rows'
  <2>1. creator[r].tag \in Tags /\ created \in 0..MaxSessions
    BY DEF TypeOK, Creator
  <2>2. [tag |-> creator[r].tag, seq |-> 0] \in [tag : Tags, seq : Nat]
    BY <2>1
  <2>3. Rows
    BY DEF TypeOK, Rows
  <2>4. created' \in Sids
    <3>1. created' = created + 1 /\ created' \in 0..MaxSessions
      BY <1>4, <2>1, AddsRow DEF Adds
    <3> QED
      BY <2>1, <3>1, SessionSyncAssumption
  <2> QED
    BY <1>4, <2>1, <2>2, <2>3, <2>4, AddsRow DEF Adds, Rows
<1>5. ASSUME NEW r \in Deleters, Removes(r) PROVE Rows'
  <2>1. messages' \subseteq messages
    BY <1>5 DEF Removes, RemoveSession
  <2>2. IsFiniteSet(messages')
    BY <2>1, FS_Subset DEF TypeOK
  <2> QED
    BY <1>5, <2>1, <2>2 DEF Removes, RemoveSession, Rows, TypeOK
<1> QED
  BY <1>1, <1>2, <1>3, <1>4, <1>5, RowSteps
-----------------------------------------------------------------------------
(* Type correctness.                                                       *)

ClientsOK == /\ conn \in [Sockets -> Connection]
             /\ sent \in Seq([from : Sockets, sid : Sids, localId : LocalIds \cup {NoLocalId}])
             /\ Len(sent) <= MaxSends
             /\ inbox \in [Sockets -> Seq(Events)]
             /\ view \in [Sockets -> SUBSET Events]
             /\ synced \in [Sockets -> SUBSET Fetch]

RequestsOK == creator \in [Creators -> Creator] /\ deleter \in [Deleters -> Deleter]

FaultsOK == /\ lost \subseteq Events
            /\ failures \in 0..MaxFailures
            /\ exits \in 0..MaxExits
            /\ killedBy \in {"nothing", "crash", "notification"}

\* An event that is sent goes to the end of its socket's queue.
LEMMA Sends ==
    ASSUME TypeOK, NEW s \in Sockets, NEW sid \in Sids, NEW id \in LocalIds \cup {NoLocalId},
           Send(s, sid, id)
    PROVE  /\ Len(sent) \in Nat /\ Len(sent') = Len(sent) + 1 /\ Len(sent') \in Events
           /\ sent' \in Seq(Sent)
           /\ \A n \in 1..Len(sent) : sent'[n] = sent[n]
           /\ sent'[Len(sent')] = [from |-> s, sid |-> sid, localId |-> id]
           /\ inbox' \in [Sockets -> Seq(Events)]
           /\ \A t \in Sockets \ {s} : inbox'[t] = inbox[t]
           /\ Len(inbox[s]) \in Nat /\ Len(inbox'[s]) = Len(inbox[s]) + 1
           /\ inbox'[s][Len(inbox[s]) + 1] = Len(sent')
           /\ \A i \in 1..Len(inbox[s]) : inbox'[s][i] = inbox[s][i]
<1> DEFINE e == [from |-> s, sid |-> sid, localId |-> id]
           n == Len(sent) + 1
<1>1. sent \in Seq(Sent) /\ e \in Sent /\ inbox[s] \in Seq(Events)
  BY DEF TypeOK, Sent
<1>2. sent' = Append(sent, e) /\ inbox' = [inbox EXCEPT ![s] = Append(inbox[s], n)]
  BY DEF Send, Queued
<1>3. Len(sent) \in Nat /\ Len(sent) < MaxSends /\ MaxSends \in Nat
  BY <1>1, LenProperties, SessionSyncAssumption DEF Send
<1>4. n \in Events
  BY <1>3
<1> HIDE DEF e, n, Events
<1>5. /\ sent' \in Seq(Sent) /\ Len(sent') = Len(sent) + 1
      /\ \A k \in 1..Len(sent) : sent'[k] = sent[k]
      /\ sent'[Len(sent) + 1] = e
  BY <1>1, <1>2, AppendProperties
<1>6. /\ Append(inbox[s], n) \in Seq(Events)
      /\ Len(inbox[s]) \in Nat /\ Len(Append(inbox[s], n)) = Len(inbox[s]) + 1
      /\ Append(inbox[s], n)[Len(inbox[s]) + 1] = n
      /\ \A i \in 1..Len(inbox[s]) : Append(inbox[s], n)[i] = inbox[s][i]
  BY <1>1, <1>4, AppendProperties, LenProperties
<1>7. inbox \in [Sockets -> Seq(Events)]
  BY DEF TypeOK
<1> QED
  BY <1>2, <1>3, <1>4, <1>5, <1>6, <1>7 DEF e, n

LEMMA ClientTypes ==
    ASSUME TypeOK, NEW s \in Sockets, ClientStep(s)
    PROVE  ClientsOK'
<1>1. ClientsOK
  BY DEF TypeOK, ClientsOK
<1>2. CASE Handshake(s)
  <2>1. PICK c : /\ c \in [state : {"verifying"}, type : ConnectionTypes, sid : 0..created]
                 /\ conn' = [conn EXCEPT ![s] = c]
    BY <1>2 DEF Handshake
  <2>2. created \in 0..MaxSessions /\ MaxSessions \in Nat
    BY SessionSyncAssumption DEF TypeOK
  <2>3. c \in Connection
    BY <2>1, <2>2 DEF Connection
  <2>4. conn' \in [Sockets -> Connection]
    BY <1>1, <2>1, <2>3 DEF ClientsOK
  <2> QED
    BY <1>1, <1>2, <2>4 DEF ClientsOK, Handshake
<1>3. CASE Connect(s) \/ Disconnect(s)
  <2>1. PICK state \in {"open", "closed"} :
            conn' = [conn EXCEPT ![s] = [conn[s] EXCEPT !.state = state]]
    BY <1>1, <1>3 DEF Connect, Disconnect, ClientsOK
  <2>2. [conn[s] EXCEPT !.state = state] \in Connection
    BY <1>1 DEF ClientsOK, Connection
  <2>3. conn' \in [Sockets -> Connection]
    BY <1>1, <2>1, <2>2 DEF ClientsOK
  <2> QED
    BY <1>1, <1>3, <2>3 DEF ClientsOK, Connect, Disconnect
<1>4. ASSUME NEW sid \in Sids, FetchMessages(s, sid) PROVE ClientsOK'
  <2>1. \A m \in messages : m.n \in Events
    BY DEF TypeOK, Message
  <2>2. {m.n : m \in Page(sid)} \subseteq Events
    BY <2>1 DEF Page, Stored
  <2>3. view' \in [Sockets -> SUBSET Events]
    BY <1>1, <1>4, <2>2 DEF ClientsOK, FetchMessages
  <2>4. Older(sid) \in Int
    <3>1. Stored(sid) \subseteq messages
      BY DEF Stored
    <3>2. IsFiniteSet(Stored(sid))
      BY <3>1, FS_Subset DEF TypeOK
    <3>3. Cardinality(Stored(sid)) \in Nat
      BY <3>2, FS_CardinalityType
    <3> QED
      BY <3>3, SessionSyncAssumption DEF Older
  <2>5. [of |-> sid, older |-> Older(sid)] \in Fetch
    BY <2>4 DEF Fetch
  <2>6. synced' \in [Sockets -> SUBSET Fetch]
    BY <1>1, <1>4, <2>5 DEF ClientsOK, FetchMessages
  <2> QED
    BY <1>1, <1>4, <2>3, <2>6 DEF ClientsOK, FetchMessages
<1>5. ASSUME NEW sid \in Sids, NEW id \in LocalIds \cup {NoLocalId}, Send(s, sid, id)
      PROVE  ClientsOK'
  <2>1. UNCHANGED <<conn, view, synced>>
    BY <1>5 DEF Send
  <2> QED
    <3>1. Len(sent') \in Events /\ sent' \in Seq(Sent) /\ inbox' \in [Sockets -> Seq(Events)]
      BY <1>5, Sends
    <3> QED
      BY <1>1, <2>1, <3>1 DEF ClientsOK, Sent
<1> QED
  BY <1>2, <1>3, <1>4, <1>5 DEF ClientStep

LEMMA HandlerClientTypes ==
    ASSUME TypeOK, Places, NEW s \in Sockets, HandlerStep(s) \/ MessageFails(s)
    PROVE  ClientsOK'
<1>1. ClientsOK
  BY DEF TypeOK, ClientsOK
<1>2. CASE ResolveSession(s)
  <2>1. inbox[s] \in Seq(Events) /\ inbox[s] # <<>>
    BY <1>1, <1>2 DEF ResolveSession, ClientsOK
  <2>2. Tail(inbox[s]) \in Seq(Events)
    BY <2>1, QueueHead
  <2> QED
    BY <1>1, <1>2, <2>2 DEF ClientsOK, ResolveSession
<1>3. CASE AnnounceMessage(s)
  <2>1. handler[s].n \in Events
    BY <1>3, HandledEvents DEF AnnounceMessage
  <2> QED
    BY <1>1, <1>3, <2>1 DEF ClientsOK, AnnounceMessage
<1>4. CASE AllocateUpdateSeq(s) \/ AllocateMessageSeq(s) \/ FindExisting(s) \/ CreateMessage(s)
             \/ MessageFails(s)
  BY <1>1, <1>4 DEF ClientsOK, AllocateUpdateSeq, AllocateMessageSeq, FindExisting, CreateMessage,
                    MessageFails
<1> QED
  BY <1>2, <1>3, <1>4 DEF HandlerStep

\* What the end of the process leaves.
LEMMA Exits ==
    ASSUME TypeOK, NEW cause, Exit(cause)
    PROVE  /\ conn' \in [Sockets -> Connection] /\ \A s \in Sockets : conn'[s].state # "open"
           /\ \A s \in Sockets : inbox'[s] = <<>> /\ handler'[s] = Idle
           /\ inbox' \in [Sockets -> Seq(Events)]
           /\ Handlers'
           /\ RequestsOK'
           /\ \A r \in Creators : /\ creator'[r].pc \in {"new", "done", "failed", "error"}
                                   /\ creator'[r].sid = creator[r].sid
           /\ \A r \in Deleters : \/ deleter'[r] = deleter[r]
                                   \/ (deleter'[r].pc = "error" /\ deleter'[r].sid = deleter[r].sid)
           /\ \A r \in Deleters : deleter'[r].pc \notin {"notify", "emit"}
           /\ UNCHANGED <<database, sent, log, view, synced>>
<1>1. \A s \in Sockets : conn[s] \in Connection /\ [conn[s] EXCEPT !.state = "closed"] \in Connection
  BY DEF TypeOK, Connection
<1>2. conn' \in [Sockets -> Connection] /\ \A s \in Sockets : conn'[s].state # "open"
  BY <1>1 DEF Exit, Connection
<1>3. <<>> \in Seq(Events) /\ Idle \in Handler
  BY SessionSyncAssumption DEF Idle, Handler
<1>4. \A r \in Creators : creator[r] \in Creator /\ [creator[r] EXCEPT !.pc = "error"] \in Creator
  BY DEF TypeOK, Creator
<1>5. \A r \in Deleters : deleter[r] \in Deleter /\ [deleter[r] EXCEPT !.pc = "error"] \in Deleter
  BY DEF TypeOK, Deleter
<1>6. DOMAIN creator = Creators /\ DOMAIN deleter = Deleters
  BY DEF TypeOK
<1>7. RequestsOK'
  BY <1>4, <1>5, <1>6 DEF Exit, Abort, RequestsOK
<1>8. \A r \in Creators : /\ creator'[r].pc \in {"new", "done", "failed", "error"}
                          /\ creator'[r].sid = creator[r].sid
  BY <1>4, <1>6 DEF Exit, Abort, Creator
<1>9. \A r \in Deleters : /\ \/ deleter'[r] = deleter[r]
                             \/ (deleter'[r].pc = "error" /\ deleter'[r].sid = deleter[r].sid)
                          /\ deleter'[r].pc \notin {"notify", "emit"}
  BY <1>5, <1>6 DEF Exit, Abort, Deleter
<1> QED
  BY <1>2, <1>3, <1>7, <1>8, <1>9 DEF Exit, Handlers

LEMMA InFlightTypes == ASSUME TypeOK PROVE InFlight \subseteq Events
<1>1. \A s \in Sockets : \A i \in DOMAIN inbox[s] : inbox[s][i] \in Events
  <2> HIDE DEF Events
  <2>1. SUFFICES ASSUME NEW s \in Sockets PROVE \A i \in DOMAIN inbox[s] : inbox[s][i] \in Events
    OBVIOUS
  <2>2. inbox[s] \in Seq(Events)
    BY DEF TypeOK
  <2> QED
    BY <2>2, ElementOfSeq, LenProperties
<1>2. \A s \in Sockets : handler[s].n \in Events \cup {0}
  <2>1. MaxSends \in Nat
    BY SessionSyncAssumption
  <2>2. \A s \in Sockets : handler[s].n \in 0..MaxSends
    <3>1. \A s \in Sockets : handler[s] \in Handler
      BY DEF TypeOK
    <3> QED
      BY <3>1 DEF Handler
  <2> QED
    BY <2>1, <2>2
<1> HIDE DEF Events
<1> QED
  BY <1>1, <1>2 DEF InFlight

LEMMA FaultTypes ==
    ASSUME TypeOK, Places, Next
    PROVE  FaultsOK'
<1>1. FaultsOK /\ MaxFailures \in Nat /\ MaxExits \in Nat
  <2>1. FaultsOK
    BY DEF TypeOK, FaultsOK
  <2> QED
    BY <2>1, SessionSyncAssumption
<1>2. failures < MaxFailures => failures + 1 \in 0..MaxFailures
  <2>1. failures \in 0..MaxFailures /\ MaxFailures \in Nat
    BY <1>1 DEF FaultsOK
  <2> QED
    BY <2>1
<1>3. exits < MaxExits => exits + 1 \in 0..MaxExits
  BY <1>1 DEF FaultsOK
<1>4. ASSUME NEW s \in Sockets, MessageFails(s) PROVE FaultsOK'
  <2>1. handler[s].n \in Events
    BY <1>4, HandledEvents DEF MessageFails
  <2> QED
    BY <1>1, <1>2, <1>4, <2>1 DEF MessageFails, FaultsOK
<1>5. CASE \/ \E r \in Creators : CreateFails(r)
           \/ \E r \in Deleters : DeleteFails(r)
  BY <1>1, <1>2, <1>5 DEF CreateFails, DeleteFails, FaultsOK
<1>6. CASE Crash \/ \E r \in Deleters : NotificationFails(r)
  BY <1>1, <1>2, <1>3, <1>6, InFlightTypes DEF Crash, NotificationFails, Exit, FaultsOK
<1>7. CASE UNCHANGED faults
  BY <1>1, <1>7 DEF FaultsOK
<1> QED
  BY <1>4, <1>5, <1>6, <1>7
  DEF Next, Fault, ClientStep, HandlerStep, CreatorStep, NotifyStep, Handshake, Connect, Disconnect,
      FetchMessages, Send, ResolveSession, AllocateUpdateSeq, AllocateMessageSeq, FindExisting,
      CreateMessage, AnnounceMessage, FindByTag, AllocateCreateSeq, InsertSession,
      AnnounceSession, DeleteSession, AllocateDeleteSeq, AnnounceDelete

LEMMA TypesKept ==
    ASSUME TypeOK, Places, CreatorsFit, Next
    PROVE  TypeOK'
<1>1. userSeq' \in Nat
  <2>1. userSeq \in Nat /\ NextUserSeq \in Nat
    BY DEF TypeOK, NextUserSeq
  <2>2. UNCHANGED userSeq \/ userSeq' = NextUserSeq
    BY DEF Next, Fault, ClientStep, HandlerStep, CreatorStep, NotifyStep, Handshake, Connect, Disconnect,
           FetchMessages, Send, ResolveSession, AllocateUpdateSeq, AllocateMessageSeq,
           FindExisting, CreateMessage, AnnounceMessage, MessageFails, FindByTag,
           AllocateCreateSeq, InsertSession, AnnounceSession, CreateFails, DeleteSession,
           AllocateDeleteSeq, AnnounceDelete, DeleteFails, Crash, NotificationFails, Exit
  <2> QED
    BY <2>1, <2>2
<1>2. ClientsOK' /\ RequestsOK' /\ Handlers'
  <2>1. ClientsOK /\ RequestsOK /\ Handlers
    BY DEF TypeOK, ClientsOK, RequestsOK, Handlers
  <2>2. ASSUME NEW s \in Sockets, ClientStep(s) PROVE RequestsOK' /\ Handlers'
    BY <2>1, <2>2 DEF ClientStep, Handshake, Connect, Disconnect, FetchMessages, Send, RequestsOK, Handlers
  <2>3. ASSUME NEW s \in Sockets, HandlerStep(s) \/ MessageFails(s) PROVE RequestsOK'
    BY <2>1, <2>3 DEF HandlerStep, ResolveSession, AllocateUpdateSeq, AllocateMessageSeq,
                      FindExisting, CreateMessage, AnnounceMessage, MessageFails, RequestsOK
  <2>4. ASSUME NEW r \in Creators, CreatorStep(r) \/ CreateFails(r)
        PROVE  ClientsOK' /\ RequestsOK' /\ Handlers'
    <3>1. UNCHANGED <<clients, sent, inbox, handler, deleter>>
      BY <2>4 DEF CreatorStep, FindByTag, AllocateCreateSeq, InsertSession, AnnounceSession,
                  CreateFails
    <3> QED
      BY <2>1, <2>4, <3>1, CreatorTypes DEF ClientsOK, RequestsOK, Handlers
  <2>5. ASSUME NEW r \in Deleters, DeleteSession(r) \/ NotifyStep(r) \/ DeleteFails(r)
        PROVE  ClientsOK' /\ RequestsOK' /\ Handlers'
    <3>1. UNCHANGED <<clients, sent, inbox, handler, creator>>
      BY <2>5 DEF DeleteSession, NotifyStep, AllocateDeleteSeq, AnnounceDelete, DeleteFails
    <3> QED
      BY <2>1, <2>5, <3>1, DeleterTypes DEF ClientsOK, RequestsOK, Handlers
  <2>6. ASSUME NEW cause, Exit(cause) PROVE ClientsOK' /\ RequestsOK' /\ Handlers'
    BY <2>1, <2>6, Exits DEF ClientsOK
  <2> QED
    BY <2>2, <2>3, <2>4, <2>5, <2>6, ClientTypes, HandlerTypes, HandlerClientTypes
    DEF Next, Fault, Crash, NotificationFails
<1>3. log' \in Seq(Update)
  <2>1. log \in Seq(Update)
    BY DEF TypeOK
  <2> QED
    BY <2>1, LogSteps DEF Appends
<1> QED
  BY <1>1, <1>2, <1>3, RowTypes, FaultTypes
  DEF TypeOK, ClientsOK, RequestsOK, Handlers, Rows, FaultsOK
-----------------------------------------------------------------------------
(* What a step does to the queues.                                         *)

\* The handler of socket s goes on with its event, or returns.
GoesOn(s) == /\ handler[s].pc # "idle"
             /\ Moved(s)
             /\ handler'[s].pc # "idle" => handler'[s].n = handler[s].n
             /\ UNCHANGED <<sent, inbox>>

Ends == \A s \in Sockets : inbox'[s] = <<>> /\ handler'[s] = Idle

LEMMA HandlerGoesOn ==
    ASSUME TypeOK, NEW s \in Sockets, HandlerStep(s) \/ MessageFails(s), ~ResolveSession(s)
    PROVE  GoesOn(s)
<1>1. Handlers /\ userSeq \in Nat /\ handler[s] \in Handler
  BY DEF TypeOK, Handlers
<1>2. \A sid \in Live : sessions[sid].seq \in Nat
  BY DEF TypeOK
<1>3. CASE AllocateUpdateSeq(s)
  <2>1. \A u : [handler[s] EXCEPT !.pc = "sessionSeq", !.updSeq = u].n = handler[s].n
    BY <1>1 DEF Handler
  <2> QED
    BY <1>1, <1>3, <2>1, AllocatesUpdate DEF GoesOn, AllocateUpdateSeq
<1>4. CASE AllocateMessageSeq(s)
  BY <1>1, <1>2, <1>4, AllocatesMessage DEF GoesOn, AllocateMessageSeq, Handler
<1>5. CASE FindExisting(s) \/ CreateMessage(s)
  BY <1>1, <1>5, Advances DEF GoesOn, FindExisting, CreateMessage, Handler
<1>6. CASE AnnounceMessage(s) \/ MessageFails(s)
  BY <1>1, <1>6, Returns DEF GoesOn, AnnounceMessage, MessageFails, Idle
<1> QED
  BY <1>3, <1>4, <1>5, <1>6 DEF HandlerStep

LEMMA QueueSteps ==
    ASSUME TypeOK, Next
    PROVE  \/ UNCHANGED <<sent, inbox, handler>>
           \/ \E s \in Sockets, sid \in Sids, id \in LocalIds \cup {NoLocalId} : Send(s, sid, id)
           \/ \E s \in Sockets : ResolveSession(s) \/ GoesOn(s)
           \/ Ends /\ UNCHANGED sent
<1>1. ASSUME NEW s \in Sockets, ClientStep(s)
      PROVE  \/ UNCHANGED <<sent, inbox, handler>>
             \/ \E sid \in Sids, id \in LocalIds \cup {NoLocalId} : Send(s, sid, id)
  BY <1>1 DEF ClientStep, Handshake, Connect, Disconnect, FetchMessages
<1>2. ASSUME NEW r \in Creators, CreatorStep(r) \/ CreateFails(r)
      PROVE  UNCHANGED <<sent, inbox, handler>>
  BY <1>2 DEF CreatorStep, FindByTag, AllocateCreateSeq, InsertSession, AnnounceSession, CreateFails
<1>3. ASSUME NEW r \in Deleters, DeleteSession(r) \/ NotifyStep(r) \/ DeleteFails(r)
      PROVE  UNCHANGED <<sent, inbox, handler>>
  BY <1>3 DEF DeleteSession, NotifyStep, AllocateDeleteSeq, AnnounceDelete, DeleteFails
<1>4. CASE Crash \/ \E r \in Deleters : NotificationFails(r)
  BY <1>4, Exits DEF Crash, NotificationFails, Ends
<1> QED
  BY <1>1, <1>2, <1>3, <1>4, HandlerGoesOn DEF Next, Fault, HandlerStep

\* Ids are not used again, and a session that is not live stays so.
LEMMA RowsGrow ==
    ASSUME TypeOK, Places, Next
    PROVE  /\ created \in Nat /\ created' \in Nat /\ created <= created'
           /\ Live' \subseteq 1..created'
           /\ \A sid \in Live' : sid \in Live \/ (sid = created + 1 /\ created' = created + 1)
<1>1. created \in Nat /\ Live \subseteq 1..created /\ created \in 0..MaxSessions
  <2>1. MaxSessions \in Nat /\ created \in 0..MaxSessions
    BY SessionSyncAssumption DEF TypeOK
  <2> QED
    BY <2>1 DEF Places
<1>2. CASE Keeps
  BY <1>1, <1>2 DEF Keeps
<1>3. CASE \E s \in Sockets : Counts(s) \/ Stores(s)
  <2>1. UNCHANGED created /\ Live' = Live
    BY <1>3 DEF Counts, Stores
  <2> QED
    BY <1>1, <2>1
<1>4. ASSUME NEW r \in Creators, Adds(r)
      PROVE  created' = created + 1 /\ Live' = Live \cup {created'}
  BY <1>1, <1>4, AddsRow DEF Adds
<1>5. CASE \E r \in Deleters : Removes(r)
  <2>1. UNCHANGED created /\ Live' \subseteq Live
    BY <1>5 DEF Removes, RemoveSession
  <2> QED
    BY <1>1, <2>1
<1>6. CASE \E r \in Creators : Adds(r)
  <2>1. created' = created + 1 /\ Live' = Live \cup {created'}
    BY <1>4, <1>6
  <2> HIDE DEF Live
  <2> QED
    BY <1>1, <2>1
<1> HIDE DEF Live
<1> QED
  BY <1>2, <1>3, <1>5, <1>6, RowSteps

LEMMA SentGrows ==
    ASSUME TypeOK, Next
    PROVE  /\ Len(sent) \in Nat /\ Len(sent') \in Nat /\ Len(sent) <= Len(sent')
           /\ \A n \in 1..Len(sent) : n \in 1..Len(sent') /\ sent'[n] = sent[n]
<1>1. Len(sent) \in Nat
  BY LenProperties DEF TypeOK
<1>2. CASE UNCHANGED sent
  BY <1>1, <1>2
<1>3. ASSUME NEW s \in Sockets, NEW sid \in Sids, NEW id \in LocalIds \cup {NoLocalId},
             Send(s, sid, id)
      PROVE  Len(sent') = Len(sent) + 1 /\ \A n \in 1..Len(sent) : sent'[n] = sent[n]
  BY <1>3, Sends
<1>4. UNCHANGED sent \/ \E s \in Sockets, sid \in Sids, id \in LocalIds \cup {NoLocalId} :
                            Send(s, sid, id)
  BY QueueSteps DEF GoesOn, ResolveSession
<1>5. CASE Len(sent') = Len(sent) + 1 /\ \A n \in 1..Len(sent) : sent'[n] = sent[n]
  BY <1>1, <1>5
<1> QED
  BY <1>2, <1>3, <1>4, <1>5

\* Each kind of step keeps the places of the events of a socket t.
LEMMA QueuesKept ==
    ASSUME TypeOK, Places, Next, NEW t \in Sockets
    PROVE  Handled(t)' /\ Queues(t)'
<1>1. Handled(t) /\ Queues(t) /\ handler[t] \in Handler /\ inbox[t] \in Seq(Events)
  BY DEF Places, TypeOK
<1>2. /\ Len(sent) \in Nat /\ Len(sent') \in Nat /\ Len(sent) <= Len(sent')
      /\ \A n \in 1..Len(sent) : n \in 1..Len(sent') /\ sent'[n] = sent[n]
  BY SentGrows
<1>3. CASE inbox'[t] = inbox[t] /\ handler'[t] = handler[t]
  BY <1>1, <1>2, <1>3 DEF Handled, Queues
<1>4. CASE \E sid \in Sids, id \in LocalIds \cup {NoLocalId} : Send(t, sid, id)
  <2>1. PICK sid \in Sids, id \in LocalIds \cup {NoLocalId} : Send(t, sid, id)
    BY <1>4
  <2>2. UNCHANGED handler
    BY <2>1 DEF Send
  <2>3. /\ Len(sent') = Len(sent) + 1
        /\ sent'[Len(sent')] = [from |-> t, sid |-> sid, localId |-> id]
        /\ Len(inbox[t]) \in Nat /\ Len(inbox'[t]) = Len(inbox[t]) + 1
        /\ inbox'[t][Len(inbox[t]) + 1] = Len(sent')
        /\ \A i \in 1..Len(inbox[t]) : inbox'[t][i] = inbox[t][i]
    BY <2>1, Sends
  <2>4. sent'[Len(sent')].from = t
    BY <2>3
  <2>5. Handled(t)'
    BY <1>1, <1>2, <2>2 DEF Handled
  <2>6. \A i \in 1..Len(inbox[t]) : inbox[t][i] \in 1..Len(sent)
    BY <1>1 DEF Queues
  <2>7. handler[t].pc # "idle" => handler[t].n \in 1..Len(sent)
    BY <1>1 DEF Handled
  <2> DEFINE last == Len(inbox[t]) + 1
  <2>8. ASSUME NEW i \in 1..Len(inbox'[t])
        PROVE  /\ inbox'[t][i] \in 1..Len(sent') /\ sent'[inbox'[t][i]].from = t
               /\ handler'[t].pc # "idle" => handler'[t].n < inbox'[t][i]
    <3>1. CASE i = last
      BY <1>2, <2>2, <2>3, <2>4, <2>7, <3>1
    <3>2. CASE i \in 1..Len(inbox[t])
      BY <1>1, <1>2, <2>2, <2>3, <2>6, <3>2 DEF Queues
    <3> QED
      BY <2>3, <3>1, <3>2
  <2>9. ASSUME NEW i \in 1..Len(inbox'[t]), NEW j \in 1..Len(inbox'[t]), i < j
        PROVE  inbox'[t][i] < inbox'[t][j]
    <3>1. i \in 1..Len(inbox[t])
      BY <2>3, <2>9
    <3>2. CASE j = last
      BY <1>2, <2>3, <2>6, <3>1, <3>2
    <3>3. CASE j \in 1..Len(inbox[t])
      BY <1>1, <2>3, <2>9, <3>1, <3>3 DEF Queues
    <3> QED
      BY <2>3, <3>2, <3>3
  <2> QED
    BY <2>5, <2>8, <2>9 DEF Queues
<1>5. CASE ResolveSession(t)
  <2>1. /\ Turn(t) = inbox[t][1]
        /\ \/ handler'[t].pc = "idle"
           \/ handler'[t].pc = "userSeq" /\ handler'[t].n = Turn(t)
    BY <1>5, Resolves DEF TypeOK, Handlers
  <2>2. inbox[t] # <<>> /\ inbox'[t] = Tail(inbox[t])
    BY <1>5 DEF ResolveSession, TypeOK
  <2>3. /\ Len(inbox[t]) \in Nat /\ Len(inbox[t]) >= 1 /\ Len(inbox'[t]) = Len(inbox[t]) - 1
        /\ \A i \in 1..Len(inbox'[t]) : inbox'[t][i] = inbox[t][i + 1]
    BY <1>1, <2>2, QueueHead, LenProperties
  <2>4. UNCHANGED sent
    BY <1>5 DEF ResolveSession
  <2>5. Handled(t)'
    BY <1>1, <2>1, <2>3, <2>4 DEF Handled, Queues
  <2>6. Queues(t)'
    BY <1>1, <2>1, <2>3, <2>4 DEF Queues
  <2> QED
    BY <2>5, <2>6
<1>6. CASE GoesOn(t)
  BY <1>1, <1>2, <1>6 DEF GoesOn, Handled, Queues
<1>7. CASE Ends
  <2>1. inbox'[t] = <<>> /\ handler'[t].pc = "idle"
    BY <1>7 DEF Ends, Idle
  <2>2. Len(inbox'[t]) = 0
    BY <2>1
  <2> QED
    BY <2>1, <2>2 DEF Handled, Queues
<1>8. ASSUME NEW s \in Sockets \ {t}, NEW sid \in Sids, NEW id \in LocalIds \cup {NoLocalId},
             Send(s, sid, id)
      PROVE  inbox'[t] = inbox[t] /\ handler'[t] = handler[t]
  BY <1>8, Sends DEF Send
<1>9. ASSUME NEW s \in Sockets \ {t}, ResolveSession(s) \/ GoesOn(s)
      PROVE  inbox'[t] = inbox[t] /\ handler'[t] = handler[t]
  <2>1. Handlers /\ inbox \in [Sockets -> Seq(Events)]
    BY DEF TypeOK, Handlers
  <2> QED
    BY <1>9, <2>1, Resolves DEF ResolveSession, GoesOn, Moved
<1> QED
  BY <1>3, <1>4, <1>5, <1>6, <1>7, <1>8, <1>9, QueueSteps

LEMMA PlacesKept ==
    ASSUME TypeOK, Places, Next
    PROVE  Places'
<1>1. Live' \subseteq 1..created' /\ created \in Nat /\ created' \in Nat /\ created <= created'
  BY RowsGrow
<1>2. \A n \in 1..Len(sent') : sent'[n].sid <= created'
  <2>1. \A n \in 1..Len(sent) : sent[n].sid <= created /\ sent[n].sid \in Sids
    BY SentTypes DEF Places
  <2>2. \A n \in 1..Len(sent) : sent'[n] = sent[n]
    BY SentGrows
  <2>3. ASSUME NEW s \in Sockets, NEW sid \in Sids, NEW id \in LocalIds \cup {NoLocalId},
               Send(s, sid, id)
        PROVE  /\ Len(sent) \in Nat /\ Len(sent') = Len(sent) + 1
               /\ sent'[Len(sent')].sid <= created
    <3>1. /\ Len(sent) \in Nat /\ Len(sent') = Len(sent) + 1
          /\ sent'[Len(sent')] = [from |-> s, sid |-> sid, localId |-> id]
      BY <2>3, Sends
    <3> QED
      BY <2>3, <3>1 DEF Send
  <2>4. CASE UNCHANGED sent
    BY <1>1, <2>1, <2>4
  <2>5. CASE \E s \in Sockets, sid \in Sids, id \in LocalIds \cup {NoLocalId} : Send(s, sid, id)
    <3>1. UNCHANGED created
      BY <2>5 DEF Send
    <3> QED
      BY <2>1, <2>2, <2>3, <2>5, <3>1
  <2> QED
    BY <2>4, <2>5, QueueSteps DEF GoesOn, ResolveSession
<1>3. \A m \in messages' : m.n <= Len(sent') /\ sent'[m.n].sid \in Live'
  <2>1. \A m \in messages : m.n \in 1..Len(sent) /\ sent[m.n].sid \in Live
    BY DEF Places, TypeOK, Message
  <2>2. \A m \in messages : m.n <= Len(sent') /\ sent'[m.n] = sent[m.n]
    BY <2>1, SentGrows
  <2>3. CASE Keeps \/ \E s \in Sockets : Counts(s)
    <3>1. Live' = Live /\ messages' = messages
      BY <2>3 DEF Keeps, Counts
    <3> QED
      BY <2>1, <2>2, <3>1
  <2>4. ASSUME NEW s \in Sockets, Stores(s)
        PROVE  \A m \in messages' : m.n <= Len(sent') /\ sent'[m.n].sid \in Live'
    <3>1. /\ handler[s].n \in 1..Len(sent) /\ sent[handler[s].n].sid \in Live
      BY <2>4, HandledEvents DEF Stores, MayInsert
    <3>2. handler[s].n <= Len(sent') /\ sent'[handler[s].n] = sent[handler[s].n]
      BY <3>1, SentGrows
    <3>3. /\ messages' = messages \cup {NewMessage(s)} /\ NewMessage(s).n = handler[s].n
          /\ Live' = Live
      BY <2>4 DEF Stores, NewMessage
    <3> QED
      BY <2>1, <2>2, <3>1, <3>2, <3>3
  <2>5. CASE \E r \in Creators : Adds(r)
    <3>1. Live \subseteq Live' /\ messages' = messages
      BY <2>5 DEF Adds, AddSession
    <3> QED
      BY <2>1, <2>2, <3>1
  <2>6. ASSUME NEW r \in Deleters, Removes(r)
        PROVE  \A m \in messages' : m.n <= Len(sent') /\ sent'[m.n].sid \in Live'
    <3>1. /\ messages' = {m \in messages : sent[m.n].sid # deleter[r].sid}
          /\ Live' = Live \ {deleter[r].sid}
      BY <2>6 DEF Removes, RemoveSession
    <3> QED
      BY <2>1, <2>2, <3>1
  <2> QED
    BY <2>3, <2>4, <2>5, <2>6, RowSteps
<1> QED
  BY <1>1, <1>2, <1>3, QueuesKept DEF Places
-----------------------------------------------------------------------------
(* Tags.                                                                   *)

LEMMA OneSessionPerTagKept ==
    ASSUME TypeOK, Places, OneSessionPerTag, Next
    PROVE  OneSessionPerTag'
<1>1. CASE Keeps
  BY <1>1 DEF Keeps, OneSessionPerTag
<1>2. ASSUME NEW s \in Sockets, Counts(s) PROVE OneSessionPerTag'
  <2>1. \A sid \in Live : sessions[sid] \in [tag : Tags, seq : Nat]
    BY DEF TypeOK
  <2>2. Live' = Live /\ \A sid \in Live : sessions'[sid].tag = sessions[sid].tag
    BY <1>2, <2>1 DEF Counts
  <2> QED
    BY <2>2 DEF OneSessionPerTag
<1>3. CASE \E s \in Sockets : Stores(s)
  BY <1>3 DEF Stores, OneSessionPerTag
<1>4. ASSUME NEW r \in Creators, Adds(r) PROVE OneSessionPerTag'
  <2>1. /\ Live' = Live \cup {created'}
        /\ \A sid \in Live : sessions'[sid] = sessions[sid]
        /\ sessions'[created'].tag = creator[r].tag
    <3>1. created \in 0..MaxSessions
      BY DEF TypeOK
    <3>2. /\ Live' = Live \cup {created'}
          /\ \A sid \in Live : sessions'[sid] = sessions[sid]
          /\ sessions'[created'] = [tag |-> creator[r].tag, seq |-> 0]
      BY <1>4, <3>1, AddsRow DEF Adds
    <3> QED
      BY <3>2
  <2>2. \A sid \in Live : sessions[sid].tag # creator[r].tag
    BY <1>4 DEF Adds, MayCreate, TagTaken
  <2> QED
    BY <2>1, <2>2 DEF OneSessionPerTag
<1>5. CASE \E r \in Deleters : Removes(r)
  BY <1>5 DEF Removes, RemoveSession, OneSessionPerTag
<1> QED
  BY <1>1, <1>2, <1>3, <1>4, <1>5, RowSteps
-----------------------------------------------------------------------------
(* Requests and what they announce.                                        *)

\* Of the requests only r has changed.
CreatorMoved(r) == \A q \in Creators \ {r} : creator'[q] = creator[q]
DeleterMoved(r) == \A q \in Deleters \ {r} : deleter'[q] = deleter[q]

LEMMA CreatorMoves ==
    ASSUME TypeOK, NEW r \in Creators, CreatorStep(r) \/ CreateFails(r)
    PROVE  /\ CreatorMoved(r)
           /\ \/ creator'[r].pc \in {"userSeq", "done", "error"}
              \/ /\ AllocateCreateSeq(r)
                 /\ creator'[r].pc = "insert" /\ creator'[r].updSeq = NextUserSeq
              \/ /\ InsertSession(r) /\ Adds(r)
                 /\ creator'[r].pc = "emit" /\ creator'[r].sid = created + 1
                 /\ creator'[r].updSeq = creator[r].updSeq
<1>1. creator \in [Creators -> Creator] /\ creator[r] \in Creator
  BY DEF TypeOK
<1>2. CASE AllocateCreateSeq(r)
  BY <1>1, <1>2 DEF AllocateCreateSeq, CreatorMoved, Creator
<1>3. CASE InsertSession(r)
  BY <1>1, <1>3 DEF InsertSession, CreatorMoved, Creator, Adds
<1>4. CASE FindByTag(r) \/ AnnounceSession(r) \/ CreateFails(r)
  BY <1>1, <1>4 DEF FindByTag, AnnounceSession, CreateFails, CreatorMoved, Creator
<1> QED
  BY <1>2, <1>3, <1>4 DEF CreatorStep

LEMMA DeleterMoves ==
    ASSUME TypeOK, NEW r \in Deleters, DeleteSession(r) \/ NotifyStep(r) \/ DeleteFails(r)
    PROVE  /\ DeleterMoved(r)
           /\ deleter'[r].sid = deleter[r].sid
           /\ \/ deleter'[r].pc \in {"done", "error", "failed"}
              \/ /\ AllocateDeleteSeq(r)
                 /\ deleter'[r].pc = "emit" /\ deleter'[r].updSeq = NextUserSeq
              \/ /\ DeleteSession(r) /\ Removes(r)
                 /\ deleter'[r].pc = "notify"
<1>1. deleter \in [Deleters -> Deleter] /\ deleter[r] \in Deleter
  BY DEF TypeOK
<1>2. CASE AllocateDeleteSeq(r)
  BY <1>1, <1>2 DEF AllocateDeleteSeq, DeleterMoved, Deleter
<1>3. CASE DeleteSession(r)
  BY <1>1, <1>3 DEF DeleteSession, Deletable, DeleterMoved, Deleter, Removes
<1>4. CASE AnnounceDelete(r) \/ DeleteFails(r)
  BY <1>1, <1>4 DEF AnnounceDelete, DeleteFails, DeleterMoved, Deleter
<1> QED
  BY <1>2, <1>3, <1>4 DEF NotifyStep

Deleting(r) == deleter[r].pc \in {"notify", "emit"}

\* A session whose deletion is about to be announced is gone; no other request announces
\* it or has.
DeletersFit ==
    \A r \in Deleters : Deleting(r) =>
        /\ deleter[r].sid \in 1..created /\ deleter[r].sid \notin Live
        /\ \A q \in Deleters : Deleting(q) /\ deleter[q].sid = deleter[r].sid => q = r
        /\ \A i \in DOMAIN log : log[i].type = "delete-session" => log[i].sid # deleter[r].sid

LogFits ==
    \A i \in DOMAIN log : /\ log[i].sid <= created
                          /\ log[i].type = "delete-session" => log[i].sid \notin Live

Lifecycle == CreatorsFit /\ DeletersFit /\ LogFits /\ LifecycleAnnouncedOnce

\* A request that is to announce a session was to before the step, or has just created
\* it; one that announces it in the step is not to do so again.
LEMMA CreatingSteps ==
    ASSUME TypeOK, Places, Next
    PROVE  \/ \A q \in Creators : Creating(q)' => Creating(q) /\ creator'[q].sid = creator[q].sid
           \/ /\ UNCHANGED log
              /\ created' = created + 1
              /\ \E r \in Creators :
                    /\ creator'[r].sid = created + 1
                    /\ \A q \in Creators \ {r} :
                          Creating(q)' => Creating(q) /\ creator'[q].sid = creator[q].sid
<1>1. ASSUME NEW r \in Creators, CreatorStep(r) \/ CreateFails(r),
             creator'[r].pc # "emit"
      PROVE  \A q \in Creators : Creating(q)' => Creating(q) /\ creator'[q].sid = creator[q].sid
  BY <1>1, CreatorMoves DEF CreatorMoved, Creating
<1>2. ASSUME NEW r \in Creators, CreatorStep(r) \/ CreateFails(r),
             creator'[r].pc = "emit"
      PROVE  /\ UNCHANGED log
             /\ created' = created + 1
             /\ creator'[r].sid = created + 1
             /\ \A q \in Creators \ {r} :
                   Creating(q)' => Creating(q) /\ creator'[q].sid = creator[q].sid
  <2>1. InsertSession(r) /\ Adds(r) /\ CreatorMoved(r) /\ creator'[r].sid = created + 1
    BY <1>2, CreatorMoves
  <2>2. created' = created + 1
    BY <2>1 DEF Adds, AddSession
  <2> QED
    BY <2>1, <2>2 DEF InsertSession, CreatorMoved, Creating
<1>3. ASSUME NEW s \in Sockets, ClientStep(s) \/ HandlerStep(s) \/ MessageFails(s)
      PROVE  UNCHANGED creator
  BY <1>3 DEF ClientStep, Handshake, Connect, Disconnect, FetchMessages, Send, HandlerStep, ResolveSession,
              AllocateUpdateSeq, AllocateMessageSeq, FindExisting, CreateMessage,
              AnnounceMessage, MessageFails
<1>4. ASSUME NEW r \in Deleters, DeleteSession(r) \/ NotifyStep(r) \/ DeleteFails(r)
      PROVE  UNCHANGED creator
  BY <1>4 DEF DeleteSession, NotifyStep, AllocateDeleteSeq, AnnounceDelete, DeleteFails
<1>5. ASSUME NEW cause, Exit(cause) PROVE \A q \in Creators : ~Creating(q)'
  BY <1>5, Exits DEF Creating
<1> QED
  BY <1>1, <1>2, <1>3, <1>4, <1>5 DEF Next, Fault, Crash, NotificationFails, Creating

LEMMA CreatorsFitKept ==
    ASSUME TypeOK, Places, Lifecycle, Next
    PROVE  CreatorsFit'
<1>1. created \in Nat /\ created' \in Nat /\ created <= created'
  BY RowsGrow
<1>2. \A i \in DOMAIN log : log[i].sid <= created /\ log[i].sid \in Nat
  <2>1. \A i \in DOMAIN log : log[i] \in Update
    BY DEF TypeOK
  <2> QED
    BY <2>1 DEF Lifecycle, LogFits, Update
<1>3. CASE \A q \in Creators : Creating(q)' => Creating(q) /\ creator'[q].sid = creator[q].sid
  <2>1. ASSUME NEW r \in Creators, Creating(r)', NEW i \in DOMAIN log', log'[i].type = "new-session"
        PROVE  log'[i].sid # creator'[r].sid
    <3>1. Creating(r) /\ creator'[r].sid = creator[r].sid
      BY <1>3, <2>1
    <3>2. CASE i \in DOMAIN log /\ log'[i] = log[i]
      BY <2>1, <3>1, <3>2 DEF Lifecycle, CreatorsFit
    <3>3. ASSUME NEW q \in Creators, AnnounceSession(q), log'[i] = SessionUpdate(q)
          PROVE  log'[i].sid # creator'[r].sid
      <4>1. Creating(q) /\ ~Creating(q)' /\ q # r
        <5>1. creator \in [Creators -> Creator]
          BY DEF TypeOK
        <5> QED
          BY <2>1, <3>3, <5>1 DEF AnnounceSession, Creating, Creator
      <4>2. log'[i].sid = creator[q].sid
        BY <3>3 DEF SessionUpdate
      <4> QED
        BY <3>1, <4>1, <4>2 DEF Lifecycle, CreatorsFit
    <3>4. \A q : /\ MessageUpdate(q).type # "new-session"
                 /\ DeleteUpdate(q).type # "new-session"
      BY DEF MessageUpdate, DeleteUpdate
    <3> QED
      BY <2>1, <3>2, <3>3, <3>4, LogSteps DEF Appends, Lifecycle
  <2> QED
    BY <1>1, <1>3, <2>1 DEF Lifecycle, CreatorsFit
<1>4. ASSUME UNCHANGED log, created' = created + 1,
             NEW r \in Creators, creator'[r].sid = created + 1,
             \A q \in Creators \ {r} : Creating(q)' => Creating(q) /\ creator'[q].sid = creator[q].sid
      PROVE  CreatorsFit'
  BY <1>1, <1>2, <1>4 DEF Lifecycle, CreatorsFit
<1> QED
  BY <1>3, <1>4, CreatingSteps

\* The updates after a step: those before it, and perhaps one more at the end.
LEMMA LogEntries ==
    ASSUME TypeOK, Places, CreatorsFit, Next, NEW i \in DOMAIN log'
    PROVE  \/ i \in DOMAIN log /\ log'[i] = log[i]
           \/ /\ i = Len(log) + 1 /\ Len(log) \in Nat /\ DOMAIN log = 1..Len(log)
              /\ \/ \E s \in Sockets : AnnounceMessage(s) /\ log'[i] = MessageUpdate(s)
                 \/ \E r \in Creators : AnnounceSession(r) /\ log'[i] = SessionUpdate(r)
                 \/ \E r \in Deleters : AnnounceDelete(r) /\ log'[i] = DeleteUpdate(r)
<1>1. CASE UNCHANGED log
  BY <1>1
<1>2. ASSUME NEW u, Appends(u)
      PROVE  \/ i \in DOMAIN log /\ log'[i] = log[i]
             \/ i = Len(log) + 1 /\ Len(log) \in Nat /\ DOMAIN log = 1..Len(log) /\ log'[i] = u
  BY <1>2 DEF Appends
<1> QED
  BY <1>1, <1>2, LogSteps

\* A request that is to announce a deletion was to before the step, or has just deleted.
LEMMA DeletingSteps ==
    ASSUME TypeOK, Next
    PROVE  /\ \A q \in Deleters : deleter'[q].sid = deleter[q].sid
           /\ \/ \A q \in Deleters : Deleting(q)' => Deleting(q)
              \/ /\ UNCHANGED log
                 /\ \E r \in Deleters :
                       /\ Removes(r)
                       /\ \A q \in Deleters \ {r} : Deleting(q)' => Deleting(q)
<1>1. ASSUME NEW r \in Deleters, DeleteSession(r) \/ NotifyStep(r) \/ DeleteFails(r)
      PROVE  /\ \A q \in Deleters : deleter'[q].sid = deleter[q].sid
             /\ \A q \in Deleters \ {r} : Deleting(q)' => Deleting(q)
             /\ \/ Deleting(r)' => Deleting(r)
                \/ Removes(r) /\ UNCHANGED log
  <2>1. /\ DeleterMoved(r) /\ deleter'[r].sid = deleter[r].sid
        /\ \/ deleter'[r].pc \in {"done", "error", "failed"}
           \/ AllocateDeleteSeq(r)
           \/ DeleteSession(r) /\ Removes(r)
    BY <1>1, DeleterMoves
  <2> QED
    BY <2>1 DEF DeleterMoved, Deleting, AllocateDeleteSeq, DeleteSession
<1>2. ASSUME NEW s \in Sockets, ClientStep(s) \/ HandlerStep(s) \/ MessageFails(s)
      PROVE  UNCHANGED deleter
  BY <1>2 DEF ClientStep, Handshake, Connect, Disconnect, FetchMessages, Send, HandlerStep, ResolveSession,
              AllocateUpdateSeq, AllocateMessageSeq, FindExisting, CreateMessage,
              AnnounceMessage, MessageFails
<1>3. ASSUME NEW r \in Creators, CreatorStep(r) \/ CreateFails(r)
      PROVE  UNCHANGED deleter
  BY <1>3 DEF CreatorStep, FindByTag, AllocateCreateSeq, InsertSession, AnnounceSession, CreateFails
<1>4. ASSUME NEW cause, Exit(cause)
      PROVE  \A q \in Deleters : deleter'[q].sid = deleter[q].sid /\ ~Deleting(q)'
  BY <1>4, Exits DEF Deleting
<1>5. CASE UNCHANGED deleter
  BY <1>5 DEF Deleting
<1> QED
  BY <1>1, <1>2, <1>3, <1>4, <1>5 DEF Next, Fault, Crash, NotificationFails

LEMMA DeletersFitKept ==
    ASSUME TypeOK, Places, Lifecycle, Next
    PROVE  DeletersFit'
<1>1. /\ created \in Nat /\ created' \in Nat /\ created <= created'
      /\ \A sid \in 1..created : sid \in Live' => sid \in Live
  BY RowsGrow
<1>2. /\ \A r \in Deleters : Deleting(r) => deleter[r].sid \in 1..created /\ deleter[r].sid \notin Live
      /\ \A r, q \in Deleters : Deleting(r) /\ Deleting(q) /\ deleter[q].sid = deleter[r].sid => q = r
      /\ \A r \in Deleters, i \in DOMAIN log :
            Deleting(r) /\ log[i].type = "delete-session" => log[i].sid # deleter[r].sid
      /\ \A i \in DOMAIN log : log[i].type = "delete-session" => log[i].sid \notin Live
  BY DEF Lifecycle, DeletersFit, LogFits
<1>3. \A q \in Deleters : deleter'[q].sid = deleter[q].sid
  BY DeletingSteps
<1>4. CASE \A q \in Deleters : Deleting(q)' => Deleting(q)
  <2>1. ASSUME NEW r \in Deleters, Deleting(r)', NEW i \in DOMAIN log', log'[i].type = "delete-session"
        PROVE  log'[i].sid # deleter'[r].sid
    <3>1. Deleting(r) /\ deleter'[r].sid = deleter[r].sid
      BY <1>3, <1>4, <2>1
    <3>2. CASE i \in DOMAIN log /\ log'[i] = log[i]
      BY <1>2, <2>1, <3>1, <3>2
    <3>3. ASSUME NEW q \in Deleters, AnnounceDelete(q), log'[i] = DeleteUpdate(q)
          PROVE  log'[i].sid # deleter'[r].sid
      <4>1. Deleting(q) /\ ~Deleting(q)'
        <5>1. deleter \in [Deleters -> Deleter]
          BY DEF TypeOK
        <5> QED
          BY <3>3, <5>1 DEF AnnounceDelete, Deleting, Deleter
      <4>2. log'[i].sid = deleter[q].sid
        BY <3>3 DEF DeleteUpdate
      <4> QED
        BY <1>2, <2>1, <3>1, <4>1, <4>2
    <3>4. \A q : /\ MessageUpdate(q).type # "delete-session"
                 /\ SessionUpdate(q).type # "delete-session"
      BY DEF MessageUpdate, SessionUpdate
    <3> QED
      BY <2>1, <3>2, <3>3, <3>4, LogEntries DEF Lifecycle
  <2>2. ASSUME NEW r \in Deleters, Deleting(r)'
        PROVE  deleter'[r].sid \in 1..created' /\ deleter'[r].sid \notin Live'
    <3>1. deleter'[r].sid \in 1..created /\ deleter'[r].sid \notin Live
      BY <1>2, <1>3, <1>4, <2>2
    <3> QED
      BY <1>1, <3>1
  <2> QED
    BY <1>2, <1>3, <1>4, <2>1, <2>2 DEF DeletersFit
<1>5. ASSUME UNCHANGED log, NEW r \in Deleters, Removes(r),
             \A q \in Deleters \ {r} : Deleting(q)' => Deleting(q)
      PROVE  DeletersFit'
  <2>1. deleter[r].sid \in Live /\ Live' = Live \ {deleter[r].sid} /\ UNCHANGED created
    BY <1>5 DEF Removes, RemoveSession
  <2>2. Live \subseteq 1..created
    BY DEF Places
  <2> HIDE DEF Live
  <2> QED
    BY <1>2, <1>3, <1>5, <2>1, <2>2 DEF DeletersFit
<1> QED
  BY <1>4, <1>5, DeletingSteps

LEMMA LogFitsKept ==
    ASSUME TypeOK, Places, Lifecycle, Next
    PROVE  LogFits'
<1>1. /\ created \in Nat /\ created' \in Nat /\ created <= created'
      /\ \A sid \in 1..created : sid \in Live' => sid \in Live
  BY RowsGrow
<1>2. ASSUME NEW i \in DOMAIN log'
      PROVE  /\ log'[i].sid \in 1..created
             /\ log'[i].type = "delete-session" => log'[i].sid \notin Live
  <2>1. CASE i \in DOMAIN log /\ log'[i] = log[i]
    <3>1. log[i] \in Update
      BY <2>1 DEF TypeOK
    <3>2. log[i].sid \in Nat /\ log[i].sid >= 1
      BY <3>1 DEF Update
    <3> QED
      BY <1>1, <2>1, <3>2 DEF Lifecycle, LogFits
  <2>2. ASSUME NEW s \in Sockets, AnnounceMessage(s), log'[i] = MessageUpdate(s)
        PROVE  log'[i].sid \in 1..created /\ log'[i].type # "delete-session"
    <3>1. Event(s).sid \in Sids /\ Event(s).sid <= created
      BY <2>2, SentTypes DEF AnnounceMessage, Places, Handled, Event
    <3> QED
      BY <1>1, <2>2, <3>1 DEF MessageUpdate
  <2>3. ASSUME NEW r \in Creators, AnnounceSession(r), log'[i] = SessionUpdate(r)
        PROVE  log'[i].sid \in 1..created /\ log'[i].type # "delete-session"
    BY <2>3 DEF SessionUpdate, AnnounceSession, Creating, Lifecycle, CreatorsFit
  <2>4. ASSUME NEW r \in Deleters, AnnounceDelete(r), log'[i] = DeleteUpdate(r)
        PROVE  log'[i].sid \in 1..created /\ log'[i].sid \notin Live
    BY <2>4 DEF DeleteUpdate, AnnounceDelete, Deleting, Lifecycle, DeletersFit
  <2> QED
    BY <2>1, <2>2, <2>3, <2>4, LogEntries DEF Lifecycle
<1>3. ASSUME NEW i \in DOMAIN log'
      PROVE  /\ log'[i].sid <= created'
             /\ log'[i].type = "delete-session" => log'[i].sid \notin Live'
  BY <1>1, <1>2
<1> QED
  BY <1>3 DEF LogFits

LEMMA LifecycleAnnouncedOnceKept ==
    ASSUME TypeOK, Places, Lifecycle, Next
    PROVE  LifecycleAnnouncedOnce'
<1> DEFINE Same(v, i, j) == /\ v[i].type = v[j].type /\ v[i].type # "new-message"
                            /\ v[i].sid = v[j].sid
<1>1. ASSUME NEW i \in DOMAIN log', NEW j \in DOMAIN log, log'[j] = log[j], Same(log', i, j),
             ~(i \in DOMAIN log /\ log'[i] = log[i])
      PROVE  FALSE
  <2>1. ASSUME NEW s \in Sockets, log'[i] = MessageUpdate(s) PROVE FALSE
    BY <1>1, <2>1 DEF MessageUpdate
  <2>2. ASSUME NEW r \in Creators, AnnounceSession(r), log'[i] = SessionUpdate(r) PROVE FALSE
    BY <1>1, <2>2 DEF SessionUpdate, AnnounceSession, Creating, Lifecycle, CreatorsFit
  <2>3. ASSUME NEW r \in Deleters, AnnounceDelete(r), log'[i] = DeleteUpdate(r) PROVE FALSE
    BY <1>1, <2>3 DEF DeleteUpdate, AnnounceDelete, Deleting, Lifecycle, DeletersFit
  <2> QED
    BY <1>1, <2>1, <2>2, <2>3, LogEntries DEF Lifecycle
<1>2. ASSUME NEW i \in DOMAIN log', NEW j \in DOMAIN log', Same(log', i, j) PROVE i = j
  <2>1. Same(log', j, i)
    BY <1>2
  <2>2. \/ i \in DOMAIN log /\ log'[i] = log[i]
        \/ i = Len(log) + 1
    BY LogEntries DEF Lifecycle
  <2>3. \/ j \in DOMAIN log /\ log'[j] = log[j]
        \/ j = Len(log) + 1
    BY LogEntries DEF Lifecycle
  <2>4. CASE i \in DOMAIN log /\ log'[i] = log[i] /\ j \in DOMAIN log /\ log'[j] = log[j]
    BY <1>2, <2>4 DEF Lifecycle, LifecycleAnnouncedOnce
  <2> HIDE DEF Same
  <2> QED
    BY <1>1, <1>2, <2>1, <2>2, <2>3, <2>4
<1> QED
  BY <1>2 DEF LifecycleAnnouncedOnce

LEMMA LifecycleKept == ASSUME TypeOK, Places, Lifecycle, Next PROVE Lifecycle'
BY CreatorsFitKept, DeletersFitKept, LogFitsKept, LifecycleAnnouncedOnceKept DEF Lifecycle
-----------------------------------------------------------------------------
(* The numbers of the updates.                                             *)

\* Who may hold a number of the account that no update carries yet.
Holders == [kind : {"message"}, of : Sockets] \cup [kind : {"create"}, of : Creators]
           \cup [kind : {"delete"}, of : Deleters]

Holding(h) ==
    \/ h.kind = "message" /\ handler[h.of].pc \in {"sessionSeq", "dedup", "create", "emit"}
    \/ h.kind = "create" /\ creator[h.of].pc \in {"insert", "emit"}
    \/ h.kind = "delete" /\ deleter[h.of].pc = "emit"

Number(h) == IF h.kind = "message" THEN handler[h.of].updSeq
             ELSE IF h.kind = "create" THEN creator[h.of].updSeq ELSE deleter[h.of].updSeq

\* The numbers held are of the account, one holder's each, and not yet in the log.
UpdateNumbers ==
    /\ \A h \in Holders : Holding(h) =>
          /\ Number(h) \in 1..userSeq
          /\ \A k \in Holders : Holding(k) /\ Number(k) = Number(h) => k = h
          /\ \A i \in DOMAIN log : log[i].seq # Number(h)
    /\ \A i \in DOMAIN log : log[i].seq <= userSeq

\* Whoever holds a number after the step, h apart, held the same one before.
Held(k) == Holding(k)' => Holding(k) /\ Number(k)' = Number(k)
OthersHeld(h) == \A k \in Holders \ {h} : Held(k)

Allocates(h) == UNCHANGED log /\ userSeq' = userSeq + 1 /\ OthersHeld(h) /\ Number(h)' = userSeq + 1

Announces(h) == /\ UNCHANGED userSeq /\ OthersHeld(h)
                /\ Holding(h) /\ ~Holding(h)'
                /\ \E u : Appends(u) /\ u.seq = Number(h)

ByMessage(s) == [kind |-> "message", of |-> s]
ByCreate(r) == [kind |-> "create", of |-> r]
ByDelete(r) == [kind |-> "delete", of |-> r]

LEMMA HolderKinds ==
    ASSUME NEW k \in Holders
    PROVE  \/ k.kind = "message" /\ k.of \in Sockets /\ k = ByMessage(k.of)
           \/ k.kind = "create" /\ k.of \in Creators /\ k = ByCreate(k.of)
           \/ k.kind = "delete" /\ k.of \in Deleters /\ k = ByDelete(k.of)
BY DEF Holders, ByMessage, ByCreate, ByDelete

LEMMA MessageHolds ==
    ASSUME TypeOK, NEW s \in Sockets, HandlerStep(s) \/ MessageFails(s)
    PROVE  /\ ByMessage(s) \in Holders /\ OthersHeld(ByMessage(s))
           /\ \/ ~Holding(ByMessage(s))'
              \/ AllocateUpdateSeq(s) /\ Number(ByMessage(s))' = userSeq + 1
              \/ Held(ByMessage(s))
<1>1. Handlers /\ userSeq \in Nat /\ handler[s] \in Handler /\ inbox \in [Sockets -> Seq(Events)]
  BY DEF TypeOK, Handlers
<1>2. \A sid \in Live : sessions[sid].seq \in Nat
  BY DEF TypeOK
<1>3. UNCHANGED <<creator, deleter>>
  BY DEF HandlerStep, ResolveSession, AllocateUpdateSeq, AllocateMessageSeq, FindExisting,
         CreateMessage, AnnounceMessage, MessageFails
<1>4. /\ Moved(s)
      /\ \/ handler'[s].pc \in {"idle", "userSeq"}
         \/ AllocateUpdateSeq(s) /\ handler'[s].updSeq = NextUserSeq
         \/ /\ handler[s].pc \in {"sessionSeq", "dedup", "create"}
            /\ handler'[s].updSeq = handler[s].updSeq
  <2>1. CASE ResolveSession(s)
    BY <1>1, <2>1, Resolves
  <2>2. CASE AllocateUpdateSeq(s)
    BY <1>1, <2>2, AllocatesUpdate DEF Handler
  <2>3. CASE AllocateMessageSeq(s)
    BY <1>1, <1>2, <2>3, AllocatesMessage DEF Handler, AllocateMessageSeq
  <2>4. CASE FindExisting(s) \/ CreateMessage(s)
    BY <1>1, <2>4, Advances DEF Handler, FindExisting, CreateMessage
  <2>5. CASE AnnounceMessage(s) \/ MessageFails(s)
    BY <1>1, <2>5, Returns DEF AnnounceMessage, MessageFails, Idle
  <2> QED
    BY <2>1, <2>2, <2>3, <2>4, <2>5 DEF HandlerStep
<1>5. ASSUME NEW k \in Holders, k # ByMessage(s) PROVE Held(k)
  BY <1>3, <1>4, <1>5, HolderKinds DEF Moved, Held, Holding, Number
<1>6. ByMessage(s) \in Holders /\ ByMessage(s).kind = "message" /\ ByMessage(s).of = s
  BY DEF Holders, ByMessage
<1> QED
  BY <1>4, <1>5, <1>6 DEF OthersHeld, Held, Holding, Number, NextUserSeq

LEMMA CreateHolds ==
    ASSUME TypeOK, NEW r \in Creators, CreatorStep(r) \/ CreateFails(r)
    PROVE  /\ ByCreate(r) \in Holders /\ OthersHeld(ByCreate(r))
           /\ \/ ~Holding(ByCreate(r))'
              \/ AllocateCreateSeq(r) /\ Number(ByCreate(r))' = userSeq + 1
              \/ Held(ByCreate(r))
<1>1. UNCHANGED <<handler, deleter>>
  BY DEF CreatorStep, FindByTag, AllocateCreateSeq, InsertSession, AnnounceSession, CreateFails
<1>2. /\ CreatorMoved(r)
      /\ \/ creator'[r].pc \in {"userSeq", "done", "error"}
         \/ AllocateCreateSeq(r) /\ creator'[r].updSeq = NextUserSeq
         \/ creator[r].pc = "insert" /\ creator'[r].updSeq = creator[r].updSeq
  BY CreatorMoves DEF InsertSession
<1>3. ASSUME NEW k \in Holders, k # ByCreate(r) PROVE Held(k)
  BY <1>1, <1>2, <1>3, HolderKinds DEF CreatorMoved, Held, Holding, Number
<1>4. ByCreate(r) \in Holders /\ ByCreate(r).kind = "create" /\ ByCreate(r).of = r
  BY DEF Holders, ByCreate
<1> QED
  BY <1>2, <1>3, <1>4 DEF OthersHeld, Held, Holding, Number, NextUserSeq

LEMMA DeleteHolds ==
    ASSUME TypeOK, NEW r \in Deleters, DeleteSession(r) \/ NotifyStep(r) \/ DeleteFails(r)
    PROVE  /\ ByDelete(r) \in Holders /\ OthersHeld(ByDelete(r))
           /\ \/ ~Holding(ByDelete(r))'
              \/ AllocateDeleteSeq(r) /\ Number(ByDelete(r))' = userSeq + 1
<1>1. UNCHANGED <<handler, creator>>
  BY DEF DeleteSession, NotifyStep, AllocateDeleteSeq, AnnounceDelete, DeleteFails
<1>2. /\ DeleterMoved(r)
      /\ \/ deleter'[r].pc # "emit"
         \/ AllocateDeleteSeq(r) /\ deleter'[r].updSeq = NextUserSeq
  BY DeleterMoves
<1>3. ASSUME NEW k \in Holders, k # ByDelete(r) PROVE Held(k)
  BY <1>1, <1>2, <1>3, HolderKinds DEF DeleterMoved, Held, Holding, Number
<1>4. ByDelete(r) \in Holders /\ ByDelete(r).kind = "delete" /\ ByDelete(r).of = r
  BY DEF Holders, ByDelete
<1> QED
  BY <1>2, <1>3, <1>4 DEF OthersHeld, Held, Holding, Number, NextUserSeq

LEMMA NumberSteps ==
    ASSUME TypeOK, Places, CreatorsFit, Next
    PROVE  \/ UNCHANGED <<userSeq, log>> /\ \A h \in Holders : Held(h)
           \/ \E h \in Holders : Allocates(h) \/ Announces(h)
<1>1. ASSUME NEW h \in Holders, OthersHeld(h), ~Holding(h)' \/ Held(h)
      PROVE  \A k \in Holders : Held(k)
  BY <1>1 DEF OthersHeld, Held
<1>2. ASSUME NEW s \in Sockets, HandlerStep(s) \/ MessageFails(s)
      PROVE  \/ UNCHANGED <<userSeq, log>> /\ \A h \in Holders : Held(h)
             \/ \E h \in Holders : Allocates(h) \/ Announces(h)
  <2>1. CASE AllocateUpdateSeq(s) /\ Number(ByMessage(s))' = userSeq + 1
    BY <1>2, <2>1, MessageHolds DEF Allocates, AllocateUpdateSeq, NextUserSeq
  <2>2. CASE AnnounceMessage(s)
    <3>1. \E u : Appends(u) /\ u.seq = Number(ByMessage(s))
      <4>1. MessageUpdate(s) \in Update /\ log' = Append(log, MessageUpdate(s))
        <5>1. Event(s).sid \in Sids /\ handler[s] \in Handler
          BY <2>2, SentTypes DEF AnnounceMessage, Places, Handled, Event, TypeOK
        <5> QED
          BY <2>2, <5>1 DEF Handler, Update, MessageUpdate, AnnounceMessage
      <4>2. Appends(MessageUpdate(s))
        BY <4>1, LogGrows DEF TypeOK
      <4> QED
        BY <4>2 DEF MessageUpdate, Number, ByMessage
    <3>2. Holding(ByMessage(s)) /\ ~Holding(ByMessage(s))' /\ UNCHANGED userSeq
      BY <2>2, Returns DEF AnnounceMessage, Holding, ByMessage, Idle, TypeOK, Handlers
    <3> QED
      BY <1>2, <3>1, <3>2, MessageHolds DEF Announces
  <2>3. CASE ~AllocateUpdateSeq(s) /\ ~AnnounceMessage(s)
    <3>1. UNCHANGED <<userSeq, log>>
      BY <1>2, <2>3 DEF HandlerStep, ResolveSession, AllocateMessageSeq, FindExisting,
                        CreateMessage, MessageFails
    <3>2. /\ ByMessage(s) \in Holders /\ OthersHeld(ByMessage(s))
          /\ ~Holding(ByMessage(s))' \/ Held(ByMessage(s))
      BY <1>2, <2>3, MessageHolds
    <3> QED
      BY <1>1, <3>1, <3>2
  <2>4. CASE AllocateUpdateSeq(s)
    <3>1. /\ handler'[s] = [handler[s] EXCEPT !.pc = "sessionSeq", !.updSeq = NextUserSeq]
          /\ handler[s] \in Handler
      BY <2>4, AllocatesUpdate DEF TypeOK, Handlers
    <3>2. Number(ByMessage(s))' = handler'[s].updSeq
      BY DEF Number, ByMessage
    <3>3. handler'[s].updSeq = userSeq + 1
      BY <3>1 DEF Handler, NextUserSeq
    <3> QED
      BY <2>1, <2>4, <3>2, <3>3
  <2> QED
    BY <2>2, <2>3, <2>4
<1>3. ASSUME NEW r \in Creators, CreatorStep(r) \/ CreateFails(r)
      PROVE  \/ UNCHANGED <<userSeq, log>> /\ \A h \in Holders : Held(h)
             \/ \E h \in Holders : Allocates(h) \/ Announces(h)
  <2>0. creator \in [Creators -> Creator] /\ creator[r] \in Creator
    BY DEF TypeOK
  <2>1. CASE AllocateCreateSeq(r)
    <3>1. Number(ByCreate(r))' = userSeq + 1
      BY <2>0, <2>1 DEF AllocateCreateSeq, Number, ByCreate, NextUserSeq, Creator
    <3> QED
      BY <1>3, <2>1, <3>1, CreateHolds DEF Allocates, AllocateCreateSeq, NextUserSeq
  <2>2. CASE AnnounceSession(r)
    <3>1. Appends(SessionUpdate(r))
      <4>1. creator[r].sid \in Sids /\ log' = Append(log, SessionUpdate(r))
        <5>1. created \in 0..MaxSessions /\ creator[r].sid \in 1..created
          BY <2>2 DEF TypeOK, AnnounceSession, CreatorsFit, Creating
        <5> QED
          BY <2>2, <5>1, SessionSyncAssumption DEF AnnounceSession, SessionUpdate
      <4>2. SessionUpdate(r) \in Update
        BY <2>0, <4>1, SessionSyncAssumption DEF Creator, Update, SessionUpdate
      <4> QED
        BY <4>1, <4>2, LogGrows DEF TypeOK
    <3>2. SessionUpdate(r).seq = Number(ByCreate(r))
      BY DEF SessionUpdate, Number, ByCreate
    <3>3. Holding(ByCreate(r)) /\ ~Holding(ByCreate(r))' /\ UNCHANGED userSeq
      BY <2>0, <2>2 DEF AnnounceSession, Holding, ByCreate, Creator
    <3> QED
      BY <1>3, <3>1, <3>2, <3>3, CreateHolds DEF Announces
  <2>3. CASE ~AllocateCreateSeq(r) /\ ~AnnounceSession(r)
    <3>1. UNCHANGED <<userSeq, log>>
      BY <1>3, <2>3 DEF CreatorStep, FindByTag, InsertSession, CreateFails
    <3> QED
      BY <1>1, <1>3, <2>3, <3>1, CreateHolds
  <2> QED
    BY <2>1, <2>2, <2>3
<1>4. ASSUME NEW r \in Deleters, DeleteSession(r) \/ NotifyStep(r) \/ DeleteFails(r)
      PROVE  \/ UNCHANGED <<userSeq, log>> /\ \A h \in Holders : Held(h)
             \/ \E h \in Holders : Allocates(h) \/ Announces(h)
  <2>0. deleter \in [Deleters -> Deleter] /\ deleter[r] \in Deleter
    BY DEF TypeOK
  <2>1. CASE AllocateDeleteSeq(r)
    <3>1. Number(ByDelete(r))' = userSeq + 1
      BY <2>0, <2>1 DEF AllocateDeleteSeq, Number, ByDelete, NextUserSeq, Deleter
    <3> QED
      BY <1>4, <2>1, <3>1, DeleteHolds DEF Allocates, AllocateDeleteSeq, NextUserSeq
  <2>2. CASE AnnounceDelete(r)
    <3>1. Appends(DeleteUpdate(r))
      <4>1. DeleteUpdate(r) \in Update /\ log' = Append(log, DeleteUpdate(r))
        BY <2>0, <2>2, SessionSyncAssumption DEF Deleter, Update, DeleteUpdate, AnnounceDelete
      <4> QED
        BY <4>1, LogGrows DEF TypeOK
    <3>2. DeleteUpdate(r).seq = Number(ByDelete(r))
      BY DEF DeleteUpdate, Number, ByDelete
    <3>3. Holding(ByDelete(r)) /\ ~Holding(ByDelete(r))' /\ UNCHANGED userSeq
      BY <2>0, <2>2 DEF AnnounceDelete, Holding, ByDelete, Deleter
    <3> QED
      BY <1>4, <3>1, <3>2, <3>3, DeleteHolds DEF Announces
  <2>3. CASE ~AllocateDeleteSeq(r) /\ ~AnnounceDelete(r)
    <3>1. UNCHANGED <<userSeq, log>>
      BY <1>4, <2>3 DEF DeleteSession, NotifyStep, DeleteFails
    <3> QED
      BY <1>1, <1>4, <2>3, <3>1, DeleteHolds
  <2> QED
    BY <2>1, <2>2, <2>3
<1>5. ASSUME NEW s \in Sockets, ClientStep(s)
      PROVE  UNCHANGED <<userSeq, log>> /\ \A h \in Holders : Held(h)
  <2>1. UNCHANGED <<userSeq, log, handler, requests>>
    BY <1>5 DEF ClientStep, Handshake, Connect, Disconnect, FetchMessages, Send
  <2> QED
    BY <2>1 DEF Held, Holding, Number
<1>6. ASSUME NEW cause, Exit(cause)
      PROVE  UNCHANGED <<userSeq, log>> /\ \A h \in Holders : Held(h)
  <2>1. \A h \in Holders : ~Holding(h)'
    BY <1>6, Exits, HolderKinds DEF Holding, Idle
  <2> QED
    BY <1>6, <2>1 DEF Held, Exit
<1> QED
  BY <1>2, <1>3, <1>4, <1>5, <1>6 DEF Next, Fault, Crash, NotificationFails

LEMMA UpdateNumbersKept ==
    ASSUME TypeOK, Places, CreatorsFit, UpdateNumbers, UpdateSeqsDistinct, Next
    PROVE  UpdateNumbers' /\ UpdateSeqsDistinct'
<1>1. userSeq \in Nat /\ DOMAIN log = 1..Len(log) /\ Len(log) \in Nat
  BY LenProperties DEF TypeOK
<1>2. \A i \in DOMAIN log : log[i].seq \in Nat
  <2>1. \A i \in DOMAIN log : log[i] \in Update
    BY DEF TypeOK
  <2> QED
    BY <2>1 DEF Update
<1>3. CASE UNCHANGED <<userSeq, log>> /\ \A h \in Holders : Held(h)
  BY <1>3 DEF UpdateNumbers, UpdateSeqsDistinct, Held
<1>4. ASSUME NEW h \in Holders, Allocates(h) PROVE UpdateNumbers' /\ UpdateSeqsDistinct'
  <2>1. \A k \in Holders : Holding(k)' =>
            \/ Holding(k) /\ Number(k)' = Number(k) /\ Number(k) \in 1..userSeq
            \/ k = h /\ Number(k)' = userSeq + 1
    BY <1>4 DEF Allocates, OthersHeld, Held, UpdateNumbers
  <2>2. UNCHANGED log /\ userSeq' = userSeq + 1
    BY <1>4 DEF Allocates
  <2>3. \A k \in Holders : Holding(k)' => Number(k)' \in 1..userSeq'
    BY <1>1, <2>1, <2>2
  <2>4. \A k, l \in Holders : Holding(k)' /\ Holding(l)' /\ Number(l)' = Number(k)' => l = k
    BY <1>1, <2>1 DEF UpdateNumbers
  <2>5. \A i \in DOMAIN log : log[i].seq <= userSeq'
    BY <1>1, <1>2, <2>2 DEF UpdateNumbers
  <2>6. \A k \in Holders : Holding(k)' => \A i \in DOMAIN log : log[i].seq # Number(k)'
    BY <1>1, <1>2, <2>1 DEF UpdateNumbers
  <2> QED
    BY <2>2, <2>3, <2>4, <2>5, <2>6 DEF UpdateNumbers, UpdateSeqsDistinct
<1>5. ASSUME NEW h \in Holders, Announces(h) PROVE UpdateNumbers' /\ UpdateSeqsDistinct'
  <2>1. PICK u : Appends(u) /\ u.seq = Number(h)
    BY <1>5 DEF Announces
  <2>2. /\ \A k \in Holders : Holding(k)' => k # h /\ Holding(k) /\ Number(k)' = Number(k)
        /\ Holding(h) /\ UNCHANGED userSeq
    BY <1>5 DEF Announces, OthersHeld, Held
  <2>3. \A i \in DOMAIN log' : \/ i \in DOMAIN log /\ log'[i] = log[i]
                               \/ i = Len(log) + 1 /\ log'[i].seq = Number(h)
    BY <2>1 DEF Appends
  <2>4. \A k \in Holders : Holding(k)' => \A i \in DOMAIN log' : log'[i].seq # Number(k)'
    BY <2>2, <2>3 DEF UpdateNumbers
  <2>5. \A i \in DOMAIN log' : log'[i].seq <= userSeq'
    BY <1>1, <1>2, <2>2, <2>3 DEF UpdateNumbers
  <2>6. \A i, j \in DOMAIN log' : log'[i].seq = log'[j].seq => i = j
    BY <2>2, <2>3 DEF UpdateNumbers, UpdateSeqsDistinct
  <2> QED
    BY <2>2, <2>4, <2>5, <2>6 DEF UpdateNumbers, UpdateSeqsDistinct
<1> QED
  BY <1>3, <1>4, <1>5, NumberSteps
-----------------------------------------------------------------------------
(* The numbers of the messages.                                            *)

Numbered(s) == handler[s].pc \in {"dedup", "create", "emit"}
Storing(s) == handler[s].pc \in {"dedup", "create"}

\* A number that was taken is behind the session's counter; as long as its message is not
\* stored no other handler has it and no row of the session.
MessageNumbers ==
    /\ \A s \in Sockets : Numbered(s) /\ Event(s).sid \in Live =>
          handler[s].msgSeq <= sessions[Event(s).sid].seq
    /\ \A s \in Sockets, m \in messages :
          Storing(s) /\ sent[m.n].sid = Event(s).sid => m.seq # handler[s].msgSeq
    /\ \A s, t \in Sockets :
          Storing(s) /\ Storing(t) /\ Event(s).sid = Event(t).sid
            /\ handler[s].msgSeq = handler[t].msgSeq => s = t

\* The handler of socket t takes no number in this step.
Stays(t) == /\ Numbered(t)' => /\ Numbered(t)
                               /\ handler'[t].n = handler[t].n
                               /\ handler'[t].msgSeq = handler[t].msgSeq
            /\ Storing(t)' => Storing(t)

LEMMA HandlerStays ==
    ASSUME TypeOK, NEW s \in Sockets, HandlerStep(s) \/ MessageFails(s)
    PROVE  /\ \A t \in Sockets \ {s} : Stays(t)
           /\ Stays(s) \/ Counts(s)
           /\ CreateMessage(s) \/ MessageFails(s) => ~Storing(s)'
<1>1. Handlers /\ userSeq \in Nat /\ handler[s] \in Handler /\ inbox \in [Sockets -> Seq(Events)]
  BY DEF TypeOK, Handlers
<1>2. \A sid \in Live : sessions[sid].seq \in Nat
  BY DEF TypeOK
<1>3. ASSUME NEW t \in Sockets, handler'[t] = handler[t] PROVE Stays(t)
  BY <1>3 DEF Stays, Numbered, Storing
<1>4. ASSUME handler'[s].pc \notin {"dedup", "create", "emit"} PROVE Stays(s) /\ ~Storing(s)'
  BY <1>4 DEF Stays, Numbered, Storing
<1>5. CASE ResolveSession(s) \/ AllocateUpdateSeq(s)
  <2>1. Moved(s) /\ handler'[s].pc \notin {"dedup", "create", "emit"}
    BY <1>1, <1>5, Resolves, AllocatesUpdate DEF Handler
  <2> QED
    BY <1>3, <1>4, <1>5, <2>1 DEF Moved, ResolveSession, AllocateUpdateSeq, CreateMessage, MessageFails
<1>6. CASE AllocateMessageSeq(s)
  <2>1. Moved(s) /\ (Event(s).sid \in Live \/ handler'[s].pc = "idle")
    BY <1>1, <1>2, <1>6, AllocatesMessage
  <2>2. CASE Event(s).sid \in Live
    <3>1. Counts(s)
      BY <1>6, <2>2 DEF Counts, AllocateMessageSeq
    <3>2. ~CreateMessage(s)
      BY <1>6 DEF AllocateMessageSeq, CreateMessage
    <3>3. ~MessageFails(s)
      <4>1. sessions' # sessions
        <5>1. Event(s).sid \in Live /\ sessions[Event(s).sid] \in [tag : Tags, seq : Nat]
          BY <2>2 DEF TypeOK
        <5>2. sessions'[Event(s).sid].seq = sessions[Event(s).sid].seq + 1
          BY <3>1, <5>1 DEF Counts, NextMessageSeq
        <5> QED
          BY <5>1, <5>2
      <4> QED
        BY <4>1 DEF MessageFails
    <3> QED
      BY <1>3, <2>1, <3>1, <3>2, <3>3 DEF Moved
  <2>3. CASE handler'[s].pc = "idle"
    BY <1>3, <1>4, <2>1, <2>3 DEF Moved
  <2> QED
    BY <2>1, <2>2, <2>3
<1>7. CASE FindExisting(s) \/ CreateMessage(s)
  <2>1. /\ Moved(s)
        /\ \/ handler'[s].pc = "idle"
           \/ FindExisting(s) /\ handler'[s] = [handler[s] EXCEPT !.pc = "create"]
           \/ CreateMessage(s) /\ handler'[s] = [handler[s] EXCEPT !.pc = "emit"]
    BY <1>1, <1>7, Advances
  <2>2. CASE FindExisting(s) /\ handler'[s] = [handler[s] EXCEPT !.pc = "create"]
    <3>1. handler[s].pc = "dedup" /\ handler'[s].n = handler[s].n
          /\ handler'[s].msgSeq = handler[s].msgSeq /\ handler'[s].pc = "create"
      BY <1>1, <2>2 DEF FindExisting, Handler
    <3>2. ~CreateMessage(s) /\ ~MessageFails(s)
      BY <1>1, <2>2, <3>1, Returns DEF FindExisting, CreateMessage, MessageFails, Idle
    <3> QED
      BY <1>3, <2>1, <3>1, <3>2 DEF Moved, Stays, Numbered, Storing
  <2>3. CASE CreateMessage(s) /\ handler'[s] = [handler[s] EXCEPT !.pc = "emit"]
    <3>1. handler[s].pc = "create" /\ handler'[s].n = handler[s].n
          /\ handler'[s].msgSeq = handler[s].msgSeq /\ handler'[s].pc = "emit"
      BY <1>1, <2>3 DEF CreateMessage, Handler
    <3> QED
      BY <1>3, <2>1, <3>1 DEF Moved, Stays, Numbered, Storing
  <2> QED
    BY <1>3, <1>4, <2>1, <2>2, <2>3 DEF Moved
<1>8. CASE AnnounceMessage(s) \/ MessageFails(s)
  BY <1>1, <1>3, <1>4, <1>8, Returns DEF AnnounceMessage, MessageFails, Moved, Idle
<1> QED
  BY <1>5, <1>6, <1>7, <1>8 DEF HandlerStep

LEMMA OthersStay ==
    ASSUME UNCHANGED handler
    PROVE  \A t \in Sockets : Stays(t)
BY DEF Stays, Numbered, Storing

LEMMA NumberedSteps ==
    ASSUME TypeOK, Next
    PROVE  /\ \A t \in Sockets : Stays(t) \/ Counts(t)
           /\ \A s \in Sockets : Counts(s) => \A t \in Sockets \ {s} : Stays(t)
           /\ \A s \in Sockets : Stores(s) => Stays(s) /\ ~Storing(s)'
<1>1. ASSUME NEW s \in Sockets, HandlerStep(s) \/ MessageFails(s)
      PROVE  \A t \in Sockets : Stays(t) \/ Counts(t)
  BY <1>1, HandlerStays
<1>2. ASSUME NEW s \in Sockets, ClientStep(s) PROVE UNCHANGED handler
  BY <1>2 DEF ClientStep, Handshake, Connect, Disconnect, FetchMessages, Send
<1>3. ASSUME NEW r \in Creators, CreatorStep(r) \/ CreateFails(r) PROVE UNCHANGED handler
  BY <1>3 DEF CreatorStep, FindByTag, AllocateCreateSeq, InsertSession, AnnounceSession, CreateFails
<1>4. ASSUME NEW r \in Deleters, DeleteSession(r) \/ NotifyStep(r) \/ DeleteFails(r)
      PROVE  UNCHANGED handler
  BY <1>4 DEF DeleteSession, NotifyStep, AllocateDeleteSeq, AnnounceDelete, DeleteFails
<1>5. ASSUME NEW cause, Exit(cause) PROVE \A t \in Sockets : Stays(t)
  BY <1>5, Exits DEF Stays, Numbered, Storing, Idle
<1>6. \A t \in Sockets : Stays(t) \/ Counts(t)
  BY <1>1, <1>2, <1>3, <1>4, <1>5, OthersStay DEF Next, Fault, Crash, NotificationFails
<1>7. ASSUME NEW s \in Sockets, Counts(s) PROVE \A t \in Sockets \ {s} : Stays(t)
  BY <1>7, HandlerStays DEF Counts, HandlerStep
<1>8. ASSUME NEW s \in Sockets, Stores(s) PROVE Stays(s) /\ ~Storing(s)'
  <2>1. CreateMessage(s) \/ MessageFails(s)
    BY <1>8 DEF Stores
  <2>2. ~Counts(s)
    BY <1>8 DEF Stores, Counts, AllocateMessageSeq
  <2> QED
    BY <2>1, <2>2, HandlerStays DEF HandlerStep
<1> QED
  BY <1>6, <1>7, <1>8

\* What a handler that takes a number has afterwards.
LEMMA Takes ==
    ASSUME TypeOK, NEW s \in Sockets, Counts(s)
    PROVE  /\ sessions[Event(s).sid].seq \in Nat
           /\ handler'[s].n = handler[s].n
           /\ handler'[s].msgSeq = sessions[Event(s).sid].seq + 1
           /\ Live' = Live
           /\ sessions'[Event(s).sid].seq = sessions[Event(s).sid].seq + 1
           /\ \A sid \in Live \ {Event(s).sid} : sessions'[sid] = sessions[sid]
<1>1. Handlers /\ handler[s] \in Handler /\ \A sid \in Live : sessions[sid].seq \in Nat
  BY DEF TypeOK, Handlers
<1>2. Event(s).sid \in Live /\ sessions[Event(s).sid] \in [tag : Tags, seq : Nat]
  BY DEF Counts, TypeOK
<1>3. PICK pc \in {"dedup", "create"} :
          handler'[s] = [handler[s] EXCEPT !.pc = pc, !.msgSeq = NextMessageSeq(Event(s).sid)]
  BY <1>1, <1>2, AllocatesMessage DEF Counts
<1>4. handler'[s].n = handler[s].n /\ handler'[s].msgSeq = NextMessageSeq(Event(s).sid)
  BY <1>1, <1>3 DEF Handler
<1> QED
  BY <1>2, <1>4 DEF Counts, NextMessageSeq

\* Events of rows and of handlers that have a number are what they were.
LEMMA EventsStay ==
    ASSUME TypeOK, Places, Next
    PROVE  /\ \A m \in messages : m.n \in 1..Len(sent) /\ sent'[m.n] = sent[m.n]
           /\ \A t \in Sockets : handler[t].pc # "idle" /\ handler'[t].n = handler[t].n
                                     => Event(t)' = Event(t)
           /\ \A t \in Sockets : handler[t].pc # "idle" => Event(t).sid \in 1..created
<1>1. \A n \in 1..Len(sent) : sent'[n] = sent[n] /\ sent[n].sid \in 1..created
  <2>1. \A n \in 1..Len(sent) : sent[n].sid \in Sids /\ sent[n].sid <= created
    BY SentTypes DEF Places
  <2>2. created \in Nat /\ \A n \in 1..Len(sent) : sent'[n] = sent[n]
    BY SentGrows, RowsGrow
  <2> QED
    BY <2>1, <2>2
<1>2. \A t \in Sockets : handler[t].pc # "idle" => handler[t].n \in 1..Len(sent)
  BY DEF Places, Handled
<1>3. \A m \in messages : m.n \in 1..Len(sent)
  <2>1. Len(sent) \in Nat
    BY SentGrows
  <2> QED
    BY <2>1 DEF Places, TypeOK, Message
<1> QED
  BY <1>1, <1>2, <1>3 DEF Event

Numbers == MessageNumbers /\ MessageSeqsDistinct

\* A step in which no handler takes a number and no row is added, sessions may go or come.
LEMMA NumbersStay ==
    ASSUME TypeOK, Places, Numbers, Next, \A t \in Sockets : Stays(t),
           messages' \subseteq messages,
           \A sid \in Live' : sid \in 1..created => sid \in Live /\ sessions'[sid] = sessions[sid]
    PROVE  Numbers'
<1>1. \A t \in Sockets : Numbered(t)' => /\ Numbered(t) /\ Event(t)' = Event(t)
                                         /\ handler'[t].msgSeq = handler[t].msgSeq
                                         /\ Event(t).sid \in 1..created
  BY EventsStay DEF Stays, Numbered
<1>2. \A t \in Sockets : Storing(t)' => Storing(t) /\ Numbered(t)'
  BY DEF Stays, Storing, Numbered
<1>3. \A m \in messages' : /\ m \in messages /\ sent'[m.n] = sent[m.n]
                           /\ sent[m.n].sid \in Live' /\ sent[m.n].sid \in 1..created
  <2>1. Places'
    BY PlacesKept
  <2>2. \A m \in messages : sent'[m.n] = sent[m.n] /\ sent[m.n].sid \in 1..created
    BY EventsStay DEF Places
  <2> QED
    BY <2>1, <2>2 DEF Places
<1>4. \A s \in Sockets : Numbered(s)' /\ Event(s)'.sid \in Live' =>
          handler'[s].msgSeq <= sessions'[Event(s)'.sid].seq
  BY <1>1 DEF Numbers, MessageNumbers
<1>5. \A s \in Sockets, m \in messages' :
          Storing(s)' /\ sent'[m.n].sid = Event(s)'.sid => m.seq # handler'[s].msgSeq
  BY <1>1, <1>2, <1>3 DEF Numbers, MessageNumbers
<1>6. \A s, t \in Sockets :
          Storing(s)' /\ Storing(t)' /\ Event(s)'.sid = Event(t)'.sid
            /\ handler'[s].msgSeq = handler'[t].msgSeq => s = t
  BY <1>1, <1>2 DEF Numbers, MessageNumbers
<1>7. MessageSeqsDistinct'
  BY <1>3 DEF Numbers, MessageSeqsDistinct
<1> QED
  BY <1>4, <1>5, <1>6, <1>7 DEF Numbers, MessageNumbers

LEMMA NumbersTaken ==
    ASSUME TypeOK, Places, Numbers, Next, NEW s \in Sockets, Counts(s)
    PROVE  Numbers'
<1> DEFINE sid == Event(s).sid
           next == sessions[sid].seq + 1
<1>1. /\ sid \in Live /\ messages' = messages /\ Live' = Live
      /\ handler[s].pc = "sessionSeq"
      /\ \A m \in messages : m.seq \in Nat
      /\ \A id \in Live : sessions[id].seq \in Nat
      /\ \A t \in Sockets : handler[t].msgSeq \in Nat
  <2>1. \A t \in Sockets : handler[t] \in Handler
    BY DEF TypeOK
  <2>2. \A t \in Sockets : handler[t].msgSeq \in Nat
    BY <2>1 DEF Handler
  <2> QED
    BY <2>2, Takes DEF Counts, AllocateMessageSeq, TypeOK, Message
<1>2. /\ sessions[sid].seq \in Nat /\ handler'[s].n = handler[s].n /\ handler'[s].msgSeq = next
      /\ sessions'[sid].seq = next
      /\ \A id \in Live \ {sid} : sessions'[id] = sessions[id]
  BY Takes
<1>3. Event(s)' = Event(s)
  BY <1>1, <1>2, EventsStay
<1>4. \A t \in Sockets \ {s} : Numbered(t)' => /\ Numbered(t) /\ Event(t)' = Event(t)
                                               /\ handler'[t].msgSeq = handler[t].msgSeq
  BY NumberedSteps, EventsStay DEF Stays, Numbered
<1>5. \A t \in Sockets \ {s} : Storing(t)' => Storing(t) /\ Numbered(t)'
  BY NumberedSteps DEF Stays, Storing, Numbered
<1>6. \A m \in messages : /\ sent'[m.n] = sent[m.n] /\ sent[m.n].sid \in Live
                          /\ m.seq <= sessions[sent[m.n].sid].seq
  BY EventsStay DEF Places, Numbers, MessageSeqsDistinct
<1>7. \A t \in Sockets : Numbered(t) /\ Event(t).sid \in Live =>
          handler[t].msgSeq <= sessions[Event(t).sid].seq
  BY DEF Numbers, MessageNumbers
<1>8. \A t \in Sockets : Storing(t) => Numbered(t)
  BY DEF Storing, Numbered
<1> HIDE DEF sid, Live
<1>9. \A id \in Live : sessions'[id].seq \in Nat /\ sessions[id].seq <= sessions'[id].seq
  BY <1>1, <1>2 
<1>10. \A t \in Sockets : Numbered(t)' /\ Event(t)'.sid \in Live' =>
          handler'[t].msgSeq <= sessions'[Event(t)'.sid].seq
  <2>1. ASSUME NEW t \in Sockets \ {s}, Numbered(t)', Event(t)'.sid \in Live'
        PROVE  handler'[t].msgSeq <= sessions'[Event(t)'.sid].seq
    <3>1. /\ handler'[t].msgSeq = handler[t].msgSeq /\ Event(t)' = Event(t) /\ Event(t).sid \in Live
          /\ handler[t].msgSeq <= sessions[Event(t).sid].seq
      BY <1>1, <1>4, <1>7, <2>1
    <3> QED
      BY <1>1, <1>9, <3>1
  <2>2. handler'[s].msgSeq <= sessions'[Event(s)'.sid].seq
    BY <1>2, <1>3 DEF sid
  <2> QED
    BY <2>1, <2>2
<1>11. \A t \in Sockets, m \in messages' :
          Storing(t)' /\ sent'[m.n].sid = Event(t)'.sid => m.seq # handler'[t].msgSeq
  <2>1. ASSUME NEW t \in Sockets \ {s}, NEW m \in messages, Storing(t)',
               sent'[m.n].sid = Event(t)'.sid
        PROVE  m.seq # handler'[t].msgSeq
    BY <1>4, <1>5, <1>6, <2>1 DEF Numbers, MessageNumbers
  <2>2. ASSUME NEW m \in messages, sent'[m.n].sid = Event(s)'.sid
        PROVE  m.seq # handler'[s].msgSeq
    <3>1. m.seq <= sessions[sid].seq
      BY <1>3, <1>6, <2>2 DEF sid
    <3> QED
      BY <1>1, <1>2, <3>1
  <2> QED
    BY <1>1, <2>1, <2>2
<1>12. \A t, u \in Sockets :
          Storing(t)' /\ Storing(u)' /\ Event(t)'.sid = Event(u)'.sid
            /\ handler'[t].msgSeq = handler'[u].msgSeq => t = u
  <2>1. ASSUME NEW t \in Sockets \ {s}, Storing(t)', Event(t)'.sid = Event(s)'.sid
        PROVE  handler'[t].msgSeq # handler'[s].msgSeq
    <3>1. /\ handler'[t].msgSeq = handler[t].msgSeq /\ Event(t).sid = sid
          /\ handler[t].msgSeq <= sessions[sid].seq
      BY <1>1, <1>3, <1>4, <1>5, <1>7, <1>8, <2>1 DEF sid
    <3> QED
      BY <1>1, <1>2, <3>1
  <2>2. ASSUME NEW t \in Sockets \ {s}, NEW u \in Sockets \ {s}, Storing(t)', Storing(u)',
               Event(t)'.sid = Event(u)'.sid, handler'[t].msgSeq = handler'[u].msgSeq
        PROVE  t = u
    BY <1>4, <1>5, <2>2 DEF Numbers, MessageNumbers
  <2> QED
    BY <2>1, <2>2
<1>13. MessageSeqsDistinct'
  <2>1. \A m \in messages : m.seq <= sessions'[sent[m.n].sid].seq
    BY <1>1, <1>6, <1>9
  <2> QED
    BY <1>1, <1>6, <2>1 DEF Numbers, MessageSeqsDistinct
<1> QED
  BY <1>10, <1>11, <1>12, <1>13 DEF Numbers, MessageNumbers

LEMMA NumbersStored ==
    ASSUME TypeOK, Places, Numbers, Next, NEW s \in Sockets, Stores(s)
    PROVE  Numbers'
<1> DEFINE row == NewMessage(s)
<1>1. /\ messages' = messages \cup {row} /\ UNCHANGED sessions /\ Storing(s) /\ Numbered(s)
      /\ sent[row.n] = Event(s) /\ row.seq = handler[s].msgSeq /\ Event(s).sid \in Live
  BY DEF Stores, Storing, Numbered, MayInsert, Event, NewMessage
<1>2. \A t \in Sockets : Numbered(t)' => /\ Numbered(t) /\ Event(t)' = Event(t)
                                         /\ handler'[t].msgSeq = handler[t].msgSeq
  <2>1. ASSUME NEW t \in Sockets PROVE ~Counts(t)
    BY Takes DEF Stores
  <2>2. \A t \in Sockets : Stays(t)
    BY <2>1, NumberedSteps
  <2> QED
    BY <2>2, EventsStay DEF Stays, Numbered
<1>3. \A t \in Sockets : Storing(t)' => Storing(t) /\ Numbered(t)' /\ t # s
  <2>1. ASSUME NEW t \in Sockets PROVE ~Counts(t)
    BY Takes DEF Stores
  <2>2. (\A t \in Sockets : Stays(t)) /\ ~Storing(s)'
    BY <2>1, NumberedSteps
  <2> QED
    BY <2>2 DEF Stays, Storing, Numbered
<1>4. \A m \in messages' : sent'[m.n] = sent[m.n]
  <2>1. sent'[row.n] = sent[row.n]
    BY <1>1, HandledEvents, SentGrows DEF Stores, NewMessage
  <2> QED
    BY <1>1, <2>1, EventsStay
<1>5. /\ \A t \in Sockets : Numbered(t) /\ Event(t).sid \in Live =>
            handler[t].msgSeq <= sessions[Event(t).sid].seq
      /\ \A t \in Sockets, m \in messages :
            Storing(t) /\ sent[m.n].sid = Event(t).sid => m.seq # handler[t].msgSeq
      /\ \A t, u \in Sockets :
            Storing(t) /\ Storing(u) /\ Event(t).sid = Event(u).sid
              /\ handler[t].msgSeq = handler[u].msgSeq => t = u
  BY DEF Numbers, MessageNumbers
<1> HIDE DEF row
<1>6. \A t \in Sockets : Numbered(t)' /\ Event(t)'.sid \in Live' =>
          handler'[t].msgSeq <= sessions'[Event(t)'.sid].seq
  BY <1>1, <1>2, <1>5
<1>7. \A t \in Sockets, m \in messages' :
          Storing(t)' /\ sent'[m.n].sid = Event(t)'.sid => m.seq # handler'[t].msgSeq
  BY <1>1, <1>2, <1>3, <1>4, <1>5
<1>8. \A t, u \in Sockets :
          Storing(t)' /\ Storing(u)' /\ Event(t)'.sid = Event(u)'.sid
            /\ handler'[t].msgSeq = handler'[u].msgSeq => t = u
  BY <1>2, <1>3, <1>5
<1>9. \A m, k \in messages' :
        /\ sent[m.n].sid = sent[k.n].sid /\ m.seq = k.seq => m = k
        /\ m.seq <= sessions[sent[m.n].sid].seq
  BY <1>1, <1>5 DEF Numbers, MessageSeqsDistinct
<1>10. MessageSeqsDistinct'
  BY <1>1, <1>4, <1>9 DEF MessageSeqsDistinct
<1> QED
  BY <1>6, <1>7, <1>8, <1>10 DEF Numbers, MessageNumbers

LEMMA NumbersKept ==
    ASSUME TypeOK, Places, Numbers, Next
    PROVE  Numbers'
<1>1. CASE Keeps
  <2>1. \A s \in Sockets : ~Counts(s)
    <3>1. ASSUME NEW s \in Sockets, Counts(s) PROVE sessions' # sessions
      BY <3>1, Takes
    <3> QED
      BY <1>1, <3>1 DEF Keeps
  <2>2. \A t \in Sockets : Stays(t)
    BY <2>1, NumberedSteps
  <2> QED
    BY <1>1, <2>2, NumbersStay DEF Keeps
<1>2. ASSUME NEW r \in Creators, Adds(r) PROVE Numbers'
  <2>1. UNCHANGED handler
    BY <1>2 DEF Adds, InsertSession, CreateFails
  <2>2. created \in 0..MaxSessions
    BY DEF TypeOK
  <2>3. /\ Live' = Live \cup {created + 1} /\ UNCHANGED messages
        /\ \A sid \in Live : sessions'[sid] = sessions[sid]
    BY <1>2, <2>2, AddsRow DEF Adds
  <2>4. created + 1 \notin 1..created
    BY <2>2, SessionSyncAssumption
  <2> HIDE DEF Live
  <2>5. \A sid \in Live' : sid \in 1..created => sid \in Live /\ sessions'[sid] = sessions[sid]
    BY <2>3, <2>4
  <2> QED
    BY <2>1, <2>3, <2>5, OthersStay, NumbersStay
<1>3. ASSUME NEW r \in Deleters, Removes(r) PROVE Numbers'
  <2>1. UNCHANGED handler
    BY <1>3 DEF Removes, DeleteSession, DeleteFails
  <2>2. /\ messages' \subseteq messages /\ Live' \subseteq Live
        /\ \A sid \in Live' : sessions'[sid] = sessions[sid]
    BY <1>3 DEF Removes, RemoveSession
  <2> QED
    BY <2>1, <2>2, OthersStay, NumbersStay
<1> QED
  BY <1>1, <1>2, <1>3, NumbersTaken, NumbersStored, RowSteps
-----------------------------------------------------------------------------
(* The order of what one socket sends.                                     *)

\* The events of a socket that are still to be announced come after the announced ones,
\* and get higher numbers.
Past(i) ==
    LET n == log[i].n  s == sent[n].from IN
    /\ n \in 1..Len(sent) /\ log[i].sid = sent[n].sid
    /\ \A j \in 1..Len(inbox[s]) : n < inbox[s][j]
    /\ handler[s].pc # "idle" => n < handler[s].n
    /\ log[i].sid \in Live => log[i].msgSeq <= sessions[log[i].sid].seq
    /\ Numbered(s) /\ Event(s).sid = log[i].sid => log[i].msgSeq < handler[s].msgSeq

Order == (\A i \in MessageUpdates : Past(i)) /\ SenderOrder

LEMMA CountersGrow ==
    ASSUME TypeOK, Places, Next
    PROVE  \A sid \in 1..created : sid \in Live' =>
              /\ sid \in Live /\ sessions[sid].seq \in Nat /\ sessions'[sid].seq \in Nat
              /\ sessions[sid].seq <= sessions'[sid].seq
<1>1. \A sid \in 1..created : sid \in Live' => sid \in Live
  BY RowsGrow
<1>2. \A sid \in Live : sessions[sid].seq \in Nat
  BY DEF TypeOK
<1>3. CASE Keeps \/ \E s \in Sockets : Stores(s)
  BY <1>1, <1>2, <1>3 DEF Keeps, Stores
<1>4. ASSUME NEW s \in Sockets, Counts(s)
      PROVE  \A sid \in Live : sessions'[sid].seq \in Nat /\ sessions[sid].seq <= sessions'[sid].seq
  <2>1. /\ sessions[Event(s).sid].seq \in Nat
        /\ sessions'[Event(s).sid].seq = sessions[Event(s).sid].seq + 1
        /\ \A sid \in Live \ {Event(s).sid} : sessions'[sid] = sessions[sid]
    BY <1>4, Takes
  <2> HIDE DEF Live
  <2>2. ASSUME NEW sid \in Live
        PROVE  sessions'[sid].seq \in Nat /\ sessions[sid].seq <= sessions'[sid].seq
    <3>1. CASE sid = Event(s).sid
      BY <2>1, <3>1
    <3>2. CASE sid # Event(s).sid
      BY <1>2, <2>1, <3>2
    <3> QED
      BY <3>1, <3>2
  <2> QED
    BY <2>2
<1>5. ASSUME NEW r \in Creators, Adds(r) PROVE \A sid \in Live : sessions'[sid] = sessions[sid]
  <2>1. created \in 0..MaxSessions
    BY DEF TypeOK
  <2> QED
    BY <1>5, <2>1, AddsRow DEF Adds
<1>6. ASSUME NEW r \in Deleters, Removes(r) PROVE \A sid \in Live' : sessions'[sid] = sessions[sid]
  BY <1>6 DEF Removes, RemoveSession
<1> HIDE DEF Live
<1>7. CASE \/ \E r \in Creators : Adds(r)
           \/ \E r \in Deleters : Removes(r)
  <2>1. \A sid \in 1..created : sid \in Live' => sid \in Live /\ sessions'[sid] = sessions[sid]
    BY <1>1, <1>5, <1>6, <1>7
  <2> QED
    BY <1>2, <2>1
<1> QED
  BY <1>1, <1>2, <1>3, <1>4, <1>7, RowSteps

\* An event that is in its socket's past stays there.
LEMMA QueuesPast ==
    ASSUME TypeOK, Places, Next, NEW s \in Sockets, NEW n \in 1..Len(sent),
           \A j \in 1..Len(inbox[s]) : n < inbox[s][j],
           handler[s].pc # "idle" => n < handler[s].n
    PROVE  /\ \A j \in 1..Len(inbox'[s]) : n < inbox'[s][j]
           /\ handler'[s].pc # "idle" => n < handler'[s].n
<1>1. Handlers /\ inbox \in [Sockets -> Seq(Events)] /\ inbox[s] \in Seq(Events)
  BY DEF TypeOK, Handlers
<1>2. CASE inbox'[s] = inbox[s] /\ handler'[s] = handler[s]
  BY <1>2
<1>3. ASSUME NEW t \in Sockets, NEW sid \in Sids, NEW id \in LocalIds \cup {NoLocalId},
             Send(t, sid, id)
      PROVE  /\ \A j \in 1..Len(inbox'[s]) : n < inbox'[s][j]
             /\ handler'[s] = handler[s]
  <2>1. CASE t # s
    BY <1>2, <1>3, <2>1, Sends DEF Send
  <2>2. CASE t = s
    <3>1. /\ Len(sent) \in Nat /\ Len(sent') = Len(sent) + 1
          /\ Len(inbox[s]) \in Nat /\ Len(inbox'[s]) = Len(inbox[s]) + 1
          /\ inbox'[s][Len(inbox[s]) + 1] = Len(sent')
          /\ \A i \in 1..Len(inbox[s]) : inbox'[s][i] = inbox[s][i]
      BY <1>3, <2>2, Sends
    <3>2. ASSUME NEW j \in 1..Len(inbox'[s]) PROVE n < inbox'[s][j]
      <4>1. CASE j = Len(inbox[s]) + 1
        BY <3>1, <4>1
      <4>2. CASE j \in 1..Len(inbox[s])
        BY <3>1, <4>2
      <4> QED
        BY <3>1, <4>1, <4>2
    <3> QED
      BY <1>3, <3>2 DEF Send
  <2> QED
    BY <2>1, <2>2
<1>4. CASE ResolveSession(s)
  <2>1. /\ Turn(s) = inbox[s][1]
        /\ \/ handler'[s].pc = "idle"
           \/ handler'[s].pc = "userSeq" /\ handler'[s].n = Turn(s)
    BY <1>1, <1>4, Resolves
  <2>2. inbox[s] # <<>> /\ inbox'[s] = Tail(inbox[s])
    BY <1>1, <1>4 DEF ResolveSession
  <2>3. /\ Len(inbox[s]) \in Nat /\ Len(inbox[s]) >= 1 /\ Len(inbox'[s]) = Len(inbox[s]) - 1
        /\ \A i \in 1..Len(inbox'[s]) : inbox'[s][i] = inbox[s][i + 1]
    BY <1>1, <2>2, QueueHead, LenProperties
  <2> QED
    BY <2>1, <2>3
<1>5. CASE GoesOn(s)
  BY <1>5 DEF GoesOn
<1>6. CASE Ends
  <2>1. inbox'[s] = <<>> /\ handler'[s].pc = "idle"
    BY <1>6 DEF Ends, Idle
  <2>2. Len(inbox'[s]) = 0
    BY <2>1
  <2> QED
    BY <2>1, <2>2
<1>7. ASSUME NEW t \in Sockets \ {s}, ResolveSession(t) \/ GoesOn(t)
      PROVE  inbox'[s] = inbox[s] /\ handler'[s] = handler[s]
  BY <1>1, <1>7, Resolves DEF ResolveSession, GoesOn, Moved
<1> QED
  BY <1>2, <1>3, <1>4, <1>5, <1>6, <1>7, QueueSteps

LEMMA PastStays ==
    ASSUME TypeOK, Places, LogFits, Next, NEW i \in DOMAIN log, Past(i), log'[i] = log[i]
    PROVE  Past(i)'
<1>0. PICK n, sid, s : n = log[i].n /\ sid = log[i].sid /\ s = sent[log[i].n].from
  OBVIOUS
<1>1. n \in 1..Len(sent) /\ sid = sent[n].sid /\ log[i].msgSeq \in Nat /\ sid \in 1..created
  <2>1. log[i] \in Update /\ created \in Nat
    BY RowsGrow DEF TypeOK
  <2> QED
    BY <1>0, <2>1 DEF Past, Update, LogFits
<1>2. s \in Sockets /\ sent'[n] = sent[n] /\ n \in 1..Len(sent')
  BY <1>0, <1>1, SentTypes, SentGrows DEF Sent
<1>3. /\ \A j \in 1..Len(inbox[s]) : n < inbox[s][j]
      /\ handler[s].pc # "idle" => n < handler[s].n
      /\ sid \in Live => log[i].msgSeq <= sessions[sid].seq
      /\ Numbered(s) /\ Event(s).sid = sid => log[i].msgSeq < handler[s].msgSeq
  BY <1>0 DEF Past
<1> HIDE DEF Live
<1>4. /\ \A j \in 1..Len(inbox'[s]) : n < inbox'[s][j]
      /\ handler'[s].pc # "idle" => n < handler'[s].n
  BY <1>1, <1>2, <1>3, QueuesPast
<1>5. sid \in Live' => log[i].msgSeq <= sessions'[sid].seq
  <2>1. ASSUME sid \in Live'
        PROVE  /\ sid \in Live /\ sessions[sid].seq \in Nat /\ sessions'[sid].seq \in Nat
               /\ sessions[sid].seq <= sessions'[sid].seq
    BY <1>1, <2>1, CountersGrow
  <2> QED
    BY <1>1, <1>3, <2>1
<1>6. Numbered(s)' /\ Event(s)'.sid = sid => log[i].msgSeq < handler'[s].msgSeq
  <2>1. CASE Stays(s)
    <3>1. ASSUME Numbered(s)'
          PROVE  Numbered(s) /\ Event(s)' = Event(s) /\ handler'[s].msgSeq = handler[s].msgSeq
      <4>1. /\ Numbered(s) /\ handler'[s].n = handler[s].n
            /\ handler'[s].msgSeq = handler[s].msgSeq
        BY <2>1, <3>1 DEF Stays
      <4>2. handler[s].pc # "idle"
        BY <4>1 DEF Numbered
      <4> QED
        BY <1>2, <4>1, <4>2, EventsStay
    <3> QED
      BY <1>3, <3>1
  <2>2. CASE Counts(s)
    <3>1. /\ sessions[Event(s).sid].seq \in Nat /\ handler'[s].n = handler[s].n
          /\ handler'[s].msgSeq = sessions[Event(s).sid].seq + 1
      BY <1>2, <2>2, Takes
    <3>2. Event(s).sid \in Live /\ handler[s].pc # "idle"
      BY <2>2 DEF Counts, AllocateMessageSeq
    <3>3. Event(s)' = Event(s)
      BY <1>2, <3>1, <3>2, EventsStay
    <3> QED
      BY <1>1, <1>3, <3>1, <3>2, <3>3
  <2> QED
    BY <1>2, <2>1, <2>2, NumberedSteps
<1> QED
  BY <1>0, <1>1, <1>2, <1>4, <1>5, <1>6 DEF Past, Numbered, Event

\* A handler that announces its event has all that was announced for its socket in the
\* past, and the event is in the past then.
LEMMA PastAnnounced ==
    ASSUME TypeOK, Places, Numbers, NEW s \in Sockets, AnnounceMessage(s),
           NEW i, log'[i] = MessageUpdate(s)
    PROVE  Past(i)' /\ sent[log'[i].n].from = s
<1>1. /\ handler'[s].pc = "idle" /\ handler[s].pc = "emit"
      /\ UNCHANGED <<sent, inbox, sessions>>
  BY Returns DEF AnnounceMessage, Idle, TypeOK, Handlers
<1>2. /\ handler[s].n \in 1..Len(sent) /\ sent[handler[s].n].from = s
      /\ \A j \in 1..Len(inbox[s]) : handler[s].n < inbox[s][j]
  BY <1>1 DEF Places, Handled, Queues
<1>3. log'[i].n = handler[s].n /\ log'[i].sid = Event(s).sid /\ log'[i].msgSeq = handler[s].msgSeq
  BY DEF MessageUpdate
<1>4. Event(s).sid \in Live => handler[s].msgSeq <= sessions[Event(s).sid].seq
  BY <1>1 DEF Numbers, MessageNumbers, Numbered
<1> QED
  BY <1>1, <1>2, <1>3, <1>4 DEF Past, Event, Numbered

LEMMA OrderKept ==
    ASSUME TypeOK, Places, Lifecycle, Numbers, Order, Next
    PROVE  Order'
<1>1. ASSUME NEW i \in MessageUpdates'
      PROVE  \/ i \in MessageUpdates /\ log'[i] = log[i]
             \/ /\ i = Len(log) + 1 /\ Len(log) \in Nat /\ DOMAIN log = 1..Len(log)
                /\ \E s \in Sockets : AnnounceMessage(s) /\ log'[i] = MessageUpdate(s)
  <2>1. i \in DOMAIN log' /\ log'[i].type = "new-message"
    BY DEF MessageUpdates
  <2>2. \A r : SessionUpdate(r).type # "new-message" /\ DeleteUpdate(r).type # "new-message"
    BY DEF SessionUpdate, DeleteUpdate
  <2> QED
    BY <2>1, <2>2, LogEntries DEF MessageUpdates, Lifecycle
<1>2. ASSUME NEW i \in MessageUpdates' PROVE Past(i)'
  <2>1. ASSUME i \in MessageUpdates, log'[i] = log[i] PROVE Past(i)'
    BY <2>1, PastStays DEF MessageUpdates, Order, Lifecycle
  <2> QED
    BY <1>1, <2>1, PastAnnounced
<1>3. \A i \in MessageUpdates : log[i].n \in 1..Len(sent) /\ sent'[log[i].n] = sent[log[i].n]
  BY SentGrows DEF Order, Past
<1>4. ASSUME NEW i \in MessageUpdates', NEW j \in MessageUpdates', i < j,
             sent'[log'[i].n].from = sent'[log'[j].n].from,
             sent'[log'[i].n].sid = sent'[log'[j].n].sid
      PROVE  log'[i].n < log'[j].n /\ log'[i].msgSeq < log'[j].msgSeq
  <2>1. i \in MessageUpdates /\ log'[i] = log[i]
    <3>1. DOMAIN log = 1..Len(log) => j \in 1..(Len(log) + 1)
      BY <1>1 DEF MessageUpdates
    <3> QED
      BY <1>1, <1>4, <3>1
  <2>2. CASE j \in MessageUpdates /\ log'[j] = log[j]
    BY <1>3, <1>4, <2>1, <2>2 DEF Order, SenderOrder
  <2>3. ASSUME NEW s \in Sockets, AnnounceMessage(s), log'[j] = MessageUpdate(s)
        PROVE  log'[i].n < log'[j].n /\ log'[i].msgSeq < log'[j].msgSeq
    <3>0. log'[j].n = handler[s].n /\ log'[j].msgSeq = handler[s].msgSeq
      BY <2>3 DEF MessageUpdate
    <3>1. UNCHANGED sent /\ handler[s].pc = "emit"
      BY <2>3 DEF AnnounceMessage
    <3>2. sent[handler[s].n].from = s
      BY <3>1 DEF Places, Handled
    <3>3. sent[log[i].n].from = s /\ sent[log[i].n].sid = Event(s).sid
      BY <1>4, <2>1, <3>0, <3>1, <3>2 DEF Event
    <3>4. Past(i) /\ Numbered(s)
      BY <2>1, <3>1 DEF Order, Numbered
    <3> QED
      BY <2>1, <3>0, <3>1, <3>3, <3>4 DEF Past
  <2> QED
    BY <1>1, <2>2, <2>3
<1> QED
  BY <1>2, <1>4 DEF Order, SenderOrder
-----------------------------------------------------------------------------
(* A message is announced once.                                            *)

StoredAt(n) == sent[n].sid \in Live => \E m \in messages : m.n = n
Emitting(s) == handler[s].pc = "emit"

\* What is announced, or about to be, is stored unless its session is gone, and carries a
\* message that nobody else announces, or has.
Once ==
    /\ \A s \in Sockets : Emitting(s) =>
          /\ StoredAt(handler[s].n)
          /\ \A t \in Sockets : Emitting(t) /\ SameMessage(handler[s].n, handler[t].n) => s = t
          /\ \A i \in MessageUpdates : ~SameMessage(log[i].n, handler[s].n)
    /\ \A i \in MessageUpdates : StoredAt(log[i].n)
    /\ AnnouncedOnce

LEMMA StoredStays ==
    ASSUME TypeOK, Places, Next, NEW n \in 1..Len(sent), StoredAt(n)
    PROVE  StoredAt(n)'
<1>1. sent'[n] = sent[n] /\ sent[n].sid \in 1..created
  <2>1. sent[n].sid \in Sids /\ sent[n].sid <= created /\ created \in Nat
    BY SentTypes, RowsGrow DEF Places
  <2> QED
    BY <2>1, SentGrows
<1>2. SUFFICES ASSUME sent[n].sid \in Live' PROVE \E m \in messages' : m.n = n
  BY <1>1 DEF StoredAt
<1>3. PICK m \in messages : m.n = n
  BY <1>1, <1>2, RowsGrow DEF StoredAt
<1>4. CASE Keeps \/ \E s \in Sockets : Counts(s) \/ Stores(s)
  BY <1>3, <1>4 DEF Keeps, Counts, Stores
<1>5. CASE \E r \in Creators : Adds(r)
  BY <1>3, <1>5 DEF Adds
<1>6. ASSUME NEW r \in Deleters, Removes(r) PROVE m \in messages'
  BY <1>2, <1>3, <1>6 DEF Removes, RemoveSession
<1> QED
  BY <1>3, <1>4, <1>5, <1>6, RowSteps

EmitsAsBefore(t) == Emitting(t)' => Emitting(t) /\ handler'[t].n = handler[t].n

LEMMA EmittingSteps ==
    ASSUME TypeOK, Next
    PROVE  \/ \A t \in Sockets : EmitsAsBefore(t)
           \/ \E s \in Sockets :
                 /\ Stores(s) /\ UNCHANGED <<log, sent>>
                 /\ handler'[s].n = handler[s].n
                 /\ \A t \in Sockets \ {s} : EmitsAsBefore(t)
<1>1. Handlers /\ userSeq \in Nat /\ inbox \in [Sockets -> Seq(Events)]
  BY DEF TypeOK, Handlers
<1>2. \A sid \in Live : sessions[sid].seq \in Nat
  BY DEF TypeOK
<1>3. ASSUME NEW s \in Sockets, Moved(s), handler'[s].pc # "emit"
      PROVE  \A t \in Sockets : EmitsAsBefore(t)
  BY <1>3 DEF Moved, EmitsAsBefore, Emitting
<1>4. ASSUME NEW s \in Sockets, HandlerStep(s) \/ MessageFails(s), ~CreateMessage(s)
      PROVE  \A t \in Sockets : EmitsAsBefore(t)
  <2>1. handler[s] \in Handler
    BY <1>1 DEF Handlers
  <2>2. Moved(s) /\ handler'[s].pc # "emit"
    <3>1. CASE ResolveSession(s)
      BY <1>1, <3>1, Resolves
    <3>2. CASE AllocateUpdateSeq(s)
      BY <1>1, <2>1, <3>2, AllocatesUpdate DEF Handler
    <3>3. CASE AllocateMessageSeq(s)
      BY <1>1, <1>2, <2>1, <3>3, AllocatesMessage DEF Handler
    <3>4. CASE FindExisting(s)
      BY <1>1, <1>4, <2>1, <3>4, Advances DEF Handler
    <3>5. CASE AnnounceMessage(s) \/ MessageFails(s)
      BY <1>1, <3>5, Returns DEF AnnounceMessage, MessageFails, Idle
    <3> QED
      BY <1>4, <3>1, <3>2, <3>3, <3>4, <3>5 DEF HandlerStep
  <2> QED
    BY <1>3, <2>2
<1>5. ASSUME NEW s \in Sockets, CreateMessage(s)
      PROVE  \/ \A t \in Sockets : EmitsAsBefore(t)
             \/ /\ Stores(s) /\ UNCHANGED <<log, sent>>
                /\ handler'[s].n = handler[s].n
                /\ \A t \in Sockets \ {s} : EmitsAsBefore(t)
  <2>1. /\ Moved(s)
        /\ \/ handler'[s].pc # "emit"
           \/ MayInsert(handler[s].n) /\ handler'[s].n = handler[s].n
    BY <1>1, <1>5, Advances DEF FindExisting, CreateMessage, Handlers, Handler
  <2>2. CASE MayInsert(handler[s].n) /\ handler'[s].n = handler[s].n
    <3>1. Stores(s) /\ UNCHANGED <<log, sent>>
      BY <1>5, <2>2 DEF CreateMessage, Stores
    <3> QED
      BY <2>1, <2>2, <3>1 DEF Moved, EmitsAsBefore, Emitting
  <2> QED
    BY <1>3, <2>1, <2>2
<1>6. ASSUME UNCHANGED handler PROVE \A t \in Sockets : EmitsAsBefore(t)
  BY <1>6 DEF EmitsAsBefore, Emitting
<1>7. ASSUME NEW s \in Sockets, ClientStep(s) PROVE UNCHANGED handler
  BY <1>7 DEF ClientStep, Handshake, Connect, Disconnect, FetchMessages, Send
<1>8. ASSUME NEW r \in Creators, CreatorStep(r) \/ CreateFails(r) PROVE UNCHANGED handler
  BY <1>8 DEF CreatorStep, FindByTag, AllocateCreateSeq, InsertSession, AnnounceSession, CreateFails
<1>9. ASSUME NEW r \in Deleters, DeleteSession(r) \/ NotifyStep(r) \/ DeleteFails(r)
      PROVE  UNCHANGED handler
  BY <1>9 DEF DeleteSession, NotifyStep, AllocateDeleteSeq, AnnounceDelete, DeleteFails
<1>10. ASSUME NEW cause, Exit(cause) PROVE \A t \in Sockets : EmitsAsBefore(t)
  BY <1>10, Exits DEF EmitsAsBefore, Emitting, Idle
<1> QED
  BY <1>4, <1>5, <1>6, <1>7, <1>8, <1>9, <1>10 DEF Next, Fault, Crash, NotificationFails

\* The events that are announced or about to be are of the history.
LEMMA OnceEvents ==
    ASSUME TypeOK, Places, Order, Next
    PROVE  /\ \A s \in Sockets : Emitting(s) =>
                 handler[s].n \in 1..Len(sent) /\ sent'[handler[s].n] = sent[handler[s].n]
           /\ \A i \in MessageUpdates :
                 log[i].n \in 1..Len(sent) /\ sent'[log[i].n] = sent[log[i].n]
<1>1. \A n \in 1..Len(sent) : sent'[n] = sent[n]
  BY SentGrows
<1> QED
  BY <1>1 DEF Places, Handled, Emitting, Order, Past

\* No step but an announcement makes a difference to an event with a stored message.
LEMMA OnceStays ==
    ASSUME TypeOK, Places, Order, Once, Next, \A t \in Sockets : EmitsAsBefore(t),
           MessageUpdates' = MessageUpdates, \A i \in MessageUpdates : log'[i] = log[i]
    PROVE  Once'
<1>1. /\ \A s \in Sockets : Emitting(s) =>
            handler[s].n \in 1..Len(sent) /\ sent'[handler[s].n] = sent[handler[s].n]
      /\ \A i \in MessageUpdates :
            log[i].n \in 1..Len(sent) /\ sent'[log[i].n] = sent[log[i].n]
  BY OnceEvents
<1>2. ASSUME NEW n \in 1..Len(sent), StoredAt(n)
      PROVE  sent'[n].sid \in Live' => \E m \in messages' : m.n = n
  BY <1>2, StoredStays DEF StoredAt
<1>3. \A s \in Sockets : Emitting(s)' =>
          /\ sent'[handler'[s].n].sid \in Live' => \E m \in messages' : m.n = handler'[s].n
          /\ \A t \in Sockets : Emitting(t)' /\ SameMessage(handler[s].n, handler[t].n) => s = t
          /\ \A i \in MessageUpdates : ~SameMessage(log[i].n, handler[s].n)
          /\ sent'[handler'[s].n] = sent[handler[s].n] /\ handler'[s].n = handler[s].n
  BY <1>1, <1>2 DEF EmitsAsBefore, Once
<1>4. \A i \in MessageUpdates : sent'[log[i].n].sid \in Live' => \E m \in messages' : m.n = log[i].n
  BY <1>1, <1>2 DEF Once
<1>5. AnnouncedOnce'
  BY <1>1 DEF Once, AnnouncedOnce, SameMessage
<1>6. \A s \in Sockets : Emitting(s)' =>
          /\ StoredAt(handler[s].n)'
          /\ \A t \in Sockets : Emitting(t)' /\ SameMessage(handler[s].n, handler[t].n)' => s = t
          /\ \A i \in MessageUpdates' : ~SameMessage(log[i].n, handler[s].n)'
  BY <1>1, <1>3 DEF StoredAt, SameMessage
<1> QED
  BY <1>1, <1>4, <1>5, <1>6 DEF Once, StoredAt

LEMMA OnceStored ==
    ASSUME TypeOK, Places, Order, Once, Next, NEW s \in Sockets,
           Stores(s), UNCHANGED <<log, sent>>, handler'[s].n = handler[s].n,
           \A t \in Sockets \ {s} : EmitsAsBefore(t)
    PROVE  Once'
<1>0. PICK n : n = handler[s].n
  OBVIOUS
<1>1. /\ \A t \in Sockets : Emitting(t) => handler[t].n \in 1..Len(sent)
      /\ \A i \in MessageUpdates : log[i].n \in 1..Len(sent)
      /\ MessageUpdates' = MessageUpdates
  BY OnceEvents DEF MessageUpdates
<1>2. sent[n].sid \in Live /\ ~Exists(n) /\ \E m \in messages' : m.n = n
  <2>1. MayInsert(n) /\ NewMessage(s) \in messages' /\ NewMessage(s).n = n
    BY <1>0 DEF Stores, NewMessage
  <2> QED
    BY <2>1 DEF MayInsert
<1>3. ASSUME NEW k \in 1..Len(sent), StoredAt(k)
      PROVE  /\ sent[k].sid \in Live' => \E m \in messages' : m.n = k
             /\ ~SameMessage(k, n) /\ ~SameMessage(n, k)
  <2>1. ~SameMessage(k, n) /\ ~SameMessage(n, k)
    BY <1>2, <1>3 DEF StoredAt, Exists, SameMessage
  <2> QED
    BY <1>3, <2>1, StoredStays DEF StoredAt
<1>4. \A t \in Sockets \ {s} : Emitting(t)' =>
          /\ Emitting(t) /\ handler'[t].n = handler[t].n /\ handler[t].n \in 1..Len(sent)
          /\ StoredAt(handler[t].n)
  BY <1>1 DEF EmitsAsBefore, Once
<1>5. \A t, u \in Sockets : Emitting(t)' /\ Emitting(u)' /\ SameMessage(handler'[t].n, handler'[u].n)
          => t = u
  BY <1>0, <1>3, <1>4 DEF Once
<1>6. \A t \in Sockets : Emitting(t)' =>
          /\ sent[handler'[t].n].sid \in Live' => \E m \in messages' : m.n = handler'[t].n
          /\ \A i \in MessageUpdates : ~SameMessage(log[i].n, handler'[t].n)
  BY <1>0, <1>1, <1>2, <1>3, <1>4 DEF Once
<1>7. \A i \in MessageUpdates : sent[log[i].n].sid \in Live' => \E m \in messages' : m.n = log[i].n
  BY <1>1, <1>3 DEF Once
<1>8. AnnouncedOnce'
  BY <1>1 DEF Once, AnnouncedOnce, SameMessage
<1> QED
  BY <1>1, <1>5, <1>6, <1>7, <1>8 DEF Once, StoredAt, SameMessage

LEMMA OnceAnnounced ==
    ASSUME TypeOK, Places, Lifecycle, Order, Once, Next, NEW s \in Sockets, AnnounceMessage(s)
    PROVE  Once'
<1>0. PICK n : n = handler[s].n
  OBVIOUS
<1>1. /\ UNCHANGED <<sent, messages, sessions>> /\ Emitting(s)
      /\ \A t \in Sockets : Emitting(t)' => t # s /\ Emitting(t) /\ handler'[t].n = handler[t].n
  <2>1. Moved(s) /\ handler'[s].pc = "idle"
    BY Returns DEF AnnounceMessage, Idle, TypeOK, Handlers
  <2>2. UNCHANGED <<sent, messages, sessions>> /\ Emitting(s)
    BY DEF AnnounceMessage, Emitting
  <2> QED
    BY <2>1, <2>2 DEF Moved, Emitting
<1>2. ASSUME NEW i \in MessageUpdates'
      PROVE  \/ i \in MessageUpdates /\ log'[i] = log[i]
             \/ i = Len(log) + 1 /\ log'[i].n = n
  <2>1. Appends(MessageUpdate(s))
    <3>1. \A r \in Sockets : AnnounceMessage(r) => r = s
      BY Returns, <1>1 DEF AnnounceMessage, Idle, TypeOK, Handlers, Emitting, Moved
    <3>2. ~UNCHANGED log /\ UNCHANGED requests
      <4>1. log' = Append(log, MessageUpdate(s)) /\ UNCHANGED requests
        BY DEF AnnounceMessage, MessageUpdate
      <4>2. log \in Seq(Update)
        BY DEF TypeOK
      <4>3. Len(log') = Len(log) + 1 /\ Len(log) \in Nat
        BY <4>1, <4>2, LenProperties
      <4> QED
        BY <4>1, <4>3
    <3>3. \A r \in Creators : ~AnnounceSession(r)
      BY <3>2 DEF AnnounceSession, TypeOK, Creator
    <3>4. \A r \in Deleters : ~AnnounceDelete(r)
      BY <3>2 DEF AnnounceDelete, TypeOK, Deleter
    <3> QED
      BY <3>1, <3>2, <3>3, <3>4, LogSteps DEF Lifecycle
  <2>2. i \in DOMAIN log' /\ log'[i].type = "new-message"
    BY DEF MessageUpdates
  <2>3. MessageUpdate(s).n = n
    BY <1>0 DEF MessageUpdate
  <2> QED
    BY <2>1, <2>2, <2>3 DEF MessageUpdates, Appends
<1>3. /\ StoredAt(n)
      /\ \A t \in Sockets : Emitting(t) /\ SameMessage(n, handler[t].n) => s = t
      /\ \A i \in MessageUpdates : ~SameMessage(log[i].n, n)
  BY <1>0, <1>1 DEF Once
<1>4. \A i \in MessageUpdates : log[i].n # n
  <2>1. sent[n].from = s /\ handler[s].pc # "idle"
    BY <1>0, <1>1 DEF Emitting, Places, Handled
  <2>2. \A i \in MessageUpdates : sent[log[i].n].from = s => log[i].n < n /\ log[i].n \in Nat
    BY <1>0, <2>1 DEF Order, Past
  <2>3. n \in Nat
    BY <1>0, <2>1 DEF Places, Handled
  <2> QED
    BY <2>1, <2>2, <2>3
<1>5. \A a, b : SameMessage(a, b) => SameMessage(b, a)
  BY DEF SameMessage
<1>6. \A i \in MessageUpdates' : StoredAt(log'[i].n)
  BY <1>2, <1>3 DEF Once
<1>7. \A t \in Sockets : Emitting(t)' =>
          /\ StoredAt(handler'[t].n)
          /\ \A u \in Sockets : Emitting(u)' /\ SameMessage(handler'[t].n, handler'[u].n) => t = u
          /\ \A i \in MessageUpdates' : ~SameMessage(log'[i].n, handler'[t].n)
  BY <1>1, <1>2, <1>3 DEF Once
<1>8. \A i, j \in MessageUpdates' :
          log'[i].n = log'[j].n \/ SameMessage(log'[i].n, log'[j].n) => i = j
  BY <1>2, <1>3, <1>4, <1>5 DEF Once, AnnouncedOnce
<1>9. AnnouncedOnce'
  BY <1>1, <1>8 DEF AnnouncedOnce, SameMessage
<1> QED
  BY <1>1, <1>6, <1>7, <1>9 DEF Once, StoredAt, SameMessage

LEMMA OnceKept ==
    ASSUME TypeOK, Places, Lifecycle, Order, Once, Next
    PROVE  Once'
<1>1. ASSUME NEW r, Appends(SessionUpdate(r)) \/ Appends(DeleteUpdate(r))
      PROVE  MessageUpdates' = MessageUpdates /\ \A i \in MessageUpdates : log'[i] = log[i]
  BY <1>1 DEF Appends, SessionUpdate, DeleteUpdate, MessageUpdates
<1>2. CASE UNCHANGED log
  BY <1>2, OnceStays, OnceStored, EmittingSteps DEF MessageUpdates
<1>3. ASSUME NEW r \in Creators, AnnounceSession(r), Appends(SessionUpdate(r))
      PROVE  Once'
  <2>1. \A t \in Sockets : EmitsAsBefore(t)
    BY <1>3 DEF AnnounceSession, EmitsAsBefore, Emitting
  <2> QED
    BY <1>1, <1>3, <2>1, OnceStays
<1>4. ASSUME NEW r \in Deleters, AnnounceDelete(r), Appends(DeleteUpdate(r))
      PROVE  Once'
  <2>1. \A t \in Sockets : EmitsAsBefore(t)
    BY <1>4 DEF AnnounceDelete, EmitsAsBefore, Emitting
  <2> QED
    BY <1>1, <1>4, <2>1, OnceStays
<1> QED
  BY <1>2, <1>3, <1>4, OnceAnnounced, LogSteps DEF Lifecycle
-----------------------------------------------------------------------------
(* What a connected client knows.                                          *)

\* What a client fetches counts once its connection is registered.
Fetched == \A s \in Sockets : conn[s].state \in {"new", "verifying"} => synced[s] = {}

\* The client of s is to know message m.
Due(s, m) == /\ conn[s].state = "open"
             /\ Interested(s, sent[m.n].sid)
             /\ \E fetch \in synced[s] : fetch.of = sent[m.n].sid /\ m.at > fetch.older

\* It knows it, or need not.
Known(s, m) == \/ m.n \in view[s] \/ sent[m.n].from = s \/ m.n \in lost
               \/ \E h \in Sockets : handler[h].pc = "emit" /\ handler[h].n = m.n

LEMMA MissedParts ==
    NoMissedMessage <=> \A s \in Sockets, m \in messages : Due(s, m) => Known(s, m)
BY DEF NoMissedMessage, Due, Known

EmitsOn(h) == Emitting(h) => Emitting(h)' /\ handler'[h].n = handler[h].n

LEMMA MissedPartsNext ==
    ASSUME \A s \in Sockets : \A m \in messages' : Due(s, m)' => Known(s, m)'
    PROVE  NoMissedMessage'
BY DEF NoMissedMessage, Due, Known

\* A step that shows clients no less, stores nothing and ends no announcement.
LEMMA KnownStays ==
    ASSUME TypeOK, Places, Next, NoMissedMessage, UNCHANGED <<conn, synced>>,
           \A s \in Sockets : view[s] \subseteq view'[s], lost \subseteq lost',
           messages' \subseteq messages, \A h \in Sockets : EmitsOn(h)
    PROVE  NoMissedMessage'
<1>1. ASSUME NEW s \in Sockets, NEW m \in messages', Due(s, m)'
      PROVE  Known(s, m)'
  <2>1. m \in messages /\ sent'[m.n] = sent[m.n]
    BY <1>1, EventsStay
  <2>2. Due(s, m)
    BY <1>1, <2>1 DEF Due, Interested
  <2>3. Known(s, m)
    BY <2>1, <2>2, MissedParts
  <2> QED
    BY <2>1, <2>3 DEF Known, EmitsOn, Emitting
<1> QED
  BY <1>1, MissedPartsNext

LEMMA EmitsOnHandler ==
    ASSUME TypeOK, NEW s \in Sockets, HandlerStep(s) \/ MessageFails(s), ~AnnounceMessage(s)
    PROVE  \A h \in Sockets : EmitsOn(h)
<1>1. handler[s].pc # "emit"
  BY DEF HandlerStep, ResolveSession, AllocateUpdateSeq, AllocateMessageSeq, FindExisting,
         CreateMessage, MessageFails
<1>2. Moved(s)
  <2>1. CASE ResolveSession(s)
    BY <2>1, Resolves DEF TypeOK, Handlers
  <2>2. CASE ~ResolveSession(s)
    BY <2>2, HandlerGoesOn DEF GoesOn
  <2> QED
    BY <2>1, <2>2
<1> QED
  BY <1>1, <1>2 DEF Moved, EmitsOn, Emitting

LEMMA KnownByClient ==
    ASSUME TypeOK, Places, Fetched, NoMissedMessage, Next, NEW c \in Sockets, ClientStep(c)
    PROVE  NoMissedMessage'
<1>1. \A h \in Sockets : EmitsOn(h)
  BY DEF ClientStep, Handshake, Connect, Disconnect, FetchMessages, Send, EmitsOn, Emitting
<1>2. \A m \in messages : sent'[m.n] = sent[m.n]
  BY EventsStay
<1>3. ASSUME NEW sid \in Sids, NEW id \in LocalIds \cup {NoLocalId}, Send(c, sid, id)
      PROVE  NoMissedMessage'
  BY <1>1, <1>3, KnownStays DEF Send
<1>4. CASE Handshake(c) \/ Connect(c) \/ Disconnect(c)
  <2>1. UNCHANGED <<messages, sent, view, synced, lost, handler>>
    BY <1>4 DEF Handshake, Connect, Disconnect
  <2>2. /\ \A s \in Sockets \ {c} : conn'[s] = conn[s]
        /\ synced[c] = {} \/ conn'[c].state = "closed"
    BY <1>4 DEF Handshake, Connect, Disconnect, Fetched, TypeOK, Connection
  <2>3. ASSUME NEW s \in Sockets, NEW m \in messages', Due(s, m)'
        PROVE  Known(s, m)'
    <3>1. s # c
      BY <2>1, <2>2, <2>3 DEF Due
    <3>2. Due(s, m)
      BY <2>1, <2>2, <2>3, <3>1 DEF Due, Interested
    <3>3. Known(s, m)
      BY <2>1, <3>2, MissedParts
    <3> QED
      BY <2>1, <3>3 DEF Known
  <2> QED
    BY <2>3, MissedPartsNext
<1>5. ASSUME NEW sid \in Sids, FetchMessages(c, sid) PROVE NoMissedMessage'
  <2>1. UNCHANGED <<messages, sent, conn, lost, handler>>
    BY <1>5 DEF FetchMessages
  <2>2. /\ \A s \in Sockets \ {c} : view'[s] = view[s] /\ synced'[s] = synced[s]
        /\ view[c] \subseteq view'[c]
        /\ \A m \in Page(sid) : m.n \in view'[c]
    BY <1>5 DEF FetchMessages, TypeOK
  <2>3. \A fetch \in synced'[c] : \/ fetch \in synced[c]
                                  \/ fetch.of = sid /\ fetch.older = Older(sid)
    BY <1>5 DEF FetchMessages, TypeOK
  <2>4. ASSUME NEW s \in Sockets, NEW m \in messages', Due(s, m)'
        PROVE  Known(s, m)'
    <3>1. CASE Due(s, m)
      <4>1. Known(s, m)
        BY <2>1, <3>1, MissedParts
      <4> QED
        BY <2>1, <2>2, <4>1 DEF Known
    <3>2. CASE ~Due(s, m)
      <4>1. s = c /\ sent[m.n].sid = sid /\ m.at > Older(sid)
        BY <2>1, <2>2, <2>3, <2>4, <3>2 DEF Due, Interested
      <4>2. m \in Page(sid)
        BY <2>1, <4>1 DEF Page, Stored
      <4> QED
        BY <2>2, <4>1, <4>2 DEF Known
    <3> QED
      BY <3>1, <3>2
  <2> QED
    BY <2>4, MissedPartsNext
<1> QED
  BY <1>3, <1>4, <1>5 DEF ClientStep

LEMMA KnownByHandler ==
    ASSUME TypeOK, Places, NoMissedMessage, Next,
           NEW c \in Sockets, HandlerStep(c) \/ MessageFails(c)
    PROVE  NoMissedMessage'
<1>1. CASE AnnounceMessage(c)
  <2>1. PICK n : n = handler[c].n
    OBVIOUS
  <2>2. /\ UNCHANGED <<messages, sent, conn, synced, lost>>
        /\ handler[c].pc = "emit"
        /\ \A s \in Sockets : /\ view[s] \subseteq view'[s]
                              /\ s \in Recipients(c, sent[n].sid) => n \in view'[s]
    BY <1>1, <2>1 DEF AnnounceMessage, Event
  <2>3. sent[n].from = c
    BY <2>1, <2>2 DEF Places, Handled
  <2>4. \A h \in Sockets \ {c} : handler'[h] = handler[h]
    BY <1>1, Returns DEF AnnounceMessage, Moved, TypeOK, Handlers
  <2>5. ASSUME NEW s \in Sockets, NEW m \in messages', Due(s, m)'
        PROVE  Known(s, m)'
    <3>1. Due(s, m) /\ m \in messages
      BY <2>2, <2>5 DEF Due, Interested
    <3>2. CASE m.n = n
      BY <2>2, <2>3, <3>1, <3>2 DEF Recipients, Due, Known
    <3>3. CASE m.n # n
      <4>1. Known(s, m)
        BY <3>1, MissedParts
      <4> QED
        BY <2>1, <2>2, <2>4, <3>3, <4>1 DEF Known
    <3> QED
      BY <3>2, <3>3
  <2> QED
    BY <2>5, MissedPartsNext
<1>2. CASE ~AnnounceMessage(c)
  <2>1. /\ UNCHANGED <<sent, conn, synced, view>> /\ lost \subseteq lost'
        /\ \A h \in Sockets : EmitsOn(h)
    BY <1>2, EmitsOnHandler DEF HandlerStep, ResolveSession, AllocateUpdateSeq, AllocateMessageSeq,
           FindExisting, CreateMessage, MessageFails
  <2>2. CASE messages' \subseteq messages
    BY <2>1, <2>2, KnownStays
  <2>3. ASSUME NEW row, messages' = messages \cup {row},
               row.n \in lost' \/ (handler'[c].pc = "emit" /\ handler'[c].n = row.n)
        PROVE  NoMissedMessage'
    <3>1. ASSUME NEW s \in Sockets, NEW m \in messages', Due(s, m)'
          PROVE  Known(s, m)'
      <4>1. CASE m = row
        BY <2>3, <4>1 DEF Known
      <4>2. CASE m \in messages
        <5>1. Due(s, m)
          BY <2>1, <3>1 DEF Due, Interested
        <5>2. Known(s, m)
          BY <4>2, <5>1, MissedParts
        <5> QED
          BY <2>1, <5>2 DEF Known, EmitsOn, Emitting
      <4> QED
        BY <2>3, <4>1, <4>2
    <3> QED
      BY <3>1, MissedPartsNext
  <2>4. \/ messages' \subseteq messages
        \/ /\ messages' = messages \cup {NewMessage(c)} /\ NewMessage(c).n = handler[c].n
           /\ \/ handler[c].n \in lost'
              \/ handler'[c].pc = "emit" /\ handler'[c].n = handler[c].n
    <3>1. CASE MessageFails(c)
      BY <3>1 DEF MessageFails, NewMessage
    <3>2. CASE CreateMessage(c)
      <4>1. MayInsert(handler[c].n) => handler' = [handler EXCEPT ![c].pc = "emit"]
        BY <3>2 DEF CreateMessage
      <4>2. MayInsert(handler[c].n) => handler'[c].pc = "emit" /\ handler'[c].n = handler[c].n
        BY <4>1 DEF TypeOK, Handler
      <4> QED
        BY <3>2, <4>2 DEF CreateMessage, NewMessage
    <3>3. CASE ~MessageFails(c) /\ ~CreateMessage(c)
      BY <1>2, <3>3 DEF HandlerStep, ResolveSession, AllocateUpdateSeq, AllocateMessageSeq,
                        FindExisting
    <3> QED
      BY <3>1, <3>2, <3>3
  <2> QED
    BY <2>2, <2>3, <2>4
<1> QED
  BY <1>1, <1>2

LEMMA KnownKept ==
    ASSUME TypeOK, Places, Fetched, NoMissedMessage, Next
    PROVE  Fetched' /\ NoMissedMessage'
<1>1. Fetched'
  <2>1. ASSUME NEW s \in Sockets, conn'[s].state \in {"new", "verifying"}
        PROVE  conn[s].state \in {"new", "verifying"} /\ synced'[s] = synced[s]
    <3>1. conn[s] \in Connection
      BY DEF TypeOK
    <3>2. CASE UNCHANGED <<conn, synced>>
      BY <2>1, <3>2
    <3>3. ASSUME NEW c \in Sockets, Handshake(c) \/ Connect(c) \/ Disconnect(c)
          PROVE  conn'[s] = conn[s] \/ conn[s].state = "new"
      <4>1. CASE s # c
        BY <3>3, <4>1 DEF Handshake, Connect, Disconnect, TypeOK
      <4>2. CASE s = c
        <5>1. CASE Handshake(c)
          BY <4>2, <5>1 DEF Handshake
        <5>2. CASE Connect(c) \/ Disconnect(c)
          <6>1. conn'[s].state \in {"open", "closed"}
            BY <3>1, <4>2, <5>2 DEF Connect, Disconnect, TypeOK, Connection
          <6> QED
            BY <2>1, <6>1
        <5> QED
          BY <3>3, <5>1, <5>2
      <4> QED
        BY <4>1, <4>2
    <3>4. ASSUME NEW c \in Sockets, NEW sid \in Sids, FetchMessages(c, sid)
          PROVE  conn' = conn /\ synced'[s] = synced[s]
      <4>1. /\ conn' = conn
            /\ UNCHANGED synced \/ (conn[c].state = "open" /\ \E set : synced' = [synced EXCEPT ![c] = set])
        BY <3>4 DEF FetchMessages
      <4> QED
        BY <2>1, <4>1 DEF TypeOK
    <3>5. ASSUME NEW cause, Exit(cause) PROVE conn[s].state = "new" /\ UNCHANGED synced
      BY <2>1, <3>1, <3>5 DEF Exit, Connection
    <3>6. \/ UNCHANGED <<conn, synced>>
          \/ \E c \in Sockets : /\ Handshake(c) \/ Connect(c) \/ Disconnect(c)
                                /\ UNCHANGED synced
          \/ \E c \in Sockets, sid \in Sids : FetchMessages(c, sid)
          \/ \E cause : Exit(cause)
      BY DEF Next, ClientStep, HandlerStep, CreatorStep, NotifyStep, Fault, Send, ResolveSession,
          AllocateUpdateSeq, AllocateMessageSeq, FindExisting, CreateMessage, AnnounceMessage,
          MessageFails, FindByTag, AllocateCreateSeq, InsertSession, AnnounceSession,
          CreateFails, DeleteSession, AllocateDeleteSeq, AnnounceDelete, DeleteFails, Crash,
          NotificationFails, Handshake, Connect, Disconnect
    <3> QED
      BY <2>1, <3>2, <3>3, <3>4, <3>5, <3>6
  <2> QED
    BY <2>1 DEF Fetched
<1>2. ASSUME UNCHANGED <<conn, synced, view, lost, handler>>, messages' \subseteq messages
      PROVE  NoMissedMessage'
  <2>1. \A h \in Sockets : EmitsOn(h)
    BY <1>2 DEF EmitsOn, Emitting
  <2> QED
    BY <1>2, <2>1, KnownStays
<1>3. ASSUME NEW r \in Creators, CreatorStep(r) \/ CreateFails(r) PROVE NoMissedMessage'
  BY <1>2, <1>3 DEF CreatorStep, FindByTag, AllocateCreateSeq, InsertSession, AnnounceSession,
                    CreateFails
<1>4. ASSUME NEW r \in Deleters, DeleteSession(r) \/ NotifyStep(r) \/ DeleteFails(r)
      PROVE  NoMissedMessage'
  <2>1. UNCHANGED <<conn, synced, view, lost, handler>>
    BY <1>4 DEF DeleteSession, NotifyStep, AllocateDeleteSeq, AnnounceDelete, DeleteFails
  <2>2. messages' \subseteq messages
    BY <1>4 DEF DeleteSession, NotifyStep, AllocateDeleteSeq, AnnounceDelete, DeleteFails,
                RemoveSession
  <2> QED
    BY <1>2, <2>1, <2>2
<1>5. ASSUME NEW cause, Exit(cause) PROVE NoMissedMessage'
  BY <1>5, Exits DEF NoMissedMessage
<1> QED
  BY <1>1, <1>3, <1>4, <1>5, KnownByClient, KnownByHandler
  DEF Next, Fault, Crash, NotificationFails
-----------------------------------------------------------------------------
(* The inductive invariant and the theorems.                               *)

IInv == /\ TypeOK /\ Places /\ Lifecycle /\ OneSessionPerTag
        /\ UpdateNumbers /\ UpdateSeqsDistinct
        /\ Numbers /\ Order /\ Once
        /\ Fetched /\ NoMissedMessage

LEMMA InitTypes == ASSUME Init PROVE TypeOK
<1>1. /\ Len(InitialTags) \in Nat /\ Len(InitialTags) <= MaxSessions
      /\ \A i \in 1..Len(InitialTags) : InitialTags[i] \in Tags
      /\ {MaxSessions, MaxSends, MaxFailures, MaxExits} \subseteq Nat
  BY SessionSyncAssumption, LenProperties, ElementOfSeq
<1>2. /\ userSeq \in Nat /\ created \in 0..MaxSessions /\ Live \subseteq Sids
      /\ \A sid \in Live : sessions[sid] \in [tag : Tags, seq : Nat]
  BY <1>1 DEF Init
<1>3. NewConnection \in Connection /\ Idle \in Handler
  BY <1>1 DEF NewConnection, Connection, ConnectionTypes, Idle, Handler
<1>4. creator \in [Creators -> Creator]
  <2>1. \A r \in Creators : creator[r] \in Creator
    BY <1>1 DEF Init, Creator
  <2> QED
    BY <2>1 DEF Init
<1>5. deleter \in [Deleters -> Deleter]
  <2>1. \A r \in Deleters : deleter[r] \in Deleter
    BY DEF Init, Deleter
  <2> QED
    BY <2>1 DEF Init
<1>6. sent = <<>> /\ Len(sent) <= MaxSends
  BY <1>1 DEF Init
<1>7. /\ conn \in [Sockets -> Connection] /\ handler \in [Sockets -> Handler]
      /\ inbox \in [Sockets -> Seq(Events)] /\ log \in Seq(Update)
      /\ view \in [Sockets -> SUBSET Events] /\ synced \in [Sockets -> SUBSET Fetch]
  BY <1>3 DEF Init
<1>8. failures \in 0..MaxFailures /\ exits \in 0..MaxExits
  BY <1>1 DEF Init
<1>9. messages = {} /\ IsFiniteSet(messages) /\ lost = {} /\ killedBy = "nothing"
  BY FS_EmptySet DEF Init
<1> QED
  BY <1>2, <1>4, <1>5, <1>6, <1>7, <1>8, <1>9 DEF TypeOK

LEMMA InitHolds == ASSUME Init PROVE IInv
<1>1. TypeOK
  BY InitTypes
<1>2. /\ Len(sent) = 0 /\ DOMAIN log = {} /\ MessageUpdates = {} /\ messages = {}
      /\ \A s \in Sockets : handler[s].pc = "idle" /\ Len(inbox[s]) = 0 /\ synced[s] = {}
  BY DEF Init, Idle, MessageUpdates
<1>3. (\A r \in Creators : creator[r].pc = "new") /\ (\A r \in Deleters : deleter[r].pc = "new")
  BY DEF Init
<1>4. Live = 1..created /\ \A sid \in Live : sessions[sid].tag = InitialTags[sid]
  BY DEF Init
<1>5. OneSessionPerTag
  <2>1. created = Len(InitialTags)
    BY DEF Init
  <2> QED
    BY <1>4, <2>1, SessionSyncAssumption DEF OneSessionPerTag
<1>6. Places
  BY <1>2, <1>4 DEF Places, Handled, Queues
<1>7. Lifecycle
  BY <1>2, <1>3 DEF Lifecycle, CreatorsFit, Creating, DeletersFit, Deleting, LogFits,
                    LifecycleAnnouncedOnce
<1>8. UpdateNumbers /\ UpdateSeqsDistinct
  <2>1. \A h \in Holders : ~Holding(h)
    BY <1>2, <1>3, HolderKinds DEF Holding
  <2> QED
    BY <1>2, <2>1 DEF UpdateNumbers, UpdateSeqsDistinct
<1>9. Numbers
  BY <1>2 DEF Numbers, MessageNumbers, MessageSeqsDistinct, Numbered, Storing
<1>10. Order /\ Once
  BY <1>2 DEF Order, SenderOrder, Once, AnnouncedOnce, Emitting
<1>11. Fetched /\ NoMissedMessage
  BY <1>2 DEF Fetched, NoMissedMessage
<1> QED
  BY <1>1, <1>5, <1>6, <1>7, <1>8, <1>9, <1>10, <1>11 DEF IInv

LEMMA IInvKept == ASSUME IInv, [Next]_vars PROVE IInv'
<1>1. CASE Next
  <2>1. TypeOK' /\ Places'
    BY <1>1, TypesKept, PlacesKept DEF IInv, Lifecycle
  <2>2. Lifecycle' /\ OneSessionPerTag'
    BY <1>1, LifecycleKept, OneSessionPerTagKept DEF IInv
  <2>3. UpdateNumbers' /\ UpdateSeqsDistinct'
    BY <1>1, UpdateNumbersKept DEF IInv, Lifecycle
  <2>4. Numbers' /\ Order' /\ Once'
    BY <1>1, NumbersKept, OrderKept, OnceKept DEF IInv
  <2>5. Fetched' /\ NoMissedMessage'
    BY <1>1, KnownKept DEF IInv
  <2> QED
    BY <2>1, <2>2, <2>3, <2>4, <2>5 DEF IInv
<1>2. CASE UNCHANGED vars
  <2>1. TypeOK'
    BY <1>2 DEF IInv, TypeOK, vars
  <2>2. Places' /\ Lifecycle' /\ OneSessionPerTag'
    BY <1>2 DEF IInv, Places, Handled, Queues, Lifecycle, CreatorsFit, Creating, DeletersFit,
                Deleting, LogFits, LifecycleAnnouncedOnce, OneSessionPerTag, vars
  <2>3. UpdateNumbers' /\ UpdateSeqsDistinct'
    BY <1>2 DEF IInv, UpdateNumbers, Holding, Number, UpdateSeqsDistinct, vars
  <2>4. Numbers' /\ Order'
    BY <1>2 DEF IInv, Numbers, MessageNumbers, MessageSeqsDistinct, Numbered, Storing, Event,
                Order, Past, SenderOrder, MessageUpdates, vars
  <2>5. Once'
    BY <1>2 DEF IInv, Once, Emitting, StoredAt, SameMessage, AnnouncedOnce, MessageUpdates, vars
  <2>6. Fetched' /\ NoMissedMessage'
    BY <1>2 DEF IInv, Fetched, NoMissedMessage, Interested, vars
  <2> QED
    BY <2>1, <2>2, <2>3, <2>4, <2>5, <2>6 DEF IInv
<1> QED
  BY <1>1, <1>2

\* The inductive invariant holds of every behaviour.
THEOREM InvariantHolds == Spec => []IInv
BY InitHolds, IInvKept, PTL DEF Spec

\* The variables of the handlers, the router and the database keep their types: no handler
\* announces a session, an event or a number that is not one.
THEOREM TypesAlways == Spec => []TypeOK
<1>1. IInv => TypeOK
  BY DEF IInv
<1> QED
  BY <1>1, InvariantHolds, PTL

\* Two updates of the account never carry the same number (seq.ts:4-11), although each is
\* taken several database calls before its update is emitted.
THEOREM UpdateNumbersDistinct == Spec => []UpdateSeqsDistinct
<1>1. IInv => UpdateSeqsDistinct
  BY DEF IInv
<1> QED
  BY <1>1, InvariantHolds, PTL

\* Two stored messages of a session never share a number, and none is ahead of the
\* session's counter (seq.ts:13-20), however their handlers interleave.
THEOREM MessageNumbersDistinct == Spec => []MessageSeqsDistinct
<1>1. IInv => MessageSeqsDistinct
  BY DEF IInv, Numbers
<1> QED
  BY <1>1, InvariantHolds, PTL

\* A message that is sent again under its localId is announced once
\* (sessionUpdateHandler.ts:213-221 and the unique constraint).
THEOREM MessagesAnnouncedOnce == Spec => []AnnouncedOnce
<1>1. IInv => AnnouncedOnce
  BY DEF IInv, Once
<1> QED
  BY <1>1, InvariantHolds, PTL

\* What one socket sends into a session is announced in the order sent and numbered in that
\* order, which is what the lock of sessionUpdateHandler.ts:185 is for.
THEOREM MessagesInOrder == Spec => []SenderOrder
<1>1. IInv => SenderOrder
  BY DEF IInv, Order
<1> QED
  BY <1>1, InvariantHolds, PTL

\* A connected client that has fetched a session's messages misses none that is stored
\* later, its own and those of a failed handler aside (eventRouter.ts, sessionRoutes.ts).
THEOREM NothingMissed == Spec => []NoMissedMessage
<1>1. IInv => NoMissedMessage
  BY DEF IInv
<1> QED
  BY <1>1, InvariantHolds, PTL

\* However many requests race, a tag has one live session (sessionRoutes.ts:219).
THEOREM TagsUnique == Spec => []OneSessionPerTag
<1>1. IInv => OneSessionPerTag
  BY DEF IInv
<1> QED
  BY <1>1, InvariantHolds, PTL

\* A session is announced at most once when it is created and at most once when it is
\* deleted, whatever fails in between (sessionDelete.ts:21-108).
THEOREM SessionsAnnouncedOnce == Spec => []LifecycleAnnouncedOnce
<1>1. IInv => LifecycleAnnouncedOnce
  BY DEF IInv, Lifecycle
<1> QED
  BY <1>1, InvariantHolds, PTL
=============================================================================
