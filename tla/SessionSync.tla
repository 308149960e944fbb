----------------------------- MODULE SessionSync -----------------------------
(***************************************************************************)
(* One account's sessions: creating, loading and deleting a session over   *)
(* HTTP, sending messages into it over sockets, and the updates that the   *)
(* event router fans out to the account's connections.                     *)
(*                                                                         *)
(* The server is one JavaScript process.  A handler runs alone between two *)
(* awaits, and each await is a database call, so an action is one database *)
(* call together with the code up to the next one.  The `message` handlers *)
(* of one socket run one at a time, in arrival order (AsyncLock, which     *)
(* implements FifoMutex); everything else interleaves, the handlers of a   *)
(* socket that has disconnected included.  A statement of the database is  *)
(* atomic, and so is the transaction of sessionDelete.                     *)
(*                                                                         *)
(* A message event is known by its number n, its place in `sent`.  A       *)
(* socket is one connection: a client that reconnects gets another.        *)
(***************************************************************************)
EXTENDS Integers, Sequences, FiniteSets

CONSTANTS Sockets,      \* connections the account may open
          Creators,     \* POST /v1/sessions requests
          Deleters,     \* DELETE /v1/sessions/:sessionId requests
          Tags,         \* session tags clients use
          LocalIds,     \* localIds clients put on messages
          NoLocalId,    \* a message without a localId
          PageSize,     \* how many messages GET .../messages returns, 150
          InitialTags,  \* the tags of the sessions that exist at the start
          MaxSessions,  \* bound: sessions ever created
          MaxSends,     \* bound: message events
          MaxFailures,  \* bound: failing database calls
          MaxExits      \* bound: exits of the server process

ASSUME SessionSyncAssumption ==
    /\ NoLocalId \notin LocalIds
    /\ PageSize \in Nat \ {0}
    /\ InitialTags \in Seq(Tags)
    /\ \A i, j \in 1..Len(InitialTags) : InitialTags[i] = InitialTags[j] => i = j
    /\ {MaxSessions, MaxSends, MaxFailures, MaxExits} \subseteq Nat
    /\ Len(InitialTags) <= MaxSessions

VARIABLES userSeq,      \* Account.seq
          sessions,     \* live Session rows: id -> [tag, seq]
          created,      \* how many Session rows were ever created
          messages,     \* SessionMessage rows: [n, seq, at], in the order of createdAt
          conn,         \* connection of each socket: [state, type, sid]
          sent,         \* history: the message events, [from, sid, localId]
          inbox,        \* per socket: events whose handler waits for the lock
          handler,      \* per socket: the `message` handler that has the lock
          creator,      \* per POST request: [pc, tag, updSeq, sid]
          deleter,      \* per DELETE request: [pc, sid, updSeq]
          log,          \* history: the updates emitted, in order
          view,         \* per socket: the messages its client has been given
          synced,       \* history, per socket: its first fetches since it was registered
          lost,         \* history: events hit by a failure or a process exit
          failures,     \* failing database calls so far
          exits,        \* exits of the server process so far
          killedBy      \* history: what ended the process last

vars == <<userSeq, sessions, created, messages, conn, sent, inbox, handler, creator,
          deleter, log, view, synced, lost, failures, exits, killedBy>>

Sids == 1..MaxSessions
Live == DOMAIN sessions
Events == 1..MaxSends

ConnectionTypes == {"user-scoped", "session-scoped", "machine-scoped"}

Connection == [state : {"new", "verifying", "open", "closed"}, type : ConnectionTypes,
               sid : 0..MaxSessions]

\* `at` is the message's place in its session by creation time.
Message == [n : Events, seq : Nat, at : Nat]

\* A fetch of a session's messages, and how many older ones it left out.
Fetch == [of : Sids, older : Int]

Handler == [pc : {"idle", "userSeq", "sessionSeq", "dedup", "create", "emit"},
            n : 0..MaxSends, updSeq : Nat, msgSeq : Nat]

Creator == [pc : {"new", "userSeq", "insert", "emit", "done", "error"},
            tag : Tags, updSeq : Nat, sid : 0..MaxSessions]

Deleter == [pc : {"new", "notify", "emit", "done", "error", "failed"},
            sid : Sids, updSeq : Nat]

Update == [type : {"new-session", "new-message", "delete-session"},
           sid : Sids, seq : Nat, n : 0..MaxSends, msgSeq : Nat]

TypeOK ==
    /\ userSeq \in Nat
    /\ Live \subseteq Sids
    /\ \A sid \in Live : sessions[sid] \in [tag : Tags, seq : Nat]
    /\ created \in 0..MaxSessions
    /\ messages \subseteq Message /\ IsFiniteSet(messages)
    /\ conn \in [Sockets -> Connection]
    /\ sent \in Seq([from : Sockets, sid : Sids, localId : LocalIds \cup {NoLocalId}])
    /\ Len(sent) <= MaxSends
    /\ inbox \in [Sockets -> Seq(Events)]
    /\ handler \in [Sockets -> Handler]
    /\ creator \in [Creators -> Creator]
    /\ deleter \in [Deleters -> Deleter]
    /\ log \in Seq(Update)
    /\ view \in [Sockets -> SUBSET Events]
    /\ synced \in [Sockets -> SUBSET Fetch]
    /\ lost \subseteq Events
    /\ failures \in 0..MaxFailures
    /\ exits \in 0..MaxExits
    /\ killedBy \in {"nothing", "crash", "notification"}

Idle == [pc |-> "idle", n |-> 0, updSeq |-> 0, msgSeq |-> 0]

NewConnection == [state |-> "new", type |-> "user-scoped", sid |-> 0]

Init ==
    /\ userSeq = Len(InitialTags)
    /\ sessions = [sid \in 1..Len(InitialTags) |-> [tag |-> InitialTags[sid], seq |-> 0]]
    /\ created = Len(InitialTags)
    /\ messages = {}
    /\ conn = [s \in Sockets |-> NewConnection]
    /\ sent = <<>>
    /\ inbox = [s \in Sockets |-> <<>>]
    /\ handler = [s \in Sockets |-> Idle]
    /\ creator \in [Creators -> [pc : {"new"}, tag : Tags, updSeq : {0}, sid : {0}]]
    /\ deleter \in [Deleters -> [pc : {"new"}, sid : Sids, updSeq : {0}]]
    /\ log = <<>>
    /\ view = [s \in Sockets |-> {}]
    /\ synced = [s \in Sockets |-> {}]
    /\ lost = {}
    /\ failures = 0
    /\ exits = 0
    /\ killedBy = "nothing"

\* Mutant: the number is read and not incremented.
UserSeqRead == userSeq

\* allocateUserSeq increments and returns in one statement.
NextUserSeq == userSeq + 1

\* The messages of a session.
Stored(sid) == {m \in messages : sent[m.n].sid = sid}

\* Mutant: the number is derived from the messages stored so far.
MessageSeqFromCount(sid) == 1 + Cardinality(Stored(sid))

\* allocateSessionSeq increments and returns in one statement.
NextMessageSeq(sid) == sessions[sid].seq + 1

database == <<userSeq, sessions, created, messages>>
clients == <<conn, view, synced>>
requests == <<creator, deleter>>
faults == <<lost, failures, exits, killedBy>>
-----------------------------------------------------------------------------
(* Connections and the event router.                                       *)

\* shouldSendToConnection for 'all-interested-in-session': user-scoped
\* connections, and session-scoped ones of that session.
Interested(s, sid) ==
    \/ conn[s].type = "user-scoped"
    \/ conn[s].type = "session-scoped" /\ conn[s].sid = sid

\* Mutant: session-scoped connections never get another connection's message.
RecipientsUserScopedOnly(sender, sid) ==
    {s \in Sockets : conn[s].state = "open" /\ s # sender /\ conn[s].type = "user-scoped"}

\* emit() of a new-message update: the registered connections that get it, the
\* sender's own connection skipped.
Recipients(sender, sid) ==
    {s \in Sockets : conn[s].state = "open" /\ s # sender /\ Interested(s, sid)}

\* A socket connects, and waits for its token to be verified.  It is in no room yet and
\* nothing listens to its events.
Handshake(s) ==
    /\ conn[s].state = "new"
    /\ \E c \in [state : {"verifying"}, type : ConnectionTypes, sid : 0..created] :
          /\ (c.type = "session-scoped") = (c.sid # 0)
          /\ conn' = [conn EXCEPT ![s] = c]
    /\ UNCHANGED <<database, sent, inbox, handler, requests, log, view, synced, faults>>

\* The token is valid, and the connection is registered.
Connect(s) ==
    /\ conn[s].state = "verifying"
    /\ conn' = [conn EXCEPT ![s].state = "open"]
    /\ UNCHANGED <<database, sent, inbox, handler, requests, log, view, synced, faults>>

\* 'disconnect' removes the connection; handlers of its events run on.  A token that is
\* refused ends the socket, too.
Disconnect(s) ==
    /\ conn[s].state \in {"verifying", "open"}
    /\ conn' = [conn EXCEPT ![s].state = "closed"]
    /\ UNCHANGED <<database, sent, inbox, handler, requests, log, view, synced, faults>>

\* How many messages of a session are too old for a page.
Older(sid) == Cardinality(Stored(sid)) - PageSize

\* The newest messages of a session, which is all that can be fetched.
Page(sid) == {m \in Stored(sid) : m.at > Older(sid)}

\* GET /v1/sessions/:sessionId/messages by the client of a socket.  Only a registered
\* connection will be told of the messages that follow.
FetchMessages(s, sid) ==
    /\ conn[s].state \in {"verifying", "open"}
    /\ sid \in Live
    /\ view' = [view EXCEPT ![s] = @ \cup {m.n : m \in Page(sid)}]
    /\ IF conn[s].state = "open" /\ \A fetch \in synced[s] : fetch.of # sid
       THEN synced' = [synced EXCEPT ![s] = @ \cup {[of |-> sid, older |-> Older(sid)]}]
       ELSE UNCHANGED synced
    /\ UNCHANGED <<database, conn, sent, inbox, handler, requests, log, faults>>

\* Mutant: the lock wakes the call that came last.
QueuedFirst(s, n) == <<n>> \o inbox[s]

\* A handler queues behind the ones that wait for the lock of the socket.
Queued(s, n) == Append(inbox[s], n)

\* A client emits `message` for a session that exists or once did, on a registered
\* connection; its handler queues for the lock of the socket.
Send(s, sid, id) ==
    /\ conn[s].state = "open"
    /\ Len(sent) < MaxSends
    /\ sid <= created
    /\ sent' = Append(sent, [from |-> s, sid |-> sid, localId |-> id])
    /\ inbox' = [inbox EXCEPT ![s] = Queued(s, Len(sent) + 1)]
    /\ UNCHANGED <<database, clients, handler, requests, log, faults>>
-----------------------------------------------------------------------------
(* The `message` handler.                                                  *)

Event(s) == sent[handler[s].n]

\* Two events carry the same message: same session, same localId.
SameMessage(n, k) ==
    /\ sent[n].sid = sent[k].sid
    /\ sent[n].localId = sent[k].localId
    /\ sent[n].localId # NoLocalId

\* A row for the same (sessionId, localId), the key of the unique constraint.
\* A null localId never conflicts.
Exists(n) == \E m \in messages : SameMessage(m.n, n)

\* Mutant: an early return that never releases the lock.
ReturnHoldingLock(s) == handler' = [handler EXCEPT ![s].pc = "held"]

\* The handler of socket s returns and releases the lock.
Return(s) == handler' = [handler EXCEPT ![s] = Idle]

\* The event whose handler gets the lock of socket s.
Turn(s) == Head(inbox[s])

\* The lock is handed to the next handler, which resolves the session.
ResolveSession(s) ==
    /\ handler[s].pc = "idle"
    /\ inbox[s] # <<>>
    /\ inbox' = [inbox EXCEPT ![s] = Tail(@)]
    /\ IF sent[Turn(s)].sid \in Live
       THEN handler' = [handler EXCEPT ![s].pc = "userSeq", ![s].n = Turn(s)]
       ELSE UNCHANGED handler
    /\ UNCHANGED <<database, clients, sent, requests, log, faults>>

\* allocateUserSeq
AllocateUpdateSeq(s) ==
    /\ handler[s].pc = "userSeq"
    /\ userSeq' = NextUserSeq
    /\ handler' = [handler EXCEPT ![s].pc = "sessionSeq", ![s].updSeq = NextUserSeq]
    /\ UNCHANGED <<sessions, created, messages, clients, sent, inbox, requests, log, faults>>

\* allocateSessionSeq; the update of a deleted session throws, and the handler
\* catches it.
AllocateMessageSeq(s) ==
    /\ handler[s].pc = "sessionSeq"
    /\ LET sid == Event(s).sid IN
       IF sid \in Live
       THEN /\ sessions' = [sessions EXCEPT ![sid].seq = NextMessageSeq(sid)]
            /\ handler' = [handler EXCEPT
                             ![s].pc = IF Event(s).localId = NoLocalId THEN "create" ELSE "dedup",
                             ![s].msgSeq = NextMessageSeq(sid)]
       ELSE /\ Return(s)
            /\ UNCHANGED sessions
    /\ UNCHANGED <<userSeq, created, messages, clients, sent, inbox, requests, log, faults>>

\* Look for a message with the same localId; one that exists ends the handler.
FindExisting(s) ==
    /\ handler[s].pc = "dedup"
    /\ IF Exists(handler[s].n)
       THEN Return(s)
       ELSE handler' = [handler EXCEPT ![s].pc = "create"]
    /\ UNCHANGED <<database, clients, sent, inbox, requests, log, faults>>

\* Mutant: no unique constraint, the lookup alone prevents duplicates.
MayInsertTwice(n) == sent[n].sid \in Live

\* The insert fits the foreign key and the unique constraint.
MayInsert(n) == sent[n].sid \in Live /\ ~Exists(n)

\* The row of the handler's message, the newest of its session.
NewMessage(s) == [n |-> handler[s].n, seq |-> handler[s].msgSeq,
                  at |-> Cardinality(Stored(Event(s).sid)) + 1]

\* Insert the message; a violated constraint throws and is caught.
CreateMessage(s) ==
    /\ handler[s].pc = "create"
    /\ IF MayInsert(handler[s].n)
       THEN /\ messages' = messages \cup {NewMessage(s)}
            /\ handler' = [handler EXCEPT ![s].pc = "emit"]
       ELSE /\ Return(s)
            /\ UNCHANGED messages
    /\ UNCHANGED <<userSeq, sessions, created, clients, sent, inbox, requests, log, faults>>

\* Emit the new-message update.
AnnounceMessage(s) ==
    LET h == handler[s] IN
    /\ h.pc = "emit"
    /\ log' = Append(log, [type |-> "new-message", sid |-> Event(s).sid, seq |-> h.updSeq,
                           n |-> h.n, msgSeq |-> h.msgSeq])
    /\ view' = [c \in Sockets |-> IF c \in Recipients(s, Event(s).sid)
                                  THEN view[c] \cup {h.n} ELSE view[c]]
    /\ Return(s)
    /\ UNCHANGED <<database, conn, synced, sent, inbox, requests, faults>>

\* A database call of the handler fails: the error is caught, the message
\* dropped.  The failing call may be an insert that was committed all the same.
\* (A failing lookup of the session has the effect of one that fails next.)
MessageFails(s) ==
    /\ handler[s].pc \in {"userSeq", "sessionSeq", "dedup", "create"}
    /\ failures < MaxFailures
    /\ failures' = failures + 1
    /\ lost' = lost \cup {handler[s].n}
    /\ \/ UNCHANGED messages
       \/ /\ handler[s].pc = "create"
          /\ MayInsert(handler[s].n)
          /\ messages' = messages \cup {NewMessage(s)}
    /\ Return(s)
    /\ UNCHANGED <<userSeq, sessions, created, clients, sent, inbox, requests, log, exits,
                   killedBy>>
-----------------------------------------------------------------------------
(* POST /v1/sessions: create or load a session by tag.                     *)

\* Sessions of the account with this tag.
TagTaken(tag) == \E sid \in Live : sessions[sid].tag = tag

\* Mutant: no unique (accountId, tag), the lookup alone prevents duplicates.
MayCreateTwice(tag) == TRUE

\* The insert fits the unique (accountId, tag).
MayCreate(tag) == ~TagTaken(tag)

\* findFirst by tag: an existing session is the reply.
FindByTag(r) ==
    /\ creator[r].pc = "new"
    /\ IF TagTaken(creator[r].tag)
       THEN \E sid \in Live :
              /\ sessions[sid].tag = creator[r].tag
              /\ creator' = [creator EXCEPT ![r].pc = "done", ![r].sid = sid]
       ELSE creator' = [creator EXCEPT ![r].pc = "userSeq"]
    /\ UNCHANGED <<database, clients, sent, inbox, handler, deleter, log, faults>>

\* Mutant: new-session is announced before the session is created.
AllocateAndAnnounce(r) ==
    /\ creator[r].pc = "userSeq"
    /\ userSeq' = NextUserSeq
    /\ creator' = [creator EXCEPT ![r].pc = "emit", ![r].updSeq = NextUserSeq]
    /\ UNCHANGED <<sessions, created, messages, clients, sent, inbox, handler, deleter, log, faults>>

\* allocateUserSeq for the new-session update.
AllocateCreateSeq(r) ==
    /\ creator[r].pc = "userSeq"
    /\ userSeq' = NextUserSeq
    /\ creator' = [creator EXCEPT ![r].pc = "insert", ![r].updSeq = NextUserSeq]
    /\ UNCHANGED <<sessions, created, messages, clients, sent, inbox, handler, deleter, log, faults>>

AddSession(tag) ==
    /\ created < MaxSessions
    /\ created' = created + 1
    /\ sessions' = [sid \in Live \cup {created + 1} |->
                      IF sid \in Live THEN sessions[sid] ELSE [tag |-> tag, seq |-> 0]]

\* Insert the session; the unique (accountId, tag) fails the request with 500.
InsertSession(r) ==
    /\ creator[r].pc = "insert"
    /\ IF ~MayCreate(creator[r].tag)
       THEN /\ creator' = [creator EXCEPT ![r].pc = "error"]
            /\ UNCHANGED <<sessions, created>>
       ELSE /\ AddSession(creator[r].tag)
            /\ creator' = [creator EXCEPT ![r].pc = "emit", ![r].sid = created + 1]
    /\ UNCHANGED <<userSeq, messages, clients, sent, inbox, handler, deleter, log, faults>>

\* Emit new-session to every connection, and reply.
AnnounceSession(r) ==
    /\ creator[r].pc = "emit"
    /\ log' = Append(log, [type |-> "new-session", sid |-> creator[r].sid,
                           seq |-> creator[r].updSeq, n |-> 0, msgSeq |-> 0])
    /\ creator' = [creator EXCEPT ![r].pc = "done"]
    /\ UNCHANGED <<database, clients, sent, inbox, handler, deleter, faults>>

\* A database call of the request fails: the reply is 500.  The insert may have
\* been committed all the same, and nobody announces that session.
CreateFails(r) ==
    /\ creator[r].pc \in {"new", "userSeq", "insert"}
    /\ failures < MaxFailures
    /\ failures' = failures + 1
    /\ \/ UNCHANGED <<sessions, created>>
       \/ /\ creator[r].pc = "insert"
          /\ MayCreate(creator[r].tag)
          /\ AddSession(creator[r].tag)
    /\ creator' = [creator EXCEPT ![r].pc = "error"]
    /\ UNCHANGED <<userSeq, messages, clients, sent, inbox, handler, deleter, log, lost, exits,
                   killedBy>>
-----------------------------------------------------------------------------
(* DELETE /v1/sessions/:sessionId: sessionDelete inside inTx.              *)

\* Mutant: the existence of the session is not checked inside the transaction.
DeletableTwice(sid) == sid <= created

\* findFirst inside the transaction.
Deletable(sid) == sid \in Live

RemoveSession(sid) ==
    /\ messages' = {m \in messages : sent[m.n].sid # sid}
    /\ sessions' = [i \in Live \ {sid} |-> sessions[i]]

\* The transaction: messages and session go together, or the reply is 404.
DeleteSession(r) ==
    LET sid == deleter[r].sid IN
    /\ deleter[r].pc = "new"
    /\ sid <= created
    /\ IF Deletable(sid)
       THEN /\ RemoveSession(sid)
            /\ deleter' = [deleter EXCEPT ![r].pc = "notify"]
       ELSE /\ deleter' = [deleter EXCEPT ![r].pc = "error"]
            /\ UNCHANGED <<messages, sessions>>
    /\ UNCHANGED <<userSeq, created, clients, sent, inbox, handler, creator, log, faults>>

\* Mutant: the callback stops after its number.
AllocateDeleteSeqOnly(r) ==
    /\ deleter[r].pc = "notify"
    /\ userSeq' = NextUserSeq
    /\ deleter' = [deleter EXCEPT ![r].pc = "done"]
    /\ UNCHANGED <<sessions, created, messages, clients, sent, inbox, handler, creator, log, faults>>

\* The callback registered with afterTx, which nobody awaits: a number for the
\* update,
AllocateDeleteSeq(r) ==
    /\ deleter[r].pc = "notify"
    /\ userSeq' = NextUserSeq
    /\ deleter' = [deleter EXCEPT ![r].pc = "emit", ![r].updSeq = NextUserSeq]
    /\ UNCHANGED <<sessions, created, messages, clients, sent, inbox, handler, creator, log, faults>>

\* then delete-session to every connection.
AnnounceDelete(r) ==
    /\ deleter[r].pc = "emit"
    /\ log' = Append(log, [type |-> "delete-session", sid |-> deleter[r].sid,
                           seq |-> deleter[r].updSeq, n |-> 0, msgSeq |-> 0])
    /\ deleter' = [deleter EXCEPT ![r].pc = "done"]
    /\ UNCHANGED <<database, clients, sent, inbox, handler, creator, faults>>

\* The transaction fails and the reply is 500: it was rolled back, or it was
\* committed and the answer to the commit was lost, with the callbacks not run.
DeleteFails(r) ==
    /\ deleter[r].pc = "new"
    /\ failures < MaxFailures
    /\ failures' = failures + 1
    /\ \/ UNCHANGED <<messages, sessions>>
       \/ Deletable(deleter[r].sid) /\ RemoveSession(deleter[r].sid)
    /\ deleter' = [deleter EXCEPT ![r].pc = "failed"]
    /\ UNCHANGED <<userSeq, created, clients, sent, inbox, handler, creator, log, lost, exits,
                   killedBy>>
-----------------------------------------------------------------------------
(* The end of the process.  Connections, queues and handlers are memory.   *)

InFlight == (UNION {{inbox[s][i] : i \in DOMAIN inbox[s]} : s \in Sockets})
            \cup ({handler[s].n : s \in Sockets} \ {0})

Abort(req) == [r \in DOMAIN req |->
                 IF req[r].pc \in {"new", "done", "failed"} THEN req[r] ELSE [req[r] EXCEPT !.pc = "error"]]

Exit(cause) ==
    /\ exits < MaxExits
    /\ exits' = exits + 1
    /\ killedBy' = cause
    /\ lost' = lost \cup InFlight
    /\ conn' = [s \in Sockets |-> IF conn[s].state \in {"verifying", "open"}
                                  THEN [conn[s] EXCEPT !.state = "closed"] ELSE conn[s]]
    /\ inbox' = [s \in Sockets |-> <<>>]
    /\ handler' = [s \in Sockets |-> Idle]
    /\ creator' = Abort(creator)
    /\ deleter' = Abort(deleter)
    /\ UNCHANGED <<database, sent, log, view, synced>>

\* The process dies, for example in a deployment.
Crash == Exit("crash") /\ UNCHANGED failures

\* allocateUserSeq fails in the notification callback: a rejected promise that
\* nobody handles, and process.on('unhandledRejection') exits.
NotificationFails(r) ==
    /\ deleter[r].pc = "notify"
    /\ failures < MaxFailures
    /\ failures' = failures + 1
    /\ Exit("notification")
-----------------------------------------------------------------------------
HandlerStep(s) ==
    \/ ResolveSession(s) \/ AllocateUpdateSeq(s) \/ AllocateMessageSeq(s)
    \/ FindExisting(s) \/ CreateMessage(s) \/ AnnounceMessage(s)

CreatorStep(r) ==
    \/ FindByTag(r) \/ AllocateCreateSeq(r) \/ InsertSession(r) \/ AnnounceSession(r)

NotifyStep(r) == AllocateDeleteSeq(r) \/ AnnounceDelete(r)

ClientStep(s) ==
    \/ Handshake(s) \/ Connect(s) \/ Disconnect(s)
    \/ \E sid \in Sids : \/ FetchMessages(s, sid)
                         \/ \E id \in LocalIds \cup {NoLocalId} : Send(s, sid, id)

Fault ==
    \/ \E s \in Sockets : MessageFails(s)
    \/ \E r \in Creators : CreateFails(r)
    \/ \E r \in Deleters : DeleteFails(r) \/ NotificationFails(r)
    \/ Crash

Next ==
    \/ \E s \in Sockets : ClientStep(s) \/ HandlerStep(s)
    \/ \E r \in Creators : CreatorStep(r)
    \/ \E r \in Deleters : DeleteSession(r) \/ NotifyStep(r)
    \/ Fault

\* The database answers every call and the event loop runs every continuation.
\* Clients and the arrival of requests are not fair.
Fairness ==
    /\ \A s \in Sockets : WF_vars(HandlerStep(s))
    /\ \A r \in Creators : WF_vars(CreatorStep(r))
    /\ \A r \in Deleters : WF_vars(NotifyStep(r))

Spec == Init /\ [][Next]_vars /\ Fairness
-----------------------------------------------------------------------------
(* Properties                                                              *)

\* The announcements of messages, as places in the log.
MessageUpdates == {i \in DOMAIN log : log[i].type = "new-message"}

\* Two updates of the account never carry the same number, although each number
\* is taken several database calls before its update is emitted, by handlers that
\* interleave, fail and are retried (allocateUserSeq, seq.ts:4-11).
UpdateSeqsDistinct ==
    \A i, j \in DOMAIN log : log[i].seq = log[j].seq => i = j

\* Two stored messages of one session never share a number, whichever sockets
\* they came through, and none is ahead of the session's counter
\* (allocateSessionSeq, seq.ts:13-20, taken before the insert).
MessageSeqsDistinct ==
    \A m, k \in messages :
        /\ sent[m.n].sid = sent[k.n].sid /\ m.seq = k.seq => m = k
        /\ m.seq <= sessions[sent[m.n].sid].seq

\* A message that is sent again under its localId, on the same socket or another,
\* before or after the first one was stored, is announced to the account once
\* (the lookup at sessionUpdateHandler.ts:213-221 and the unique constraint).
AnnouncedOnce ==
    \A i, j \in MessageUpdates :
        log[i].n = log[j].n \/ SameMessage(log[i].n, log[j].n) => i = j

\* What one socket sends into one session is announced in the order sent, with
\* ascending message numbers: what the lock of sessionUpdateHandler.ts:185 is for.
SenderOrder ==
    \A i, j \in MessageUpdates :
        LET n == log[i].n  k == log[j].n IN
        i < j /\ sent[n].from = sent[k].from /\ sent[n].sid = sent[k].sid
            => n < k /\ log[i].msgSeq < log[j].msgSeq

\* A client that has fetched a session's messages since its connection was registered
\* knows every stored message of the session but those too old for the page it got,
\* unless it sent it on this socket, its update is about to be emitted, or its insert
\* was reported as failed (sessionRoutes.ts:331, eventRouter.ts:270).
NoMissedMessage ==
    \A s \in Sockets, m \in messages :
        LET sid == sent[m.n].sid IN
        /\ conn[s].state = "open"
        /\ Interested(s, sid)
        /\ \E fetch \in synced[s] : fetch.of = sid /\ m.at > fetch.older
        =>
            \/ m.n \in view[s]
            \/ sent[m.n].from = s
            \/ m.n \in lost
            \/ \E h \in Sockets : handler[h].pc = "emit" /\ handler[h].n = m.n

\* However many requests race, a tag has one live session (sessionRoutes.ts:219).
OneSessionPerTag ==
    \A i, j \in Live : sessions[i].tag = sessions[j].tag => i = j

\* A session is announced at most once when it is created and at most once when
\* it is deleted, however many requests race (sessionDelete.ts:21-108).
LifecycleAnnouncedOnce ==
    \A i, j \in DOMAIN log :
        /\ log[i].type = log[j].type /\ log[i].type # "new-message"
        /\ log[i].sid = log[j].sid
        => i = j

\* A message event is settled when its message is stored, by this event or by
\* another with its localId, its session is gone, or a failure or an exit of the
\* process hit it.
Settled(n) ==
    \/ \E m \in messages : m.n = n \/ SameMessage(m.n, n)
    \/ sent[n].sid \notin Live
    \/ n \in lost

\* Every message event is settled in the end: no handler that returns early,
\* fails or waits for the lock keeps the ones behind it.
EveryMessageSettles == \A n \in Events : n <= Len(sent) ~> n <= Len(sent) /\ Settled(n)

\* A deletion is announced, unless the process exits or the transaction was
\* reported as failed.
DeletionAnnounced ==
    \A sid \in Sids :
        sid <= created /\ sid \notin Live
            ~> \/ \E i \in DOMAIN log : log[i].type = "delete-session" /\ log[i].sid = sid
               \/ \E r \in Deleters : deleter[r].sid = sid /\ deleter[r].pc = "failed"
               \/ exits > 0

\* "Ignore errors in callbacks because they are used mostly for notifications"
\* (inTx.ts:28): a notification that fails does not end the process.
NotificationErrorsIgnored == killedBy # "notification"
=============================================================================
