# TLA+ specifications of vibe-server

vibe-server synchronises the clients of an account: coding-agent sessions, the
machines they run on, artifacts and settings. It is one Node.js process
(Fastify for HTTP, Socket.IO for sockets) over PostgreSQL. JavaScript runs one
callback at a time, so the server's concurrency is this: **every `await` is a
point where any other handler may run**, on data the first one has read. In
these modules a database call, with the code up to the next `await`, is one
action, and a statement or transaction of the database is atomic.

Paths below are relative to `src/sources/`; the API handlers are under
`app/api/`.

## Inventory

| Part | State | Operations | What is hard | What makes it correct |
|---|---|---|---|---|
| `utils/lock.ts` AsyncLock | permits, queue of resolvers | inLock, lock, unlock | a permit is promised to a call that resumes later, through a timer | mutual exclusion, call order, no lost wakeup |
| `socket/sessionUpdateHandler.ts` `message`; `storage/seq.ts` | Account.seq, Session.seq, SessionMessage rows | store and announce a message | five awaits with other sockets, deletes, resends, failures in between | distinct numbers, sender order, once-only announcement, nothing missed |
| `routes/sessionRoutes.ts`, `app/session/sessionDelete.ts` | Session rows | create or load by tag, delete, read | check-then-insert, a notification nobody awaits | one session per tag, announced once, no orphans |
| `app/events/eventRouter.ts`, `socket.ts` | connections per user | add, remove, emit with a recipient filter | registration after an await | right recipients, no connection left behind |
| `update-metadata`, `update-state`, `machine-update-*`, settings, access keys | a value and its version | compare and set, announce | check-then-update, announcements out of order | no lost update, truthful replicas |
| `app/presence/` | cached activity, pending heartbeats, `active` rows | heartbeat, flush, cleanup, end, time out | write-behind cache, timers against handlers | bounded lag, activity ends, and ends once |
| `socket/rpcHandler.ts` | method -> socket | register, unregister, call | timeouts, disconnects | a call is answered, by a registered socket |
| `socket/artifactUpdateHandler.ts`, `routes/artifactsRoutes.ts` | two versioned parts and a sequence number | create, update, delete | two paths write one row | no lost update |
| `app/cloud/` | endpoints, pending and running sessions | spawn, register, assign, start, end | capacity across awaits, reconnecting runners | capacity kept, a session starts once |
| `app/kv/`, `storage/inTx.ts` | versioned keys | atomic batch | retries of a transaction | all or nothing |
| `app/social/`, `app/feed/` | mirrored relationship rows, feed counter | add, remove, post | two users at once | rows mirror each other |
| `app/github/` | a GitHub user on one account | connect, disconnect | two requests, a check outside the transaction | one account per GitHub user |
| `app/auth/`, `routes/authRoutes.ts` | login requests, token cache | request, approve, poll | an approval racing another one or a poll | one approval, one token |
| `utils/shutdown.ts`, `forever.ts`, `backoff.ts` | handlers, keep-alives | register, await, abort | loops that must end, handlers that fail | shutdown ends and waits for what it must |
| `routes/promptRoutes.ts` | a listener per request | wait for an answer | an uncorrelated listener, a timeout | an answer to its own question |
| `utils/lru.ts` | a linked list and a map | add, has, ... | pointer updates | a bounded set of recent elements |

How they interact: HTTP routes and socket handlers call the database through
`db` or `inTx`, take update numbers from `storage/seq.ts`, and hand updates to
`eventRouter`, which sends them to the connections `socket.ts` registered for
the account. `message` and `usage-report` run under an AsyncLock per socket.
Heartbeats go through `activityCache`; the timeout loop is started by `main.ts`
with `forever`. There is no shared memory but module-level maps and the database.

## Modules

| Module | Models | Composes |
|---|---|---|
| `FifoMutex` | what `inLock` promises: one at a time, in call order | |
| `AsyncLock` | `utils/lock.ts` | refines `FifoMutex` |
| `AsyncLockProofs` | theorems about it | `AsyncLock` |
| `SessionSync` | messages, session life cycle, fan-out, process exits | the lock as FifoMutex's line, the router's recipient filter, the database |
| `SessionSyncProofs` | theorems about it | `SessionSync` |
| `CasRegister` | what the clients of a versioned field rely on: compare-and-set in one step | |
| `VersionedField` | the six compare-and-set handlers, and clients that follow them | refines `CasRegister` |
| `VersionedFieldProofs` | theorems about it | `VersionedField` |
| `Presence` | heartbeats, activity cache, timers, timeout loop | |
| `PresenceProofs` | theorems about it | `Presence` |
| `Connections` | sockets from handshake to disconnect, daemon status, RPC relay | the router's set and `socket.ts` and `rpcHandler.ts` over the same sockets |
| `ConnectionsProofs` | theorems about it | `Connections` |
| `CloudSessions` | manager and registry, sandboxes, runners, agents, and the sockets between them | `cloud/` with the runner's own program |
| `CloudSessionsProofs` | theorems about it | `CloudSessions` |
| `Artifacts` | one artifact id, over sockets and HTTP | |
| `ArtifactsProofs` | theorems about it | `Artifacts` |
| `AtomicRequests` | what the callers of `inTx` rely on: a request is carried out in one step, or not at all | |
| `InTx` | `storage/inTx.ts`, for any function that is run in it | refines `AtomicRequests`, with the functions below |
| `KvStore` | batches of mutations | `InTx` |
| `Social` | friends, their notifications, and the feed | `InTx` |
| `GithubLink` | connecting and disconnecting GitHub users | the nested disconnect in the connect |
| `AccountData` | a sum of the four services above | `Artifacts`, `KvStore`, `Social`, `GithubLink` |
| `AccountDataProofs` | theorems about it and its services | `AccountData` and `ArtifactsProofs` |
| `MC...` | what the TLC configurations need | the module of that name |

Definitions marked *Mutant* in a comment are wrong variants of the definition
that follows them. They are used by nothing; replacing the definition by its
mutant must make a property fail, which shows that the property can.

### AsyncLock and FifoMutex

`permits` and `promiseResolverQueue` are the two fields. A call is `idle`,
`waiting` (its resolver is queued), on the `timer` (unlock took the resolver out
and set `setTimeout(..., 0)`), `granted` (promise resolved, not resumed) or
`running`. The refinement maps the line of FifoMutex to the holder followed by
the queue; a call holds the permit from the moment unlock promises it.

### SessionSync

One account. `handler[s]` is the `message` handler that holds the lock of
socket s and `pc` the await it is in: `userSeq` and `sessionSeq` (the two
counters), `dedup` (the look-up by localId), `create`, `emit`. `inbox[s]` is
the queue of the lock, in arrival order, which is what AsyncLock was shown to
provide. POST requests are `creator`s, DELETE requests `deleter`s; a deleter
past its transaction runs the `afterTx` callback. `log` records the updates the
router emitted and `view[s]` what the client behind s was given, by update or by
a page of GET messages (`FetchMessages`): the newest `PageSize` ones, 150 in the code; older
ones cannot be fetched. A socket awaits its token (`verifying`) before its connection is
registered; its client can fetch by then, but is told of nothing yet, so that what is
announced before the registration is missed by it. `synced` records the first fetch of a
session after the registration, and what that left out. A failing database call may or may not
have been committed; a failing `afterTx` callback is an unhandled rejection and
exits the process, which loses inboxes, handlers, requests and connections and
keeps the rows.

A client that reconnects gets a new socket; handlers of a closed socket go on. `at` is the
place of a message by `createdAt`, in which two of one millisecond may come in either
order; `FetchMessages` takes rows to be stored at distinct times. A socket that disconnects
while its token is verified is `closed` here, since a ghost (see Connections) receives nothing.
Socket.IO's delivery to an open connection is taken as reliable and ordered.

### VersionedField

A behaviour chooses one of six policies, one per handler; the policies differ in
what a failed update is answered with, whether a change is announced, whether a
missing row is answered, and whether the row can be deleted. Changes of a session go to
user-scoped connections and to those of that session only, so `interested` is any set of
clients for the two session policies and all of them for the other ones; any client may
write. The dismissal of a feed item writes the account's settings as well, under the next
version, and announces nothing (`DismissFeedItem`); the versions it makes are `silent`.
Clients are outside the repository: they keep the newest pair they were given and write
on top of it. A behaviour ends with the deletion of the row; a machine that is created
again (`machinesRoutes.ts:68-81`) starts at version 1, which would be another behaviour,
but for clients and handlers that still remember the old one: these are not modelled.

The handlers implement `CasRegister`. A client's call there is `asked` while its handler
reads, updates or reads again, `set` once the row took its value (through the
announcement, until the reply), `refused` after a mismatch, and `error` or `unanswered`
as the handler ends. So the moment at which a call takes effect is the
conditional update, or, for a refusal, the step at which the handler knows of another
version; announcements and the clients' views are not part of the register. A dismissal
is the register's `Overwrite`.

### Presence

One row, as a session (a flushed heartbeat sets `active`, `session-end` clears
it) or as a machine (a flush leaves `active` alone, `machine-update-state` sets
it). Time is counted in ticks of thirty seconds, the cache's TTL and its
threshold. The batch timer fires at least once in a tick, and a database call is
answered in the tick it was made in: so a tick waits for both. Several writes of
a flush may be in flight and are performed in any order. A heartbeat carries the time
of its client, up to `MaxDelay` ticks in the past.

### Connections

One account's sockets. `state[s]` follows the handler of `io.on("connection")`: it
awaits the token (`verifying`), and only then registers the connection and sets
the handlers (`Verified`, lines 103-178 in one step). A socket that disconnects
before is `lost`, since nobody listens, and becomes a `ghost` when its token
turns out valid. `connections` is the account's set in the event router,
`rpcListeners` its map of methods; a disconnect runs both 'disconnect'
handlers in one step. `status` is the daemon status last broadcast, by a connection, a
disconnect or `machine-alive`: that handler awaits the look-up of its machine
(`MachineAlive`, `AliveChecked`) and then broadcasts, also when its socket has gone
(`late`). Only the sockets of the machine's own daemon are taken to send it. A call that is forwarded waits for an acknowledgement or for
the timer of `timeout(30000)`, whichever comes first. Session-scoped sockets
differ from user-scoped ones in the filter of updates only, which is in SessionSync.

### CloudSessions

`session[s]` is a request of `createCloudSession` and then the record the manager
keeps: `store` is the await of the database, between the choice of an endpoint
and its assignment; `spawn` and `spawned` are the two halves of
`spawnNewEndpoint`, since the runner in the sandbox may connect before the token
it needs is stored (`cloudSessionManager.ts:230`). `online` and
`endpointSessions` are the registry: the records and the sets that
`currentSessions` counts. `runner[e]` is the process in the sandbox and its
socket, `activeSessions` and `agents` its sessions and their child processes;
`exited` are sessions whose five-second timer is pending. `toServer` and
`toRunner` are the events on the socket, in order; `socket.io-client` buffers
what is emitted while it is not connected, so that `toServer` keeps it. `handlers[e]`
counts the calls of `setupHandlers`: there is one per connection, and none is
removed. Agents report an end of their own. A runner that is told to stop (`CleanUp`) sends
its agents SIGTERM (`signalled`), reports their sessions as ended at once, and exits, which
cancels the SIGKILL of five seconds later; an agent ends when it does (`AgentEnds`). Every fault uses up one of `MaxFaults`.

### Artifacts

One id. `call[c]` is a request: first the client reads, and so learns the
versions it expects (`base`), then its update runs: `check` is the read of the
handler and `write` the statement that follows it. The socket handler has the
versions in the `where` of that statement, the HTTP handler has the id alone; both
write the `seq` that was read, plus one. Creation and deletion are a look-up and
a statement each, so that other calls run in between, and an id can be deleted
and created again; `inc` counts its lives. A statement that fails may have been committed
and its answer lost. `wins` and `stale` are history, and so are the event and the life that a
call keeps of what it announced.

### InTx, KvStore and Social

`InTx` takes the function that is run as an operator `Result` on a database and
a request, and the rows it depends on as `Footprint`. An attempt reads the
database as it is when it begins (`seen`), and its commit is refused when a row
of its footprint has changed since: that is all that *serializable* is taken to
promise. It is made again at most three times. The callbacks of `afterTx` run
after the commit, in any order; one that fails only loses its announcement
here, and its effect on the process is in SessionSync. A commit may take effect and its
answer be lost (`CommitLost`): the caller gets an error and no callback is called.

`Promise` in `InTx` maps this to `AtomicRequests`: a request is `open` from its first
attempt until it is committed or given up, however often it is tried; it owes the
announcements of its callbacks from the commit on; a lost commit is `ExecuteUnknown`,
a request carried out and announced to nobody. `Serializable` of `KvStore` is that
specification; that of `Social` also allows, between the requests, the steps that no
transaction makes (`Outside`).

In `KvStore` a batch has
one or two mutations, also of one key; in `Social` requests are those to add or
remove a friend, to post an item and to dismiss one. Notification times are
`recent` or not, and `CooldownOver` is the 24 hours passing. A client may store settings with
any dismissed keys, out of `KeySets` (`ReplaceSettings`). The settings route is not a
transaction of `inTx`; its write changes the account's row, and a post, which always increments
the `feedSeq` of that row, or a dismissal, which reads it, conflicts with it as with another
transaction. At the start, accounts may have been in use, with notifications older than a day.

### GithubLink

`account` has the two columns that change, `githubUsers` the rows of the table
they refer to. A connect is `check` (is it linked already), `find` (who has this
GitHub user), the disconnect of that account (`look`, `unlink`, `announceUnlink`), and
`link`. Deleting a row sets references to it to null (`prisma/schema.prisma:32`).

### AccountData

A behaviour is of one of the four services, chosen in `Init`; the other ones
stay in the first state of theirs (`Dormant`). The handlers of different services
share no row that one writes and another one reads, so the product of the four
would add interleavings of steps that commute, and no state of any one service.

## Runs

| Run | Question | Bounds |
|---|---|---|
| `async_lock` | mutual exclusion, refinement of FifoMutex with its fairness | 4 calls, made again and again |
| `session_messages` | message numbers, once-only announcement, sender order, nothing missed | 2 sockets, 2 messages with or without the same localId, pages of one message, a DELETE, one failure, one exit |
| `session_lifecycle` | update numbers, one session per tag, announced once | 2 POSTs and 2 DELETEs of one tag, 1 message, one failure |
| `session_liveness` | messages settle, deletions are announced | 1 socket, 2 messages, a DELETE, one failure, one exit |
| `versioned_field` | no lost update, truthful and convergent replicas, versions announced once, answers, refinement of CasRegister | 2 clients, any of them told of a session's field, 3 requests or dismissals, one failure, deletion, 6 policies |
| `presence` | a period of activity ends once, activity ends, the row lags at most the threshold behind | 2 heartbeats, 1 other request, one failure, 11 ticks |
| `connections` | open listeners, only the listener releases, calls answered, offline announced | 3 sockets, 2 methods, 2 calls, any heartbeats |
| `cloud_sessions` | agents within the capacity, over means over, what runs is reachable, every session starts | 2 sessions, 2 sandboxes with room for one, 2 faults |
| `account_data` | lost updates and lives of artifacts; key versions; refinement of AtomicRequests; mirrored relations, notifications, feeds; user names | 3 artifact calls and 1 failure; 2 batches of up to 2 mutations, 2 keys; 2 requests about friends or feeds, 2 users, 2 posts, 1 set of dismissed keys that clients store; 3 link calls, 2 GitHub users |
| `session_notification` | *violated*: `inTx.ts:28` | a DELETE, one failure |
| `artifacts_http` | *violated*: `artifactsRoutes.ts:227` | 2 calls |
| `cloud_capacity` | *violated*: `endpointRegistry.ts:97` | 2 sessions, 2 sandboxes |

Why the bounds suffice. Every race these handlers can lose is between two
parties at one point: two sockets, two POSTs, two DELETEs, two writers. Two of
each, with a deletion and one failure that may hit any call, contain all pairs
of handlers at all pairs of awaits. Two messages with one localId are a resend;
with different ones they are two messages to order. A third write of a versioned
field is what reuses a stale version after a mismatch. A page of one message is one that a
second message does not fit into. Three sockets are a caller and the old and the
new socket of the daemon it calls. Presence needs a TTL and
a threshold of one tick, for an entry to expire, be replaced by a miss and be
flushed, heartbeats up to two ticks late, which is earlier than the one before by more
than the threshold, and a timeout longer than that. Two cloud sessions
with room for one are a capacity that is exceeded; two sandboxes are one that is
chosen and one that is spawned, and two faults a drop followed by a death, or two
drops, which double the runner's handlers. Three artifact calls are a deletion, a
creation and an update that straddles both; the key-value store needs a batch that
conflicts and one that makes it conflict; three link calls are two accounts that want one
GitHub user while a third request gives it up. Settings that a client stores dismiss
the two users' posts, of which one may be in the feed (`KeySets`); that they dismiss less is
left to the theorem, which is for any `KeySets`, and so is what more of the same would add
elsewhere, where there is one.

Two sorts of names are symmetric in `account_data`: accounts, and the slots of
requests about friends. No action or property picks one of them.

Every configuration but `async_lock` says `CHECK_DEADLOCK FALSE`: requests, events
and time are bounded, so a behaviour in which all work is done stops. The
system does the same when no client asks for anything.

### Fairness

The database answers every call and the event loop runs every timer and every
continuation, so each handler step is weakly fair. The arrival of requests,
heartbeats, disconnects, deletions, failures and exits are not. In Presence time
passes and the batch timer and the loop run; `Tick` is fair since `setInterval`
and `delay` are clocks. A client takes what its connection has been
given (VersionedField), which is TCP on an open connection. In CloudSessions a
runner that can connect does, and both event loops handle what a live socket delivers;
sandboxes, agents and faults are not fair. `EverySessionStarts` is therefore about
a session whose creation has returned, and excuses endpoints that were disturbed
or rejected. `AccountData` has safety properties only.

## What the violations show

* `session_notification`: `afterTx` callbacks are async and `inTx` calls them
  without `await` (`storage/inTx.ts:27`). Its comment says their errors are
  ignored; a rejection is unhandled and `main.ts:64-77` exits the process.
* `artifacts_http`: the HTTP update compares versions with a row it has read and
  then writes by id alone (`artifactsRoutes.ts:333`), so that of two updates of one
  version both succeed and one is lost. `NoLostUpdate` says this is the only way.
* `cloud_capacity`: a session that is assigned before its endpoint registers is not
  counted, and registration starts from an empty set (`endpointRegistry.ts:54`), so the next
  session is placed on a full endpoint. `AgentsWithinCapacity` says its runner
  never runs it.

### Facts met while modelling

The models contain these, and the properties are stated so as to hold with them.

* Of two "create or load" requests with a new tag one fails with 500 and does
  not load (`sessionRoutes.ts:218`); `OneSessionPerTag` holds thanks to the
  unique index.
* The timeout loop marks rows found earlier without looking at `lastActiveAt` again
  (`timeout.ts:20`), so a heartbeat written in between is overruled. A session recovers with
  its next written heartbeat; a machine when its daemon state changes.
* A heartbeat with an earlier time than the last one (its client's clock, or its network,
  was slower) does not always replace what that one has queued, and what it replaces is then
  lost: `queueSessionUpdate` compares the absolute difference to the time last written
  (`sessionCache.ts:132`). `LagBounded` excuses it; this came up as the step at which the
  invariant could not be proved.
* A socket that disconnects while its token is verified is registered afterwards
  and never removed, and a daemon that reconnects is then announced offline by the late
  'disconnect' of its old socket (`socket.ts:95`, `socket.ts:154`). The other way round, a
  `machine-alive` that still awaits the look-up of its machine when its socket disconnects
  announces the machine online after it was announced offline (`machineUpdateHandler.ts:34-47`),
  until the timeout loop finds it. `OfflineAnnounced` says that nothing else does.
* A connected client whose token is still being verified can fetch, but a message announced
  before its registration is in neither its page nor an update (`socket.ts:95-130`); and
  of a session only the newest 150 messages can be fetched (`sessionRoutes.ts:334`).
  `NoMissedMessage` is about what follows a fetch after the registration.
* `update-metadata` for a session that is gone calls back to nobody
  (`sessionUpdateHandler.ts:28`), and a lost race in `update-metadata` or
  `update-state` is answered with the row as it was before the race. The update of the
  winner corrects that, but only for a client the session's updates go to: any socket of the
  account may write a session's metadata, a machine's too, which is not sent them
  (`eventRouter.ts:270-280`). `ReplicasConverge` is about the clients that are.
* The dismissal of a feed item changes the account's settings and their version, and sends no
  `update-account` (`feedRoutes.ts:146-152`), so that the next write of each client is a
  mismatch. `ReplicasConverge` says that clients lack nothing else.
* An artifact that is deleted and created again starts at version 1, so a version of its
  former life may be expected of it; HTTP updates and both deletions look for the
  account's row first and then write by id, whoever has it by then. Two creations of
  one id end with an error for one, not with the row. The `seq` of an artifact, being
  the one read plus one, can be given twice.
* A runner that connects again sets up its handlers again: a start request is then
  handled twice, and the second answer is an error while the agent runs, which is
  why `OverMeansOver` asks for one set of handlers. A runner that stops reports its sessions
  as ended when it has sent SIGTERM, and then exits (`vibe-runner/index.ts:430-449`, `:487`): an
  agent that is slow or ignores the signal runs on, which `OverMeansOver` excuses and
  nothing else. A drop leaves the endpoint in the
  registry, and sessions asked for meanwhile stay `starting`. A runner that is faster
  than the reply of E2B is rejected, and does not try again. A session whose
  program is missing takes up its slot for ever.
* One batch may name a key twice, and then announces one version twice. A batch that
  is made again after a conflict on its own keys always ends in a mismatch.
* A request that is withdrawn leaves (rejected, pending), which `Stories` allows.
  Settings that a client stores as a whole replace the keys the feed had remembered as
  dismissed: by none, or by those of older settings merged back, of which one may be in
  the feed. So a feed may show an item whose key is dismissed, and `FeedConsistent` says that
  no step puts it there.
* A statement or commit whose answer is lost has taken effect, and its caller is told of an
  error: of an artifact, a batch or a friendship that was changed nobody is then told.
* A disconnect deletes the GitHub user it has looked at, also when that has moved to
  another account meanwhile; that account keeps the user name (`cut`), and
  the name is then taken for everyone else.

## Theorems

tlapm checks every leaf; nothing is assumed but the named assumptions of the
modules on their constants.

`AsyncLockProofs`, for any set of calls: mutual exclusion, `unlock` never
throws, no lost wakeup, and every behaviour is one of `FifoMutex` without its
fairness. Mutual exclusion is not inductive: a call may be promised the permit
by a timer that has not fired while it is not running. `IInv` says the permit is
either free (1, no holder, empty queue) or held by exactly one call, counting
those on the timer, and that a call waits iff it is queued, once. The refinement
maps `Lock` to `Arrive`, `Resume` to `Enter`, `Unlock` to `Leave`, and the timer
to a stutter.

`SessionSyncProofs`, for any sockets, messages, requests, failures and exits: all eight
safety properties, from one invariant in parts. `Places`: every event is in one
queue or handler, of the socket that sent it, later ones behind earlier ones.
`Lifecycle`: a session a request is about to announce was announced by no other one and
will be by none. `UpdateNumbers` and `Numbers`: a counter is at least every number that a
handler holds or a row or update has, and no number is held twice; that a message
number is the session's own needs that ids are not used again. `Order`: of what one
socket has sent into a session, what is announced or numbered comes before what waits. `Once`:
a message that a handler is about to announce is stored, announced nowhere, and in no
other handler, because the unique index let one insert through. `NoMissedMessage` is kept
by each step with `Fetched`, that a connection which is not registered has no fetch recorded;
a new message comes after the rows there are, which are finitely many.

`VersionedFieldProofs`, for any writers, requests and failures, and each policy:
no lost update, truthful and convergent replicas, a version announced once, versions
that only move forward, and the refinement of `CasRegister`. The invariant strengthens
these to *every pair of version and value on its way to a client, in a handler, an update or a
reply, is one the row has held* (`PairsStored`), *a version a handler is about to announce
has not been announced and no other handler has it* (`ToldOnce`), *while no call has
failed, each version that is not silent has reached each client that it is of interest to, or
one at least as new has, or is in an update on its way to it, or has yet to be announced by
its handler* (`NewestComes`), and *a handler's expected
version is at most the row's, it updates only after reading that version, and reads
again only once the row has left it for good* (`CallsKnow`). They rest on
one lemma: a successful update appends the next version to `past` and changes no
other. In the refinement a request maps to `Ask`, the conditional update to `Set`, a read or
a failed update to `Refuse`, `Vanished` or a stutter, and an announcement to a stutter.

`PresenceProofs`, for any heartbeats, delays, TTL, threshold and timeout: types,
`EndsOncePerPeriod` and `LagBounded`. `PeriodsCounted` adds the period the row is in
to those that have ended. `Lag` follows a heartbeat from the cache through the write in
flight to the row: what is pending is the last heartbeat, and if nothing is, the last
heartbeat is within the threshold of what the row will have.

`ConnectionsProofs`, for any sockets, methods and calls: the listener of a method
is open, a machine without connections is not left online but by a late heartbeat, and only
the listener of a method gives it up. These are inductive with the types: both
'disconnect' handlers run in one step, a ghost can no longer register, and a
heartbeat that is checked while its socket is open finds that one registered.

`ArtifactsProofs`, for any calls, accounts and failures: types, `NoLostUpdate` and
`LivesAnnounced`. `NoLostUpdate` is not inductive: it needs that no recorded
write is newer than the row (`WinsBounded`), in the row's life or an earlier one;
then a write that expects the row's versions makes versions nobody made. The
second needs that a life is told of as new only if the id has had it, and as deleted
only once it is over (`ToldOfLives`). Both rest on `RowSteps`: each step writes, inserts, deletes or leaves the row.

`CloudSessionsProofs`, for any sessions, endpoints, capacity and faults: types,
`AgentsWithinCapacity`, `OverMeansOver` and `RunningReachable`. For the capacity (`Base`): the
runner checks the sessions it keeps, not its agents, so the invariant says that an agent's
session is kept while the runner lives, that no session with a pending timer has an agent,
and, since a sandbox's process starts afresh, that a sandbox is spawned for one
session and only once. The other two need what both sides and the two queues between
them know (`Talks`), for each endpoint: what it counts, keeps, is sent and says is about
sessions of its own (`Placed`); until its registration is heard it has nothing to do
(`Registered`); unless it set its handlers up twice, it is asked for a session once, and nobody
says that session is over while it is asked for, or runs and was not told to stop (`Once`);
and if nothing disturbed it, it has connected once, none of its agents is told to stop, and
what lives there is assigned to it (`Calm`).

`AccountDataProofs`, for any accounts, keys, batches of one or two mutations, posts,
GitHub users and calls, and any number of overlapping requests: every property of the
`account_data` run. Each service has an invariant of its own, which the other ones
leave alone.

* Artifacts: a behaviour of the sum is one of `Artifacts`, and the theorems of
  `ArtifactsProofs` are taken over.
* `KvInv`: an attempt has seen a store in which its whole batch was expected, and will
  announce what the batch did to that store; isolation makes the same true of the store it
  commits to.
* `SocialInv`: rows are `Good` (well formed, a feed with one item for a repeat key, at most one
  notification while one is recent, relations mirrored), and an attempt has seen good rows. Each function of
  `Social` takes good rows to good rows and changes those of its footprint only (`DoneChanges`);
  since both rows of a relation are in a footprint or neither is, what an isolated
  attempt commits fits what others have written meanwhile (`CommitGood`). `FeedConsistent` is about
  steps: no function puts an item into a feed whose key is dismissed (`Allowed`).
* `LinkInv`: what a call must know at each step (`Fits`), with the types of the accounts.
* `SerializableHolds`, the refinement of `AtomicRequests`: a step of a transaction
  maps to the step of the request that a caller sees, or to none. At the commit, what the
  function makes of the rows as it saw them must be what it makes of the rows as they are, of
  the answer and of the announcements too: functions depend on the rows of their footprint
  alone (`KvAlone`; `DoneAlike`, function by function, and `SocialAlone`), which `Footprint`
  claims and nothing in `InTx` could know. A commit whose answer is lost is `ExecuteUnknown`.

The assumptions are on constants: values that stand for "none" (`NoEndpoint`, `Nobody`,
`NoBatch`, ...) are not among what they are the absence of, bounds are natural numbers,
a capacity is positive, the sessions there are at first have different tags, heartbeats are
delayed for less than the timeout, and a user is not a pair of users.

Theorems whose property no run states, because a proof says more: `NeverThrows` and
`NobodyStranded` of AsyncLock, `VersionsAreForGood` of VersionedField, and the types
of Connections and Artifacts alone.

Only model-checked: liveness (the fairness of `FifoMutex` in `ImplementsFifoMutex`,
`EveryMessageSettles`, `DeletionAnnounced`, `EveryRequestAnswered`, `EveryCallAnswered`,
`EndsInactive`, `EverySessionStarts`), since fairness is about ENABLED, which
tlapm does not reason about. Every safety property of a passing run is a theorem. The three
runs that expect a violation show what no theorem could.

## Plan

Modules, in order of what they carry:

1. `AsyncLock`, `FifoMutex`: done, proved.
2. `SessionSync`: done, proved.
3. `VersionedField` with `CasRegister`: done, proved.
4. `Presence`: done, proved.
5. `Connections` with the RPC relay: done, proved.
6. `Artifacts`: done, proved.
7. `CloudSessions`: done, proved.
8. `InTx` with `AtomicRequests` and `KvStore`: done, proved.
9. `Social` and `GithubLink`: done, proved.
10. `AuthRequest` (a login request, its approvals and polls), `Shutdown`, `Prompt`, and `LruSet`
   against a sequence of recently used elements.
11. `AccessKeys`, `Usage` and `Machines`: create-or-load and upserts.

## Not modelled

Monitoring and logs (nothing depends on them); voice, push, version, user and
developer routes (single statements or calls to outside services); files, images and
encryption (byte processing); the E2B provider's own I/O; deployment and
migrations. The list routes of sessions and artifacts, and the profile and search routes, only
read. Of the cloud: the relay of messages to and from an agent, heartbeats and statistics,
the killing of sandboxes, and a restart of the server, which forgets tokens and sessions;
nothing calls `createCloudSessionHandler` or sends `session:stop`. Of GitHub: webhooks and
the OAuth parameters; `usernameUpdate.ts` is called by nothing. Authentication, shutdown,
the prompt route and the LRU set are left for later (see the plan). Constraints of
`prisma/schema.prisma` are modelled where a handler relies on them.
