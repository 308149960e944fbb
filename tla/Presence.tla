------------------------------- MODULE Presence -------------------------------
(***************************************************************************)
(* Whether a session or a machine is online.  Its process sends heartbeats *)
(* with a time; the server announces each one at once but writes           *)
(* lastActiveAt behind a cache (ActivityCache), at most once per threshold *)
(* and in batches.  A loop marks rows inactive that were not active for    *)
(* ten minutes.  The model follows one row, as a session or as a machine.  *)
(*                                                                         *)
(* A tick is thirty seconds, the cache's TTL and its threshold, and the    *)
(* batch timer (five seconds) fires at least once between two ticks.  Each *)
(* database call, with the code up to the next await, is an action, and it *)
(* is answered within the tick it was made in.                             *)
(***************************************************************************)
EXTENDS Integers, FiniteSets

CONSTANTS Beats,        \* heartbeats (session-alive, machine-alive)
          Requests,     \* session-end for a session, daemon updates for a machine
          MaxDelay,     \* bound: how far the time in a heartbeat lies back
          TTL,          \* ticks a cached entry is valid
          Threshold,    \* ticks between two times worth a write
          TimeoutAfter, \* ticks until a row is timed out
          LastReport,   \* bound: the tick of the last heartbeat or request
          MaxTime,      \* bound: the last tick
          MaxFailures   \* bound: failing database calls

ASSUME PresenceAssumption ==
    /\ {MaxDelay, TTL, Threshold, TimeoutAfter, LastReport, MaxTime, MaxFailures} \subseteq Nat
    /\ MaxDelay < TimeoutAfter
    /\ LastReport + TimeoutAfter < MaxTime

\* reactivates: a flushed heartbeat sets active
\* ends: the other request is session-end and not a daemon state update
Session == [name |-> "session", reactivates |-> TRUE, ends |-> TRUE]
Machine == [name |-> "machine", reactivates |-> FALSE, ends |-> FALSE]

VARIABLES kind,       \* Session or Machine
          now,        \* Date.now()
          row,        \* the row: [exists, active, lastActiveAt]
          cache,      \* ActivityCache's entry: [held, validUntil, lastUpdateSent, pendingUpdate]
          flushDue,   \* the batch timer has not fired in this tick
          writes,     \* times collected by a flush and not yet written
          beat,       \* per heartbeat: [pc, t, asked]
          request,    \* per other request: [pc, t]
          loop,       \* the timeout loop: looking for the row, or about to mark it
          last,       \* history: the time of the last heartbeat processed
          excused,    \* history: a heartbeat may have been lost, or came after a later one
          periods,    \* history: the times the row became active, and those session-end ended
          timedOut,   \* history: how often the loop announced the row inactive
          failures    \* failing database calls so far

vars == <<kind, now, row, cache, flushDue, writes, beat, request, loop, last, excused,
          periods, timedOut, failures>>

Times == 0..MaxTime
Start == TimeoutAfter + 1
None == 0                      \* pendingUpdate: null

Row == [exists : BOOLEAN, active : BOOLEAN, lastActiveAt : Times]
Entry == [held : BOOLEAN, validUntil : 0..(MaxTime + TTL), lastUpdateSent : Times,
          pendingUpdate : Times]

TypeOK ==
    /\ kind \in {Session, Machine}
    /\ now \in Times
    /\ row \in Row /\ row.lastActiveAt <= now
    /\ cache \in Entry /\ cache.pendingUpdate <= now
    /\ flushDue \in BOOLEAN
    /\ writes \subseteq Times \ {None}
    /\ beat \in [Beats -> [pc : {"new", "validate", "done"}, t : Times, asked : Times]]
    /\ request \in [Requests -> [pc : {"new", "resolve", "update", "done"}, t : Times]]
    /\ loop \in {"find", "mark"}
    /\ last \in 0..now
    /\ excused \in BOOLEAN
    /\ periods \in [begun : Nat, ended : Nat] /\ timedOut \in Nat
    /\ failures \in 0..MaxFailures

Empty == [held |-> FALSE, validUntil |-> 0, lastUpdateSent |-> 0, pendingUpdate |-> None]

\* A session row starts active, a machine row inactive.
Init ==
    /\ kind \in {Session, Machine}
    /\ now = Start
    /\ row = [exists |-> TRUE, active |-> kind = Session, lastActiveAt |-> Start]
    /\ cache = Empty
    /\ flushDue = TRUE
    /\ writes = {}
    /\ beat = [b \in Beats |-> [pc |-> "new", t |-> 0, asked |-> 0]]
    /\ request = [r \in Requests |-> [pc |-> "new", t |-> 0]]
    /\ loop = "find"
    /\ last = Start
    /\ excused = FALSE
    /\ periods = [begun |-> IF kind = Session THEN 1 ELSE 0, ended |-> 0]
    /\ timedOut = 0
    /\ failures = 0

\* Mutant: a time in the future is not cut off.
ReportableAhead == (now - MaxDelay)..(now + 1)

\* The times a client may report: of the last ticks, and never of the future,
\* which the handlers cut off.  (Times ten minutes back are ignored.)
Reportable == (now - MaxDelay)..now

SetRow(active, t) ==
    /\ row' = [row EXCEPT !.active = active, !.lastActiveAt = t]
    /\ periods' = IF active /\ ~row.active THEN [periods EXCEPT !.begun = @ + 1] ELSE periods

Fails == /\ failures < MaxFailures
         /\ failures' = failures + 1
         /\ excused' = TRUE
-----------------------------------------------------------------------------
(* Heartbeats: session-alive and machine-alive.                            *)

\* isSessionValid and isMachineValid answer from the cache.
Hit == cache.held /\ cache.validUntil > now

Significant(entry, t) == t - entry.lastUpdateSent > Threshold \/ entry.lastUpdateSent - t > Threshold

\* queueSessionUpdate, queueMachineUpdate; the heartbeat is also announced.  One from
\* before another one replaces a later time that is pending, or is itself not written.
Accept(t, entry) ==
    /\ cache' = IF Significant(entry, t) THEN [entry EXCEPT !.pendingUpdate = t] ELSE entry
    /\ last' = t
    /\ excused' = (excused \/ t < last)

\* A heartbeat arrives; a hit is processed at once.
Heartbeat(b) ==
    /\ beat[b].pc = "new"
    /\ now <= LastReport
    /\ \E t \in Reportable :
          IF Hit
          THEN /\ Accept(t, cache)
               /\ beat' = [beat EXCEPT ![b].pc = "done"]
          ELSE /\ beat' = [beat EXCEPT ![b] = [pc |-> "validate", t |-> t, asked |-> now]]
               /\ UNCHANGED <<cache, last, excused>>
    /\ UNCHANGED <<kind, now, row, flushDue, writes, request, loop, periods, timedOut, failures>>

\* Mutant: a fresh entry takes the time of the request for the time written last.
FreshEntryAsked(b) == [held |-> TRUE, validUntil |-> beat[b].asked + TTL,
                       lastUpdateSent |-> beat[b].asked, pendingUpdate |-> None]

\* What isSessionValid caches for a row it found.
FreshEntry(b) == [held |-> TRUE, validUntil |-> beat[b].asked + TTL,
                  lastUpdateSent |-> row.lastActiveAt, pendingUpdate |-> None]

\* The database answers a miss: the entry is replaced, with what it had pending.
Validate(b) ==
    /\ beat[b].pc = "validate"
    /\ IF row.exists THEN Accept(beat[b].t, FreshEntry(b))
                     ELSE UNCHANGED <<cache, last, excused>>
    /\ beat' = [beat EXCEPT ![b].pc = "done"]
    /\ UNCHANGED <<kind, now, row, flushDue, writes, request, loop, periods, timedOut, failures>>

\* The look-up fails: the heartbeat counts as invalid.
ValidateFails(b) ==
    /\ beat[b].pc = "validate"
    /\ Fails
    /\ beat' = [beat EXCEPT ![b].pc = "done"]
    /\ UNCHANGED <<kind, now, row, cache, flushDue, writes, request, loop, last, periods, timedOut>>
-----------------------------------------------------------------------------
(* The batch timer and the clean-up of the cache.                          *)

\* flushPendingUpdates up to its awaits: the pending time is taken for written
\* before it is written.
Flush ==
    /\ flushDue \/ cache.pendingUpdate # None
    /\ flushDue' = FALSE
    /\ IF cache.held /\ cache.pendingUpdate # None
       THEN /\ writes' = writes \cup {cache.pendingUpdate}
            /\ cache' = [cache EXCEPT !.lastUpdateSent = cache.pendingUpdate,
                                      !.pendingUpdate = None]
            /\ excused' = (excused \/ writes # {})
       ELSE UNCHANGED <<writes, cache, excused>>
    /\ UNCHANGED <<kind, now, row, beat, request, loop, last, periods, timedOut, failures>>

WriteRow(t) == IF row.exists THEN SetRow(row.active \/ kind.reactivates, t)
                             ELSE UNCHANGED <<row, periods>>

\* The database performs one update of the batch.
WriteActivity(t) ==
    /\ t \in writes
    /\ writes' = writes \ {t}
    /\ WriteRow(t)
    /\ UNCHANGED <<kind, now, cache, flushDue, beat, request, loop, last, excused, timedOut,
                   failures>>

\* An update of the batch fails, committed or not; the error is logged.
WriteFails(t) ==
    /\ t \in writes
    /\ Fails
    /\ writes' = writes \ {t}
    /\ WriteRow(t) \/ UNCHANGED <<row, periods>>
    /\ UNCHANGED <<kind, now, cache, flushDue, beat, request, loop, last, timedOut>>

\* cleanup() drops an expired entry, with what it had pending.
Cleanup ==
    /\ cache.held /\ cache.validUntil < now
    /\ cache' = Empty
    /\ excused' = (excused \/ cache.pendingUpdate # None)
    /\ UNCHANGED <<kind, now, row, flushDue, writes, beat, request, loop, last, periods, timedOut,
                   failures>>
-----------------------------------------------------------------------------
(* session-end, and machine-update-state for a machine.                    *)

Report(r) ==
    /\ request[r].pc = "new"
    /\ now <= LastReport
    /\ \E t \in Reportable : request' = [request EXCEPT ![r] = [pc |-> "resolve", t |-> t]]
    /\ UNCHANGED <<kind, now, row, cache, flushDue, writes, beat, loop, last, excused, periods,
                   timedOut, failures>>

\* A daemon state update may find another version than it expects, here or when
\* it writes: then it writes nothing.
Mismatch == ~kind.ends

Resolve(r) ==
    /\ request[r].pc = "resolve"
    /\ \/ /\ row.exists
          /\ request' = [request EXCEPT ![r].pc = "update"]
       \/ /\ ~row.exists \/ Mismatch
          /\ request' = [request EXCEPT ![r].pc = "done"]
    /\ UNCHANGED <<kind, now, row, cache, flushDue, writes, beat, loop, last, excused, periods,
                   timedOut, failures>>

\* session-end: inactive since t.  A daemon state update: active now.
Apply(r) ==
    IF ~row.exists THEN UNCHANGED <<row, periods>>
    ELSE IF kind.ends
    THEN /\ row' = [row EXCEPT !.active = FALSE, !.lastActiveAt = request[r].t]
         /\ periods' = IF row.active THEN [periods EXCEPT !.ended = @ + 1] ELSE periods
    ELSE SetRow(TRUE, now)

Update(r) ==
    /\ request[r].pc = "update"
    /\ Apply(r) \/ (Mismatch /\ UNCHANGED <<row, periods>>)
    /\ excused' = TRUE
    /\ request' = [request EXCEPT ![r].pc = "done"]
    /\ UNCHANGED <<kind, now, cache, flushDue, writes, beat, loop, last, timedOut, failures>>

\* A database call of the request fails; an update may have been committed.
RequestFails(r) ==
    /\ request[r].pc \in {"resolve", "update"}
    /\ Fails
    /\ \/ UNCHANGED <<row, periods>>
       \/ request[r].pc = "update" /\ Apply(r)
    /\ request' = [request EXCEPT ![r].pc = "done"]
    /\ UNCHANGED <<kind, now, cache, flushDue, writes, beat, loop, last, timedOut>>

\* The session or machine is deleted.
DeleteRow ==
    /\ row.exists
    /\ row' = [row EXCEPT !.exists = FALSE]
    /\ UNCHANGED <<kind, now, cache, flushDue, writes, beat, request, loop, last, excused, periods,
                   timedOut, failures>>
-----------------------------------------------------------------------------
(* The timeout loop.                                                       *)

\* Mutant: gte for lte.
TimedOutReversed == row.active /\ row.lastActiveAt >= now - TimeoutAfter

\* The condition of findMany.
TimedOut == row.active /\ row.lastActiveAt <= now - TimeoutAfter

FindTimedOut ==
    /\ loop = "find"
    /\ row.exists /\ TimedOut
    /\ loop' = "mark"
    /\ UNCHANGED <<kind, now, row, cache, flushDue, writes, beat, request, last, excused, periods,
                   timedOut, failures>>

\* Mutant: updateManyAndReturn without active: true.
MarkableAlways == row.exists

\* The condition of updateManyAndReturn.
Markable == row.exists /\ row.active

\* Mark it inactive if it is still active, and announce that.
MarkTimedOut ==
    /\ loop = "mark"
    /\ IF Markable
       THEN SetRow(FALSE, row.lastActiveAt) /\ timedOut' = timedOut + 1
       ELSE UNCHANGED <<row, periods, timedOut>>
    /\ loop' = "find"
    /\ UNCHANGED <<kind, now, cache, flushDue, writes, beat, request, last, excused, failures>>

\* A call of the loop fails: backoff starts the loop again.
LoopFails ==
    /\ loop = "mark"
    /\ Fails
    /\ \/ UNCHANGED <<row, periods>>
       \/ Markable /\ SetRow(FALSE, row.lastActiveAt)
    /\ loop' = "find"
    /\ UNCHANGED <<kind, now, cache, flushDue, writes, beat, request, last, timedOut>>
-----------------------------------------------------------------------------
\* Database calls in flight.
Waiting == \/ writes # {} \/ loop = "mark"
           \/ \E b \in Beats : beat[b].pc = "validate"
           \/ \E r \in Requests : request[r].pc \in {"resolve", "update"}

Tick ==
    /\ now < MaxTime
    /\ ~flushDue /\ ~Waiting
    /\ now' = now + 1
    /\ flushDue' = TRUE
    /\ UNCHANGED <<kind, row, cache, writes, beat, request, loop, last, excused, periods, timedOut,
                   failures>>

Next ==
    \/ \E b \in Beats : Heartbeat(b) \/ Validate(b) \/ ValidateFails(b)
    \/ Flush \/ Cleanup
    \/ \E t \in writes : WriteActivity(t) \/ WriteFails(t)
    \/ \E r \in Requests : Report(r) \/ Resolve(r) \/ Update(r) \/ RequestFails(r)
    \/ DeleteRow
    \/ FindTimedOut \/ MarkTimedOut \/ LoopFails
    \/ Tick

\* Time passes, timers fire and the database answers every call.
Fairness ==
    /\ WF_vars(Tick) /\ WF_vars(Flush)
    /\ WF_vars(FindTimedOut) /\ WF_vars(MarkTimedOut)
    /\ \A b \in Beats : WF_vars(Validate(b))
    /\ \A r \in Requests : WF_vars(Resolve(r)) /\ WF_vars(Update(r))
    /\ \A t \in Times : WF_vars(WriteActivity(t))

Spec == Init /\ [][Next]_vars /\ Fairness
-----------------------------------------------------------------------------
(* Properties                                                              *)

\* "Only update DB if time difference is significant (30 seconds)"
\* (sessionCache.ts:27): once nothing is pending or being written, lastActiveAt is at
\* most the threshold behind the last heartbeat processed, however entries expire, are
\* replaced while a write is in flight and are flushed in between.  Excused are a failing
\* call, an entry cleaned up with a time pending, a flush overtaken by the next one, a
\* session-end or daemon update, which write the row past the cache, and a heartbeat
\* with an earlier time than the last one, which may undo what that one had queued.
Quiet == writes = {} /\ cache.pendingUpdate = None

LagBounded == Quiet /\ ~excused /\ row.exists => row.lastActiveAt >= last - Threshold

\* A period of activity ends once: the loop announces a row inactive only if
\* session-end did not end the period between the query and the update
\* (timeout.ts:20-26).
EndsOncePerPeriod == timedOut + periods.ended <= periods.begun

\* When the reports stop, the row is inactive in the end and stays so, whatever a
\* late flush does after session-end or after the loop (timeout.ts:9-33).
EndsInactive == <>[](row.exists => ~row.active)
=============================================================================
