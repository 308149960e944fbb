---------------------------- MODULE PresenceProofs ----------------------------
(***************************************************************************)
(* Theorems about Presence, for any heartbeats, requests, delays, TTL,     *)
(* threshold, timeout and bounds.                                          *)
(***************************************************************************)
EXTENDS Presence, TLAPS

\* No time that is known lies in the future, and none that is pending or written is None.
Past == /\ now >= Start
        /\ writes \subseteq 1..now
        /\ \A b \in Beats : beat[b].t <= now /\ (beat[b].pc = "validate" => beat[b].t # None)
        /\ \A r \in Requests : request[r].t <= now

\* A period that has begun and not ended is the one the row is in.
Open(r) == IF r.active THEN 1 ELSE 0
PeriodsCounted == timedOut + periods.ended + Open(row) <= periods.begun

\* What lastActiveAt is once a write that is in flight is done.
Due == IF writes = {} THEN {row.lastActiveAt} ELSE writes

\* While nothing is excused: one write at most is in flight, and takes the row forward;
\* what is pending is the last heartbeat, significant for the entry; if nothing is, the
\* last heartbeat is near what the row will have; and the entry knows of nothing newer.
Lag == ~excused /\ row.exists =>
    /\ \A t, u \in writes : t = u
    /\ \A t \in writes : row.lastActiveAt <= t /\ t <= last
    /\ row.lastActiveAt <= last
    /\ cache.held => \A t \in Due : cache.lastUpdateSent <= t
    /\ IF cache.held /\ cache.pendingUpdate # None
       THEN /\ cache.pendingUpdate = last
            /\ cache.pendingUpdate > cache.lastUpdateSent + Threshold
       ELSE \A t \in Due : last <= t + Threshold

\* A time is pending only in an entry.
Held == cache.pendingUpdate # None => cache.held

IInv == TypeOK /\ Past /\ PeriodsCounted /\ Held /\ Lag
-----------------------------------------------------------------------------
(* Types.                                                                  *)

\* The bounds are numbers, and the first tick is one of the times.
LEMMA Bounds ==
    /\ MaxDelay \in Nat /\ TTL \in Nat /\ Threshold \in Nat /\ TimeoutAfter \in Nat
    /\ LastReport \in Nat /\ MaxTime \in Nat /\ MaxFailures \in Nat
    /\ MaxDelay < TimeoutAfter
    /\ Start \in Times /\ Start > 0 /\ Start > MaxDelay
BY PresenceAssumption DEF Start, Times

LEMMA ReportableTimes ==
    ASSUME TypeOK, Past, NEW t \in Reportable
    PROVE  t \in Times /\ t <= now /\ t # None
BY Bounds DEF TypeOK, Past, Reportable, Times, None

LEMMA AcceptTypes ==
    ASSUME TypeOK, Past, NEW t \in 1..now, NEW entry \in Entry, entry.pendingUpdate <= now,
           entry.held, Accept(t, entry)
    PROVE  /\ cache' \in Entry /\ cache'.pendingUpdate <= now
           /\ cache'.held
           /\ last' \in 0..now
           /\ excused' \in BOOLEAN
<1>1. now \in Nat /\ t \in Times
  BY Bounds DEF TypeOK, Times
<1>2. excused' \in BOOLEAN /\ last' = t
  BY DEF Accept, TypeOK
<1>3. CASE Significant(entry, t)
  <2>1. cache' = [entry EXCEPT !.pendingUpdate = t]
    BY <1>3 DEF Accept
  <2> QED
    BY <1>1, <1>2, <2>1 DEF Entry
<1>4. CASE ~Significant(entry, t)
  <2>1. cache' = entry
    BY <1>4 DEF Accept
  <2> QED
    BY <1>1, <1>2, <2>1
<1> QED
  BY <1>3, <1>4

\* The row keeps its types if it is set to a time that is not in the future.
LEMMA SetRowTypes ==
    ASSUME TypeOK, Past, NEW active \in BOOLEAN, NEW t \in 0..now, SetRow(active, t)
    PROVE  /\ row' \in Row /\ row'.lastActiveAt <= now
           /\ row' = [row EXCEPT !.active = active, !.lastActiveAt = t]
           /\ periods' \in [begun : Nat, ended : Nat]
<1>1. t \in Times
  BY Bounds DEF TypeOK, Times
<1>2. row' = [row EXCEPT !.active = active, !.lastActiveAt = t]
  BY DEF SetRow
<1>3. row' \in Row /\ row'.lastActiveAt = t
  BY <1>1, <1>2 DEF TypeOK, Row
<1>4. periods' \in [begun : Nat, ended : Nat]
  BY DEF TypeOK, SetRow
<1> QED
  BY <1>2, <1>3, <1>4 DEF TypeOK

LEMMA TypesKept ==
    ASSUME TypeOK, Past, Held, Next
    PROVE  TypeOK' /\ Past' /\ Held'
<1>1. /\ now \in Nat /\ now \in Times /\ last \in 0..now
      /\ kind \in {Session, Machine}
      /\ cache \in Entry /\ cache.pendingUpdate \in 0..now
      /\ row \in Row /\ row.lastActiveAt \in 0..now
      /\ writes \subseteq 1..now
      /\ 1..now \subseteq Times \ {None} /\ 0..now \subseteq Times
  BY Bounds DEF TypeOK, Past, Times, Entry, Row, None
<1>2. ASSUME NEW b \in Beats, NEW r \in [pc : {"new", "validate", "done"}, t : Times, asked : Times],
             beat' = [beat EXCEPT ![b] = r], r.t <= now, r.pc = "validate" => r.t # None
      PROVE  /\ beat' \in [Beats -> [pc : {"new", "validate", "done"}, t : Times, asked : Times]]
             /\ \A c \in Beats : beat'[c].t <= now /\ (beat'[c].pc = "validate" => beat'[c].t # None)
  BY <1>2 DEF TypeOK, Past
<1>3. ASSUME NEW b \in Beats, beat' = [beat EXCEPT ![b].pc = "done"]
      PROVE  /\ beat' \in [Beats -> [pc : {"new", "validate", "done"}, t : Times, asked : Times]]
             /\ \A c \in Beats : beat'[c].t <= now /\ (beat'[c].pc = "validate" => beat'[c].t # None)
  <2> DEFINE r == [beat[b] EXCEPT !.pc = "done"]
  <2>1. /\ r \in [pc : {"new", "validate", "done"}, t : Times, asked : Times]
        /\ r.t <= now /\ r.pc = "done"
    BY DEF TypeOK, Past
  <2>2. beat' = [beat EXCEPT ![b] = r]
    BY <1>3
  <2> HIDE DEF r
  <2> QED
    BY <1>2, <2>1, <2>2
<1>4. ASSUME NEW r \in Requests, NEW pc \in {"new", "resolve", "update", "done"}, NEW t \in 0..now,
             request' = [request EXCEPT ![r] = [pc |-> pc, t |-> t]]
      PROVE  /\ request' \in [Requests -> [pc : {"new", "resolve", "update", "done"}, t : Times]]
             /\ \A q \in Requests : request'[q].t <= now
  <2>1. t \in Times /\ t <= now
    BY <1>1
  <2> QED
    BY <1>4, <2>1 DEF TypeOK, Past
<1>5. ASSUME NEW r \in Requests, NEW pc \in {"update", "done"},
             request' = [request EXCEPT ![r].pc = pc]
      PROVE  /\ request' \in [Requests -> [pc : {"new", "resolve", "update", "done"}, t : Times]]
             /\ \A q \in Requests : request'[q].t <= now
  <2>1. /\ [request[r] EXCEPT !.pc = pc] = [pc |-> pc, t |-> request[r].t]
        /\ request[r].t \in 0..now
    BY DEF TypeOK, Past, Times
  <2>2. request' = [request EXCEPT ![r] = [pc |-> pc, t |-> request[r].t]]
    BY <1>5, <2>1
  <2> QED
    BY <1>4, <2>1, <2>2
<1>6. ASSUME NEW b \in Beats, Heartbeat(b) PROVE TypeOK' /\ Past' /\ Held'
  <2>1. PICK t \in Reportable :
            IF Hit
            THEN /\ Accept(t, cache)
                 /\ beat' = [beat EXCEPT ![b].pc = "done"]
            ELSE /\ beat' = [beat EXCEPT ![b] = [pc |-> "validate", t |-> t, asked |-> now]]
                 /\ UNCHANGED <<cache, last, excused>>
    BY <1>6 DEF Heartbeat
  <2>2. t \in Times /\ t <= now /\ t # None
    BY ReportableTimes
  <2>3. /\ beat' \in [Beats -> [pc : {"new", "validate", "done"}, t : Times, asked : Times]]
        /\ \A c \in Beats : beat'[c].t <= now /\ (beat'[c].pc = "validate" => beat'[c].t # None)
    <3>1. CASE Hit
      BY <1>3, <2>1, <3>1
    <3>2. CASE ~Hit
      <4> DEFINE r == [pc |-> "validate", t |-> t, asked |-> now]
      <4>1. /\ r \in [pc : {"new", "validate", "done"}, t : Times, asked : Times]
            /\ r.t = t
        BY <1>1, <2>2
      <4>2. beat' = [beat EXCEPT ![b] = r]
        BY <2>1, <3>2
      <4> HIDE DEF r
      <4> QED
        BY <1>2, <2>2, <4>1, <4>2
    <3> QED
      BY <3>1, <3>2
  <2>4. /\ cache' \in Entry /\ cache'.pendingUpdate <= now
        /\ cache'.pendingUpdate # None => cache'.held
        /\ last' \in 0..now /\ excused' \in BOOLEAN
    <3>1. CASE Hit
      <4>1. t \in 1..now
        BY <1>1, <2>2 DEF Times, None
      <4> QED
        BY <1>1, <2>1, <3>1, <4>1, AcceptTypes DEF Hit
    <3>2. CASE ~Hit
      BY <1>1, <2>1, <3>2 DEF TypeOK, Held
    <3> QED
      BY <3>1, <3>2
  <2>5. UNCHANGED <<kind, now, row, flushDue, writes, request, loop, periods, timedOut, failures>>
    BY <1>6 DEF Heartbeat
  <2> QED
    BY <2>3, <2>4, <2>5 DEF TypeOK, Past, Held
<1>7. ASSUME NEW b \in Beats, Validate(b) PROVE TypeOK' /\ Past' /\ Held'
  <2>1. /\ beat' \in [Beats -> [pc : {"new", "validate", "done"}, t : Times, asked : Times]]
        /\ \A c \in Beats : beat'[c].t <= now /\ (beat'[c].pc = "validate" => beat'[c].t # None)
    BY <1>3, <1>7 DEF Validate
  <2>2. /\ cache' \in Entry /\ cache'.pendingUpdate <= now
        /\ cache'.pendingUpdate # None => cache'.held
        /\ last' \in 0..now /\ excused' \in BOOLEAN
    <3>1. CASE row.exists
      <4>1. beat[b].t \in 1..now
        BY <1>1, <1>7 DEF Validate, TypeOK, Past, Times, None
      <4>2. beat[b].asked + TTL \in 0..(MaxTime + TTL)
        BY Bounds DEF TypeOK, Times
      <4>3. row.lastActiveAt \in Times /\ None \in Times
        BY <1>1 DEF Row, None
      <4>4. FreshEntry(b) \in Entry
        BY <4>2, <4>3 DEF FreshEntry, Entry
      <4>5. FreshEntry(b).pendingUpdate <= now /\ FreshEntry(b).held
        BY <1>1 DEF FreshEntry, None
      <4>6. Accept(beat[b].t, FreshEntry(b))
        BY <1>7, <3>1 DEF Validate
      <4> QED
        BY <4>1, <4>4, <4>5, <4>6, AcceptTypes
    <3>2. CASE ~row.exists
      BY <1>1, <1>7, <3>2 DEF Validate, TypeOK, Held
    <3> QED
      BY <3>1, <3>2
  <2>3. UNCHANGED <<kind, now, row, flushDue, writes, request, loop, periods, timedOut, failures>>
    BY <1>7 DEF Validate
  <2> QED
    BY <2>1, <2>2, <2>3 DEF TypeOK, Past, Held
<1>8. ASSUME Fails PROVE failures' \in 0..MaxFailures /\ excused' = TRUE
  BY <1>8, Bounds DEF Fails, TypeOK
<1>9. ASSUME NEW b \in Beats, ValidateFails(b) PROVE TypeOK' /\ Past' /\ Held'
  BY <1>3, <1>8, <1>9 DEF ValidateFails, TypeOK, Past, Held
<1>10. CASE Flush
  <2>1. CASE cache.held /\ cache.pendingUpdate # None
    <3> DEFINE t == cache.pendingUpdate
               e == [cache EXCEPT !.lastUpdateSent = t, !.pendingUpdate = None]
    <3>1. t \in 1..now /\ t \in Times
      BY <1>1, <2>1 DEF None, Times
    <3>2. e \in Entry /\ e.held
      <4>1. None \in Times /\ cache.held = TRUE
        BY <1>1, <2>1 DEF Entry, None
      <4> HIDE DEF t
      <4>2. e \in Entry
        BY <1>1, <3>1, <4>1 DEF Entry
      <4>3. e.held = cache.held
        BY <1>1 DEF Entry
      <4> QED
        BY <4>1, <4>2, <4>3
    <3>3. e.pendingUpdate <= now
      BY <1>1 DEF Entry, None
    <3>4. writes' = writes \cup {t} /\ cache' = e /\ excused' \in BOOLEAN /\ flushDue' = FALSE
      BY <1>10, <2>1 DEF Flush, TypeOK
    <3>5. UNCHANGED <<kind, now, row, beat, request, loop, last, periods, timedOut, failures>>
      BY <1>10 DEF Flush
    <3> HIDE DEF t, e
    <3>6. writes' \subseteq 1..now /\ writes' \subseteq Times \ {None}
      BY <1>1, <3>1, <3>4
    <3>7. TypeOK'
      BY <3>2, <3>3, <3>4, <3>5, <3>6 DEF TypeOK
    <3> QED
      BY <3>2, <3>4, <3>5, <3>6, <3>7 DEF Past, Held
  <2>2. CASE ~(cache.held /\ cache.pendingUpdate # None)
    <3>1. /\ flushDue' = FALSE
          /\ UNCHANGED <<kind, now, row, cache, writes, beat, request, loop, last, excused,
                         periods, timedOut, failures>>
      BY <1>10, <2>2 DEF Flush
    <3>2. TypeOK'
      BY <3>1 DEF TypeOK
    <3>3. Past'
      BY <3>1 DEF Past
    <3>4. Held'
      BY <3>1 DEF Held
    <3> QED
      BY <3>2, <3>3, <3>4
  <2> QED
    BY <2>1, <2>2
<1>11. CASE Cleanup
  <2>1. Empty \in Entry /\ Empty.pendingUpdate = None
    BY <1>1, Bounds DEF Empty, Entry, None, Times
  <2> QED
    BY <1>1, <1>11, <2>1 DEF Cleanup, TypeOK, Past, Held, None
<1>12. ASSUME NEW t \in writes, WriteActivity(t) \/ WriteFails(t) PROVE TypeOK' /\ Past' /\ Held'
  <2>1. /\ row' \in Row /\ row'.lastActiveAt <= now
        /\ periods' \in [begun : Nat, ended : Nat]
    <3>1. CASE WriteRow(t)
      <4>1. t \in 0..now /\ (row.active \/ kind.reactivates) \in BOOLEAN
        BY <1>1
      <4> QED
        BY <3>1, <4>1, SetRowTypes DEF WriteRow, TypeOK
    <3>2. CASE UNCHANGED <<row, periods>>
      BY <3>2 DEF TypeOK
    <3> QED
      BY <1>12, <3>1, <3>2 DEF WriteActivity, WriteFails
  <2>2. writes' \subseteq writes
    BY <1>12 DEF WriteActivity, WriteFails
  <2>3. failures' \in 0..MaxFailures /\ excused' \in BOOLEAN
    BY <1>8, <1>12 DEF WriteActivity, WriteFails, TypeOK
  <2>4. UNCHANGED <<kind, now, cache, flushDue, beat, request, loop, last, timedOut>>
    BY <1>12 DEF WriteActivity, WriteFails
  <2> QED
    BY <2>1, <2>2, <2>3, <2>4 DEF TypeOK, Past, Held
<1>13. ASSUME NEW r \in Requests, Report(r) PROVE TypeOK' /\ Past' /\ Held'
  <2>1. PICK t \in Reportable : request' = [request EXCEPT ![r] = [pc |-> "resolve", t |-> t]]
    BY <1>13 DEF Report
  <2>2. t \in 0..now
    BY ReportableTimes DEF Times
  <2> QED
    BY <1>4, <1>13, <2>1, <2>2 DEF Report, TypeOK, Past, Held
<1>14. ASSUME NEW r \in Requests, Resolve(r) PROVE TypeOK' /\ Past' /\ Held'
  BY <1>5, <1>14 DEF Resolve, TypeOK, Past, Held
<1>15. ASSUME NEW r \in Requests, Apply(r) \/ UNCHANGED <<row, periods>>
       PROVE  /\ row' \in Row /\ row'.lastActiveAt <= now
              /\ periods' \in [begun : Nat, ended : Nat]
  <2>1. CASE UNCHANGED <<row, periods>>
    BY <2>1 DEF TypeOK
  <2>2. CASE Apply(r) /\ row.exists /\ kind.ends
    <3>1. request[r].t \in Times /\ request[r].t <= now
      BY DEF TypeOK, Past
    <3>2. row' \in Row /\ row'.lastActiveAt = request[r].t
      BY <1>1, <2>2, <3>1 DEF Apply, Row
    <3>3. periods' \in [begun : Nat, ended : Nat]
      BY <2>2 DEF Apply, TypeOK
    <3> QED
      BY <3>1, <3>2, <3>3
  <2>3. CASE Apply(r) /\ row.exists /\ ~kind.ends
    <3>1. SetRow(TRUE, now)
      BY <2>3, Zenon DEF Apply
    <3>2. now \in 0..now
      BY <1>1
    <3> QED
      BY <3>1, <3>2, SetRowTypes
  <2> QED
    BY <1>15, <2>1, <2>2, <2>3 DEF Apply
<1>16. ASSUME NEW r \in Requests, Update(r) \/ RequestFails(r) PROVE TypeOK' /\ Past' /\ Held'
  <2>1. request' = [request EXCEPT ![r].pc = "done"]
    BY <1>16 DEF Update, RequestFails
  <2>2. Apply(r) \/ UNCHANGED <<row, periods>>
    BY <1>16 DEF Update, RequestFails
  <2>3. failures' \in 0..MaxFailures /\ excused' \in BOOLEAN
    BY <1>8, <1>16 DEF Update, RequestFails, TypeOK
  <2>4. UNCHANGED <<kind, now, cache, flushDue, writes, beat, loop, last, timedOut>>
    BY <1>16 DEF Update, RequestFails
  <2> QED
    BY <1>5, <1>15, <2>1, <2>2, <2>3, <2>4 DEF TypeOK, Past, Held
<1>17. CASE DeleteRow
  <2>1. row' \in Row /\ row'.lastActiveAt = row.lastActiveAt
    BY <1>1, <1>17 DEF DeleteRow, Row
  <2> QED
    BY <1>1, <1>17, <2>1 DEF DeleteRow, TypeOK, Past, Held
<1>18. CASE FindTimedOut
  BY <1>18 DEF FindTimedOut, TypeOK, Past, Held
<1>19. CASE MarkTimedOut \/ LoopFails
  <2>1. /\ row' \in Row /\ row'.lastActiveAt <= now
        /\ periods' \in [begun : Nat, ended : Nat]
    <3>1. CASE UNCHANGED <<row, periods>>
      BY <3>1 DEF TypeOK
    <3>2. CASE SetRow(FALSE, row.lastActiveAt)
      BY <1>1, <3>2, SetRowTypes
    <3> QED
      BY <1>19, <3>1, <3>2 DEF MarkTimedOut, LoopFails
  <2>2. failures' \in 0..MaxFailures /\ excused' \in BOOLEAN /\ timedOut' \in Nat
    <3>1. failures \in 0..MaxFailures /\ excused \in BOOLEAN /\ timedOut \in Nat
      BY DEF TypeOK
    <3>2. CASE MarkTimedOut
      <4>1. UNCHANGED <<failures, excused>>
        BY <3>2 DEF MarkTimedOut
      <4>2. timedOut' \in {timedOut, timedOut + 1}
        BY <3>2 DEF MarkTimedOut
      <4>3. timedOut' \in Nat
        BY <3>1, <4>2
      <4> QED
        BY <3>1, <4>1, <4>3
    <3>3. CASE LoopFails
      BY <1>8, <3>1, <3>3 DEF LoopFails
    <3> QED
      BY <1>19, <3>2, <3>3
  <2>3. loop' = "find" /\ UNCHANGED <<kind, now, cache, flushDue, writes, beat, request, last>>
    BY <1>19 DEF MarkTimedOut, LoopFails
  <2> QED
    BY <2>1, <2>2, <2>3 DEF TypeOK, Past, Held
<1>20. CASE Tick
  <2>1. now' \in Times /\ now' = now + 1 /\ now' > now
    BY <1>1, <1>20, Bounds DEF Tick, Times
  <2>2. /\ flushDue' = TRUE
        /\ UNCHANGED <<kind, row, cache, writes, beat, request, loop, last, excused, periods,
                       timedOut, failures>>
    BY <1>20 DEF Tick
  <2>3. now' >= Start
    BY <1>1, <2>1, Bounds DEF Past, Times
  <2>4. /\ row.lastActiveAt <= now' /\ cache.pendingUpdate <= now' /\ last \in 0..now'
        /\ writes \subseteq 1..now'
    BY <1>1, <2>1
  <2>5. \A b \in Beats : beat[b].t <= now'
    BY <1>1, <2>1 DEF Past, TypeOK, Times
  <2>6. \A r \in Requests : request[r].t <= now'
    BY <1>1, <2>1 DEF Past, TypeOK, Times
  <2>7. TypeOK'
    BY <2>1, <2>2, <2>4 DEF TypeOK
  <2> QED
    BY <2>2, <2>3, <2>4, <2>5, <2>6, <2>7 DEF Past, Held
<1> QED
  BY <1>6, <1>7, <1>9, <1>10, <1>11, <1>12, <1>13, <1>14, <1>16, <1>17, <1>18, <1>19, <1>20
  DEF Next
-----------------------------------------------------------------------------
(* Periods of activity.                                                    *)

LEMMA SetRowCounts ==
    ASSUME TypeOK, NEW active \in BOOLEAN, NEW t, SetRow(active, t)
    PROVE  /\ periods'.ended = periods.ended
           /\ periods'.begun - Open(row') >= periods.begun - Open(row)
           /\ Open(row') = IF active THEN 1 ELSE 0
           /\ ~active => periods' = periods
<1>1. row' = [row EXCEPT !.active = active, !.lastActiveAt = t]
  BY DEF SetRow
<1>2. row'.active = active
  BY <1>1 DEF TypeOK, Row
<1>3. Open(row') = IF active THEN 1 ELSE 0
  BY <1>2 DEF Open
<1>4. CASE active /\ ~row.active
  <2>1. periods' = [periods EXCEPT !.begun = @ + 1]
    BY <1>4 DEF SetRow
  <2>2. periods'.ended = periods.ended /\ periods'.begun = periods.begun + 1
    BY <2>1 DEF TypeOK
  <2>3. Open(row') = 1 /\ Open(row) = 0
    BY <1>3, <1>4 DEF Open
  <2>4. periods.begun \in Nat
    BY DEF TypeOK
  <2> QED
    BY <1>3, <1>4, <2>2, <2>3, <2>4
<1>5. CASE ~(active /\ ~row.active)
  <2>1. periods' = periods
    BY <1>5 DEF SetRow
  <2>2. Open(row') <= Open(row)
    BY <1>3, <1>5 DEF Open
  <2>3. periods.begun \in Nat /\ Open(row) \in Nat /\ Open(row') \in Nat
    BY <1>3 DEF TypeOK, Open
  <2> QED
    BY <1>3, <2>1, <2>2, <2>3
<1> QED
  BY <1>4, <1>5

LEMMA PeriodsKept ==
    ASSUME TypeOK, PeriodsCounted, Next
    PROVE  PeriodsCounted'
<1>1. /\ timedOut \in Nat /\ periods.begun \in Nat /\ periods.ended \in Nat
      /\ Open(row) \in 0..1
  BY DEF TypeOK, Open
<1>2. ASSUME UNCHANGED <<row, periods, timedOut>> PROVE PeriodsCounted'
  BY <1>2 DEF PeriodsCounted, Open
<1>3. ASSUME NEW active \in BOOLEAN, NEW t, SetRow(active, t), UNCHANGED timedOut
      PROVE  PeriodsCounted'
  <2>1. periods'.begun \in Nat /\ Open(row') \in 0..1
    <3>1. periods'.begun \in {periods.begun, periods.begun + 1}
      BY <1>3 DEF SetRow, TypeOK
    <3> QED
      BY <1>1, <3>1 DEF Open
  <2> QED
    BY <1>1, <1>3, <2>1, SetRowCounts DEF PeriodsCounted
<1>4. ASSUME NEW t \in writes, WriteActivity(t) \/ WriteFails(t) PROVE PeriodsCounted'
  <2>1. UNCHANGED timedOut /\ (WriteRow(t) \/ UNCHANGED <<row, periods>>)
    BY <1>4 DEF WriteActivity, WriteFails
  <2>2. (row.active \/ kind.reactivates) \in BOOLEAN
    OBVIOUS
  <2> QED
    BY <1>2, <1>3, <2>1, <2>2 DEF WriteRow
<1>5. ASSUME NEW r \in Requests, Update(r) \/ RequestFails(r) PROVE PeriodsCounted'
  <2>1. UNCHANGED timedOut /\ (Apply(r) \/ UNCHANGED <<row, periods>>)
    BY <1>5 DEF Update, RequestFails
  <2>2. CASE Apply(r) /\ row.exists /\ ~kind.ends
    <3>1. SetRow(TRUE, now)
      BY <2>2, Zenon DEF Apply
    <3> QED
      BY <1>3, <2>1, <3>1
  <2>3. CASE Apply(r) /\ row.exists /\ kind.ends
    <3>1. /\ row' = [row EXCEPT !.active = FALSE, !.lastActiveAt = request[r].t]
          /\ periods' = IF row.active THEN [periods EXCEPT !.ended = @ + 1] ELSE periods
      BY <2>3, Zenon DEF Apply
    <3>2. Open(row') = 0
      BY <3>1 DEF Open, TypeOK, Row
    <3>3. periods'.begun = periods.begun /\ periods'.ended = periods.ended + Open(row)
      <4>1. CASE row.active
        BY <1>1, <3>1, <4>1 DEF Open, TypeOK
      <4>2. CASE ~row.active
        BY <1>1, <3>1, <4>2 DEF Open
      <4> QED
        BY <4>1, <4>2
    <3> QED
      BY <1>1, <2>1, <3>2, <3>3 DEF PeriodsCounted
  <2>4. CASE Apply(r) /\ ~row.exists
    BY <1>2, <2>1, <2>4 DEF Apply
  <2> QED
    BY <1>2, <2>1, <2>2, <2>3, <2>4
<1>6. CASE MarkTimedOut
  <2>1. CASE Markable
    <3>1. SetRow(FALSE, row.lastActiveAt) /\ timedOut' = timedOut + 1 /\ Open(row) = 1
      BY <1>6, <2>1 DEF MarkTimedOut, Markable, Open
    <3>2. periods' = periods /\ Open(row') = 0
      BY <3>1, SetRowCounts
    <3> QED
      BY <1>1, <3>1, <3>2 DEF PeriodsCounted
  <2>2. CASE ~Markable
    BY <1>2, <1>6, <2>2 DEF MarkTimedOut
  <2> QED
    BY <2>1, <2>2
<1>7. CASE LoopFails
  BY <1>2, <1>3, <1>7 DEF LoopFails
<1>8. CASE DeleteRow
  <2>1. row'.active = row.active /\ UNCHANGED <<periods, timedOut>>
    BY <1>8 DEF DeleteRow, TypeOK, Row
  <2> QED
    BY <2>1 DEF PeriodsCounted, Open
<1>9. CASE \/ \E b \in Beats : Heartbeat(b) \/ Validate(b) \/ ValidateFails(b)
           \/ Flush \/ Cleanup
           \/ \E r \in Requests : Report(r) \/ Resolve(r)
           \/ FindTimedOut \/ Tick
  BY <1>2, <1>9 DEF Heartbeat, Validate, ValidateFails, Flush, Cleanup, Report, Resolve,
                    FindTimedOut, Tick
<1> QED
  BY <1>4, <1>5, <1>6, <1>7, <1>8, <1>9 DEF Next
-----------------------------------------------------------------------------
(* How far the row lags behind.                                            *)

\* The numbers that Lag compares.
LEMMA LagNumbers ==
    ASSUME TypeOK, Past
    PROVE  /\ row.lastActiveAt \in Nat /\ last \in Nat /\ now \in Nat /\ Threshold \in Nat
           /\ cache.lastUpdateSent \in Nat /\ cache.pendingUpdate \in Nat
           /\ writes \subseteq Nat
           /\ Due \subseteq Nat
<1>1. row.lastActiveAt \in Nat /\ now \in Nat /\ Threshold \in Nat
  BY Bounds DEF TypeOK, Times, Row
<1>2. last \in Nat
  BY <1>1 DEF TypeOK
<1>3. cache.lastUpdateSent \in Nat /\ cache.pendingUpdate \in Nat
  BY Bounds DEF TypeOK, Times, Entry
<1>4. writes \subseteq Nat
  BY Bounds DEF TypeOK, Times
<1> QED
  BY <1>1, <1>2, <1>3, <1>4 DEF Due

\* A heartbeat in its turn: it is now pending, or near what the entry knows to be due.
LEMMA AcceptLags ==
    ASSUME TypeOK, Past, Lag, ~excused', row.exists,
           NEW t \in 1..now, NEW entry \in Entry, entry.held, Accept(t, entry),
           \A d \in Due : entry.lastUpdateSent <= d,
           entry.pendingUpdate # None =>
               /\ entry.pendingUpdate = last
               /\ entry.pendingUpdate > entry.lastUpdateSent + Threshold,
           UNCHANGED <<row, writes>>
    PROVE  Lag'
<1>1. ~excused /\ t >= last /\ last' = t
  <2>1. ~excused /\ ~(t < last) /\ last' = t
    BY Zenon DEF Accept
  <2>2. t \in Int /\ last \in Int
    BY LagNumbers
  <2> QED
    BY <2>1, <2>2
<1>2. /\ \A u, v \in writes : u = v
      /\ \A u \in writes : row.lastActiveAt <= u /\ u <= last
      /\ row.lastActiveAt <= last
  BY <1>1 DEF Lag
<1>3. t \in Nat /\ entry.lastUpdateSent \in Nat /\ entry.pendingUpdate \in Nat
  BY LagNumbers DEF Entry, Times
<1>4. /\ cache'.held /\ cache'.lastUpdateSent = entry.lastUpdateSent
      /\ cache'.pendingUpdate = IF Significant(entry, t) THEN t ELSE entry.pendingUpdate
  BY DEF Accept, Entry
<1>5. Due' = Due
  BY DEF Due
<1>6. \A u \in writes : row.lastActiveAt <= u /\ u <= last'
  BY <1>1, <1>2, <1>3, LagNumbers
<1>7. row.lastActiveAt <= last'
  BY <1>1, <1>2, <1>3, LagNumbers
<1>8. Due # {}
  BY DEF Due
<1>9. entry.lastUpdateSent <= t
  BY <1>1, <1>2, <1>3, <1>8, LagNumbers DEF Due
<1>10. CASE Significant(entry, t)
  <2>1. t > entry.lastUpdateSent + Threshold
    BY <1>3, <1>9, <1>10, LagNumbers DEF Significant
  <2>2. t # None
    BY DEF None
  <2>3. cache'.pendingUpdate = last' /\ cache'.pendingUpdate # None
    BY <1>1, <1>4, <1>10, <2>2
  <2> QED
    BY <1>1, <1>2, <1>4, <1>5, <1>6, <1>7, <1>10, <2>1, <2>3 DEF Lag
<1>11. CASE ~Significant(entry, t)
  <2>1. t <= entry.lastUpdateSent + Threshold
    BY <1>3, <1>11, LagNumbers DEF Significant
  <2>2. entry.pendingUpdate = None
    BY <1>1, <1>3, <2>1, LagNumbers
  <2>3. \A d \in Due : t <= d + Threshold
    BY <1>3, <2>1, LagNumbers
  <2> QED
    BY <1>1, <1>2, <1>4, <1>5, <1>6, <1>7, <1>11, <2>2, <2>3 DEF Lag
<1> QED
  BY <1>10, <1>11

LEMMA LagKept ==
    ASSUME TypeOK, Past, Held, Lag, Next, TypeOK'
    PROVE  Lag'
<1>1. ASSUME UNCHANGED <<row, writes, cache, last>>, excused => excused' PROVE Lag'
  BY <1>1 DEF Lag, Due
<1>2. ASSUME excused' PROVE Lag'
  BY <1>2 DEF Lag
<1>3. ASSUME row'.lastActiveAt = row.lastActiveAt, row'.exists => row.exists,
             UNCHANGED <<writes, cache, last, excused>>
      PROVE  Lag'
  BY <1>3 DEF Lag, Due
<1>4. ASSUME NEW b \in Beats, Heartbeat(b) PROVE Lag'
  <2>1. PICK t \in Reportable :
            IF Hit THEN Accept(t, cache) ELSE UNCHANGED <<cache, last, excused>>
    BY <1>4 DEF Heartbeat
  <2>2. UNCHANGED <<row, writes>>
    BY <1>4 DEF Heartbeat
  <2>3. CASE Hit /\ ~excused' /\ row.exists
    <3>1. Accept(t, cache) /\ cache.held
      BY <2>1, <2>3 DEF Hit
    <3>2. ~excused
      BY <2>3, <3>1 DEF Accept
    <3>3. t \in 1..now
      BY ReportableTimes DEF Times, None
    <3>4. cache \in Entry
      BY DEF TypeOK
    <3>5. /\ \A d \in Due : cache.lastUpdateSent <= d
          /\ cache.pendingUpdate # None =>
                 /\ cache.pendingUpdate = last
                 /\ cache.pendingUpdate > cache.lastUpdateSent + Threshold
      BY <2>3, <3>1, <3>2 DEF Lag
    <3> QED
      BY <2>2, <2>3, <3>1, <3>3, <3>4, <3>5, AcceptLags
  <2>4. CASE excused'
    BY <1>2, <2>4
  <2>5. CASE ~row.exists
    BY <2>2, <2>5 DEF Lag
  <2>6. CASE ~Hit
    BY <1>1, <2>1, <2>2, <2>6
  <2> QED
    BY <2>3, <2>4, <2>5, <2>6
<1>5. ASSUME NEW b \in Beats, Validate(b) PROVE Lag'
  <2>1. UNCHANGED <<row, writes>>
    BY <1>5 DEF Validate
  <2>2. CASE row.exists /\ ~excused'
    <3>1. Accept(beat[b].t, FreshEntry(b))
      BY <1>5, <2>2 DEF Validate
    <3>2. ~excused
      BY <2>2, <3>1 DEF Accept
    <3>3. beat[b].t \in 1..now
      BY <1>5, LagNumbers DEF Validate, TypeOK, Past, Times, None
    <3>4. /\ FreshEntry(b).held /\ FreshEntry(b).pendingUpdate = None
          /\ FreshEntry(b).lastUpdateSent = row.lastActiveAt
      BY DEF FreshEntry
    <3>5. FreshEntry(b) \in Entry
      <4>1. beat[b].asked + TTL \in 0..(MaxTime + TTL)
        BY Bounds DEF TypeOK, Times
      <4>2. row.lastActiveAt \in Times /\ None \in Times
        BY Bounds DEF TypeOK, Row, None, Times
      <4> QED
        BY <4>1, <4>2 DEF FreshEntry, Entry
    <3>6. \A d \in Due : row.lastActiveAt <= d
      BY <2>2, <3>2, LagNumbers DEF Lag, Due
    <3> QED
      BY <2>1, <2>2, <3>1, <3>3, <3>4, <3>5, <3>6, AcceptLags
  <2>3. CASE ~row.exists
    BY <2>1, <2>3 DEF Lag
  <2> QED
    BY <1>2, <2>2, <2>3
<1>6. CASE Flush
  <2>1. UNCHANGED <<row, last>>
    BY <1>6 DEF Flush
  <2>2. CASE cache.held /\ cache.pendingUpdate # None /\ ~excused' /\ row.exists
    <3> DEFINE t == cache.pendingUpdate
    <3>1. ~excused /\ writes = {} /\ writes' = {t}
      BY <1>6, <2>2 DEF Flush
    <3>2. cache' = [cache EXCEPT !.lastUpdateSent = t, !.pendingUpdate = None]
      BY <1>6, <2>2 DEF Flush
    <3>3. cache'.lastUpdateSent = t /\ cache'.pendingUpdate = None
      BY <3>2 DEF TypeOK, Entry
    <3>4. t = last /\ row.lastActiveAt <= last
      BY <2>2, <3>1 DEF Lag
    <3>5. Due' = {t}
      BY <3>1 DEF Due
    <3> QED
      BY <2>1, <3>1, <3>3, <3>4, <3>5, LagNumbers DEF Lag
  <2>3. CASE ~row.exists
    BY <2>1, <2>3 DEF Lag
  <2>4. CASE ~(cache.held /\ cache.pendingUpdate # None)
    BY <1>1, <1>6, <2>1, <2>4 DEF Flush
  <2> QED
    BY <1>2, <2>2, <2>3, <2>4
<1>7. CASE Cleanup
  <2>1. cache' = Empty /\ UNCHANGED <<row, writes, last>>
    BY <1>7 DEF Cleanup
  <2>2. ~cache'.held /\ Due' = Due
    BY <2>1 DEF Empty, Due
  <2>3. ~excused' => ~excused /\ cache.pendingUpdate = None
    BY <1>7 DEF Cleanup
  <2> QED
    BY <2>1, <2>2, <2>3 DEF Lag
<1>8. ASSUME NEW t \in writes, WriteActivity(t) PROVE Lag'
  <2>1. CASE row.exists /\ ~excused
    <3>1. writes = {t} /\ writes' = {} /\ row.lastActiveAt <= t /\ t <= last
      BY <1>8, <2>1 DEF WriteActivity, Lag
    <3>2. row'.lastActiveAt = t
      BY <1>8, <2>1 DEF WriteActivity, WriteRow, SetRow, TypeOK, Row
    <3>3. Due = {t} /\ Due' = {t}
      BY <3>1, <3>2 DEF Due
    <3>4. UNCHANGED <<cache, last, excused>>
      BY <1>8 DEF WriteActivity
    <3> QED
      BY <2>1, <3>1, <3>2, <3>3, <3>4 DEF Lag
  <2>2. CASE ~row.exists
    BY <1>8, <2>2 DEF WriteActivity, WriteRow, Lag
  <2>3. CASE excused
    BY <1>2, <1>8, <2>3 DEF WriteActivity
  <2> QED
    BY <2>1, <2>2, <2>3
<1>9. CASE DeleteRow
  <2>1. ~row'.exists
    BY <1>9 DEF DeleteRow, TypeOK, Row
  <2> QED
    BY <2>1 DEF Lag
<1>10. CASE MarkTimedOut
  <2>1. UNCHANGED row \/ SetRow(FALSE, row.lastActiveAt)
    BY <1>10 DEF MarkTimedOut
  <2>2. row'.lastActiveAt = row.lastActiveAt /\ row'.exists = row.exists
    BY <2>1 DEF SetRow, TypeOK, Row
  <2> QED
    BY <1>3, <1>10, <2>2 DEF MarkTimedOut
<1>11. CASE \/ \E b \in Beats : ValidateFails(b)
            \/ \E t \in writes : WriteFails(t)
            \/ \E r \in Requests : Update(r) \/ RequestFails(r)
            \/ LoopFails
  <2>1. excused' = TRUE
    BY <1>11 DEF ValidateFails, WriteFails, Update, RequestFails, LoopFails, Fails
  <2> QED
    BY <1>2, <2>1
<1>12. CASE \/ \E r \in Requests : Report(r) \/ Resolve(r)
            \/ FindTimedOut \/ Tick
  BY <1>1, <1>12 DEF Report, Resolve, FindTimedOut, Tick
<1> QED
  BY <1>4, <1>5, <1>6, <1>7, <1>8, <1>9, <1>10, <1>11, <1>12 DEF Next
-----------------------------------------------------------------------------
LEMMA InitHolds == ASSUME Init PROVE IInv
<1>1. TypeOK
  <2>1. row \in Row /\ row.lastActiveAt <= now
    BY Bounds DEF Init, Row, Times
  <2>2. Empty \in Entry /\ Empty.pendingUpdate <= now
    BY Bounds DEF Init, Empty, Entry, None, Times
  <2>3. beat \in [Beats -> [pc : {"new", "validate", "done"}, t : Times, asked : Times]]
    BY Bounds DEF Init, Times
  <2>4. request \in [Requests -> [pc : {"new", "resolve", "update", "done"}, t : Times]]
    BY Bounds DEF Init, Times
  <2>5. now \in Times /\ last \in 0..now /\ failures \in 0..MaxFailures
    BY Bounds DEF Init, Times
  <2>6. periods \in [begun : Nat, ended : Nat]
    BY DEF Init
  <2> QED
    BY <2>1, <2>2, <2>3, <2>4, <2>5, <2>6 DEF Init, TypeOK
<1>2. Past
  BY Bounds DEF Init, Past, Times
<1>3. PeriodsCounted
  <2>1. kind = Session => row.active /\ periods.begun = 1
    BY DEF Init
  <2>2. kind # Session => ~row.active /\ periods.begun = 0
    BY DEF Init
  <2>3. timedOut = 0 /\ periods.ended = 0
    BY DEF Init
  <2> QED
    BY <2>1, <2>2, <2>3 DEF PeriodsCounted, Open
<1>4. Held
  BY DEF Init, Held, Empty
<1>5. Lag
  BY Bounds DEF Init, Lag, Due, Empty, Times
<1> QED
  BY <1>1, <1>2, <1>3, <1>4, <1>5 DEF IInv

LEMMA IInvKept == ASSUME IInv, [Next]_vars PROVE IInv'
<1>1. CASE UNCHANGED vars
  BY <1>1 DEF vars, IInv, TypeOK, Past, PeriodsCounted, Open, Held, Lag, Due
<1>2. CASE Next
  BY <1>2, TypesKept, PeriodsKept, LagKept DEF IInv
<1> QED
  BY <1>1, <1>2

THEOREM InvariantHolds == Spec => []IInv
BY InitHolds, IInvKept, PTL DEF Spec

\* Every time that is stored, cached or about to be written is of the past, whatever
\* clients report and however handlers, timers and failures overlap.
THEOREM TypesAlways == Spec => []TypeOK
<1>1. IInv => TypeOK
  BY DEF IInv
<1> QED
  BY <1>1, InvariantHolds, PTL

\* The loop announces the end of a period only if session-end did not end it, however
\* often the row becomes active again between the loop's query and its update.
THEOREM PeriodsEndOnce == Spec => []EndsOncePerPeriod
<1>1. ASSUME IInv PROVE EndsOncePerPeriod
  <2>1. timedOut + periods.ended + Open(row) <= periods.begun
    BY <1>1 DEF IInv, PeriodsCounted
  <2>2. /\ timedOut \in Nat /\ periods.begun \in Nat /\ periods.ended \in Nat
        /\ Open(row) \in 0..1
    BY <1>1 DEF IInv, TypeOK, Open
  <2> QED
    BY <2>1, <2>2 DEF EndsOncePerPeriod
<1> QED
  BY <1>1, InvariantHolds, PTL

\* Whatever TTL and threshold are, and however far back the reported times lie: once
\* nothing is pending or being written, the row is at most the threshold behind the
\* last heartbeat, if heartbeats were processed in the order of their times and nothing
\* else excuses it.
THEOREM RowIsNear == Spec => []LagBounded
<1>1. ASSUME IInv, Quiet, ~excused, row.exists PROVE row.lastActiveAt >= last - Threshold
  <2>1. TypeOK /\ Past /\ Lag
    BY <1>1 DEF IInv
  <2>2. Due = {row.lastActiveAt}
    BY <1>1 DEF Quiet, Due
  <2>3. last <= row.lastActiveAt + Threshold
    BY <1>1, <2>1, <2>2 DEF Quiet, Lag
  <2> QED
    BY <2>1, <2>3, LagNumbers
<1>2. IInv => LagBounded
  BY <1>1 DEF LagBounded
<1> QED
  BY <1>2, InvariantHolds, PTL
=============================================================================
