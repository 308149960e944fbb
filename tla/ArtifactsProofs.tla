--------------------------- MODULE ArtifactsProofs ---------------------------
(***************************************************************************)
(* Theorems about Artifacts, for any calls, accounts and failures.         *)
(***************************************************************************)
EXTENDS Artifacts, TLAPS

TypedCalls == /\ call \in [Calls -> Call]
              /\ \A c \in Calls : call[c].pc = "announce" => call[c].event # "none"

\* Whatever a call becomes, it has the type of one if what it becomes has.
LEMMA CallBecomes ==
    ASSUME TypedCalls, NEW c \in Calls, NEW k \in Call, call' = [call EXCEPT ![c] = k],
           k.pc = "announce" => k.event # "none"
    PROVE  TypedCalls'
BY DEF TypedCalls

\* Where a call is going to has the type of a call.
LEMMA CallTypes ==
    ASSUME TypedCalls, NEW c \in Calls,
           \/ \E pc \in Points \ {"announce"} : GoTo(c, pc)
           \/ \E pc \in Points \ {"announce"} : Answer(c, pc)
           \/ \E event \in Events \ {"none"}, life \in Nat : GoTell(c, event, life)
    PROVE  TypedCalls'
<1>0. call \in [Calls -> Call] /\ call[c] \in Call
  BY DEF TypedCalls
<1>1. ASSUME NEW pc \in Points \ {"announce"}, GoTo(c, pc) PROVE TypedCalls'
  <2> DEFINE k == [call[c] EXCEPT !.pc = pc]
  <2>1. k \in Call /\ k.pc = pc
    BY <1>0 DEF Call
  <2>2. call' = [call EXCEPT ![c] = k]
    BY <1>0, <1>1 DEF GoTo
  <2> HIDE DEF k
  <2> QED
    BY <2>1, <2>2, CallBecomes
<1>2. ASSUME NEW pc \in Points \ {"announce"}, Answer(c, pc) PROVE TypedCalls'
  <2> DEFINE k == [NoCall EXCEPT !.pc = pc]
  <2>1. k \in Call /\ k.pc = pc
    BY DEF NoCall, NoVersions, Call, Vias, Parts, Events
  <2>2. call' = [call EXCEPT ![c] = k]
    BY <1>2 DEF Answer
  <2> HIDE DEF k
  <2> QED
    BY <2>1, <2>2, CallBecomes
<1>3. ASSUME NEW event \in Events \ {"none"}, NEW life \in Nat, GoTell(c, event, life)
      PROVE  TypedCalls'
  <2> DEFINE k == [call[c] EXCEPT !.pc = "announce", !.event = event, !.life = life]
  <2>1. k \in Call /\ k.event = event
    BY <1>0 DEF Call, Points
  <2>2. call' = [call EXCEPT ![c] = k]
    BY <1>0, <1>3 DEF GoTell
  <2> HIDE DEF k
  <2> QED
    BY <2>1, <2>2, CallBecomes
<1> QED
  BY <1>1, <1>2, <1>3

\* A read, which may fill in the versions to expect, keeps the calls' types.
LEMMA LearnTypes ==
    ASSUME TypeOK, NEW c \in Calls, LearnVersions(c)
    PROVE  TypedCalls'
<1>0. TypedCalls /\ call[c] \in Call /\ row.version \in [Parts -> Nat]
  BY DEF TypeOK, TypedCalls
<1>1. CASE Answer(c, "missing")
  BY <1>0, <1>1, CallTypes DEF Points
<1>2. CASE call' = [call EXCEPT ![c].pc = "check",
                                ![c].base = [p \in Parts |-> IF p \in call[c].parts
                                                            THEN row.version[p] ELSE 0]]
  <2> DEFINE b == [p \in Parts |-> IF p \in call[c].parts THEN row.version[p] ELSE 0]
             k == [call[c] EXCEPT !.pc = "check", !.base = b]
  <2>1. b \in [Parts -> Nat]
    BY <1>0
  <2>3. call' = [call EXCEPT ![c] = k]
    BY <1>0, <1>2 DEF TypedCalls
  <2> HIDE DEF b
  <2>2. k \in Call /\ k.pc = "check"
    BY <1>0, <2>1 DEF Call, Points
  <2> HIDE DEF k
  <2> QED
    BY <1>0, <2>2, <2>3, CallBecomes
<1> QED
  BY <1>1, <1>2 DEF LearnVersions

\* A request that begins, and a check that keeps the row's seq, keep them as well.
LEMMA BeginTypes ==
    ASSUME TypeOK, NEW c \in Calls, Begin(c)
    PROVE  TypedCalls'
<1>1. PICK v \in Vias, a \in Accounts, parts \in SUBSET Parts, pc \in {"read", "find", "locate"} :
          call' = [call EXCEPT ![c] = Request(pc, v, a, parts)]
  BY DEF Begin
<1>2. Request(pc, v, a, parts) \in Call /\ Request(pc, v, a, parts).pc = pc
  BY DEF Request, NoCall, NoVersions, Call, Points, Events
<1> QED
  BY <1>1, <1>2, CallBecomes DEF TypeOK, TypedCalls

LEMMA CheckTypes ==
    ASSUME TypeOK, NEW c \in Calls, CheckVersions(c)
    PROVE  TypedCalls'
<1>0. TypedCalls /\ call[c] \in Call /\ row.seq \in Nat
  BY DEF TypeOK, TypedCalls
<1>1. ASSUME NEW reply \in {"missing", "mismatch"}, Answer(c, reply)
      PROVE  TypedCalls'
  BY <1>0, <1>1, CallTypes DEF Points
<1>2. CASE call' = [call EXCEPT ![c].pc = "write", ![c].seq = row.seq]
  <2> DEFINE k == [call[c] EXCEPT !.pc = "write", !.seq = row.seq]
  <2>1. k \in Call /\ k.pc = "write"
    BY <1>0 DEF Call, Points
  <2>2. call' = [call EXCEPT ![c] = k]
    BY <1>0, <1>2 DEF TypedCalls
  <2> HIDE DEF k
  <2> QED
    BY <1>0, <2>1, <2>2, CallBecomes
<1> QED
  BY <1>1, <1>2 DEF CheckVersions

\* The steps that go on, to an announcement or elsewhere, or answer.
LEMMA OtherTypes ==
    ASSUME TypeOK, NEW c \in Calls,
           \/ FindExisting(c) \/ InsertRow(c) \/ HttpWrite(c) \/ SocketWrite(c) \/ Refetch(c)
           \/ Locate(c) \/ DeleteRow(c) \/ Fail(c)
    PROVE  TypedCalls'
<1>1. row.inc \in Nat /\ row.inc + 1 \in Nat /\ TypedCalls
  BY DEF TypeOK, TypedCalls
<1>2. \/ \E pc \in Points \ {"announce"} : GoTo(c, pc)
      \/ \E pc \in Points \ {"announce"} : Answer(c, pc)
      \/ \E event \in Events \ {"none"}, life \in Nat : GoTell(c, event, life)
  BY <1>1 DEF FindExisting, InsertRow, HttpWrite, SocketWrite, Refetch, Locate, DeleteRow, Fail,
         Points, Events
<1> QED
  BY <1>1, <1>2, CallTypes

\* The end of a call, which keeps what it announced.
LEMMA AnnounceTypes ==
    ASSUME TypeOK, NEW c \in Calls, Announce(c)
    PROVE  TypedCalls'
<1> DEFINE e == call[c].event
           k == [NoCall EXCEPT !.pc = Success[e], !.event = e, !.life = call[c].life]
<1>1. e \in {"new", "update", "delete"} /\ call[c].life \in Nat
  BY DEF TypeOK, Call, Events, Announce
<1>2. Success[e] \in {"created", "updated", "deleted"}
  BY <1>1 DEF Success
<1>3. k \in Call /\ k.event # "none"
  BY <1>1, <1>2 DEF NoCall, NoVersions, Call, Vias, Points, Events
<1>4. call' = [call EXCEPT ![c] = k]
  BY DEF Announce
<1> HIDE DEF k
<1> QED
  BY <1>3, <1>4, CallBecomes DEF TypeOK, TypedCalls

LEMMA HandleTypes ==
    ASSUME TypeOK, NEW c \in Calls, Begin(c) \/ Handle(c) \/ Fail(c)
    PROVE  TypedCalls'
BY BeginTypes, LearnTypes, CheckTypes, OtherTypes, AnnounceTypes
DEF Handle, HttpRead, SocketRead, HttpFindExisting, SocketFindExisting, HttpInsert, SocketInsert,
    HttpCheck, SocketCheck, HttpLocate, SocketLocate, HttpDelete, SocketDelete
-----------------------------------------------------------------------------
(* The row, by what a step does to it.                                     *)

\* A write replaces versions of some parts in place.
Writes(c) == row.live /\ WriteParts(c)

\* It changes them by one when the versions are those expected, and otherwise marks
\* that it did not.
Careful(c) == \/ \A p \in call[c].parts : Expects(c, p)
              \/ stale'

LeavesRow == UNCHANGED <<row, wins, stale>>

\* Every step writes, inserts, deletes or leaves the row; `stale` never goes back.
LEMMA RowSteps ==
    ASSUME NEW c \in Calls, Begin(c) \/ Handle(c) \/ Fail(c), stale \in BOOLEAN
    PROVE  \/ Writes(c) /\ Careful(c) /\ (stale => stale') /\ stale' \in BOOLEAN
           \/ Inserts(c)
           \/ Deletes
           \/ LeavesRow
<1>1. CASE Begin(c)
  BY <1>1 DEF Begin, LeavesRow
<1>2. CASE HttpRead(c) \/ SocketRead(c) \/ HttpCheck(c) \/ SocketCheck(c)
  BY <1>2 DEF HttpRead, SocketRead, HttpCheck, SocketCheck, LearnVersions, CheckVersions, LeavesRow
<1>3. CASE HttpFindExisting(c) \/ SocketFindExisting(c) \/ HttpLocate(c) \/ SocketLocate(c)
  BY <1>3 DEF HttpFindExisting, SocketFindExisting, HttpLocate, SocketLocate, FindExisting, Locate,
              LeavesRow
<1>4. CASE HttpInsert(c) \/ SocketInsert(c)
  BY <1>4 DEF HttpInsert, SocketInsert, InsertRow, LeavesRow
<1>5. CASE HttpDelete(c) \/ SocketDelete(c)
  BY <1>5 DEF HttpDelete, SocketDelete, DeleteRow, LeavesRow
<1>6. CASE HttpWrites(c)
  BY <1>6 DEF HttpWrites, Writes, Careful
<1>7. CASE SocketWrites(c)
  BY <1>7 DEF SocketWrites, Where, Owned, Writes, Careful
<1>8. CASE HttpWrite(c) \/ SocketWrite(c)
  BY <1>6, <1>7, <1>8 DEF HttpWrite, SocketWrite, LeavesRow
<1>9. CASE Refetch(c) \/ Announce(c)
  BY <1>9 DEF Refetch, Announce, LeavesRow
<1>10. CASE Fail(c)
  BY <1>6, <1>7, <1>10 DEF Fail, LeavesRow
<1> QED
  BY <1>1, <1>2, <1>3, <1>4, <1>5, <1>8, <1>9, <1>10 DEF Handle

\* Failures are bounded.
LEMMA FailureTypes ==
    ASSUME ArtifactsAssumption, TypeOK, NEW c \in Calls, Begin(c) \/ Handle(c) \/ Fail(c)
    PROVE  failures' \in 0..MaxFailures
<1>1. UNCHANGED failures \/ (failures < MaxFailures /\ failures' = failures + 1)
  BY DEF Begin, Fail, Handle, HttpRead, SocketRead, HttpFindExisting, SocketFindExisting, HttpInsert,
         SocketInsert, HttpCheck, SocketCheck, HttpWrite, SocketWrite, Refetch, HttpLocate,
         SocketLocate, HttpDelete, SocketDelete, LearnVersions, FindExisting, InsertRow,
         CheckVersions, Locate, DeleteRow, Announce
<1> QED
  BY <1>1 DEF TypeOK, ArtifactsAssumption
-----------------------------------------------------------------------------
(* Type correctness.                                                       *)

Row == [live : BOOLEAN, owner : Accounts \cup {NoAccount}, inc : Nat,
        version : [Parts -> Nat], seq : Nat]

Win == [by : Calls, inc : Nat, part : Parts, version : Nat]

LEMMA InitTypes == ASSUME ArtifactsAssumption, Init PROVE TypeOK
<1>1. row \in Row
  <2>1. NoRow(0) \in Row
    BY DEF NoRow, NoVersions, Row
  <2>2. \A a \in Accounts : NewRow(a, 0) \in Row
    BY DEF NewRow, Row
  <2> QED
    BY <2>1, <2>2 DEF Init
<1>2. call \in [Calls -> Call]
  BY DEF Init, NoCall, NoVersions, Call, Points, Vias, Events
<1>3. \A c \in Calls : call[c].pc # "announce"
  BY DEF Init, NoCall
<1> QED
  <2>1. failures \in 0..MaxFailures
    BY DEF Init, ArtifactsAssumption
  <2>2. wins = {} /\ stale \in BOOLEAN
    BY DEF Init
  <2> QED
    BY <1>1, <1>2, <1>3, <2>1, <2>2 DEF TypeOK, Row

LEMMA WriteTypes ==
    ASSUME TypeOK, NEW c \in Calls, WriteParts(c)
    PROVE  row' \in Row /\ wins' \subseteq Win
<1> DEFINE ver == [p \in Parts |-> IF p \in call[c].parts THEN call[c].base[p] + 1
                                   ELSE row.version[p]]
           new == {[by |-> c, inc |-> row.inc, part |-> p,
                    version |-> call[c].base[p] + 1] : p \in call[c].parts}
<1>1. /\ call[c].seq \in Nat
      /\ call[c].base \in [Parts -> Nat]
      /\ call[c].parts \subseteq Parts
  BY DEF TypeOK, Call
<1>2. ver \in [Parts -> Nat] /\ call[c].seq + 1 \in Nat
  BY <1>1 DEF TypeOK
<1>3. new \subseteq Win
  BY <1>1 DEF TypeOK, Win
<1>4. row' = [row EXCEPT !.version = ver, !.seq = call[c].seq + 1] /\ wins' = wins \cup new
  BY DEF WriteParts
<1> HIDE DEF ver, new
<1>5. row' \in Row
  BY <1>2, <1>4 DEF TypeOK, Row
<1> QED
  BY <1>3, <1>4, <1>5 DEF TypeOK, Win

LEMMA NextTypes == ASSUME ArtifactsAssumption, TypeOK, [Next]_vars PROVE TypeOK'
<1>1. CASE UNCHANGED vars
  BY <1>1 DEF vars, TypeOK
<1>2. SUFFICES ASSUME NEW c \in Calls, Begin(c) \/ Handle(c) \/ Fail(c)
               PROVE  TypeOK'
  BY <1>1 DEF Next
<1>3. TypedCalls' /\ failures' \in 0..MaxFailures
  BY <1>2, HandleTypes, FailureTypes
<1>4. CASE Writes(c) /\ Careful(c) /\ (stale => stale') /\ stale' \in BOOLEAN
  BY <1>3, <1>4, WriteTypes DEF Writes, TypeOK, TypedCalls, Row, Win
<1>5. CASE Inserts(c)
  <2>1. call[c].account \in Accounts \cup {NoAccount} /\ row.inc + 1 \in Nat
    BY DEF TypeOK, Call
  <2>2. row' \in Row
    BY <1>5, <2>1 DEF Inserts, NewRow, Row
  <2> QED
    BY <1>3, <1>5, <2>2 DEF Inserts, TypeOK, TypedCalls, Row
<1>6. CASE Deletes
  <2>1. row' \in Row
    BY <1>6 DEF Deletes, NoRow, NoVersions, TypeOK, Row
  <2> QED
    BY <1>3, <1>6, <2>1 DEF Deletes, TypeOK, TypedCalls, Row
<1>7. CASE LeavesRow
  BY <1>3, <1>7 DEF LeavesRow, TypeOK, TypedCalls
<1> QED
  BY <1>2, <1>4, <1>5, <1>6, <1>7, RowSteps DEF TypeOK

\* The rows, the calls and the histories keep their types, whatever the calls are.
THEOREM Types == ASSUME ArtifactsAssumption PROVE Spec => []TypeOK
<1>1. Init => TypeOK
  BY InitTypes
<1>2. TypeOK /\ [Next]_vars => TypeOK'
  BY NextTypes
<1> QED
  BY <1>1, <1>2, PTL DEF Spec
-----------------------------------------------------------------------------
(* No update is lost.                                                      *)

\* Why: what was written is never newer than the row, so that a write which
\* replaces the row's versions writes versions nobody wrote before.
Bounded(w) == /\ w.inc <= row.inc
              /\ row.live /\ w.inc = row.inc => w.version <= row.version[w.part]

WinsBounded == \A w \in wins : Bounded(w)

IInv == TypeOK /\ (stale \/ (WinsBounded /\ Distinct))

LEMMA WriteKeeps ==
    ASSUME TypeOK, NEW c \in Calls, WinsBounded, Distinct, row.live, WriteParts(c),
           \A p \in call[c].parts : Expects(c, p)
    PROVE  WinsBounded' /\ Distinct'
<1> DEFINE ver == [p \in Parts |-> IF p \in call[c].parts THEN call[c].base[p] + 1
                                   ELSE row.version[p]]
           win(p) == [by |-> c, inc |-> row.inc, part |-> p, version |-> call[c].base[p] + 1]
<1>1. row' = [row EXCEPT !.version = ver, !.seq = call[c].seq + 1]
  BY DEF WriteParts
<1>2. wins' = wins \cup {win(p) : p \in call[c].parts}
  BY DEF WriteParts
<1>3. /\ call[c].parts \subseteq Parts
      /\ row.inc \in Nat
      /\ row.version \in [Parts -> Nat]
      /\ \A w \in wins : w.inc \in Nat /\ w.part \in Parts /\ w.version \in Nat
      /\ \A p \in call[c].parts : call[c].base[p] = row.version[p]
  BY DEF TypeOK, Call, Expects
<1>4. row'.inc = row.inc /\ row'.live = row.live /\ row'.version = ver
  BY <1>1 DEF TypeOK
<1>5. \A p \in Parts : row.version[p] <= ver[p] /\ (p \in call[c].parts => ver[p] = row.version[p] + 1)
  BY <1>3
<1>6. \A p \in call[c].parts : /\ win(p).inc = row.inc
                               /\ win(p).part = p
                               /\ win(p).version = row.version[p] + 1
  BY <1>3
<1>7. \A w \in wins, p \in call[c].parts :
          ~(w.inc = row.inc /\ w.part = p /\ w.version = row.version[p] + 1)
  BY <1>3 DEF WinsBounded, Bounded
<1> HIDE DEF ver, win
<1>8. WinsBounded'
  <2>1. ASSUME NEW w \in wins PROVE Bounded(w)'
    <3>1. w.version <= row.version[w.part] => w.version <= ver[w.part]
      <4>1. w.version \in Nat /\ w.part \in Parts
        BY <1>3
      <4>2. row.version[w.part] <= ver[w.part] /\ row.version[w.part] \in Nat
        BY <1>3, <1>5, <4>1
      <4>3. ver[w.part] \in Nat
        BY <1>3, <4>1 DEF ver
      <4> QED
        BY <4>1, <4>2, <4>3
    <3> QED
      BY <1>3, <1>4, <3>1 DEF Bounded, WinsBounded
  <2>2. \A p \in call[c].parts : win(p).inc = row.inc /\ win(p).version = ver[win(p).part]
    BY <1>3, <1>5, <1>6
  <2>3. \A p \in call[c].parts : ver[win(p).part] \in Nat
    BY <1>3, <1>6, <2>2
  <2>4. SUFFICES ASSUME NEW w \in wins' PROVE Bounded(w)'
    BY DEF WinsBounded
  <2>5. CASE w \in wins
    BY <2>1, <2>5
  <2>6. CASE \E p \in call[c].parts : w = win(p)
    BY <1>3, <1>4, <2>2, <2>3, <2>6 DEF Bounded
  <2> QED
    BY <1>2, <2>4, <2>5, <2>6
<1>9. Distinct'
  BY <1>2, <1>6, <1>7 DEF Distinct
<1> QED
  BY <1>8, <1>9

LEMMA RowKeeps ==
    ASSUME TypeOK, NEW c \in Calls, WinsBounded, Inserts(c) \/ Deletes \/ LeavesRow
    PROVE  WinsBounded'
<1>1. \A w \in wins : w.inc \in Nat
  BY DEF TypeOK
<1>2. row.inc \in Nat
  BY DEF TypeOK
<1>3. CASE Inserts(c)
  BY <1>1, <1>2, <1>3 DEF Inserts, NewRow, WinsBounded, Bounded
<1>4. CASE Deletes
  BY <1>1, <1>2, <1>4 DEF Deletes, NoRow, WinsBounded, Bounded
<1>5. CASE LeavesRow
  BY <1>5 DEF LeavesRow, WinsBounded, Bounded
<1> QED
  BY <1>3, <1>4, <1>5

LEMMA IInvKept == ASSUME ArtifactsAssumption, IInv, [Next]_vars PROVE IInv'
<1>1. TypeOK'
  BY NextTypes DEF IInv
<1>2. CASE UNCHANGED vars
  BY <1>1, <1>2 DEF vars, IInv, WinsBounded, Bounded, Distinct
<1>3. SUFFICES ASSUME NEW c \in Calls, Begin(c) \/ Handle(c) \/ Fail(c)
               PROVE  stale' \/ (WinsBounded' /\ Distinct')
  BY <1>1, <1>2 DEF Next, IInv
<1>4. \/ Writes(c) /\ Careful(c) /\ (stale => stale') /\ stale' \in BOOLEAN
      \/ Inserts(c)
      \/ Deletes
      \/ LeavesRow
  BY <1>3, RowSteps DEF IInv, TypeOK
<1>5. CASE stale
  BY <1>4, <1>5 DEF Inserts, Deletes, LeavesRow
<1>6. CASE ~stale /\ Writes(c) /\ Careful(c)
  BY <1>6, WriteKeeps DEF IInv, Writes, Careful
<1>7. CASE ~stale /\ (Inserts(c) \/ Deletes \/ LeavesRow)
  <2>1. Distinct'
    BY <1>7 DEF IInv, Distinct, Inserts, Deletes, LeavesRow
  <2> QED
    BY <1>7, <2>1, RowKeeps DEF IInv
<1> QED
  BY <1>4, <1>5, <1>6, <1>7

\* However many sockets and HTTP clients write one artifact, and however often it is
\* deleted and created again meanwhile: two of them both replace one version only if
\* an HTTP update wrote over a version it had not read.
THEOREM NoLostUpdateHolds == ASSUME ArtifactsAssumption PROVE Spec => []NoLostUpdate
<1>1. Init => IInv
  BY InitTypes DEF Init, IInv, WinsBounded, Distinct
<1>2. IInv /\ [Next]_vars => IInv'
  BY IInvKept
<1>3. IInv => NoLostUpdate
  BY DEF IInv, NoLostUpdate
<1> QED
  BY <1>1, <1>2, <1>3, PTL DEF Spec
-----------------------------------------------------------------------------
(* Every life is announced, and once.                                      *)

Lives == {"new", "delete"}

\* Why: a life is announced as new only if the id has had it, and as deleted only once it
\* is over.
ToldOfLives ==
    \A c \in Calls, life \in Nat :
        /\ Tells(c, "new", life) => life <= row.inc
        /\ Tells(c, "delete", life) => life <= row.inc /\ (life = row.inc => ~row.live)

ToldOnce ==
    \A c, d \in Calls, event \in Lives, life \in Nat :
        Tells(c, event, life) /\ Tells(d, event, life) => c = d

ToldAll ==
    failures = 0 => \A life \in 1..row.inc :
        /\ \E c \in Calls : Tells(c, "new", life)
        /\ life < row.inc \/ ~row.live => \E c \in Calls : Tells(c, "delete", life)

LivesIInv == TypeOK /\ ToldOfLives /\ ToldOnce /\ ToldAll

\* What a step makes the call tell: this and nothing before, or nothing more.
TellsNow(c, event, life) ==
    /\ \A e \in Lives, l \in Nat : ~Tells(c, e, l)
    /\ \A e \in Lives, l \in Nat : Tells(c, e, l)' => e = event /\ l = life
    /\ Tells(c, event, life)'

TellsNoMore(c) == \A e \in Lives, l \in Nat : Tells(c, e, l)' => Tells(c, e, l)
TellsNoLess(c) == \A e \in Lives, l \in Nat : Tells(c, e, l) => Tells(c, e, l)'

SameLife == row'.inc = row.inc /\ row'.live = row.live

\* A call begins or ends a life and will tell of it, or it fails, or it does neither.
Step(c) ==
    /\ \A d \in Calls \ {c} : call'[d] = call[d]
    /\ \/ \E life \in Nat : life = row.inc + 1 /\ Inserts(c) /\ TellsNow(c, "new", life)
       \/ \E life \in Nat : life = row.inc /\ Deletes /\ TellsNow(c, "delete", life)
       \/ SameLife /\ TellsNoMore(c) /\ TellsNoLess(c)
       \/ /\ SameLife \/ Inserts(c) \/ Deletes
          /\ TellsNoMore(c)
          /\ failures' # 0

LEMMA CallSteps ==
    ASSUME TypeOK, NEW c \in Calls, Begin(c) \/ Handle(c) \/ Fail(c)
    PROVE  Step(c)
<1> DEFINE Same == \A d \in Calls \ {c} : call'[d] = call[d]
           Silent == {"idle", "read", "find", "check", "locate", "insert", "write", "delete",
                      "refetch", "existing", "conflict", "mismatch", "missing", "error"}
<1>0. /\ call \in [Calls -> Call] /\ row \in Row /\ failures \in Nat
      /\ call[c].pc = "announce" => call[c].event # "none"
  BY DEF TypeOK, Row
<1>1. ASSUME NEW pc, GoTo(c, pc) PROVE Same /\ call'[c].pc = pc
  BY <1>0, <1>1 DEF GoTo, Call
<1>2. ASSUME NEW pc, Answer(c, pc) PROVE Same /\ call'[c].pc = pc
  BY <1>0, <1>2 DEF Answer, NoCall
<1>3. call[c].pc \in Silent => \A e \in Lives, l \in Nat : ~Tells(c, e, l)
  BY DEF Tells, Success, Lives
<1>4. call'[c].pc \in Silent => \A e \in Lives, l \in Nat : ~Tells(c, e, l)'
  BY DEF Tells, Success, Lives
<1>5. ASSUME NEW e \in Events \ {"none"}, NEW l \in Nat, GoTell(c, e, l), call[c].pc \in Silent
      PROVE  Same /\ TellsNow(c, e, l)
  <2>1. Same /\ call'[c].pc = "announce" /\ call'[c].event = e /\ call'[c].life = l
    BY <1>0, <1>5 DEF GoTell, Call
  <2> QED
    BY <1>3, <1>5, <2>1 DEF Tells, TellsNow, Lives, Success, Events
<1>6. ASSUME Same, call[c].pc \in Silent, call'[c].pc \in Silent, SameLife
      PROVE  Step(c)
  BY <1>3, <1>4, <1>6 DEF Step, TellsNoMore, TellsNoLess
<1> HIDE DEF Same
<1>7. LeavesRow => SameLife
  BY DEF LeavesRow, SameLife
<1>8. CASE Begin(c)
  <2>1. Same /\ call[c].pc = "idle" /\ call'[c].pc \in {"read", "find", "locate"}
    BY <1>0, <1>8 DEF Begin, Request, NoCall, Same
  <2> QED
    BY <1>6, <1>8, <2>1 DEF Begin, SameLife
<1>9. CASE HttpRead(c) \/ SocketRead(c) \/ HttpCheck(c) \/ SocketCheck(c)
  <2>1. \/ Answer(c, "missing") \/ Answer(c, "mismatch")
        \/ \E b : call' = [call EXCEPT ![c].pc = "check", ![c].base = b]
        \/ \E q : call' = [call EXCEPT ![c].pc = "write", ![c].seq = q]
    BY <1>9 DEF HttpRead, SocketRead, LearnVersions, HttpCheck, SocketCheck, CheckVersions
  <2>3. ASSUME NEW b, call' = [call EXCEPT ![c].pc = "check", ![c].base = b]
        PROVE  Same /\ call'[c].pc = "check"
    BY <1>0, <2>3 DEF Call, Same
  <2>4. ASSUME NEW q, call' = [call EXCEPT ![c].pc = "write", ![c].seq = q]
        PROVE  Same /\ call'[c].pc = "write"
    BY <1>0, <2>4 DEF Call, Same
  <2>5. Same /\ call'[c].pc \in {"missing", "mismatch", "check", "write"}
    BY <1>2, <2>1, <2>3, <2>4
  <2>2. call[c].pc \in Silent /\ SameLife
    BY <1>9 DEF HttpRead, SocketRead, LearnVersions, HttpCheck, SocketCheck, CheckVersions, At,
                SameLife
  <2> QED
    BY <1>6, <2>2, <2>5
<1>10. CASE \/ HttpFindExisting(c) \/ SocketFindExisting(c) \/ HttpLocate(c) \/ SocketLocate(c)
            \/ Refetch(c)
  <2>1. Same /\ call'[c].pc \in Silent
    BY <1>1, <1>2, <1>10
    DEF HttpFindExisting, SocketFindExisting, HttpLocate, SocketLocate, Refetch, FindExisting, Locate
  <2>2. call[c].pc \in Silent /\ SameLife
    BY <1>10
    DEF HttpFindExisting, SocketFindExisting, HttpLocate, SocketLocate, Refetch, FindExisting, Locate,
        At, SameLife
  <2> QED
    BY <1>6, <2>1, <2>2
<1>11. CASE HttpInsert(c) \/ SocketInsert(c)
  <2>1. call[c].pc \in Silent
    BY <1>11 DEF HttpInsert, SocketInsert, At
  <2>2. CASE Answer(c, "error") /\ UNCHANGED <<row, wins, stale>>
    BY <1>2, <1>6, <2>1, <2>2 DEF SameLife
  <2>3. CASE Inserts(c) /\ GoTell(c, "new", row.inc + 1)
    <3>1. PICK life \in Nat : life = row.inc + 1
      BY <1>0 DEF Row
    <3>2. GoTell(c, "new", life) /\ "new" \in Events \ {"none"}
      BY <2>3, <3>1 DEF GoTell, Events
    <3>3. Same /\ TellsNow(c, "new", life)
      BY <1>5, <2>1, <3>2
    <3> QED
      BY <2>3, <3>1, <3>3 DEF Step, Same
  <2> QED
    BY <1>11, <2>2, <2>3 DEF HttpInsert, SocketInsert, InsertRow
<1>12. CASE HttpDelete(c) \/ SocketDelete(c)
  <2>1. call[c].pc \in Silent
    BY <1>12 DEF HttpDelete, SocketDelete, At
  <2>2. CASE Answer(c, "error") /\ UNCHANGED <<row, wins, stale>>
    BY <1>2, <1>6, <2>1, <2>2 DEF SameLife
  <2>3. CASE Deletes /\ GoTell(c, "delete", row.inc)
    <3>1. PICK life \in Nat : life = row.inc
      BY <1>0 DEF Row
    <3>2. GoTell(c, "delete", life) /\ "delete" \in Events \ {"none"}
      BY <2>3, <3>1 DEF GoTell, Events
    <3>3. Same /\ TellsNow(c, "delete", life)
      BY <1>5, <2>1, <3>2
    <3> QED
      BY <2>3, <3>1, <3>3 DEF Step, Same
  <2> QED
    BY <1>12, <2>2, <2>3 DEF HttpDelete, SocketDelete, DeleteRow
<1>13. ASSUME WriteParts(c) PROVE SameLife
  BY <1>0, <1>13 DEF WriteParts, Row, SameLife
<1>14. CASE HttpWrite(c) \/ SocketWrite(c)
  <2>1. call[c].pc \in Silent
    BY <1>14 DEF HttpWrite, SocketWrite, At
  <2>2. SameLife
    BY <1>13, <1>14 DEF HttpWrite, SocketWrite, HttpWrites, SocketWrites, SameLife
  <2>3. CASE Answer(c, "error") \/ GoTo(c, "refetch")
    BY <1>1, <1>2, <1>6, <2>1, <2>2, <2>3
  <2>4. CASE GoTell(c, "update", row.inc)
    <3>1. PICK life \in Nat : life = row.inc
      BY <1>0 DEF Row
    <3>2. GoTell(c, "update", life) /\ "update" \in Events \ {"none"}
      BY <2>4, <3>1 DEF GoTell, Events
    <3>3. Same /\ TellsNow(c, "update", life)
      BY <1>5, <2>1, <3>2
    <3> QED
      BY <2>2, <3>3 DEF Step, TellsNow, TellsNoMore, TellsNoLess, Lives, Same
  <2> QED
    BY <1>14, <2>3, <2>4 DEF HttpWrite, SocketWrite
<1>15. CASE Announce(c)
  <2>1. /\ Same /\ call'[c].event = call[c].event /\ call'[c].life = call[c].life
        /\ call'[c].pc = Success[call[c].event] /\ call[c].pc = "announce"
    BY <1>0, <1>15 DEF Announce, NoCall, Same
  <2>2. SameLife
    BY <1>15 DEF Announce, SameLife
  <2>3. TellsNoMore(c) /\ TellsNoLess(c)
    BY <2>1 DEF TellsNoMore, TellsNoLess, Tells
  <2> QED
    BY <2>1, <2>2, <2>3 DEF Step, Same
<1>16. CASE Fail(c)
  <2>1. Same /\ call'[c].pc = "error" /\ failures' = failures + 1
    BY <1>2, <1>16 DEF Fail
  <2>2. SameLife \/ Inserts(c) \/ Deletes
    BY <1>13, <1>16 DEF Fail, HttpWrites, SocketWrites, SameLife
  <2>3. TellsNoMore(c) /\ failures' # 0
    BY <1>0, <1>4, <2>1 DEF TellsNoMore
  <2> QED
    BY <2>1, <2>2, <2>3 DEF Step, Same
<1> QED
  BY <1>8, <1>9, <1>10, <1>11, <1>12, <1>14, <1>15, <1>16 DEF Handle

LEMMA LivesKept == ASSUME ArtifactsAssumption, LivesIInv, [Next]_vars PROVE LivesIInv'
<1>1. TypeOK'
  BY NextTypes DEF LivesIInv
<1>2. CASE UNCHANGED vars
  BY <1>1, <1>2 DEF vars, LivesIInv, ToldOfLives, ToldOnce, ToldAll, Tells
<1>3. SUFFICES ASSUME NEW c \in Calls, Begin(c) \/ Handle(c) \/ Fail(c)
               PROVE  ToldOfLives' /\ ToldOnce' /\ ToldAll'
  BY <1>1, <1>2 DEF Next, LivesIInv
<1>4. Step(c)
  BY <1>3, CallSteps DEF LivesIInv
<1>5. /\ row.inc \in Nat /\ row.live \in BOOLEAN /\ failures \in Nat
      /\ ToldOfLives /\ ToldOnce /\ ToldAll
  BY DEF LivesIInv, TypeOK
<1>6. \A d \in Calls \ {c} : \A e, l : Tells(d, e, l)' <=> Tells(d, e, l)
  BY <1>4 DEF Step, Tells
<1>7. Inserts(c) => row'.inc = row.inc + 1 /\ row'.live = TRUE /\ row.live = FALSE
  BY <1>5 DEF Inserts, NewRow
<1>8. Deletes => row'.inc = row.inc /\ row'.live = FALSE /\ row.live = TRUE
  BY <1>5 DEF Deletes, NoRow
<1>9. failures' = 0 => failures = 0
  BY <1>3, <1>5 DEF Begin, Fail, Handle, HttpRead, SocketRead, HttpFindExisting,
         SocketFindExisting, HttpInsert, SocketInsert, HttpCheck, SocketCheck, HttpWrite,
         SocketWrite, Refetch, HttpLocate, SocketLocate, HttpDelete, SocketDelete, LearnVersions,
         FindExisting, InsertRow, CheckVersions, Locate, DeleteRow, Announce
<1>10. CASE TellsNoMore(c) /\ (SameLife \/ Inserts(c) \/ Deletes)
  <2>1. \A d \in Calls, e \in Lives, l \in Nat : Tells(d, e, l)' => Tells(d, e, l)
    BY <1>6, <1>10 DEF TellsNoMore
  <2>2. ToldOnce'
    BY <1>5, <2>1 DEF ToldOnce
  <2>3. ToldOfLives'
    BY <1>5, <1>7, <1>8, <1>10, <2>1 DEF ToldOfLives, SameLife, Lives
  <2>4. ASSUME failures' = 0 PROVE ToldAll'
    <3>3. \A life \in Nat : ~TellsNow(c, "new", life)
      BY <1>10 DEF TellsNow, TellsNoMore, Lives
    <3>4. \A life \in Nat : ~TellsNow(c, "delete", life)
      BY <1>10 DEF TellsNow, TellsNoMore, Lives
    <3>1. SameLife /\ TellsNoLess(c)
      BY <1>4, <2>4, <3>3, <3>4 DEF Step
    <3>2. \A d \in Calls, e \in Lives, l \in Nat : Tells(d, e, l) => Tells(d, e, l)'
      BY <1>6, <3>1 DEF TellsNoLess
    <3> QED
      BY <1>5, <1>9, <2>4, <3>1, <3>2 DEF ToldAll, SameLife, Lives
  <2>5. ToldAll'
    BY <2>4 DEF ToldAll
  <2> QED
    BY <2>2, <2>3, <2>5
<1>11. ASSUME NEW life \in Nat, life = row.inc + 1, Inserts(c), TellsNow(c, "new", life)
       PROVE  ToldOfLives' /\ ToldOnce' /\ ToldAll'
  <2>1. \A d \in Calls : d # c => \A l \in Nat : Tells(d, "new", l)' => l <= row.inc
    BY <1>5, <1>6 DEF ToldOfLives
  <2>2. ToldOnce'
    BY <1>5, <1>6, <1>11, <2>1 DEF ToldOnce, TellsNow
  <2>3. ToldOfLives'
    BY <1>5, <1>6, <1>7, <1>11 DEF ToldOfLives, TellsNow, Lives
  <2>4. \A d \in Calls, e \in Lives, l \in Nat : Tells(d, e, l) => Tells(d, e, l)'
    BY <1>6, <1>11 DEF TellsNow
  <2>5. ToldAll'
    BY <1>5, <1>7, <1>9, <1>11, <2>4 DEF ToldAll, TellsNow, Lives
  <2> QED
    BY <2>2, <2>3, <2>5
<1>12. ASSUME NEW life \in Nat, life = row.inc, Deletes, TellsNow(c, "delete", life)
       PROVE  ToldOfLives' /\ ToldOnce' /\ ToldAll'
  <2>1. \A d \in Calls : d # c => \A l \in Nat : Tells(d, "delete", l)' => l <= row.inc /\ l # row.inc
    BY <1>5, <1>6, <1>8, <1>12 DEF ToldOfLives
  <2>2. ToldOnce'
    BY <1>5, <1>6, <1>12, <2>1 DEF ToldOnce, TellsNow
  <2>3. ToldOfLives'
    BY <1>5, <1>6, <1>8, <1>12 DEF ToldOfLives, TellsNow, Lives
  <2>4. \A d \in Calls, e \in Lives, l \in Nat : Tells(d, e, l) => Tells(d, e, l)'
    BY <1>6, <1>12 DEF TellsNow
  <2>5. ToldAll'
    BY <1>5, <1>8, <1>9, <1>12, <2>4 DEF ToldAll, TellsNow, Lives
  <2> QED
    BY <2>2, <2>3, <2>5
<1> QED
  BY <1>4, <1>10, <1>11, <1>12 DEF Step

\* However many calls race to create and delete one id, and whichever of them fail, no two
\* announce the same artifact as new or as deleted; and until one fails, every artifact
\* they create or delete is announced.
THEOREM LivesAnnouncedHolds == ASSUME ArtifactsAssumption PROVE Spec => []LivesAnnounced
<1>1. ASSUME Init PROVE LivesIInv
  <2>1. TypeOK
    BY <1>1, InitTypes
  <2>2. row.inc = 0 /\ \A c \in Calls : call[c].pc = "idle"
    BY <1>1 DEF Init, NoRow, NewRow, NoCall
  <2>3. \A c \in Calls, e \in Lives, l \in Nat : ~Tells(c, e, l)
    BY <2>2 DEF Tells, Success, Lives
  <2> QED
    BY <2>1, <2>2, <2>3 DEF LivesIInv, ToldOfLives, ToldOnce, ToldAll, Lives
<1>2. LivesIInv /\ [Next]_vars => LivesIInv'
  BY LivesKept
<1>3. ASSUME LivesIInv PROVE LivesAnnounced
  <2>1. 0..row.inc \subseteq Nat
    BY <1>3 DEF LivesIInv, TypeOK
  <2> QED
    BY <1>3, <2>1 DEF LivesIInv, ToldOnce, ToldAll, Lives, LivesAnnounced
<1> QED
  BY <1>1, <1>2, <1>3, PTL DEF Spec
=============================================================================
