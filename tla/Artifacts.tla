------------------------------ MODULE Artifacts ------------------------------
(***************************************************************************)
(* One artifact id.  An artifact has a header and a body, each with a      *)
(* version of its own, and a seq.  Calls create, update and delete it,     *)
(* over HTTP and over sockets; an update follows a read, by which the      *)
(* client learns the versions it expects.  Each await of a handler is an   *)
(* action, so a call sees a row that the next call may change before the   *)
(* first one writes.  The id is chosen by clients: once deleted it can be  *)
(* created again, by the same account or by another one.  `inc` numbers    *)
(* these lives of the id.                                                  *)
(***************************************************************************)
EXTENDS Integers, FiniteSets

CONSTANTS Calls,        \* requests, each made at most once
          Accounts,
          NoAccount,    \* owner of a row that is not there
          MaxFailures   \* bound: failing database calls

ArtifactsAssumption == NoAccount \notin Accounts /\ MaxFailures \in Nat

Parts == {"header", "body"}
Vias == {"http", "socket"}

VARIABLES row,       \* the row: [live, owner, inc, version, seq]
          call,      \* per call: its request and where its handler is
          wins,      \* history: the updates written, [by, inc, part, version]
          stale,     \* history: an HTTP update replaced a version it never read
          failures   \* failing database calls so far

vars == <<row, call, wins, stale, failures>>

Points == {"idle", "read", "find", "check", "locate", "insert", "write", "delete",
           "refetch", "announce", "created", "existing", "conflict", "updated",
           "mismatch", "missing", "deleted", "error"}

Answered == {"created", "existing", "conflict", "updated", "mismatch", "missing",
             "deleted", "error"}

\* What a call tells the account's connections: a new artifact, new versions of one, or
\* the end of one.
Events == {"none", "new", "update", "delete"}

\* base: the versions the client expects, of the parts it updates.
\* event, life: what the call announces, of which life of the id.
Call == [pc : Points, via : Vias, account : Accounts \cup {NoAccount},
         parts : SUBSET Parts, base : [Parts -> Nat], seq : Nat,
         event : Events, life : Nat]

NoVersions == [p \in Parts |-> 0]
NoCall == [pc |-> "idle", via |-> "http", account |-> NoAccount, parts |-> {},
           base |-> NoVersions, seq |-> 0, event |-> "none", life |-> 0]

TypeOK == /\ row \in [live : BOOLEAN, owner : Accounts \cup {NoAccount}, inc : Nat,
                      version : [Parts -> Nat], seq : Nat]
          /\ call \in [Calls -> Call]
          /\ \A c \in Calls : call[c].pc = "announce" => call[c].event # "none"
          /\ wins \subseteq [by : Calls, inc : Nat, part : Parts, version : Nat]
          /\ stale \in BOOLEAN
          /\ failures \in 0..MaxFailures

NoRow(inc) == [live |-> FALSE, owner |-> NoAccount, inc |-> inc,
               version |-> NoVersions, seq |-> 0]

\* A new row: both versions 1, seq 0.
NewRow(account, inc) == [live |-> TRUE, owner |-> account, inc |-> inc,
                         version |-> [p \in Parts |-> 1], seq |-> 0]

\* The id is free, or some account has an artifact under it since before the calls.
Init == /\ row \in {NoRow(0)} \cup {NewRow(a, 0) : a \in Accounts}
        /\ call = [c \in Calls |-> NoCall]
        /\ wins = {}
        /\ stale = FALSE
        /\ failures = 0

At(c, pc, via) == call[c].pc = pc /\ call[c].via = via
GoTo(c, pc) == call' = [call EXCEPT ![c].pc = pc]
Answer(c, reply) == call' = [call EXCEPT ![c] = [NoCall EXCEPT !.pc = reply]]
GoTell(c, event, life) == call' = [call EXCEPT ![c].pc = "announce", ![c].event = event,
                                               ![c].life = life]
Owned(c) == row.live /\ row.owner = call[c].account
Expects(c, p) == call[c].base[p] = row.version[p]

Request(pc, via, account, parts) ==
    [NoCall EXCEPT !.pc = pc, !.via = via, !.account = account, !.parts = parts]

\* A client makes a call: the update of one part or of both, or another call.
Begin(c) ==
    /\ call[c].pc = "idle"
    /\ \E v \in Vias, a \in Accounts, parts \in SUBSET Parts, pc \in {"read", "find", "locate"} :
           /\ (pc = "read") <=> (parts # {})
           /\ call' = [call EXCEPT ![c] = Request(pc, v, a, parts)]
    /\ UNCHANGED <<row, wins, stale, failures>>
-----------------------------------------------------------------------------
(* Reading: what the client will expect.                                   *)

LearnVersions(c) ==
    /\ \/ /\ ~Owned(c)
          /\ Answer(c, "missing")
       \/ /\ Owned(c)
          /\ call' = [call EXCEPT ![c].pc = "check",
                                  ![c].base = [p \in Parts |-> IF p \in call[c].parts
                                                              THEN row.version[p] ELSE 0]]
    /\ UNCHANGED <<row, wins, stale, failures>>

HttpRead(c) == At(c, "read", "http") /\ LearnVersions(c)
SocketRead(c) == At(c, "read", "socket") /\ LearnVersions(c)
-----------------------------------------------------------------------------
(* Creation.                                                               *)

\* An id in use is answered with the row, or with a conflict if another account
\* has it.
FindExisting(c) ==
    /\ IF row.live
       THEN Answer(c, IF row.owner = call[c].account THEN "existing" ELSE "conflict")
       ELSE GoTo(c, "insert")
    /\ UNCHANGED <<row, wins, stale, failures>>

HttpFindExisting(c) == At(c, "find", "http") /\ FindExisting(c)
SocketFindExisting(c) == At(c, "find", "socket") /\ FindExisting(c)

\* What the insert does to the row: the id is the primary key.
Inserts(c) == /\ ~row.live
              /\ row' = NewRow(call[c].account, row.inc + 1)
              /\ UNCHANGED <<wins, stale>>

\* The insert fails when a row was inserted meanwhile.
InsertRow(c) ==
    /\ \/ /\ row.live
          /\ Answer(c, "error")
          /\ UNCHANGED <<row, wins, stale>>
       \/ /\ Inserts(c)
          /\ GoTell(c, "new", row.inc + 1)
    /\ UNCHANGED failures

HttpInsert(c) == At(c, "insert", "http") /\ InsertRow(c)
SocketInsert(c) == At(c, "insert", "socket") /\ InsertRow(c)
-----------------------------------------------------------------------------
(* Update.                                                                 *)

\* Read the account's row and compare the versions of the parts; the row's seq is
\* kept for the write.
CheckVersions(c) ==
    /\ \/ /\ ~Owned(c)
          /\ Answer(c, "missing")
       \/ /\ Owned(c)
          /\ \E p \in call[c].parts : ~Expects(c, p)
          /\ Answer(c, "mismatch")
       \/ /\ Owned(c)
          /\ \A p \in call[c].parts : Expects(c, p)
          /\ call' = [call EXCEPT ![c].pc = "write", ![c].seq = row.seq]
    /\ UNCHANGED <<row, wins, stale, failures>>

HttpCheck(c) == At(c, "check", "http") /\ CheckVersions(c)
SocketCheck(c) == At(c, "check", "socket") /\ CheckVersions(c)

\* The parts get the versions after those the client expects, and the row the seq
\* after the one that was read.
WriteParts(c) ==
    /\ row' = [row EXCEPT !.version = [p \in Parts |-> IF p \in call[c].parts
                                                       THEN call[c].base[p] + 1
                                                       ELSE row.version[p]],
                          !.seq = call[c].seq + 1]
    /\ wins' = wins \cup {[by |-> c, inc |-> row.inc, part |-> p,
                           version |-> call[c].base[p] + 1] : p \in call[c].parts}

\* db.artifact.update by id alone writes whatever the versions are by now.
HttpWrites(c) == /\ row.live
                 /\ WriteParts(c)
                 /\ stale' = (stale \/ \E p \in call[c].parts : ~Expects(c, p))

\* It throws if there is no row.
HttpWrite(c) ==
    /\ At(c, "write", "http")
    /\ \/ /\ ~row.live
          /\ Answer(c, "error")
          /\ UNCHANGED <<row, wins, stale>>
       \/ /\ HttpWrites(c)
          /\ GoTell(c, "update", row.inc)
    /\ UNCHANGED failures

\* Mutant: the where clause of updateMany without the versions.
WhereVersionsIgnored(c) == Owned(c)

\* The where clause of updateMany: id, account and the versions expected.
Where(c) == Owned(c) /\ \A p \in call[c].parts : Expects(c, p)

\* updateMany compares and writes in one statement.
SocketWrites(c) == Where(c) /\ WriteParts(c) /\ UNCHANGED stale

SocketWrite(c) ==
    /\ At(c, "write", "socket")
    /\ \/ /\ ~Where(c)
          /\ GoTo(c, "refetch")
          /\ UNCHANGED <<row, wins, stale>>
       \/ /\ SocketWrites(c)
          /\ GoTell(c, "update", row.inc)
    /\ UNCHANGED failures

\* A failed update is answered with the row as it is now, if there is one.
Refetch(c) ==
    /\ At(c, "refetch", "socket")
    /\ Answer(c, "mismatch")
    /\ UNCHANGED <<row, wins, stale, failures>>
-----------------------------------------------------------------------------
(* Deletion.                                                               *)

Locate(c) ==
    /\ IF Owned(c) THEN GoTo(c, "delete") ELSE Answer(c, "missing")
    /\ UNCHANGED <<row, wins, stale, failures>>

HttpLocate(c) == At(c, "locate", "http") /\ Locate(c)
SocketLocate(c) == At(c, "locate", "socket") /\ Locate(c)

\* What the deletion does to the row.
Deletes == row.live /\ row' = NoRow(row.inc) /\ UNCHANGED <<wins, stale>>

\* Mutant: deleteMany, which does not fail when there is nothing to delete.
DeleteManyRow(c) ==
    /\ row' = NoRow(row.inc)
    /\ GoTell(c, "delete", row.inc)
    /\ UNCHANGED <<wins, stale, failures>>

\* db.artifact.delete by id alone: it throws if there is no row.
DeleteRow(c) ==
    /\ \/ /\ ~row.live
          /\ Answer(c, "error")
          /\ UNCHANGED <<row, wins, stale>>
       \/ /\ Deletes
          /\ GoTell(c, "delete", row.inc)
    /\ UNCHANGED failures

HttpDelete(c) == At(c, "delete", "http") /\ DeleteRow(c)
SocketDelete(c) == At(c, "delete", "socket") /\ DeleteRow(c)
-----------------------------------------------------------------------------
(* The end of every call.                                                  *)

Success == [new |-> "created", update |-> "updated", delete |-> "deleted"]

\* A number for the update, the update itself to all the account's connections,
\* and the reply.  What was announced stays with the call.
Announce(c) ==
    /\ call[c].pc = "announce"
    /\ call' = [call EXCEPT ![c] = [NoCall EXCEPT !.pc = Success[call[c].event],
                                                  !.event = call[c].event, !.life = call[c].life]]
    /\ UNCHANGED <<row, wins, stale, failures>>

\* A database call fails: the catch clause answers with an error, and announces nothing.
\* What was written before stays written, and the failing statement itself may have been
\* committed and its answer lost.
Fail(c) ==
    /\ call[c].pc \notin Answered \cup {"idle"}
    /\ failures < MaxFailures
    /\ failures' = failures + 1
    /\ \/ UNCHANGED <<row, wins, stale>>
       \/ call[c].pc = "insert" /\ Inserts(c)
       \/ At(c, "write", "http") /\ HttpWrites(c)
       \/ At(c, "write", "socket") /\ SocketWrites(c)
       \/ call[c].pc = "delete" /\ Deletes
    /\ Answer(c, "error")

Handle(c) == \/ HttpRead(c) \/ SocketRead(c)
             \/ HttpFindExisting(c) \/ SocketFindExisting(c)
             \/ HttpInsert(c) \/ SocketInsert(c)
             \/ HttpCheck(c) \/ SocketCheck(c)
             \/ HttpWrite(c) \/ SocketWrite(c) \/ Refetch(c)
             \/ HttpLocate(c) \/ SocketLocate(c)
             \/ HttpDelete(c) \/ SocketDelete(c)
             \/ Announce(c)

Next == \E c \in Calls : Begin(c) \/ Handle(c) \/ Fail(c)

Spec == Init /\ [][Next]_vars
-----------------------------------------------------------------------------
(* Properties.                                                             *)

Distinct == \A v, w \in wins : /\ v.inc = w.inc
                               /\ v.part = w.part
                               /\ v.version = w.version
                               => v = w

\* Two writers never both succeed in replacing the same version of a part, as long
\* as no HTTP update has replaced a version it did not read (artifactsRoutes.ts:333
\* is the only write of the two paths that can).
NoLostUpdate == stale \/ Distinct

\* What "Update artifact with version control" (artifactsRoutes.ts:227) says of
\* the HTTP update: a version a writer expects is replaced by one writer only.
VersionControlled == Distinct

\* The call has announced the event for this life of the id, or is about to.
Tells(c, event, life) ==
    /\ call[c].event = event /\ call[c].life = life
    /\ call[c].pc \in {"announce", Success[event]}

\* However many calls race to create and delete the id (artifact-create, artifact-delete
\* and their HTTP forms), no two of them announce one life of it as new or as deleted.
\* While no call has failed, every life that a call began is announced as new, or about to
\* be, and once it is over as deleted.
LivesAnnounced ==
    /\ \A c, d \in Calls, event \in {"new", "delete"}, life \in 0..row.inc :
           Tells(c, event, life) /\ Tells(d, event, life) => c = d
    /\ failures = 0 => \A life \in 1..row.inc :
           /\ \E c \in Calls : Tells(c, "new", life)
           /\ life < row.inc \/ ~row.live => \E c \in Calls : Tells(c, "delete", life)
=============================================================================
