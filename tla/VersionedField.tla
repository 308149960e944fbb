---------------------------- MODULE VersionedField ----------------------------
(***************************************************************************)
(* Optimistic concurrency control.  A session's metadata and agentState, a *)
(* machine's metadata and daemonState, the account's settings and the data *)
(* of an access key each carry a version.  A client sends a new value with *)
(* the version it expects; the handler reads the row, compares, updates    *)
(* the row where the version still matches, and tells the clients that the *)
(* field is of interest to.  The handlers differ in a few ways, listed as  *)
(* policies; a behaviour follows one of them.  Each await of a handler is  *)
(* an action.                                                              *)
(*                                                                         *)
(* The clients are outside the repository.  They keep the newest pair of   *)
(* version and value they were given, by an update or by a reply, and      *)
(* write on top of it.  A behaviour ends with the deletion of the row: one *)
(* that is created again begins at its first version.                      *)
(***************************************************************************)
EXTENDS Integers, Sequences, FiniteSets

CONSTANTS Clients,      \* writers, each with a connection that stays up
          MaxWrites,    \* bound: requests and dismissals of feed items
          MaxFailures   \* bound: failing database calls

ASSUME VersionedFieldAssumption == MaxWrites \in Nat /\ MaxFailures \in Nat

\* refetches: a failed update is answered with the row as it is now, and not
\*   with the row as it was read before
\* announces: a change is emitted to the account's connections
\* answersMissing: a missing row is answered
\* deletable: the row may be deleted meanwhile
\* (SessionStateSilent is a mutant: update-state without the reply of line 94.)
SessionMetadata == [name |-> "session metadata", refetches |-> FALSE,
                    announces |-> TRUE, answersMissing |-> FALSE, deletable |-> TRUE]
SessionStateSilent == [name |-> "session agentState", refetches |-> FALSE,
                       announces |-> TRUE, answersMissing |-> FALSE, deletable |-> TRUE]
SessionState    == [name |-> "session agentState", refetches |-> FALSE,
                    announces |-> TRUE, answersMissing |-> TRUE, deletable |-> TRUE]
MachineMetadata == [name |-> "machine metadata", refetches |-> TRUE,
                    announces |-> TRUE, answersMissing |-> TRUE, deletable |-> TRUE]
DaemonState     == [name |-> "machine daemonState", refetches |-> TRUE,
                    announces |-> TRUE, answersMissing |-> TRUE, deletable |-> TRUE]
AccountSettings == [name |-> "account settings", refetches |-> TRUE,
                    announces |-> TRUE, answersMissing |-> TRUE, deletable |-> FALSE]
AccessKeyData   == [name |-> "access key data", refetches |-> TRUE,
                    announces |-> FALSE, answersMissing |-> TRUE, deletable |-> TRUE]

Policies == {SessionMetadata, SessionState, MachineMetadata, DaemonState,
             AccountSettings, AccessKeyData}

VARIABLES policy,    \* the handler this behaviour is about
          interested, \* the clients whose connections are told of the field
          row,       \* the field: [live, version, value]
          past,      \* history: the value each version was given
          writer,    \* per client: its request in the handler
          updates,   \* per client: updates sent to it and not yet received
          known,     \* per client: the newest [version, value] it was given
          silent,    \* history: the versions that dismissals of feed items made
          wins,      \* history: the successful writes, [by, version, value]
          told,      \* history: the versions announced, in order
          writes,    \* requests and dismissals so far
          failures   \* failing database calls so far

vars == <<policy, interested, row, past, writer, updates, known, silent, wins, told, writes,
          failures>>

\* A value is known by the number of the request that wrote it.
Pair == [version : Nat, value : Nat]

Points == {"idle", "read", "update", "refetch", "announce",
           "success", "mismatch", "error", "unanswered"}

\* pair is what the handler read, and then what it replies with.
Writer == [pc : Points, expected : Nat, value : Nat, pair : Pair]

Nothing == [version |-> 0, value |-> 0]

TypeOK == /\ policy \in Policies
          /\ interested \subseteq Clients
          /\ row \in [live : BOOLEAN, version : Nat, value : Nat]
          /\ past \in [0..row.version -> Nat]
          /\ writer \in [Clients -> Writer]
          /\ updates \in [Clients -> Seq(Pair)]
          /\ known \in [Clients -> Pair]
          /\ silent \subseteq Nat
          /\ wins \subseteq [by : Clients, version : Nat, value : Nat]
          /\ told \in Seq(Nat)
          /\ writes \in 0..MaxWrites
          /\ failures \in 0..MaxFailures

\* Changes of a session go to the clients of that session and to those of the whole
\* account, other ones to all the account has.
Init == /\ policy \in Policies
        /\ interested \in SUBSET Clients
        /\ policy \in {SessionMetadata, SessionState} \/ interested = Clients
        /\ row = [live |-> TRUE, version |-> 0, value |-> 0]
        /\ past = [v \in {0} |-> 0]
        /\ writer = [c \in Clients |-> [pc |-> "idle", expected |-> 0, value |-> 0,
                                        pair |-> Nothing]]
        /\ updates = [c \in Clients |-> <<>>]
        /\ known = [c \in Clients |-> Nothing]
        /\ silent = {}
        /\ wins = {}
        /\ told = <<>>
        /\ writes = 0
        /\ failures = 0

Current == [version |-> row.version, value |-> row.value]

Reply(c, pc, pair) ==
    writer' = [writer EXCEPT ![c] = [pc |-> pc, expected |-> writer[c].expected,
                                     value |-> writer[c].value, pair |-> pair]]
-----------------------------------------------------------------------------
(* The handler.                                                            *)

\* A client asks for the value `writes + 1` on top of what it knows.
Request(c) ==
    /\ writer[c].pc = "idle"
    /\ writes < MaxWrites
    /\ writes' = writes + 1
    /\ writer' = [writer EXCEPT ![c] = [pc |-> "read", expected |-> known[c].version,
                                        value |-> writes + 1, pair |-> Nothing]]
    /\ UNCHANGED <<policy, interested, row, past, updates, known, silent, wins, told, failures>>

\* Resolve the row and check the version.
ReadRow(c) ==
    /\ writer[c].pc = "read"
    /\ \/ /\ ~row.live
          /\ Reply(c, IF policy.answersMissing THEN "error" ELSE "unanswered", Nothing)
       \/ /\ row.live
          /\ row.version # writer[c].expected
          /\ Reply(c, "mismatch", Current)
       \/ /\ row.live
          /\ row.version = writer[c].expected
          /\ Reply(c, "update", Current)
    /\ UNCHANGED <<policy, interested, row, past, updates, known, silent, wins, told,
                   writes, failures>>

\* Mutant: the version checked after the read is not checked by the update.
UpdateMatchesLive(c) == row.live

\* The condition of updateMany: the row exists and still has the version.
UpdateMatches(c) == row.live /\ row.version = writer[c].expected

\* Mutant: the version of the row is not changed by the update.
NewVersionSame(c) == writer[c].expected

\* What updateMany writes into the version.
NewVersion(c) == writer[c].expected + 1

\* The row holds the value from now on, under that version.
Stores(version, value) ==
    /\ row' = [live |-> row.live, version |-> version, value |-> value]
    /\ past' = [v \in DOMAIN past \cup {version} |-> IF v = version THEN value ELSE past[v]]

Written(c) == Stores(NewVersion(c), writer[c].value)

\* updateMany, and what follows a count of 0.
UpdateRow(c) ==
    /\ writer[c].pc = "update"
    /\ IF UpdateMatches(c)
       THEN /\ Written(c)
            /\ Reply(c, IF policy.announces THEN "announce" ELSE "success",
                     [version |-> NewVersion(c), value |-> writer[c].value])
            /\ wins' = wins \cup {[by |-> c, version |-> NewVersion(c),
                                   value |-> writer[c].value]}
       ELSE /\ Reply(c, IF policy.refetches THEN "refetch" ELSE "mismatch", writer[c].pair)
            /\ UNCHANGED <<row, past, wins>>
    /\ UNCHANGED <<policy, interested, updates, known, silent, told, writes, failures>>

\* Mutant: the version that another request made is taken for this one's.
ReplyWithCurrentSuccess(c) == Reply(c, "success", IF row.live THEN Current ELSE Nothing)

\* The re-fetched version and value; 0 and nothing for a row that is gone.
ReplyWithCurrent(c) == Reply(c, "mismatch", IF row.live THEN Current ELSE Nothing)

Refetch(c) ==
    /\ writer[c].pc = "refetch"
    /\ ReplyWithCurrent(c)
    /\ UNCHANGED <<policy, interested, row, past, updates, known, silent, wins, told,
                   writes, failures>>

\* Mutant: the update carries the row as it is now under the version of the write.
AnnouncedPairNow(c) == [version |-> writer[c].pair.version, value |-> row.value]

\* The update carries the version and the value of this write.
AnnouncedPair(c) == writer[c].pair

\* Mutant: the update goes back to the writer's own connection alone.
ListenersSender(c) == {c}

\* The connections the update is emitted to, whoever made the change.
Listeners(c) == interested

\* After allocateUserSeq: emit the update, then reply.
Announce(c) ==
    /\ writer[c].pc = "announce"
    /\ updates' = [d \in Clients |-> IF d \in Listeners(c)
                                     THEN Append(updates[d], AnnouncedPair(c)) ELSE updates[d]]
    /\ told' = Append(told, writer[c].pair.version)
    /\ Reply(c, "success", writer[c].pair)
    /\ UNCHANGED <<policy, interested, row, past, known, silent, wins, writes, failures>>

\* A database call fails and the reply is an error.  The update of the row may
\* have been committed all the same, and it has when the failing call is
\* allocateUserSeq.
HandlerFails(c) ==
    /\ writer[c].pc \in {"read", "update", "refetch", "announce"}
    /\ failures < MaxFailures
    /\ failures' = failures + 1
    /\ \/ UNCHANGED <<row, past>>
       \/ writer[c].pc = "update" /\ UpdateMatches(c) /\ Written(c)
    /\ Reply(c, "error", Nothing)
    /\ UNCHANGED <<policy, interested, updates, known, silent, wins, told, writes>>

\* The session, machine or access key is deleted.
DeleteRow ==
    /\ policy.deletable /\ row.live
    /\ row' = [live |-> FALSE, version |-> row.version, value |-> row.value]
    /\ UNCHANGED <<policy, interested, past, writer, updates, known, silent, wins, told,
                   writes, failures>>

\* A feed item is dismissed: the transaction keeps its key in the account's settings,
\* under the next version, and tells nobody.
DismissFeedItem ==
    /\ policy = AccountSettings
    /\ writes < MaxWrites
    /\ writes' = writes + 1
    /\ Stores(row.version + 1, writes + 1)
    /\ silent' = silent \cup {row.version + 1}
    /\ UNCHANGED <<policy, interested, writer, updates, known, wins, told, failures>>
-----------------------------------------------------------------------------
(* The clients.                                                            *)

Newer(c, pair) == IF pair.version > known[c].version THEN pair ELSE known[c]

\* The reply arrives.  An error says nothing about the row.
TakeReply(c) ==
    /\ writer[c].pc \in {"success", "mismatch", "error"}
    /\ known' = [known EXCEPT ![c] = Newer(c, writer[c].pair)]
    /\ Reply(c, "idle", Nothing)
    /\ UNCHANGED <<policy, interested, row, past, updates, silent, wins, told, writes, failures>>

\* The next update arrives.
TakeUpdate(c) ==
    /\ updates[c] # <<>>
    /\ known' = [known EXCEPT ![c] = Newer(c, Head(updates[c]))]
    /\ updates' = [updates EXCEPT ![c] = Tail(@)]
    /\ UNCHANGED <<policy, interested, row, past, writer, silent, wins, told, writes, failures>>
-----------------------------------------------------------------------------
HandlerStep(c) == ReadRow(c) \/ UpdateRow(c) \/ Refetch(c) \/ Announce(c)

Next ==
    \/ \E c \in Clients : \/ Request(c) \/ HandlerStep(c) \/ HandlerFails(c)
                          \/ TakeReply(c) \/ TakeUpdate(c)
    \/ DeleteRow \/ DismissFeedItem

\* The database answers every call and the socket delivers what it was given.
Fairness == \A c \in Clients : /\ WF_vars(HandlerStep(c))
                               /\ WF_vars(TakeReply(c))
                               /\ WF_vars(TakeUpdate(c))

SafeSpec == Init /\ [][Next]_vars

Spec == SafeSpec /\ Fairness
-----------------------------------------------------------------------------
(* Properties                                                              *)

\* No lost update: two writers are never both told that their value became the
\* same version, and what a writer was told is what that version holds.
NoLostUpdate ==
    \A w \in wins : /\ w.version \in DOMAIN past /\ past[w.version] = w.value
                    /\ \A x \in wins : w.version = x.version => w = x

\* A client never holds a version with the value of another one, whichever way
\* the pair came: in an update, a success or a mismatch.
ReplicasTruthful ==
    \A c \in Clients : known[c].version \in DOMAIN past
                       /\ past[known[c].version] = known[c].value

\* A version is announced at most once, in whatever order the writers reach
\* their emit.
AnnouncedOnce == \A i, j \in DOMAIN told : told[i] = told[j] => i = j

\* The handlers and the connections have nothing left to do.
Quiet == \A c \in Clients : writer[c].pc \in {"idle", "unanswered"} /\ updates[c] = <<>>

\* Once the handlers and the connections have nothing left to do, and no database call
\* has failed, every client the field is of interest to has the newest version that a
\* request made, in whatever order these were announced: what it lacks was written by the
\* dismissal of a feed item, which tells nobody (feedRoutes.ts:146-152).
ReplicasConverge ==
    Quiet /\ failures = 0 /\ policy.announces =>
        \A c \in interested : (known[c].version + 1)..row.version \subseteq silent

\* Every request is answered, unless it is an update-metadata for a session that
\* is gone (sessionUpdateHandler.ts:28-30 returns without calling back).
EveryRequestAnswered ==
    \A c \in Clients : writer[c].pc = "read" ~>
        \/ writer[c].pc \in {"success", "mismatch", "error"}
        \/ policy = SessionMetadata /\ ~row.live

\* A version, once given a value, keeps it: the row only moves forward.
VersionsAreForGood ==
    [][/\ row'.version \in {row.version, row.version + 1}
       /\ \A v \in DOMAIN past : past'[v] = past[v]]_vars

\* The call a client sees: under way until the handler has decided, and set from the
\* moment the row is, though the reply follows the announcement.
Asked(w) == w.pc \in {"read", "update", "refetch"}

Call(w) == [state |-> CASE Asked(w) -> "asked"
                        [] w.pc \in {"announce", "success"} -> "set"
                        [] w.pc = "mismatch" -> "refused"
                        [] OTHER -> w.pc,
            expected |-> w.expected,
            value |-> w.value,
            pair |-> IF Asked(w) THEN Nothing ELSE w.pair]

call == [c \in Clients |-> Call(writer[c])]

Register == INSTANCE CasRegister WITH Values <- 1..MaxWrites, NoPair <- Nothing

\* The handlers implement a register with compare-and-set: although each reads, compares,
\* writes, announces and replies in steps of its own, a request takes effect once, on the
\* version it names, or not at all, and its reply tells which (the version in the where of
\* updateMany, sessionUpdateHandler.ts:40, machineUpdateHandler.ts:95).
ImplementsRegister == Register!Spec
-----------------------------------------------------------------------------
(* The inductive invariant.                                                *)

\* A pair of version and value that the row has held.
Stored(pair) == pair.version \in 0..row.version /\ past[pair.version] = pair.value

\* Every pair on its way to a client, or there, is one the row has held.
PairsStored == /\ past[0] = 0
               /\ Stored(row)
               /\ \A c \in Clients : /\ Stored(writer[c].pair)
                                     /\ Stored(known[c])
                                     /\ \A i \in 1..Len(updates[c]) : Stored(updates[c][i])

WinsStored == \A w \in wins : Stored(w)

WinsUnique == \A w, x \in wins : w.version = x.version => w = x

\* A version announced, or about to be, is a version of the row, and nobody else
\* announces it.
ToldOnce ==
    /\ \A i \in 1..Len(told) : told[i] <= row.version
    /\ \A i, j \in 1..Len(told) : told[i] = told[j] => i = j
    /\ \A c \in Clients : writer[c].pc = "announce" =>
          /\ \A i \in 1..Len(told) : told[i] # writer[c].pair.version
          /\ \A d \in Clients : writer[d].pc = "announce" /\
                                writer[d].pair.version = writer[c].pair.version => c = d

\* A version that was not made silently, or a later one, has reached a client of interest,
\* or is in an update on its way to it, or its handler has yet to announce it; a handler
\* that fails announces nothing.
Comes(c, v) ==
    \/ v <= known[c].version
    \/ \E i \in 1..Len(updates[c]) : v <= updates[c][i].version
    \/ \E d \in Clients : writer[d].pc = "announce" /\ v <= writer[d].pair.version

NewestComes ==
    failures = 0 /\ policy.announces =>
        \A c \in interested : \A v \in 1..row.version : v \in silent \/ Comes(c, v)

\* What a handler has found out about the row: it has had the version expected, had it
\* when it was read, and has lost it for good once an update missed.
CallsKnow ==
    \A c \in Clients :
        /\ writer[c].pc \in {"read", "update", "refetch"} => writer[c].expected <= row.version
        /\ writer[c].pc = "update" => writer[c].pair.version = writer[c].expected
        /\ writer[c].pc = "refetch" => ~UpdateMatches(c)

IInv == /\ TypeOK
        /\ PairsStored
        /\ WinsStored
        /\ WinsUnique
        /\ ToldOnce
        /\ NewestComes
        /\ CallsKnow
=============================================================================
