-------------------------- MODULE AccountDataProofs --------------------------
(***************************************************************************)
(* Theorems about what the server keeps for accounts, for any accounts,    *)
(* keys, values, GitHub users and numbers of requests.  Each service has   *)
(* an inductive invariant of its own, which the steps of the other ones    *)
(* leave alone; that of the artifacts is proved in ArtifactsProofs.        *)
(* The requests of the key-value store and of Social are then shown to be  *)
(* carried out one by one.                                                 *)
(***************************************************************************)
EXTENDS AccountData, TLAPS

ArtifactFacts == INSTANCE ArtifactsProofs WITH Calls <- ArtifactCalls, call <- artifactCall
-----------------------------------------------------------------------------
(* Artifacts: the service here and there is defined alike.                 *)

LEMMA SameArtifacts == (Artifact!Init => ArtifactFacts!Init) /\ (Artifact!Next => ArtifactFacts!Next)
<1>1. Artifact!Init => ArtifactFacts!Init
  BY DEF Artifact!Init, ArtifactFacts!Init,
         Artifact!NoRow, ArtifactFacts!NoRow, Artifact!NewRow, ArtifactFacts!NewRow,
         Artifact!NoVersions, ArtifactFacts!NoVersions, Artifact!Parts,
         ArtifactFacts!Parts, Artifact!NoCall, ArtifactFacts!NoCall
<1>2. Artifact!Next => ArtifactFacts!Next
  BY DEF Artifact!Parts, ArtifactFacts!Parts, Artifact!Vias, ArtifactFacts!Vias, Artifact!Points,
         ArtifactFacts!Points, Artifact!Answered, ArtifactFacts!Answered,
         Artifact!NoVersions, ArtifactFacts!NoVersions, Artifact!NoCall,
         ArtifactFacts!NoCall, Artifact!NoRow, ArtifactFacts!NoRow, Artifact!NewRow,
         ArtifactFacts!NewRow, Artifact!At, ArtifactFacts!At, Artifact!GoTo,
         ArtifactFacts!GoTo, Artifact!GoTell, ArtifactFacts!GoTell, Artifact!Inserts,
         ArtifactFacts!Inserts, Artifact!HttpWrites, ArtifactFacts!HttpWrites,
         Artifact!SocketWrites, ArtifactFacts!SocketWrites, Artifact!Deletes,
         ArtifactFacts!Deletes, Artifact!Success, ArtifactFacts!Success,
         Artifact!Answer, ArtifactFacts!Answer, Artifact!Owned,
         ArtifactFacts!Owned, Artifact!Expects, ArtifactFacts!Expects, Artifact!Request,
         ArtifactFacts!Request, Artifact!Begin, ArtifactFacts!Begin,
         Artifact!LearnVersions, ArtifactFacts!LearnVersions, Artifact!HttpRead,
         ArtifactFacts!HttpRead, Artifact!SocketRead, ArtifactFacts!SocketRead,
         Artifact!FindExisting, ArtifactFacts!FindExisting, Artifact!HttpFindExisting,
         ArtifactFacts!HttpFindExisting, Artifact!SocketFindExisting,
         ArtifactFacts!SocketFindExisting, Artifact!InsertRow, ArtifactFacts!InsertRow,
         Artifact!HttpInsert, ArtifactFacts!HttpInsert, Artifact!SocketInsert,
         ArtifactFacts!SocketInsert, Artifact!CheckVersions, ArtifactFacts!CheckVersions,
         Artifact!HttpCheck, ArtifactFacts!HttpCheck, Artifact!SocketCheck,
         ArtifactFacts!SocketCheck, Artifact!WriteParts, ArtifactFacts!WriteParts,
         Artifact!HttpWrite, ArtifactFacts!HttpWrite, Artifact!Where, ArtifactFacts!Where,
         Artifact!SocketWrite, ArtifactFacts!SocketWrite, Artifact!Refetch,
         ArtifactFacts!Refetch, Artifact!Locate, ArtifactFacts!Locate,
         Artifact!HttpLocate, ArtifactFacts!HttpLocate, Artifact!SocketLocate,
         ArtifactFacts!SocketLocate, Artifact!DeleteRow, ArtifactFacts!DeleteRow,
         Artifact!HttpDelete, ArtifactFacts!HttpDelete, Artifact!SocketDelete,
         ArtifactFacts!SocketDelete, Artifact!Announce, ArtifactFacts!Announce,
         Artifact!Fail, ArtifactFacts!Fail, Artifact!Handle, ArtifactFacts!Handle,
         Artifact!Next, ArtifactFacts!Next
<1> QED
  BY <1>1, <1>2

\* A behaviour of all is one of the artifacts.
LEMMA OfArtifacts == Spec => ArtifactFacts!Spec
<1>1. Init => ArtifactFacts!Init
  BY SameArtifacts DEF Init
<1>2. [Next]_vars => [ArtifactFacts!Next]_(ArtifactFacts!vars)
  BY SameArtifacts DEF Next, vars, artifactVars, ArtifactFacts!vars
<1> QED
  BY <1>1, <1>2, PTL DEF Spec, ArtifactFacts!Spec

\* However many calls overlap, and however often an id is deleted and created again:
\* two writers both replace one version only if an HTTP update wrote over a version it
\* had not read.
THEOREM NoLostUpdateHolds == Spec => []NoLostUpdate
<1>1. ArtifactFacts!ArtifactsAssumption
  BY DataAssumption DEF Artifact!ArtifactsAssumption, ArtifactFacts!ArtifactsAssumption
<1>2. ArtifactFacts!Spec => []ArtifactFacts!NoLostUpdate
  BY <1>1, ArtifactFacts!NoLostUpdateHolds
<1>3. ArtifactFacts!NoLostUpdate => NoLostUpdate
  BY DEF NoLostUpdate, Artifact!NoLostUpdate, ArtifactFacts!NoLostUpdate,
         Artifact!Distinct, ArtifactFacts!Distinct
<1> QED
  BY <1>2, <1>3, OfArtifacts, PTL

\* However many calls race, and whichever of them fail, no two announce one life of the id
\* as new or as deleted, and until one fails every life is announced.
THEOREM LivesAnnouncedHolds == Spec => []LivesAnnounced
<1>1. ArtifactFacts!ArtifactsAssumption
  BY DataAssumption DEF Artifact!ArtifactsAssumption, ArtifactFacts!ArtifactsAssumption
<1>2. ArtifactFacts!Spec => []ArtifactFacts!LivesAnnounced
  BY <1>1, ArtifactFacts!LivesAnnouncedHolds
<1>3. ArtifactFacts!LivesAnnounced => LivesAnnounced
  BY DEF LivesAnnounced, Artifact!LivesAnnounced, ArtifactFacts!LivesAnnounced,
         Artifact!Tells, ArtifactFacts!Tells, Artifact!Success, ArtifactFacts!Success
<1> QED
  BY <1>2, <1>3, OfArtifacts, PTL

-----------------------------------------------------------------------------
(* The key-value store: its batches.                                       *)

Record == [version : -1..MaxVersion + 1, value : Values \cup {Null}]
Store == [Keys -> Record]

\* A batch names one or two keys, and has a last mutation of each.
LEMMA LastIsOfKey ==
    ASSUME NEW batch \in Kv!Batches, NEW key \in Kv!Touched(batch)
    PROVE  \E i \in DOMAIN batch : Kv!LastOf(batch, key) = batch[i] /\ batch[i].key = key
<1>1. CASE \E m \in Kv!Mutation : batch = <<m>>
  <2>1. \E i \in DOMAIN batch : /\ batch[i].key = key
                                /\ \A j \in DOMAIN batch : batch[j].key = key => j <= i
    BY <1>1 DEF Kv!Touched
  <2> QED
    BY <2>1 DEF Kv!LastOf
<1>2. CASE batch \in Kv!Mutation \X Kv!Mutation
  <2>1. DOMAIN batch = {1, 2}
    BY <1>2
  <2>2. \E i \in DOMAIN batch : /\ batch[i].key = key
                                /\ \A j \in DOMAIN batch : batch[j].key = key => j <= i
    <3>1. CASE batch[2].key = key
      BY <2>1, <3>1
    <3>2. CASE batch[2].key # key
      BY <2>1, <3>2 DEF Kv!Touched
    <3> QED
      BY <3>1, <3>2
  <2> QED
    BY <2>2 DEF Kv!LastOf
<1> QED
  BY <1>1, <1>2 DEF Kv!Batches

\* An expected batch gives each of its keys the version after the one it has.
LEMMA AppliedNext ==
    ASSUME NEW batch \in Kv!Batches, NEW db \in Store, Kv!Expected(batch, db), NEW key \in Keys
    PROVE  LET new == Kv!Applied(batch, db)[key] IN
           /\ new \in Record
           /\ \/ key \notin Kv!Touched(batch) /\ new = db[key]
              \/ key \in Kv!Touched(batch) /\ new.version = db[key].version + 1
<1>1. CASE key \notin Kv!Touched(batch)
  BY <1>1 DEF Kv!Applied, Store
<1>2. CASE key \in Kv!Touched(batch)
  <2>1. PICK i \in DOMAIN batch : Kv!LastOf(batch, key) = batch[i] /\ batch[i].key = key
    BY <1>2, LastIsOfKey
  <2>2. batch[i] \in Kv!Mutation
    <3>1. CASE \E m \in Kv!Mutation : batch = <<m>>
      BY <3>1
    <3>2. CASE batch \in Kv!Mutation \X Kv!Mutation
      BY <3>2
    <3> QED
      BY <3>1, <3>2 DEF Kv!Batches
  <2>3. Kv!LastOf(batch, key).version = db[key].version
    BY <2>1 DEF Kv!Expected
  <2>4. Kv!LastOf(batch, key).version \in -1..MaxVersion
    BY <2>1, <2>2 DEF Kv!Mutation
  <2>5. Kv!LastOf(batch, key).value \in Values \cup {Null}
    BY <2>1, <2>2 DEF Kv!Mutation
  <2>6. MaxVersion \in Nat
    BY DataAssumption DEF Kv!KvAssumption
  <2>7. Kv!Applied(batch, db)[key] = [version |-> Kv!LastOf(batch, key).version + 1,
                                       value |-> Kv!LastOf(batch, key).value]
    BY <1>2 DEF Kv!Applied
  <2> QED
    BY <1>2, <2>3, <2>4, <2>5, <2>6, <2>7 DEF Record
<1> QED
  BY <1>1, <1>2
(* The slots.                                                              *)

\* A slot that is in use has a batch, and one whose attempt runs has seen a store in which
\* that batch was expected, and will announce what it did to that store.
KvSlot(r) ==
    /\ r.pc \in {"idle", "running", "delay", "after", "done"}
    /\ IF r.pc \in {"idle", "done"} THEN r.request = None ELSE r.request \in Kv!Batches
    /\ r.counter \in 0..Kv!T!Retries
    /\ r.pc = "running" => /\ r.seen \in Store
                           /\ Kv!Expected(r.request, r.seen)
                           /\ ~Kv!CreatesTwice(r.request)
                           /\ r.callbacks = Kv!KvMutate(r.request, r.seen).callbacks

KvInv == /\ kv \in Store
         /\ DOMAIN kvTx = KvSlots
         /\ \A t \in KvSlots : KvSlot(kvTx[t])

LEMMA KvSlotKept ==
    ASSUME KvInv, NEW t \in KvSlots, NEW r, KvSlot(r), kvTx' = [kvTx EXCEPT ![t] = r],
           kv' \in Store
    PROVE  KvInv'
<1>1. DOMAIN kvTx' = KvSlots /\ kvTx'[t] = r /\ \A u \in KvSlots \ {t} : kvTx'[u] = kvTx[u]
  BY DEF KvInv
<1> QED
  BY <1>1 DEF KvInv

LEMMA KvFinishKept ==
    ASSUME KvInv, NEW t \in KvSlots, Kv!T!Finish(t), kv' \in Store
    PROVE  KvInv'
<1>1. KvSlot([Kv!T!NoTx EXCEPT !.pc = "done"])
  BY DEF KvSlot, Kv!T!NoTx, Kv!T!Retries
<1> QED
  BY <1>1, KvSlotKept DEF Kv!T!Finish

\* A step leaves the store alone or is the commit of an attempt whose keys are still as
\* it saw them.
LEMMA CommitGrows ==
    ASSUME KvInv, NEW t \in KvSlots, Kv!T!Committed(t)
    PROVE  /\ kv' \in Store
           /\ \A key \in Keys : kv'[key] = kv[key] \/ kv'[key].version > kv[key].version
<1> DEFINE batch == kvTx[t].request
           seen == kvTx[t].seen
           new == Kv!Applied(batch, seen)
<1>1. /\ batch \in Kv!Batches
      /\ seen \in Store
      /\ Kv!Expected(batch, seen)
      /\ \A key \in Kv!Touched(batch) : kv[key] = seen[key]
      /\ kv' = [key \in Keys |-> IF new[key] # seen[key] THEN new[key] ELSE kv[key]]
  BY DEF KvInv, KvSlot, Kv!T!Committed, Kv!T!Isolated, Kv!KvMutate
<1> HIDE DEF batch, seen
<1>2. ASSUME NEW key \in Keys
      PROVE  /\ kv'[key] \in Record
             /\ kv'[key] = kv[key] \/ kv'[key].version > kv[key].version
  <2>1. /\ new[key] \in Record
        /\ \/ key \notin Kv!Touched(batch) /\ new[key] = seen[key]
           \/ key \in Kv!Touched(batch) /\ new[key].version = seen[key].version + 1
    BY <1>1, AppliedNext
  <2> HIDE DEF new
  <2>2. kv[key] \in Record
    BY DEF KvInv, Store
  <2>3. kv[key].version \in Int
    BY <2>2, DataAssumption DEF Record, Kv!KvAssumption
  <2> QED
    BY <1>1, <2>1, <2>2, <2>3
<1> HIDE DEF new
<1>3. kv' \in Store
  BY <1>1, <1>2 DEF Store
<1> QED
  BY <1>2, <1>3

\* An attempt begins on the store as it is, and then keeps what it saw.
LEMMA KvRunKept ==
    ASSUME KvInv, NEW t \in KvSlots, NEW batch \in Kv!Batches,
           NEW counter \in 0..Kv!T!Retries, Kv!T!Run(t, batch, counter)
    PROVE  KvInv'
<1> DEFINE result == Kv!KvMutate(batch, kv)
           r == [pc |-> "running", request |-> batch, counter |-> counter, seen |-> kv,
                 callbacks |-> Kv!T!Fresh(t) \cup result.callbacks]
<1>1. /\ UNCHANGED kv
      /\ \/ result.ok /\ kvTx' = [kvTx EXCEPT ![t] = r]
         \/ Kv!T!Finish(t)
  BY DEF Kv!T!Run
<1>2. CASE result.ok /\ kvTx' = [kvTx EXCEPT ![t] = r]
  <2>1. /\ Kv!Expected(batch, kv) /\ ~Kv!CreatesTwice(batch)
        /\ Kv!T!Fresh(t) = {}
    BY <1>2 DEF Kv!KvMutate, Kv!T!Fresh
  <2>2. r.callbacks = result.callbacks
    BY <2>1
  <2>3. KvSlot(r)
    BY <2>1, <2>2 DEF KvSlot, KvInv
  <2> HIDE DEF r
  <2> QED
    BY <1>1, <1>2, <2>3, KvSlotKept DEF KvInv
<1> QED
  BY <1>1, <1>2, KvFinishKept DEF KvInv

LEMMA KvInvKept == ASSUME KvInv, [Kv!Next]_kvVars PROVE KvInv'
<1>1. CASE UNCHANGED kvVars
  BY <1>1 DEF kvVars, KvInv
<1>2. SUFFICES ASSUME NEW t \in KvSlots,
                      \/ Kv!T!Begin(t) \/ Kv!T!Retry(t) \/ Kv!T!Commit(t) \/ Kv!T!Conflict(t)
                      \/ Kv!T!Throw(t) \/ Kv!T!CommitLost(t) \/ Kv!T!Callback(t)
               PROVE  KvInv'
  BY <1>1 DEF Kv!Next, Kv!T!NextTx
<1>3. KvSlot(kvTx[t])
  BY DEF KvInv
<1>4. CASE Kv!T!Begin(t)
  BY <1>4, KvRunKept DEF Kv!T!Begin, Kv!T!Retries
<1>5. CASE Kv!T!Retry(t)
  BY <1>3, <1>5, KvRunKept DEF Kv!T!Retry, KvSlot
<1>6. CASE Kv!T!Commit(t)
  <2> DEFINE r == [kvTx[t] EXCEPT !.pc = "after", !.seen = <<>>]
  <2>1. kvTx' = [kvTx EXCEPT ![t] = r]
    BY <1>6 DEF Kv!T!Commit, KvInv
  <2>2. KvSlot(r)
    BY <1>3, <1>6 DEF Kv!T!Commit, Kv!T!Committed, KvSlot
  <2> QED
    BY <1>6, <2>1, <2>2, KvSlotKept, CommitGrows DEF Kv!T!Commit
<1>7. CASE Kv!T!Conflict(t)
  <2> DEFINE r == [kvTx[t] EXCEPT !.pc = "delay", !.counter = @ + 1, !.seen = <<>>]
  <2>1. /\ UNCHANGED kv
        /\ \/ kvTx[t].counter < Kv!T!Retries /\ kvTx' = [kvTx EXCEPT ![t] = r]
           \/ Kv!T!Finish(t)
    BY <1>7 DEF Kv!T!Conflict, KvInv
  <2>2. kvTx[t].counter < Kv!T!Retries => KvSlot(r)
    BY <1>3, <1>7 DEF Kv!T!Conflict, KvSlot, Kv!T!Retries
  <2> HIDE DEF r
  <2> QED
    BY <2>1, <2>2, KvSlotKept, KvFinishKept DEF KvInv
<1>8. CASE Kv!T!Throw(t) \/ Kv!T!CommitLost(t)
  BY <1>8, CommitGrows, KvFinishKept DEF Kv!T!Throw, Kv!T!CommitLost, KvInv
<1>9. CASE Kv!T!Callback(t)
  <2>1. CASE Kv!T!Finish(t)
    BY <1>9, <2>1, KvFinishKept DEF Kv!T!Callback, KvInv
  <2>2. CASE ~Kv!T!Finish(t)
    <3>1. PICK callback \in kvTx[t].callbacks :
              kvTx' = [kvTx EXCEPT ![t] = [kvTx[t] EXCEPT !.callbacks = @ \ {callback}]]
      BY <1>9, <2>2 DEF Kv!T!Callback, KvInv
    <3>2. KvSlot([kvTx[t] EXCEPT !.callbacks = @ \ {callback}])
      BY <1>3, <1>9 DEF Kv!T!Callback, KvSlot
    <3> QED
      BY <1>9, <3>1, <3>2, KvSlotKept DEF Kv!T!Callback, KvInv
  <2> QED
    BY <2>1, <2>2
<1> QED
  BY <1>2, <1>4, <1>5, <1>6, <1>7, <1>8, <1>9

LEMMA KvInitHolds == ASSUME Kv!Init PROVE KvInv
<1>1. KvSlot(Kv!T!NoTx)
  BY DEF KvSlot, Kv!T!NoTx, Kv!T!Retries
<1>2. Kv!Missing \in Record
  BY DataAssumption DEF Kv!Missing, Record, Kv!KvAssumption
<1> QED
  BY <1>1, <1>2 DEF Kv!Init, Kv!T!InitTx, Store, KvInv

\* The key-value store's part in a behaviour of all.
LEMMA KvAlways == Spec => []KvInv
<1>1. Init => KvInv
  BY KvInitHolds DEF Init
<1>2. KvInv /\ [Next]_vars => KvInv'
  BY KvInvKept DEF Next, vars, kvVars
<1> QED
  BY <1>1, <1>2, PTL DEF Spec

LEMMA KvTypes == ASSUME KvInv PROVE Kv!TypeOK
<1>1. None \notin Kv!Batches
  BY DataAssumption DEF Kv!KvAssumption
<1>2. Kv!T!TxTypeOK
  BY <1>1 DEF KvInv, KvSlot, Kv!T!TxTypeOK
<1> QED
  BY <1>2 DEF Kv!TypeOK, KvInv, Store, Record

\* Of two batches that expect one version of a key only one is applied: a key that
\* changes gets a new version, however many batches of whatever mutations overlap, and
\* however often they are made again.
THEOREM VersionsGrowHolds == Spec => VersionsGrow
<1>1. KvInv /\ [Next]_vars
      => [\A key \in Keys : kv'[key] = kv[key] \/ kv'[key].version > kv[key].version]_kvVars
  <2>1. CASE UNCHANGED kv
    BY <2>1
  <2>2. ASSUME NEW t \in KvSlots,
               \/ Kv!T!Begin(t) \/ Kv!T!Retry(t) \/ Kv!T!Conflict(t)
               \/ Kv!T!Throw(t) \/ Kv!T!Callback(t)
        PROVE  UNCHANGED kv
    BY <2>2 DEF Kv!T!Begin, Kv!T!Retry, Kv!T!Run, Kv!T!Conflict, Kv!T!Throw, Kv!T!Callback
  <2>3. ASSUME KvInv, Kv!Next
        PROVE  \A key \in Keys : kv'[key] = kv[key] \/ kv'[key].version > kv[key].version
    BY <2>1, <2>2, <2>3, CommitGrows DEF Kv!Next, Kv!T!NextTx, Kv!T!Commit, Kv!T!CommitLost
  <2> QED
    BY <2>3 DEF Next, vars, kvVars
<1> QED
  BY <1>1, KvAlways, PTL DEF Spec, VersionsGrow, Kv!VersionsGrow, Kv!vars, kvVars
-----------------------------------------------------------------------------
(* The key-value store: its batches are carried out one by one.            *)

\* What a caller sees of a slot.
StateOf(r) == CASE r.pc \in {"running", "delay"} -> "open"
                [] r.pc = "after" -> "announcing"
                [] OTHER -> r.pc
OwedOf(r) == IF r.pc = "after" THEN r.callbacks ELSE {}

LEMMA KvSeen ==
    ASSUME KvInv, NEW t \in KvSlots, NEW r, kvTx' = [kvTx EXCEPT ![t] = r]
    PROVE  /\ Kv!T!state' = [Kv!T!state EXCEPT ![t] = StateOf(r)]
           /\ Kv!T!asked' = [Kv!T!asked EXCEPT ![t] = r.request]
           /\ Kv!T!owed' = [Kv!T!owed EXCEPT ![t] = OwedOf(r)]
<1>1. /\ \A u \in KvSlots : kvTx'[u] = IF u = t THEN r ELSE kvTx[u]
  BY DEF KvInv
<1>2. /\ Kv!T!state = [u \in KvSlots |-> StateOf(kvTx[u])]
      /\ Kv!T!asked = [u \in KvSlots |-> kvTx[u].request]
      /\ Kv!T!owed = [u \in KvSlots |-> OwedOf(kvTx[u])]
      /\ Kv!T!state' = [u \in KvSlots |-> StateOf(kvTx'[u])]
      /\ Kv!T!asked' = [u \in KvSlots |-> kvTx'[u].request]
      /\ Kv!T!owed' = [u \in KvSlots |-> OwedOf(kvTx'[u])]
  BY DEF Kv!T!state, Kv!T!asked, Kv!T!owed, StateOf, OwedOf
<1>3. \A u \in KvSlots :
          /\ Kv!T!state'[u] = IF u = t THEN StateOf(r) ELSE Kv!T!state[u]
          /\ Kv!T!asked'[u] = IF u = t THEN r.request ELSE Kv!T!asked[u]
          /\ Kv!T!owed'[u] = IF u = t THEN OwedOf(r) ELSE Kv!T!owed[u]
  BY <1>1, <1>2
<1>4. Kv!T!state' = [Kv!T!state EXCEPT ![t] = StateOf(r)]
  BY <1>2, <1>3
<1>5. Kv!T!asked' = [Kv!T!asked EXCEPT ![t] = r.request]
  BY <1>2, <1>3
<1>6. Kv!T!owed' = [Kv!T!owed EXCEPT ![t] = OwedOf(r)]
  BY <1>2, <1>3
<1> QED
  BY <1>4, <1>5, <1>6

\* A slot that caller and database do not see change.
LEMMA KvSame ==
    ASSUME KvInv, NEW t \in KvSlots, NEW r, kvTx' = [kvTx EXCEPT ![t] = r],
           StateOf(r) = StateOf(kvTx[t]), r.request = kvTx[t].request,
           OwedOf(r) = OwedOf(kvTx[t])
    PROVE  UNCHANGED <<Kv!T!state, Kv!T!asked, Kv!T!owed>>
<1>1. \A u \in KvSlots : /\ StateOf(kvTx'[u]) = StateOf(kvTx[u])
                         /\ kvTx'[u].request = kvTx[u].request
                         /\ OwedOf(kvTx'[u]) = OwedOf(kvTx[u])
  BY DEF KvInv
<1>2. UNCHANGED Kv!T!state
  BY <1>1 DEF Kv!T!state, StateOf
<1>3. UNCHANGED Kv!T!asked
  BY <1>1 DEF Kv!T!asked
<1>4. UNCHANGED Kv!T!owed
  BY <1>1 DEF Kv!T!owed, OwedOf
<1> QED
  BY <1>2, <1>3, <1>4

\* A slot that has nothing to announce ends.
LEMMA KvCloses ==
    ASSUME KvInv, NEW t \in KvSlots, Kv!T!Finish(t), OwedOf(kvTx[t]) = {}
    PROVE  /\ Kv!T!state' = [Kv!T!state EXCEPT ![t] = "done"]
           /\ Kv!T!asked' = [Kv!T!asked EXCEPT ![t] = None]
           /\ UNCHANGED Kv!T!owed
<1> DEFINE r == [Kv!T!NoTx EXCEPT !.pc = "done"]
<1>1. kvTx' = [kvTx EXCEPT ![t] = r]
  BY DEF Kv!T!Finish
<1>2. StateOf(r) = "done" /\ r.request = None /\ OwedOf(r) = {}
  BY DEF StateOf, OwedOf, Kv!T!NoTx
<1> HIDE DEF r
<1>0. /\ Kv!T!state' = [Kv!T!state EXCEPT ![t] = StateOf(r)]
      /\ Kv!T!asked' = [Kv!T!asked EXCEPT ![t] = r.request]
      /\ Kv!T!owed' = [Kv!T!owed EXCEPT ![t] = OwedOf(r)]
  BY <1>1, KvSeen
<1>3. /\ Kv!T!state' = [Kv!T!state EXCEPT ![t] = "done"]
      /\ Kv!T!asked' = [Kv!T!asked EXCEPT ![t] = None]
      /\ Kv!T!owed' = [Kv!T!owed EXCEPT ![t] = {}]
  BY <1>0, <1>2
<1>4. Kv!T!owed = [u \in KvSlots |-> OwedOf(kvTx[u])]
  BY DEF Kv!T!owed, OwedOf
<1>5. UNCHANGED Kv!T!owed
  BY <1>3, <1>4
<1> QED
  BY <1>3, <1>5

LEMMA KvEnds ==
    ASSUME KvInv, NEW t \in KvSlots, Kv!T!Finish(t), UNCHANGED kv, OwedOf(kvTx[t]) = {}
    PROVE  Kv!T!Promise!Ends(t)
BY KvCloses DEF Kv!T!Promise!Ends

\* What a batch does to a store depends on the keys that it names.
LEMMA KvAlone ==
    ASSUME NEW batch \in Kv!Batches, NEW d \in Store, NEW e \in Store,
           \A key \in Kv!Touched(batch) : d[key] = e[key],
           Kv!Expected(batch, d), ~Kv!CreatesTwice(batch)
    PROVE  /\ Kv!KvMutate(batch, e).ok
           /\ Kv!KvMutate(batch, e).callbacks = Kv!KvMutate(batch, d).callbacks
           /\ Kv!KvMutate(batch, e).db =
                  [key \in Keys |-> IF Kv!Applied(batch, d)[key] # d[key]
                                    THEN Kv!Applied(batch, d)[key] ELSE e[key]]
<1>1. Kv!Expected(batch, e)
  BY DEF Kv!Expected, Kv!Touched
<1>2. ASSUME NEW key \in Keys
      PROVE  Kv!Applied(batch, e)[key] = IF Kv!Applied(batch, d)[key] # d[key]
                                         THEN Kv!Applied(batch, d)[key] ELSE e[key]
  BY DEF Kv!Applied
<1>3. Kv!Applied(batch, e) = [key \in Keys |-> IF Kv!Applied(batch, d)[key] # d[key]
                                               THEN Kv!Applied(batch, d)[key] ELSE e[key]]
  BY <1>2 DEF Kv!Applied
<1> QED
  BY <1>1, <1>3 DEF Kv!KvMutate

\* The function is run for the first time or again: nothing is seen of it, unless it refuses.
LEMMA KvRuns ==
    ASSUME KvInv, NEW t \in KvSlots, NEW batch \in Kv!Batches, NEW counter,
           Kv!T!Run(t, batch, counter),
           \/ kvTx[t].pc = "idle"
           \/ kvTx[t].pc = "delay" /\ kvTx[t].request = batch
    PROVE  Kv!T!Promise!Next \/ UNCHANGED Kv!T!Promise!vars
<1>1. UNCHANGED kv /\ OwedOf(kvTx[t]) = {}
  BY DEF Kv!T!Run, OwedOf
<1>2. Kv!T!state[t] = StateOf(kvTx[t]) /\ Kv!T!asked[t] = kvTx[t].request
  BY DEF Kv!T!state, Kv!T!asked, StateOf
<1>3. CASE Kv!KvMutate(batch, kv).ok
  <2> DEFINE r == [pc |-> "running", request |-> batch, counter |-> counter, seen |-> kv,
                   callbacks |-> Kv!T!Fresh(t) \cup Kv!KvMutate(batch, kv).callbacks]
  <2>1. kvTx' = [kvTx EXCEPT ![t] = r]
    BY <1>3 DEF Kv!T!Run
  <2>2. StateOf(r) = "open" /\ r.request = batch /\ OwedOf(r) = {}
    BY DEF StateOf, OwedOf
  <2> HIDE DEF r
  <2>3. CASE kvTx[t].pc = "delay" /\ kvTx[t].request = batch
    <3>1. StateOf(kvTx[t]) = "open"
      BY <2>3 DEF StateOf
    <3> QED
      BY <1>1, <2>1, <2>2, <2>3, <3>1, KvSame DEF Kv!T!Promise!vars
  <2>4. CASE kvTx[t].pc = "idle"
    <3>1. /\ Kv!T!state' = [Kv!T!state EXCEPT ![t] = StateOf(r)]
          /\ Kv!T!asked' = [Kv!T!asked EXCEPT ![t] = r.request]
          /\ Kv!T!owed' = [Kv!T!owed EXCEPT ![t] = OwedOf(r)]
      BY <2>1, KvSeen
    <3>2. Kv!T!state[t] = "idle"
      BY <1>2, <2>4 DEF StateOf
    <3>3. UNCHANGED Kv!T!owed
      <4>1. Kv!T!owed = [u \in KvSlots |-> OwedOf(kvTx[u])]
        BY DEF Kv!T!owed, OwedOf
      <4> QED
        BY <1>1, <2>2, <3>1, <4>1
    <3>4. Kv!T!Promise!Ask(t)
      BY <1>1, <2>2, <3>1, <3>2, <3>3 DEF Kv!T!Promise!Ask
    <3> QED
      BY <3>4 DEF Kv!T!Promise!Next
  <2> QED
    BY <2>3, <2>4
<1>4. CASE ~Kv!KvMutate(batch, kv).ok
  <2>1. Kv!T!Promise!Ends(t)
    BY <1>1, <1>4, KvEnds DEF Kv!T!Run
  <2>2. Kv!T!state[t] = "idle" \/ (Kv!T!state[t] = "open" /\ Kv!T!asked[t] = batch)
    BY <1>2 DEF StateOf
  <2>3. Kv!T!Promise!Refuse(t)
    BY <1>4, <2>1, <2>2 DEF Kv!T!Promise!Refuse
  <2> QED
    BY <2>3 DEF Kv!T!Promise!Next
<1> QED
  BY <1>3, <1>4

\* An attempt that is isolated commits what the request does to the rows as they are.
LEMMA KvTakes ==
    ASSUME KvInv, NEW t \in KvSlots, Kv!T!Committed(t)
    PROVE  /\ Kv!T!Promise!Takes(t)
           /\ Kv!T!asked[t] = kvTx[t].request
           /\ Kv!KvMutate(kvTx[t].request, kv).callbacks = kvTx[t].callbacks
<1> DEFINE batch == kvTx[t].request
           seen == kvTx[t].seen
<1>1. /\ batch \in Kv!Batches /\ seen \in Store /\ kv \in Store
      /\ Kv!Expected(batch, seen) /\ ~Kv!CreatesTwice(batch)
      /\ \A key \in Kv!Touched(batch) : seen[key] = kv[key]
      /\ kvTx[t].pc = "running"
      /\ kvTx[t].callbacks = Kv!KvMutate(batch, seen).callbacks
  BY DEF KvInv, KvSlot, Kv!T!Committed, Kv!T!Isolated
<1>2. kv' = [key \in Keys |-> IF Kv!Applied(batch, seen)[key] # seen[key]
                              THEN Kv!Applied(batch, seen)[key] ELSE kv[key]]
  BY DEF Kv!T!Committed, Kv!KvMutate
<1>3. Kv!T!state[t] = "open" /\ Kv!T!asked[t] = batch
  BY <1>1 DEF Kv!T!state, Kv!T!asked
<1> HIDE DEF batch, seen
<1>4. /\ Kv!KvMutate(batch, kv).ok
      /\ Kv!KvMutate(batch, kv).callbacks = kvTx[t].callbacks
      /\ Kv!KvMutate(batch, kv).db = kv'
  BY <1>1, <1>2, KvAlone
<1> QED
  BY <1>3, <1>4 DEF Kv!T!Promise!Takes, batch

LEMMA KvCommits ==
    ASSUME KvInv, NEW t \in KvSlots, Kv!T!Commit(t)
    PROVE  Kv!T!Promise!Execute(t)
<1> DEFINE r == [kvTx[t] EXCEPT !.pc = "after", !.seen = <<>>]
<1>1. Kv!T!Committed(t) /\ kvTx' = [kvTx EXCEPT ![t] = r]
  BY DEF Kv!T!Commit, KvInv
<1>2. /\ Kv!T!Promise!Takes(t) /\ Kv!T!asked[t] = kvTx[t].request
      /\ Kv!KvMutate(kvTx[t].request, kv).callbacks = kvTx[t].callbacks
  BY <1>1, KvTakes
<1>3. StateOf(r) = "announcing" /\ r.request = kvTx[t].request /\ OwedOf(r) = kvTx[t].callbacks
  <2>1. kvTx[t].pc = "running"
    BY <1>1 DEF Kv!T!Committed
  <2>2. r.pc = "after" /\ r.request = kvTx[t].request /\ r.callbacks = kvTx[t].callbacks
    BY <2>1 DEF KvInv, KvSlot
  <2> QED
    BY <2>2 DEF StateOf, OwedOf
<1> HIDE DEF r
<1>4. /\ Kv!T!state' = [Kv!T!state EXCEPT ![t] = StateOf(r)]
      /\ Kv!T!asked' = [Kv!T!asked EXCEPT ![t] = r.request]
      /\ Kv!T!owed' = [Kv!T!owed EXCEPT ![t] = OwedOf(r)]
  BY <1>1, KvSeen
<1>5. UNCHANGED Kv!T!asked
  <2>1. Kv!T!asked = [u \in KvSlots |-> kvTx[u].request]
    BY DEF Kv!T!asked
  <2> QED
    BY <1>3, <1>4, <2>1
<1> QED
  BY <1>2, <1>3, <1>4, <1>5 DEF Kv!T!Promise!Execute

\* A commit whose answer is lost does as much and announces nothing.
LEMMA KvLoses ==
    ASSUME KvInv, NEW t \in KvSlots, Kv!T!CommitLost(t)
    PROVE  Kv!T!Promise!ExecuteUnknown(t)
<1>1. OwedOf(kvTx[t]) = {}
  BY DEF Kv!T!CommitLost, Kv!T!Committed, OwedOf
<1> QED
  BY <1>1, KvTakes, KvCloses DEF Kv!T!CommitLost, Kv!T!Promise!ExecuteUnknown

\* A conflict is not seen, unless it is the last one; an error gives the request up.
LEMMA KvGivesUp ==
    ASSUME KvInv, NEW t \in KvSlots, Kv!T!Conflict(t) \/ Kv!T!Throw(t)
    PROVE  Kv!T!Promise!Next \/ UNCHANGED Kv!T!Promise!vars
<1>1. UNCHANGED kv /\ kvTx[t].pc = "running"
  BY DEF Kv!T!Conflict, Kv!T!Throw
<1>2. StateOf(kvTx[t]) = "open" /\ OwedOf(kvTx[t]) = {}
  BY <1>1 DEF StateOf, OwedOf
<1>3. Kv!T!state[t] = "open"
  BY <1>2 DEF Kv!T!state, StateOf
<1>4. CASE Kv!T!Finish(t)
  <2>1. Kv!T!Promise!GiveUp(t)
    BY <1>1, <1>2, <1>3, <1>4, KvEnds DEF Kv!T!Promise!GiveUp
  <2> QED
    BY <2>1 DEF Kv!T!Promise!Next
<1>5. CASE ~Kv!T!Finish(t)
  <2> DEFINE r == [kvTx[t] EXCEPT !.pc = "delay", !.counter = @ + 1, !.seen = <<>>]
  <2>1. kvTx' = [kvTx EXCEPT ![t] = r]
    BY <1>5 DEF Kv!T!Conflict, Kv!T!Throw, KvInv
  <2>2. r.pc = "delay" /\ r.request = kvTx[t].request
    BY DEF KvInv, KvSlot
  <2>3. StateOf(r) = "open" /\ OwedOf(r) = {}
    BY <2>2 DEF StateOf, OwedOf
  <2> HIDE DEF r
  <2> QED
    BY <1>1, <1>2, <2>1, <2>2, <2>3, KvSame DEF Kv!T!Promise!vars
<1> QED
  BY <1>4, <1>5

LEMMA KvAnnounces ==
    ASSUME KvInv, NEW t \in KvSlots, Kv!T!Callback(t)
    PROVE  Kv!T!Promise!Announce(t)
<1>1. UNCHANGED kv /\ kvTx[t].pc = "after"
  BY DEF Kv!T!Callback
<1>2. Kv!T!state[t] = "announcing" /\ Kv!T!owed[t] = kvTx[t].callbacks
  BY <1>1 DEF Kv!T!state, Kv!T!owed
<1>3. CASE kvTx[t].callbacks = {} /\ Kv!T!Finish(t)
  <2>1. Kv!T!Promise!Ends(t)
    BY <1>1, <1>3, KvEnds DEF OwedOf
  <2> QED
    BY <1>2, <1>3, <2>1 DEF Kv!T!Promise!Announce
<1>4. ASSUME NEW callback \in kvTx[t].callbacks,
             kvTx' = [kvTx EXCEPT ![t].callbacks = @ \ {callback}]
      PROVE  Kv!T!Promise!Announce(t)
  <2> DEFINE r == [kvTx[t] EXCEPT !.callbacks = @ \ {callback}]
  <2>1. kvTx' = [kvTx EXCEPT ![t] = r]
    BY <1>4 DEF KvInv
  <2>2. r.pc = "after" /\ r.request = kvTx[t].request /\ r.callbacks = kvTx[t].callbacks \ {callback}
    BY <1>1 DEF KvInv, KvSlot
  <2>3. /\ StateOf(r) = StateOf(kvTx[t]) /\ OwedOf(r) = kvTx[t].callbacks \ {callback}
    BY <1>1, <2>2 DEF StateOf, OwedOf
  <2> HIDE DEF r
  <2>4. UNCHANGED Kv!T!state /\ UNCHANGED Kv!T!asked
    <3>1. \A u \in KvSlots : /\ StateOf(kvTx'[u]) = StateOf(kvTx[u])
                             /\ kvTx'[u].request = kvTx[u].request
      BY <2>1, <2>2, <2>3 DEF KvInv
    <3>2. UNCHANGED Kv!T!state
      BY <3>1 DEF Kv!T!state, StateOf
    <3>3. UNCHANGED Kv!T!asked
      BY <3>1 DEF Kv!T!asked
    <3> QED
      BY <3>2, <3>3
  <2>5. Kv!T!owed' = [Kv!T!owed EXCEPT ![t] = OwedOf(r)]
    BY <2>1, KvSeen
  <2>6. Kv!T!owed' = [Kv!T!owed EXCEPT ![t] = @ \ {callback}]
    <3>1. Kv!T!owed = [u \in KvSlots |-> OwedOf(kvTx[u])]
      BY DEF Kv!T!owed, OwedOf
    <3> QED
      BY <1>2, <2>3, <2>5, <3>1
  <2> QED
    BY <1>1, <1>2, <1>4, <2>4, <2>6 DEF Kv!T!Promise!Announce
<1> QED
  BY <1>3, <1>4 DEF Kv!T!Callback

\* The refinement of the key-value store's part.
LEMMA KvSteps == ASSUME KvInv, [Kv!Next]_kvVars PROVE [Kv!T!Promise!Next]_(Kv!T!Promise!vars)
<1>1. CASE UNCHANGED kvVars
  BY <1>1 DEF kvVars, Kv!T!Promise!vars, Kv!T!state, Kv!T!asked, Kv!T!owed
<1>2. SUFFICES ASSUME NEW t \in KvSlots,
                      \/ Kv!T!Begin(t) \/ Kv!T!Retry(t) \/ Kv!T!Commit(t) \/ Kv!T!Conflict(t)
                      \/ Kv!T!Throw(t) \/ Kv!T!CommitLost(t) \/ Kv!T!Callback(t)
               PROVE  Kv!T!Promise!Next \/ UNCHANGED Kv!T!Promise!vars
  BY <1>1 DEF Kv!Next, Kv!T!NextTx
<1>3. CASE Kv!T!Begin(t)
  BY <1>3, KvRuns DEF Kv!T!Begin
<1>4. CASE Kv!T!Retry(t)
  BY <1>4, KvRuns DEF Kv!T!Retry, KvInv, KvSlot
<1>5. CASE Kv!T!Commit(t)
  BY <1>5, KvCommits DEF Kv!T!Promise!Next
<1>8. CASE Kv!T!CommitLost(t)
  BY <1>8, KvLoses DEF Kv!T!Promise!Next
<1>6. CASE Kv!T!Conflict(t) \/ Kv!T!Throw(t)
  BY <1>6, KvGivesUp
<1>7. CASE Kv!T!Callback(t)
  BY <1>7, KvAnnounces DEF Kv!T!Promise!Next
<1> QED
  BY <1>2, <1>3, <1>4, <1>5, <1>6, <1>7, <1>8
-----------------------------------------------------------------------------
(* The GitHub link: the calls.                                             *)

AccountRow == [github : GithubUsers \cup {None}, username : GithubUsers \cup {None}]

CallRow == [pc : Link!Points, account : Accounts \cup {None}, github : GithubUsers \cup {None},
            other : Accounts \cup {None}, given : GithubUsers \cup {None}]

Ended == {"idle", "done", "failed"}

\* What a call is about is known once it has begun: its account, from the look-up on
\* the account that gives up a GitHub user, and the GitHub user if it is to connect.
Fits(r) == /\ r \in CallRow
           /\ r.pc \notin Ended => r.account \in Accounts
           /\ r.pc \in {"look", "unlink"} => r.other \in Accounts
           /\ r.pc \in {"check", "find", "link", "announceLink"} => r.github # None

CallsFit == linkCall \in [LinkCalls -> {r \in CallRow : Fits(r)}]

LinkInv == Link!TypeOK /\ CallsFit /\ Link!NameOfLink
-----------------------------------------------------------------------------
(* The calls.                                                              *)

LEMMA CallKept ==
    ASSUME Link!GithubAssumption, Link!TypeOK, CallsFit, NEW c \in LinkCalls,
           \/ Link!Begin(c) \/ Link!CheckSame(c) \/ Link!FindOther(c) \/ Link!Look(c)
           \/ Link!Unlink(c) \/ Link!AnnounceUnlink(c) \/ Link!Link(c) \/ Link!AnnounceLink(c)
           \/ Link!Fail(c)
    PROVE  CallsFit'
<1> DEFINE Moves(r) == linkCall' = [linkCall EXCEPT ![c] = r]
<1>1. Fits(linkCall[c])
  BY DEF CallsFit
<1>2. ASSUME NEW r, Fits(r), Moves(r) PROVE CallsFit'
  BY <1>2 DEF CallsFit, Fits
<1>3. ASSUME NEW pc \in {"done", "failed"}, Link!End(c, pc) PROVE CallsFit'
  <2>1. Fits([Link!NoCall EXCEPT !.pc = pc])
    BY DEF Link!NoCall, Fits, CallRow, Link!Points, Ended
  <2> QED
    BY <1>2, <1>3, <2>1 DEF Link!End
<1>4. ASSUME NEW pc \in Link!Points, Link!GoTo(c, pc) PROVE Moves([linkCall[c] EXCEPT !.pc = pc])
  BY <1>4 DEF Link!GoTo
<1>5. ASSUME Link!AfterUnlink(c), linkCall[c].pc \in {"look", "announceUnlink"} PROVE CallsFit'
  <2>1. Link!Connects(c) => Fits([linkCall[c] EXCEPT !.pc = "link"])
    BY <1>1, <1>5 DEF Link!Connects, Fits, CallRow, Link!Points, Ended
  <2>2. "link" \in Link!Points
    BY DEF Link!Points
  <2> QED
    BY <1>2, <1>3, <1>4, <1>5, <2>1, <2>2 DEF Link!AfterUnlink
<1>6. CASE Link!Begin(c)
  <2>1. ASSUME NEW a \in Accounts
        PROVE  Fits([linkCall[c] EXCEPT !.pc = "look", !.account = a, !.other = a])
    BY <1>1 DEF Fits, CallRow, Link!Points
  <2>2. ASSUME NEW a \in Accounts, NEW g \in GithubUsers
        PROVE  Fits([linkCall[c] EXCEPT !.pc = "check", !.account = a, !.github = g])
    BY <1>1 DEF Fits, CallRow, Link!Points, Link!GithubAssumption
  <2>3. ASSUME NEW a \in Accounts,
               linkCall' = [linkCall EXCEPT ![c].pc = "look", ![c].account = a, ![c].other = a]
        PROVE  Moves([linkCall[c] EXCEPT !.pc = "look", !.account = a, !.other = a])
    BY <2>3 DEF CallsFit
  <2>4. ASSUME NEW a \in Accounts, NEW g \in GithubUsers,
               linkCall' = [linkCall EXCEPT ![c].pc = "check", ![c].account = a, ![c].github = g]
        PROVE  Moves([linkCall[c] EXCEPT !.pc = "check", !.account = a, !.github = g])
    BY <2>4 DEF CallsFit
  <2> HIDE DEF Moves
  <2> QED
    BY <1>2, <1>6, <2>1, <2>2, <2>3, <2>4 DEF Link!Begin
<1>7. CASE Link!CheckSame(c)
  <2>1. linkCall[c].pc = "check" => Fits([linkCall[c] EXCEPT !.pc = "find"])
    BY <1>1 DEF Fits, CallRow, Link!Points, Ended
  <2> QED
    BY <1>2, <1>3, <1>4, <1>7, <2>1 DEF Link!CheckSame, Link!Points
<1>8. CASE Link!FindOther(c)
  <2>1. Fits([linkCall[c] EXCEPT !.pc = "link"])
    BY <1>1, <1>8 DEF Link!FindOther, Fits, CallRow, Link!Points, Ended
  <2>2. ASSUME NEW a \in Accounts PROVE Fits([linkCall[c] EXCEPT !.pc = "look", !.other = a])
    BY <1>1, <1>8 DEF Link!FindOther, Fits, CallRow, Link!Points, Ended
  <2>3. ASSUME NEW a \in Accounts, linkCall' = [linkCall EXCEPT ![c].pc = "look", ![c].other = a]
        PROVE  Moves([linkCall[c] EXCEPT !.pc = "look", !.other = a])
    BY <2>3 DEF CallsFit
  <2>4. \/ Link!GoTo(c, "link")
        \/ \E a \in Accounts : linkCall' = [linkCall EXCEPT ![c].pc = "look", ![c].other = a]
    BY <1>8 DEF Link!FindOther
  <2> HIDE DEF Moves
  <2> QED
    BY <1>2, <1>4, <2>1, <2>2, <2>3, <2>4 DEF Link!Points
<1>9. CASE Link!Look(c)
  <2> DEFINE g == account[linkCall[c].other].github
             r == [linkCall[c] EXCEPT !.pc = "unlink", !.given = g]
  <2>1. g \in GithubUsers \cup {None}
    BY <1>1, <1>9 DEF Link!Look, Fits, Link!TypeOK
  <2>2. Fits(r)
    BY <1>1, <1>9, <2>1 DEF Link!Look, Fits, CallRow, Link!Points, Ended
  <2>3. Link!AfterUnlink(c) \/ Moves(r)
    BY <1>9 DEF Link!Look, CallsFit
  <2> HIDE DEF Moves, r
  <2> QED
    BY <1>2, <1>5, <1>9, <2>2, <2>3 DEF Link!Look
<1>10. CASE Link!Unlink(c)
  <2>1. Fits([linkCall[c] EXCEPT !.pc = "announceUnlink"])
    BY <1>1, <1>10 DEF Link!Unlink, Fits, CallRow, Link!Points, Ended
  <2> QED
    BY <1>2, <1>3, <1>4, <1>10, <2>1 DEF Link!Unlink, Link!Points
<1>11. CASE Link!AnnounceUnlink(c)
  BY <1>5, <1>11 DEF Link!AnnounceUnlink
<1>12. CASE Link!Link(c)
  <2>1. Fits([linkCall[c] EXCEPT !.pc = "announceLink"])
    BY <1>1, <1>12 DEF Link!Link, Fits, CallRow, Link!Points, Ended
  <2> QED
    BY <1>2, <1>3, <1>4, <1>12, <2>1 DEF Link!Link, Link!Points
<1>13. CASE Link!AnnounceLink(c) \/ Link!Fail(c)
  BY <1>3, <1>13 DEF Link!AnnounceLink, Link!Fail
<1> QED
  BY <1>6, <1>7, <1>8, <1>9, <1>10, <1>11, <1>12, <1>13
-----------------------------------------------------------------------------
(* The accounts.                                                           *)

Linked == /\ account \in [Accounts -> AccountRow]
          /\ githubUsers \subseteq GithubUsers
          /\ \A a \in Accounts : account[a].github \in githubUsers \cup {None}
          /\ cut \subseteq Accounts

\* A step that leaves the accounts alone leaves every name as it was.
LEMMA AccountsKept ==
    ASSUME Link!GithubAssumption, Linked, CallsFit, Link!NameOfLink, NEW c \in LinkCalls,
           \/ UNCHANGED <<account, githubUsers, cut>>
           \/ Link!Unlink(c)
           \/ Link!Link(c)
    PROVE  Linked' /\ Link!NameOfLink'
<1>1. Fits(linkCall[c])
  BY DEF CallsFit
<1>2. CASE UNCHANGED <<account, githubUsers, cut>>
  BY <1>2 DEF Linked, Link!NameOfLink
<1>3. CASE Link!Unlink(c) /\ ~UNCHANGED <<account, githubUsers, cut>>
  <2> DEFINE losers == {a \in Accounts \ {linkCall[c].other} : account[a].github = linkCall[c].given}
  <2>1. /\ account' = [a \in Accounts |-> IF a = linkCall[c].other THEN Link!Cleared(a)
                                          ELSE IF a \in losers
                                          THEN [account[a] EXCEPT !.github = None]
                                          ELSE account[a]]
        /\ githubUsers' = githubUsers \ {linkCall[c].given}
        /\ cut' = (cut \cup losers) \ {linkCall[c].other}
    BY <1>3 DEF Link!Unlink
  <2>2. ASSUME NEW a \in Accounts
        PROVE  /\ account'[a] \in AccountRow
               /\ a = linkCall[c].other => account'[a].github = None /\ account'[a].username = None
               /\ a \in losers => /\ account'[a].github = None
                                  /\ account'[a].username = account[a].username
               /\ a # linkCall[c].other /\ a \notin losers => /\ account'[a] = account[a]
                                                          /\ account[a].github # linkCall[c].given
    BY <2>1 DEF Linked, AccountRow, Link!Cleared, Link!Unlinked
  <2> HIDE DEF losers
  <2>3. losers \subseteq Accounts \ {linkCall[c].other}
    BY DEF losers
  <2>4. Linked'
    BY <2>1, <2>2, <2>3 DEF Linked
  <2>5. Link!NameOfLink'
    BY <2>1, <2>2, <2>3 DEF Link!NameOfLink, Linked
  <2> QED
    BY <2>4, <2>5
<1>4. CASE Link!Link(c) /\ ~UNCHANGED <<account, githubUsers, cut>>
  <2>1. linkCall[c].account \in Accounts /\ linkCall[c].github \in GithubUsers
    BY <1>1, <1>4 DEF Link!Link, Fits, CallRow, Ended
  <2>2. ASSUME NEW a \in Accounts
        PROVE  /\ account'[a] \in AccountRow
               /\ a = linkCall[c].account => /\ account'[a].github = linkCall[c].github
                                         /\ account'[a].username = linkCall[c].github
               /\ a # linkCall[c].account => account'[a] = account[a]
    BY <1>4, <2>1 DEF Link!Link, Linked, AccountRow
  <2>3. /\ githubUsers' = githubUsers \cup {linkCall[c].github}
        /\ cut' = cut \ {linkCall[c].account}
        /\ account' \in [Accounts -> AccountRow]
    BY <1>4, <2>1, <2>2 DEF Link!Link, Linked
  <2> QED
    BY <2>1, <2>2, <2>3 DEF Linked, Link!NameOfLink
<1> QED
  BY <1>2, <1>3, <1>4

LEMMA LinkInvKept == ASSUME Link!GithubAssumption, LinkInv, [Link!Next]_(linkVars) PROVE LinkInv'
<1>1. CASE UNCHANGED linkVars
  BY <1>1 DEF linkVars, LinkInv, Link!TypeOK, CallsFit, Link!NameOfLink
<1>2. SUFFICES ASSUME NEW c \in LinkCalls,
                      \/ Link!Begin(c) \/ Link!CheckSame(c) \/ Link!FindOther(c) \/ Link!Look(c)
                      \/ Link!Unlink(c) \/ Link!AnnounceUnlink(c) \/ Link!Link(c) \/ Link!AnnounceLink(c)
                      \/ Link!Fail(c)
               PROVE  LinkInv'
  BY <1>1 DEF Link!Next
<1>3. CallsFit'
  BY <1>2, CallKept DEF LinkInv
<1>4. \/ UNCHANGED <<account, githubUsers, cut>>
      \/ Link!Unlink(c)
      \/ Link!Link(c)
  BY <1>2 DEF Link!Begin, Link!CheckSame, Link!FindOther, Link!Look, Link!AnnounceUnlink, Link!AnnounceLink, Link!Fail
<1>5. Linked' /\ Link!NameOfLink'
  BY <1>4, AccountsKept DEF LinkInv, Link!TypeOK, Linked, AccountRow
<1>6. linkCall' \in [LinkCalls -> CallRow]
  BY <1>3 DEF CallsFit
<1> QED
  BY <1>3, <1>5, <1>6 DEF LinkInv, Link!TypeOK, Linked, AccountRow, CallRow

LEMMA LinkInitHolds == ASSUME Link!GithubAssumption, Link!Init PROVE LinkInv
<1>1. CallsFit
  <2>1. Fits(Link!NoCall)
    BY DEF Link!NoCall, Fits, CallRow, Link!Points, Ended
  <2> QED
    BY <2>1 DEF Link!Init, CallsFit, Fits
<1>2. \A a \in Accounts : \E g \in GithubUsers \cup {None} :
          account[a] = [github |-> g, username |-> g]
  BY DEF Link!Init
<1>3. account \in [Accounts -> AccountRow]
  BY DEF Link!Init, AccountRow
<1>4. \A a \in Accounts : account[a].github = account[a].username
  <2>1. SUFFICES ASSUME NEW a \in Accounts PROVE account[a].github = account[a].username
    OBVIOUS
  <2>2. PICK g \in GithubUsers \cup {None} : account[a] = [github |-> g, username |-> g]
    BY <1>2
  <2> QED
    BY <2>2
<1>5. \A a \in Accounts : account[a].github \in githubUsers \cup {None}
  BY DEF Link!Init
<1>6. githubUsers \subseteq GithubUsers
  BY <1>3 DEF Link!Init, AccountRow
<1>7. linkCall \in [LinkCalls -> CallRow]
  BY <1>1 DEF CallsFit
<1> QED
  BY <1>1, <1>3, <1>4, <1>5, <1>6, <1>7 DEF LinkInv, Link!TypeOK, Link!NameOfLink, AccountRow, CallRow, Link!Init

LEMMA LinkAlways == Spec => []LinkInv
<1>1. Init => LinkInv
  BY DataAssumption, LinkInitHolds DEF Init
<1>2. LinkInv /\ [Next]_vars => LinkInv'
  BY DataAssumption, LinkInvKept DEF Next, vars, linkVars
<1> QED
  BY <1>1, <1>2, PTL DEF Spec

\* An account's user name is that of the GitHub user it is linked to, or the account was
\* cut off from that user by another one's disconnect, whatever calls overlap.
THEOREM NameOfLinkHolds == Spec => []NameOfLink
<1>1. LinkInv => NameOfLink
  BY DEF LinkInv, NameOfLink
<1> QED
  BY <1>1, LinkAlways, PTL
-----------------------------------------------------------------------------
(* Friends and the feed: what their functions make of the rows.            *)

Rows == Accounts \cup Friends!Pairs

\* A relation whose user was told once, if within 24 hours.
GoodRelation(r) == /\ r \in [status : Friends!Status, recent : BOOLEAN, told : {0, 1}]
                   /\ r.told = IF r.recent THEN 1 ELSE 0

\* An account whose feed has one item per key.
GoodAccount(r) == /\ r \in [feed : SUBSET [key : Friends!RepeatKeys \cup {None}, counter : Nat],
                            feedSeq : Nat,
                            dismissed : SUBSET Friends!RepeatKeys]
                  /\ \A i \in r.feed :
                         /\ i.counter \in 1..r.feedSeq
                         /\ \A j \in r.feed : i.key = j.key /\ i.key # None => i = j

GoodRows(db) == /\ DOMAIN db = Rows
                /\ \A user \in Accounts : GoodAccount(db[user])
                /\ \A p \in Friends!Pairs : GoodRelation(db[p])

Mirrored(db) == \A p \in Friends!Pairs :
                    Friends!InStory(db[p].status, db[<<p[2], p[1]>>].status)

\* No item is added whose key was dismissed, and no dismissed key is given up.
Allowed(db, new) ==
    \A user \in Accounts : /\ db[user].dismissed \subseteq new[user].dismissed
                           /\ \A i \in new[user].feed \ db[user].feed :
                                  i.key \notin db[user].dismissed

\* Only rows that it may change are changed, for good ones, as it is allowed.
Changes(db, new, rows) == /\ GoodRows(new)
                          /\ \A x \in Rows \ rows : new[x] = db[x]
                          /\ Allowed(db, new)

LEMMA PairsOfUsers ==
    /\ \A p \in Friends!Pairs : /\ p \notin Accounts
                                /\ p[1] \in Accounts /\ p[2] \in Accounts /\ p[1] # p[2]
                                /\ p = <<p[1], p[2]>>
    /\ \A u, v \in Accounts : u # v => <<u, v>> \in Friends!Pairs /\ <<u, v>> \notin Accounts
<1>1. \A p \in Friends!Pairs : p \notin Accounts
  BY DataAssumption DEF Friends!SocialAssumption
<1> QED
  BY <1>1 DEF Friends!Pairs

LEMMA FeedPostChanges ==
    ASSUME NEW db, GoodRows(db), NEW user \in Accounts,
           NEW key \in Friends!RepeatKeys \cup {None}
    PROVE  Changes(db, Friends!feedPost(db, user, key), {user})
<1> DEFINE kept == {i \in db[user].feed : key = None \/ i.key # key}
           next == db[user].feedSeq + 1
           item == [key |-> key, counter |-> next]
           r == [db[user] EXCEPT !.feed = kept \cup {item}, !.feedSeq = next]
<1>1. CASE key \in db[user].dismissed
  BY <1>1 DEF Friends!feedPost, Changes, Allowed
<1>2. CASE key \notin db[user].dismissed
  <2>1. Friends!feedPost(db, user, key) = [db EXCEPT ![user] = r]
    BY <1>2 DEF Friends!feedPost, GoodRows, Rows
  <2>2. GoodAccount(db[user])
    BY DEF GoodRows
  <2>3. /\ next \in Nat
        /\ item \in [key : Friends!RepeatKeys \cup {None}, counter : Nat]
        /\ item.counter \in 1..next /\ item.key = key
    BY <2>2 DEF GoodAccount
  <2>4. /\ kept \subseteq db[user].feed
        /\ \A i \in kept : i.counter \in 1..next /\ (key # None => i.key # key)
    BY <2>2 DEF GoodAccount
  <2> HIDE DEF item, kept, next
  <2>5. GoodAccount(r)
    <3>1. /\ r.feed = kept \cup {item}
          /\ r.feedSeq = next
          /\ r.dismissed = db[user].dismissed
      BY <2>2 DEF GoodAccount
    <3>2. r \in [feed : SUBSET [key : Friends!RepeatKeys \cup {None}, counter : Nat],
                 feedSeq : Nat, dismissed : SUBSET Friends!RepeatKeys]
      BY <2>2, <2>3, <2>4 DEF GoodAccount
    <3>3. ASSUME NEW i \in r.feed
          PROVE  i.counter \in 1..r.feedSeq
      BY <1>2, <2>2, <2>3, <2>4, <3>1 DEF GoodAccount
    <3>4. ASSUME NEW i \in r.feed, NEW j \in r.feed, i.key = j.key, i.key # None
          PROVE  i = j
      BY <2>2, <2>3, <2>4, <3>1, <3>4 DEF GoodAccount
    <3> QED
      BY <3>2, <3>3, <3>4 DEF GoodAccount
  <2>6. /\ r.dismissed = db[user].dismissed
        /\ \A i \in r.feed \ db[user].feed : i.key = key
    BY <2>2, <2>3, <2>4 DEF GoodAccount
  <2> HIDE DEF r
  <2>7. Allowed(db, [db EXCEPT ![user] = r])
    BY <1>2, <2>6 DEF Allowed, GoodRows, Rows
  <2> QED
    BY <2>1, <2>5, <2>7, PairsOfUsers DEF Changes, GoodRows, Rows
<1> QED
  BY <1>1, <1>2

LEMMA DismissChanges ==
    ASSUME NEW db, GoodRows(db), NEW user \in Accounts, NEW counter
    PROVE  Changes(db, Friends!dismiss(db, user, counter), {user})
<1> DEFINE kept == {i \in db[user].feed : i.counter # counter}
           gone == {i.key : i \in {j \in db[user].feed : j.counter = counter}} \ {None}
           r == [db[user] EXCEPT !.feed = kept, !.dismissed = @ \cup gone]
<1>1. Friends!dismiss(db, user, counter) = [db EXCEPT ![user] = r]
  BY DEF Friends!dismiss, GoodRows, Rows
<1>2. GoodAccount(db[user])
  BY DEF GoodRows
<1>3. gone \subseteq Friends!RepeatKeys
  BY <1>2 DEF GoodAccount
<1>4. kept \subseteq db[user].feed
  OBVIOUS
<1> HIDE DEF kept, gone
<1>5. GoodAccount(r)
  <2>1. /\ r.feed = kept
        /\ r.feedSeq = db[user].feedSeq
        /\ r.dismissed = db[user].dismissed \cup gone
    BY <1>2 DEF GoodAccount
  <2>2. r \in [feed : SUBSET [key : Friends!RepeatKeys \cup {None}, counter : Nat],
               feedSeq : Nat, dismissed : SUBSET Friends!RepeatKeys]
    BY <1>2, <1>3, <1>4 DEF GoodAccount
  <2> QED
    BY <1>2, <1>4, <2>1, <2>2 DEF GoodAccount
<1>6. r.feed \subseteq db[user].feed /\ db[user].dismissed \subseteq r.dismissed
  BY <1>2, <1>4 DEF GoodAccount
<1> HIDE DEF r
<1>7. Allowed(db, [db EXCEPT ![user] = r])
  BY <1>6 DEF Allowed, GoodRows, Rows
<1> QED
  BY <1>1, <1>5, <1>7, PairsOfUsers DEF Changes, GoodRows, Rows

LEMMA NotifyChanges ==
    ASSUME NEW db, GoodRows(db), NEW user \in Accounts, NEW other \in Accounts, user # other,
           NEW kind \in Friends!Kinds
    PROVE  /\ Changes(db, Friends!notify(db, user, other, kind), {user, <<user, other>>})
           /\ \A p \in Friends!Pairs : Friends!notify(db, user, other, kind)[p].status = db[p].status
<1> DEFINE p0 == <<user, other>>
           posted == Friends!feedPost(db, user, <<kind, other>>)
           r == [db[p0] EXCEPT !.recent = TRUE, !.told = @ + 1]
<1>1. p0 \in Friends!Pairs /\ p0 \notin Accounts
  BY PairsOfUsers
<1>2. CASE ~Friends!shouldSendNotification(db[p0])
  BY <1>2 DEF Friends!notify, Changes, Allowed
<1>3. CASE Friends!shouldSendNotification(db[p0])
  <2>1. Changes(db, posted, {user})
    BY FeedPostChanges DEF Friends!RepeatKeys
  <2> HIDE DEF posted
  <2>2. posted[p0] = db[p0] /\ DOMAIN posted = Rows
    BY <1>1, <2>1 DEF Changes, Rows, GoodRows
  <2>3. Friends!notify(db, user, other, kind) = [posted EXCEPT ![p0] = r]
    BY <1>1, <1>3, <2>2 DEF Friends!notify, posted, Rows
  <2>4. GoodRelation(r) /\ r.status = db[p0].status
    <3>1. GoodRelation(db[p0])
      BY <1>1 DEF GoodRows
    <3>2. db[p0].recent = FALSE /\ db[p0].told = 0
      BY <1>3, <3>1 DEF GoodRelation, Friends!shouldSendNotification
    <3>3. db[p0].told + 1 = 1 /\ 1 \in {0, 1}
      BY <3>2
    <3>4. /\ r \in [status : Friends!Status, recent : BOOLEAN, told : {0, 1}]
          /\ r.status = db[p0].status
      BY <3>1, <3>3, Zenon DEF GoodRelation
    <3>5. r.recent = TRUE /\ r.told = 1
      BY <3>1, <3>3 DEF GoodRelation
    <3> QED
      BY <3>4, <3>5 DEF GoodRelation
  <2> HIDE DEF r, p0
  <2>5. \A x \in Rows \ {p0} : [posted EXCEPT ![p0] = r][x] = posted[x]
    BY <2>2
  <2>6. [posted EXCEPT ![p0] = r][p0] = r
    BY <1>1, <2>2 DEF Rows
  <2>9. Allowed(db, [posted EXCEPT ![p0] = r])
    BY <1>1, <2>1, <2>5 DEF Changes, Allowed, Rows
  <2>7. Changes(db, [posted EXCEPT ![p0] = r], {user, p0})
    BY <1>1, <2>1, <2>2, <2>4, <2>5, <2>6, <2>9 DEF Changes, GoodRows, Rows
  <2>8. \A p \in Friends!Pairs : [posted EXCEPT ![p0] = r][p].status = db[p].status
    BY <1>1, <2>1, <2>2, <2>4, <2>5, <2>6, PairsOfUsers DEF Changes, Rows
  <2> QED
    BY <2>3, <2>7, <2>8 DEF p0
<1> QED
  BY <1>2, <1>3

LEMMA RelationshipSetChanges ==
    ASSUME NEW db, GoodRows(db), NEW from \in Accounts, NEW to \in Accounts, from # to,
           NEW status \in Friends!Status
    PROVE  /\ Changes(db, Friends!relationshipSet(db, from, to, status), {<<from, to>>})
           /\ Friends!relationshipSet(db, from, to, status)[<<from, to>>].status = status
<1> DEFINE p0 == <<from, to>>
           r == [db[p0] EXCEPT !.status = status]
<1>1. p0 \in Friends!Pairs /\ p0 \notin Accounts
  BY PairsOfUsers
<1>2. Friends!relationshipSet(db, from, to, status) = [db EXCEPT ![p0] = r]
  BY <1>1 DEF Friends!relationshipSet, GoodRows, Rows
<1>3. GoodRelation(r) /\ r.status = status
  BY <1>1 DEF GoodRows, GoodRelation
<1> HIDE DEF r, p0
<1>4. Changes(db, [db EXCEPT ![p0] = r], {p0}) /\ [db EXCEPT ![p0] = r][p0].status = status
  <2>1. Allowed(db, [db EXCEPT ![p0] = r])
    BY <1>1 DEF Allowed, GoodRows, Rows
  <2> QED
    BY <1>1, <1>3, <2>1 DEF Changes, GoodRows, Rows
<1> QED
  BY <1>2, <1>4 DEF p0

\* What changes in two steps changes in one.
LEMMA ChangesAfter ==
    ASSUME NEW db, NEW mid, NEW new, NEW rows, NEW more, NEW all,
           Changes(db, mid, rows), Changes(mid, new, more), rows \subseteq all, more \subseteq all
    PROVE  Changes(db, new, all)
<1>1. Allowed(db, new)
  BY DEF Changes, Allowed
<1> QED
  BY <1>1 DEF Changes

\* The two rows between two users tell one story if they alone are changed, to one.
LEMMA MirroredAfter ==
    ASSUME NEW db, NEW new, Mirrored(db), NEW me \in Accounts, NEW other \in Accounts, me # other,
           \A p \in Friends!Pairs \ {<<me, other>>, <<other, me>>} : new[p].status = db[p].status,
           Friends!InStory(new[<<me, other>>].status, new[<<other, me>>].status)
    PROVE  Mirrored(new)
<1>1. Friends!InStory(new[<<other, me>>].status, new[<<me, other>>].status)
  BY DEF Friends!InStory
<1>2. SUFFICES ASSUME NEW p \in Friends!Pairs
               PROVE  Friends!InStory(new[p].status, new[<<p[2], p[1]>>].status)
  BY DEF Mirrored
<1>3. CASE p \in {<<me, other>>, <<other, me>>}
  BY <1>1, <1>3
<1>4. CASE p \notin {<<me, other>>, <<other, me>>}
  <2>1. <<p[2], p[1]>> \in Friends!Pairs \ {<<me, other>>, <<other, me>>}
    BY <1>4, PairsOfUsers
  <2> QED
    BY <1>4, <2>1 DEF Mirrored
<1> QED
  BY <1>3, <1>4

\* The rows that adding and removing a friend depend on.
Between(me, other) == {me, other, <<me, other>>, <<other, me>>}

LEMMA FriendAddChanges ==
    ASSUME NEW db, GoodRows(db), Mirrored(db), NEW me \in Accounts, NEW other \in Accounts,
           me # other
    PROVE  /\ Changes(db, Friends!friendAdd(db, me, other), Between(me, other))
           /\ Mirrored(Friends!friendAdd(db, me, other))
<1> DEFINE mine == Friends!relationshipGet(db, me, other)
           theirs == Friends!relationshipGet(db, other, me)
           new == Friends!friendAdd(db, me, other)
<1>1. Friends!InStory(mine, theirs)
  BY PairsOfUsers DEF Mirrored, Friends!relationshipGet
<1>2. /\ mine = db[<<me, other>>].status
      /\ theirs = db[<<other, me>>].status
      /\ <<me, other>> # <<other, me>>
      /\ <<me, other>> \in Friends!Pairs /\ <<other, me>> \in Friends!Pairs
  BY PairsOfUsers DEF Friends!relationshipGet
<1>3. CASE theirs = "requested"
  <2> DEFINE half == Friends!relationshipSet(db, other, me, "friend")
             accepted == Friends!relationshipSet(half, me, other, "friend")
             first == Friends!notify(accepted, me, other, "friend_accepted")
             second == Friends!notify(first, other, me, "friend_accepted")
  <2>1. new = second
    BY <1>3 DEF Friends!friendAdd, Friends!sendFriendshipEstablishedNotification
  <2>2. Changes(db, half, {<<other, me>>}) /\ half[<<other, me>>].status = "friend"
    BY RelationshipSetChanges DEF Friends!Status
  <2> HIDE DEF half
  <2>3. Changes(half, accepted, {<<me, other>>}) /\ accepted[<<me, other>>].status = "friend"
    <3>1. GoodRows(half) /\ "friend" \in Friends!Status
      BY <2>2 DEF Changes, Friends!Status
    <3> QED
      BY <3>1, RelationshipSetChanges
  <2> HIDE DEF accepted
  <2>4. /\ Changes(accepted, first, {me, <<me, other>>})
        /\ \A p \in Friends!Pairs : first[p].status = accepted[p].status
    BY <2>3, NotifyChanges DEF Friends!Kinds, Changes
  <2> HIDE DEF first
  <2>5. /\ Changes(first, second, {other, <<other, me>>})
        /\ \A p \in Friends!Pairs : second[p].status = first[p].status
    BY <2>4, NotifyChanges DEF Friends!Kinds, Changes
  <2> HIDE DEF second
  <2>6. Changes(db, accepted, Between(me, other))
    BY <2>2, <2>3, ChangesAfter DEF Between
  <2>7. Changes(accepted, second, Between(me, other))
    BY <2>4, <2>5, ChangesAfter DEF Between
  <2>8. Changes(db, second, Between(me, other))
    BY <2>6, <2>7, ChangesAfter
  <2>9. \A p \in Friends!Pairs : second[p].status = accepted[p].status
    BY <2>4, <2>5
  <2>10. accepted[<<other, me>>] = half[<<other, me>>]
    BY <1>2, <2>3 DEF Changes, Rows
  <2>11. /\ second[<<me, other>>].status = "friend"
         /\ second[<<other, me>>].status = "friend"
    BY <1>2, <2>2, <2>3, <2>9, <2>10
  <2>12. \A p \in Friends!Pairs \ {<<me, other>>, <<other, me>>} : second[p].status = db[p].status
    BY <2>2, <2>3, <2>9 DEF Changes, Rows
  <2>13. Friends!InStory("friend", "friend")
    BY DEF Friends!InStory, Friends!Stories
  <2>14. Mirrored(second)
    BY <2>11, <2>12, <2>13, MirroredAfter
  <2> QED
    BY <2>1, <2>8, <2>14
<1>4. CASE theirs # "requested" /\ mine \in {"none", "rejected"}
  <2> DEFINE requested == Friends!relationshipSet(db, me, other, "requested")
             told == IF theirs = "none"
                     THEN Friends!relationshipSet(requested, other, me, "pending")
                     ELSE requested
             notified == Friends!notify(told, other, me, "friend_request")
  <2>1. new = notified
    BY <1>4 DEF Friends!friendAdd, Friends!sendFriendRequestNotification
  <2>2. /\ Changes(db, requested, {<<me, other>>})
        /\ requested[<<me, other>>].status = "requested"
    BY RelationshipSetChanges DEF Friends!Status
  <2> HIDE DEF requested
  <2>3. /\ Changes(requested, told, {<<other, me>>})
        /\ told[<<other, me>>].status = IF theirs = "none" THEN "pending" ELSE theirs
    <3>1. CASE theirs = "none"
      <4>1. GoodRows(requested) /\ "pending" \in Friends!Status
        BY <2>2 DEF Changes, Friends!Status
      <4>2. told = Friends!relationshipSet(requested, other, me, "pending")
        BY <3>1
      <4> HIDE DEF told
      <4> QED
        BY <3>1, <4>1, <4>2, RelationshipSetChanges
    <3>2. CASE theirs # "none"
      <4>1. requested[<<other, me>>] = db[<<other, me>>]
        BY <1>2, <2>2 DEF Changes, Rows
      <4> QED
        BY <1>2, <2>2, <3>2, <4>1 DEF Changes, Allowed
    <3> QED
      BY <3>1, <3>2
  <2> HIDE DEF told
  <2>4. /\ Changes(told, notified, {other, <<other, me>>})
        /\ \A p \in Friends!Pairs : notified[p].status = told[p].status
    BY <2>3, NotifyChanges DEF Friends!Kinds, Changes
  <2> HIDE DEF notified
  <2>5. Changes(db, told, Between(me, other))
    BY <2>2, <2>3, ChangesAfter DEF Between
  <2>6. Changes(db, notified, Between(me, other))
    BY <2>4, <2>5, ChangesAfter DEF Between
  <2>7. told[<<me, other>>] = requested[<<me, other>>]
    BY <1>2, <2>3 DEF Changes, Rows
  <2>8. Friends!InStory("requested", IF theirs = "none" THEN "pending" ELSE theirs)
    BY <1>1, <1>4 DEF Friends!InStory, Friends!Stories
  <2>9. \A p \in Friends!Pairs \ {<<me, other>>, <<other, me>>} : notified[p].status = db[p].status
    BY <2>2, <2>3, <2>4 DEF Changes, Rows
  <2>10. Mirrored(notified)
    BY <1>2, <2>2, <2>3, <2>4, <2>7, <2>8, <2>9, MirroredAfter
  <2> QED
    BY <2>1, <2>6, <2>10
<1>5. CASE theirs # "requested" /\ mine \notin {"none", "rejected"}
  BY <1>5 DEF Friends!friendAdd, Changes, Allowed
<1> QED
  BY <1>3, <1>4, <1>5

\* The two relations set, or one of them.
LEMMA BothSet ==
    ASSUME NEW db, GoodRows(db), Mirrored(db), NEW me \in Accounts, NEW other \in Accounts,
           me # other, NEW s \in Friends!Status, NEW r \in Friends!Status,
           Friends!InStory(s, r)
    PROVE  LET half == Friends!relationshipSet(db, me, other, s)
               new == Friends!relationshipSet(half, other, me, r)
           IN  Changes(db, new, Between(me, other)) /\ Mirrored(new)
<1> DEFINE half == Friends!relationshipSet(db, me, other, s)
           new == Friends!relationshipSet(half, other, me, r)
<1>1. Changes(db, half, {<<me, other>>}) /\ half[<<me, other>>].status = s
  BY RelationshipSetChanges
<1> HIDE DEF half
<1>2. Changes(half, new, {<<other, me>>}) /\ new[<<other, me>>].status = r
  BY <1>1, RelationshipSetChanges DEF Changes
<1> HIDE DEF new
<1>3. Changes(db, new, Between(me, other))
  BY <1>1, <1>2, ChangesAfter DEF Between
<1>4. new[<<me, other>>] = half[<<me, other>>]
  BY <1>2, PairsOfUsers DEF Changes, Rows
<1>5. \A p \in Friends!Pairs \ {<<me, other>>, <<other, me>>} : new[p].status = db[p].status
  BY <1>1, <1>2 DEF Changes, Rows
<1>6. Mirrored(new)
  BY <1>1, <1>2, <1>4, <1>5, MirroredAfter
<1> QED
  BY <1>3, <1>6 DEF new, half

LEMMA OneSet ==
    ASSUME NEW db, GoodRows(db), Mirrored(db), NEW me \in Accounts, NEW other \in Accounts,
           me # other, NEW s \in Friends!Status,
           Friends!InStory(s, Friends!relationshipGet(db, other, me))
    PROVE  LET new == Friends!relationshipSet(db, me, other, s)
           IN  Changes(db, new, Between(me, other)) /\ Mirrored(new)
<1> DEFINE new == Friends!relationshipSet(db, me, other, s)
<1>1. Changes(db, new, {<<me, other>>}) /\ new[<<me, other>>].status = s
  BY RelationshipSetChanges
<1> HIDE DEF new
<1>2. Changes(db, new, Between(me, other))
  BY <1>1 DEF Changes, Between
<1>3. new[<<other, me>>] = db[<<other, me>>]
  BY <1>1, PairsOfUsers DEF Changes, Rows
<1>4. \A p \in Friends!Pairs \ {<<me, other>>, <<other, me>>} : new[p].status = db[p].status
  BY <1>1 DEF Changes, Rows
<1>5. Mirrored(new)
  BY <1>1, <1>3, <1>4, MirroredAfter DEF Friends!relationshipGet
<1> QED
  BY <1>2, <1>5 DEF new

LEMMA FriendRemoveChanges ==
    ASSUME NEW db, GoodRows(db), Mirrored(db), NEW me \in Accounts, NEW other \in Accounts,
           me # other
    PROVE  /\ Changes(db, Friends!friendRemove(db, me, other), Between(me, other))
           /\ Mirrored(Friends!friendRemove(db, me, other))
<1> DEFINE mine == Friends!relationshipGet(db, me, other)
           theirs == Friends!relationshipGet(db, other, me)
           new == Friends!friendRemove(db, me, other)
<1>1. Friends!InStory(mine, theirs)
  BY PairsOfUsers DEF Mirrored, Friends!relationshipGet
<1>2. Between(other, me) = Between(me, other)
  BY DEF Between
<1>3. CASE mine = "requested"
  <2>1. Friends!InStory("rejected", theirs)
    BY <1>1, <1>3 DEF Friends!InStory, Friends!Stories
  <2>2. new = Friends!relationshipSet(db, me, other, "rejected")
    BY <1>3 DEF Friends!friendRemove
  <2> QED
    BY <2>1, <2>2, OneSet DEF Friends!Status
<1>4. CASE mine = "friend"
  <2>1. Friends!InStory("requested", "pending")
    BY DEF Friends!InStory, Friends!Stories
  <2>2. new = Friends!relationshipSet(Friends!relationshipSet(db, other, me, "requested"),
                                      me, other, "pending")
    BY <1>4 DEF Friends!friendRemove
  <2> QED
    BY <1>2, <2>1, <2>2, BothSet DEF Friends!Status
<1>5. CASE mine = "pending" /\ theirs # "rejected"
  <2>1. Friends!InStory("none", "none")
    BY DEF Friends!InStory, Friends!Stories
  <2>2. new = Friends!relationshipSet(Friends!relationshipSet(db, me, other, "none"),
                                      other, me, "none")
    BY <1>5 DEF Friends!friendRemove
  <2> QED
    BY <2>1, <2>2, BothSet DEF Friends!Status
<1>6. CASE mine = "pending" /\ theirs = "rejected"
  <2>1. Friends!InStory("none", theirs)
    BY <1>6 DEF Friends!InStory, Friends!Stories
  <2>2. new = Friends!relationshipSet(db, me, other, "none")
    BY <1>6 DEF Friends!friendRemove
  <2> QED
    BY <2>1, <2>2, OneSet DEF Friends!Status
<1>7. CASE mine \notin {"requested", "friend", "pending"}
  BY <1>7 DEF Friends!friendRemove, Changes, Allowed
<1> QED
  BY <1>3, <1>4, <1>5, <1>6, <1>7

\* What a request does: good rows for good ones, its own only, and one story still.
LEMMA DoneChanges ==
    ASSUME NEW db, GoodRows(db), Mirrored(db), NEW a \in Friends!Actions
    PROVE  /\ Changes(db, Friends!Done(a, db), Friends!Footprint(a))
           /\ Mirrored(Friends!Done(a, db))
<1>1. CASE a \in [op : {"add", "remove"}, by : Accounts, of : Accounts] /\ a.by # a.of
  <2>1. Friends!Footprint(a) = Between(a.by, a.of)
    BY <1>1, PairsOfUsers DEF Friends!Footprint, Between
  <2>2. Friends!Done(a, db) = IF a.op = "add" THEN Friends!friendAdd(db, a.by, a.of)
                                              ELSE Friends!friendRemove(db, a.by, a.of)
    BY <1>1 DEF Friends!Done
  <2> QED
    BY <1>1, <2>1, <2>2, FriendAddChanges, FriendRemoveChanges
<1>2. CASE a \in [op : {"add", "remove"}, by : Accounts, of : Accounts] /\ a.by = a.of
  <2>1. Friends!Done(a, db) = db
    BY <1>2 DEF Friends!Done, Friends!friendAdd, Friends!friendRemove
  <2> QED
    BY <2>1 DEF Changes, Allowed
<1>3. ASSUME NEW user \in Accounts, Changes(db, Friends!Done(a, db), {user})
      PROVE  Mirrored(Friends!Done(a, db))
  <2>1. \A p \in Friends!Pairs : p \in Rows \ {user} /\ <<p[2], p[1]>> \in Rows \ {user}
    BY PairsOfUsers DEF Rows
  <2> QED
    BY <1>3, <2>1 DEF Mirrored, Changes
<1>4. ASSUME a.op = "post", a.by \in Accounts, a.key \in Friends!RepeatKeys \cup {None}
      PROVE  Changes(db, Friends!Done(a, db), {a.by}) /\ Friends!Footprint(a) = {a.by}
  BY <1>4, FeedPostChanges DEF Friends!Done, Friends!Footprint
<1>5. CASE \E user \in Accounts : a = [op |-> "post", by |-> user, key |-> <<"post", user>>]
  <2>1. a.op = "post" /\ a.by \in Accounts /\ a.key \in Friends!RepeatKeys
    BY <1>5 DEF Friends!RepeatKeys, Friends!Kinds
  <2> QED
    BY <1>3, <1>4, <2>1
<1>6. CASE a \in [op : {"post"}, by : Accounts, key : {None}]
  BY <1>3, <1>4, <1>6
<1>7. CASE a \in [op : {"dismiss"}, by : Accounts, counter : 1..MaxPosts]
  <2>1. /\ a.op = "dismiss" /\ a.by \in Accounts
        /\ Friends!Done(a, db) = Friends!dismiss(db, a.by, a.counter)
        /\ Friends!Footprint(a) = {a.by}
    BY <1>7 DEF Friends!Done, Friends!Footprint
  <2> QED
    BY <1>3, <2>1, DismissChanges
<1> QED
  BY <1>1, <1>2, <1>5, <1>6, <1>7 DEF Friends!Actions
-----------------------------------------------------------------------------
(* Friends and the feed: the transactions.                                 *)

AFunction(db) == db = [x \in Rows |-> db[x]]

\* What every request finds, and what it leaves when it is not refused for the bound.
Good(db) == AFunction(db) /\ GoodRows(db) /\ Mirrored(db)
Bounded(db) == \A user \in Accounts : db[user].feedSeq <= MaxPosts

\* A slot that is in use has a request, and one whose attempt runs has seen good rows on
\* which that request was accepted, and will announce what it did to them.
SocialSlot(r) ==
    /\ r.pc \in {"idle", "running", "delay", "after", "done"}
    /\ IF r.pc \in {"idle", "done"} THEN r.request = None ELSE r.request \in Friends!Actions
    /\ r.counter \in 0..Friends!T!Retries
    /\ r.pc = "running" => /\ Good(r.seen)
                           /\ Friends!Result(r.request, r.seen).ok
                           /\ r.callbacks = Friends!Result(r.request, r.seen).callbacks

SocialInv == /\ Good(social)
             /\ Bounded(social)
             /\ DOMAIN socialTx = SocialSlots
             /\ \A t \in SocialSlots : SocialSlot(socialTx[t])

\* The two rows of a relation are read together.
LEMMA FootprintPaired ==
    ASSUME NEW a \in Friends!Actions, NEW p \in Friends!Pairs
    PROVE  p \in Friends!Footprint(a) <=> <<p[2], p[1]>> \in Friends!Footprint(a)
<1>1. /\ p = <<p[1], p[2]>> /\ p \notin Accounts
      /\ <<p[2], p[1]>> \in Friends!Pairs /\ <<p[2], p[1]>> \notin Accounts
  BY PairsOfUsers
<1>2. a.by \in Accounts /\ (a.op \in {"add", "remove"} => a.of \in Accounts)
  BY DEF Friends!Actions
<1>3. CASE a.op \in {"add", "remove"}
  <2>1. \A q \in Friends!Pairs \ Accounts :
            q \in Friends!Footprint(a) <=> q \in {<<a.by, a.of>>, <<a.of, a.by>>}
    BY <1>2, <1>3 DEF Friends!Footprint
  <2>2. p \in {<<a.by, a.of>>, <<a.of, a.by>>}
        <=> <<p[2], p[1]>> \in {<<a.by, a.of>>, <<a.of, a.by>>}
    BY <1>1
  <2> QED
    BY <1>1, <2>1, <2>2
<1>4. CASE a.op \notin {"add", "remove"}
  BY <1>1, <1>2, <1>4 DEF Friends!Footprint
<1> QED
  BY <1>3, <1>4

\* What an isolated attempt writes fits the rows that others have written since it read.
LEMMA CommitGood ==
    ASSUME SocialInv, NEW t \in SocialSlots, Friends!T!Committed(t)
    PROVE  Good(social') /\ Bounded(social') /\ Allowed(social, social')
<1> DEFINE a == socialTx[t].request
           seen == socialTx[t].seen
           new == Friends!Done(a, seen)
           mine == Friends!Footprint(a)
<1>1. /\ a \in Friends!Actions
      /\ Good(seen)
      /\ \A user \in Accounts : new[user].feedSeq <= MaxPosts
      /\ \A row0 \in mine : social[row0] = seen[row0]
      /\ social' = [row0 \in Rows |-> IF new[row0] # seen[row0] THEN new[row0] ELSE social[row0]]
  BY DEF SocialInv, SocialSlot, Friends!T!Committed, Friends!T!Isolated, Friends!Result, Rows
<1> HIDE DEF a, seen
<1>2. Changes(seen, new, mine) /\ Mirrored(new)
  BY <1>1, DoneChanges DEF Good
<1> HIDE DEF new, mine
<1>3. \A row0 \in Rows : social'[row0] = IF row0 \in mine THEN new[row0] ELSE social[row0]
  BY <1>1, <1>2 DEF Changes
<1>4. DOMAIN social' = Rows
  BY <1>1
<1>5. GoodRows(social) /\ Mirrored(social) /\ Bounded(social) /\ GoodRows(new)
  BY <1>2 DEF SocialInv, Good, Changes
<1>6. GoodRows(social')
  BY <1>3, <1>4, <1>5 DEF GoodRows, Rows
<1>7. Bounded(social')
  BY <1>1, <1>3, <1>5 DEF Bounded, Rows
<1>8. ASSUME NEW p \in Friends!Pairs
      PROVE  Friends!InStory(social'[p].status, social'[<<p[2], p[1]>>].status)
  <2>1. <<p[2], p[1]>> \in Friends!Pairs
    BY PairsOfUsers
  <2>2. p \in mine <=> <<p[2], p[1]>> \in mine
    BY <1>1, FootprintPaired DEF mine
  <2> QED
    BY <1>2, <1>3, <1>5, <2>1, <2>2 DEF Mirrored, Rows
<1>9. AFunction(social')
  BY <1>1 DEF AFunction
<1>10. Allowed(social, social')
  BY <1>1, <1>2, <1>3 DEF Changes, Allowed, Rows
<1> QED
  BY <1>6, <1>7, <1>8, <1>9, <1>10 DEF Good, Mirrored

LEMMA SocialSlotKept ==
    ASSUME SocialInv, NEW t \in SocialSlots, NEW r, SocialSlot(r),
           socialTx' = [socialTx EXCEPT ![t] = r], Good(social'), Bounded(social')
    PROVE  SocialInv'
<1>1. /\ DOMAIN socialTx' = SocialSlots
      /\ socialTx'[t] = r
      /\ \A u \in SocialSlots \ {t} : socialTx'[u] = socialTx[u]
  BY DEF SocialInv
<1> QED
  BY <1>1 DEF SocialInv

LEMMA SocialFinishKept ==
    ASSUME SocialInv, NEW t \in SocialSlots, Friends!T!Finish(t), Good(social'), Bounded(social')
    PROVE  SocialInv'
<1>1. SocialSlot([Friends!T!NoTx EXCEPT !.pc = "done"])
  BY DEF SocialSlot, Friends!T!NoTx, Friends!T!Retries
<1> QED
  BY <1>1, SocialSlotKept DEF Friends!T!Finish

LEMMA SocialRunKept ==
    ASSUME SocialInv, NEW t \in SocialSlots, NEW a \in Friends!Actions,
           NEW counter \in 0..Friends!T!Retries, Friends!T!Run(t, a, counter)
    PROVE  SocialInv'
<1> DEFINE result == Friends!Result(a, social)
           r == [pc |-> "running", request |-> a, counter |-> counter, seen |-> social,
                 callbacks |-> Friends!T!Fresh(t) \cup result.callbacks]
<1>1. /\ UNCHANGED social
      /\ \/ result.ok /\ socialTx' = [socialTx EXCEPT ![t] = r]
         \/ Friends!T!Finish(t)
  BY DEF Friends!T!Run
<1>2. Good(social') /\ Bounded(social') /\ Good(social)
  BY <1>1 DEF SocialInv
<1>3. CASE result.ok /\ socialTx' = [socialTx EXCEPT ![t] = r]
  <2>1. Friends!T!Fresh(t) \cup result.callbacks = result.callbacks
    BY DEF Friends!T!Fresh
  <2>2. SocialSlot(r)
    BY <1>2, <1>3, <2>1 DEF SocialSlot
  <2> HIDE DEF r
  <2> QED
    BY <1>2, <1>3, <2>2, SocialSlotKept
<1> QED
  BY <1>1, <1>2, <1>3, SocialFinishKept

\* What happens outside transactions: time passes, and settings are replaced.
LEMMA OutsideKept ==
    ASSUME SocialInv,
           \/ \E p \in Friends!Pairs : Friends!CooldownOver(p)
           \/ \E user \in Accounts : Friends!ReplaceSettings(user)
    PROVE  SocialInv'
<1>1. SUFFICES Good(social') /\ Bounded(social') /\ UNCHANGED socialTx
  BY DEF SocialInv
<1>2. UNCHANGED socialTx
  BY DEF Friends!CooldownOver, Friends!ReplaceSettings
<1>3. GoodRows(social) /\ Mirrored(social) /\ Bounded(social) /\ AFunction(social)
  BY DEF SocialInv, Good
<1>4. ASSUME NEW p \in Friends!Pairs, Friends!CooldownOver(p) PROVE Good(social') /\ Bounded(social')
  <2> DEFINE r == [social[p] EXCEPT !.recent = FALSE, !.told = 0]
  <2>1. social' = [social EXCEPT ![p] = r]
    BY <1>3, <1>4 DEF Friends!CooldownOver, GoodRows, Rows
  <2>2. GoodRelation(social[p])
    BY <1>3 DEF GoodRows
  <2>3. GoodRelation(r) /\ r.status = social[p].status
    BY <2>2 DEF GoodRelation
  <2> HIDE DEF r
  <2>4. /\ DOMAIN social' = Rows
        /\ social'[p] = r
        /\ \A row0 \in Rows \ {p} : social'[row0] = social[row0]
    BY <1>3, <2>1 DEF GoodRows, Rows
  <2>5. GoodRows(social') /\ Bounded(social')
    BY <1>3, <2>3, <2>4, PairsOfUsers DEF GoodRows, Bounded, Rows
  <2>6. \A q \in Friends!Pairs : social'[q].status = social[q].status
    BY <2>3, <2>4 DEF Rows
  <2>7. Mirrored(social')
    BY <1>3, <2>6, PairsOfUsers DEF Mirrored
  <2>8. AFunction(social')
    BY <1>3, <2>1 DEF AFunction
  <2> QED
    BY <2>5, <2>7, <2>8 DEF Good
<1>5. ASSUME NEW user \in Accounts, Friends!ReplaceSettings(user)
      PROVE  Good(social') /\ Bounded(social')
  <2>0. PICK keys \in KeySets : social' = [social EXCEPT ![user].dismissed = keys]
    BY <1>5 DEF Friends!ReplaceSettings
  <2> DEFINE r == [social[user] EXCEPT !.dismissed = keys]
  <2>1. social' = [social EXCEPT ![user] = r]
    BY <1>3, <2>0 DEF GoodRows, Rows
  <2>2. GoodAccount(social[user])
    BY <1>3 DEF GoodRows
  <2>3. r.feed = social[user].feed /\ r.feedSeq = social[user].feedSeq /\ r.dismissed = keys
    BY <2>2 DEF GoodAccount
  <2>4. r \in [feed : SUBSET [key : Friends!RepeatKeys \cup {None}, counter : Nat],
               feedSeq : Nat, dismissed : SUBSET Friends!RepeatKeys]
    BY <2>2, DataAssumption DEF GoodAccount, Friends!SocialAssumption
  <2> HIDE DEF r
  <2>5. GoodAccount(r)
    BY <2>2, <2>3, <2>4 DEF GoodAccount
  <2>6. /\ DOMAIN social' = Rows
        /\ social'[user] = r
        /\ \A row0 \in Rows \ {user} : social'[row0] = social[row0]
    BY <1>3, <2>1 DEF GoodRows, Rows
  <2>7. GoodRows(social') /\ Bounded(social')
    BY <1>3, <2>3, <2>5, <2>6, PairsOfUsers DEF GoodRows, Bounded, Rows
  <2>8. \A q \in Friends!Pairs : social'[q] = social[q]
    BY <2>6, PairsOfUsers DEF Rows
  <2>9. Mirrored(social')
    BY <1>3, <2>8, PairsOfUsers DEF Mirrored
  <2>10. AFunction(social')
    BY <1>3, <2>1 DEF AFunction
  <2> QED
    BY <2>7, <2>9, <2>10 DEF Good
<1> QED
  BY <1>2, <1>4, <1>5

LEMMA SocialInvKept == ASSUME SocialInv, [Friends!Next]_socialVars PROVE SocialInv'
<1>1. CASE UNCHANGED socialVars
  BY <1>1 DEF socialVars, SocialInv
<1>2. CASE \/ \E p \in Friends!Pairs : Friends!CooldownOver(p)
           \/ \E user \in Accounts : Friends!ReplaceSettings(user)
  BY <1>2, OutsideKept
<1>3. CASE Friends!T!NextTx
  <2>1. PICK t \in SocialSlots :
            \/ Friends!T!Begin(t) \/ Friends!T!Retry(t) \/ Friends!T!Commit(t)
            \/ Friends!T!Conflict(t) \/ Friends!T!Throw(t) \/ Friends!T!CommitLost(t)
            \/ Friends!T!Callback(t)
    BY <1>3 DEF Friends!T!NextTx
  <2>2. SocialSlot(socialTx[t])
    BY DEF SocialInv
  <2>3. UNCHANGED social => Good(social') /\ Bounded(social')
    BY DEF SocialInv
  <2>4. CASE Friends!T!Begin(t)
    BY <2>4, SocialRunKept DEF Friends!T!Begin, Friends!T!Retries
  <2>5. CASE Friends!T!Retry(t)
    BY <2>2, <2>5, SocialRunKept DEF Friends!T!Retry, SocialSlot
  <2>6. CASE Friends!T!Commit(t)
    <3> DEFINE r == [socialTx[t] EXCEPT !.pc = "after", !.seen = <<>>]
    <3>1. socialTx' = [socialTx EXCEPT ![t] = r]
      BY <2>6 DEF Friends!T!Commit, SocialInv
    <3>2. SocialSlot(r)
      BY <2>2, <2>6 DEF Friends!T!Commit, Friends!T!Committed, SocialSlot
    <3> HIDE DEF r
    <3> QED
      BY <2>6, <3>1, <3>2, SocialSlotKept, CommitGood DEF Friends!T!Commit
  <2>7. CASE Friends!T!Conflict(t)
    <3> DEFINE r == [socialTx[t] EXCEPT !.pc = "delay", !.counter = @ + 1, !.seen = <<>>]
    <3>1. /\ UNCHANGED social
          /\ \/ socialTx[t].counter < Friends!T!Retries /\ socialTx' = [socialTx EXCEPT ![t] = r]
             \/ Friends!T!Finish(t)
      BY <2>7 DEF Friends!T!Conflict, SocialInv
    <3>2. socialTx[t].counter < Friends!T!Retries => SocialSlot(r)
      BY <2>2, <2>7 DEF Friends!T!Conflict, SocialSlot, Friends!T!Retries
    <3> HIDE DEF r
    <3> QED
      BY <2>3, <3>1, <3>2, SocialSlotKept, SocialFinishKept
  <2>8. CASE Friends!T!Throw(t) \/ Friends!T!CommitLost(t)
    BY <2>3, <2>8, CommitGood, SocialFinishKept DEF Friends!T!Throw, Friends!T!CommitLost
  <2>9. CASE Friends!T!Callback(t) /\ Friends!T!Finish(t)
    BY <2>3, <2>9, SocialFinishKept DEF Friends!T!Callback
  <2>10. CASE Friends!T!Callback(t) /\ ~Friends!T!Finish(t)
    <3>1. PICK callback \in socialTx[t].callbacks :
              socialTx' = [socialTx EXCEPT ![t] = [socialTx[t] EXCEPT !.callbacks = @ \ {callback}]]
      BY <2>10 DEF Friends!T!Callback, SocialInv
    <3>2. SocialSlot([socialTx[t] EXCEPT !.callbacks = @ \ {callback}])
      BY <2>2, <2>10 DEF Friends!T!Callback, SocialSlot
    <3>3. UNCHANGED social
      BY <2>10 DEF Friends!T!Callback
    <3> QED
      BY <2>3, <3>1, <3>2, <3>3, SocialSlotKept
  <2> QED
    BY <2>1, <2>4, <2>5, <2>6, <2>7, <2>8, <2>9, <2>10
<1> QED
  BY <1>1, <1>2, <1>3 DEF Friends!Next, Friends!Outside

LEMMA SocialInitHolds == ASSUME Friends!Init PROVE SocialInv
<1>1. PICK relation \in [Friends!Pairs -> Friends!Earlier], used \in {{}, Accounts} :
          /\ \A p \in Friends!Pairs :
                 Friends!InStory(relation[p].status, relation[<<p[2], p[1]>>].status)
          /\ social = [row0 \in Rows |-> IF row0 \in used THEN Friends!UsedAccount(row0)
                                         ELSE IF row0 \in Accounts THEN Friends!NewAccount
                                         ELSE relation[row0]]
  BY DEF Friends!Init, Rows
<1>2. \A p \in Friends!Pairs : p \in Rows /\ p \notin Accounts /\ social[p] = relation[p]
  BY <1>1, PairsOfUsers DEF Rows
<1>3. \A p \in Friends!Pairs : GoodRelation(social[p])
  <2>1. \A r \in Friends!Earlier : GoodRelation(r)
    BY DEF Friends!Earlier, GoodRelation
  <2> QED
    BY <1>1, <1>2, <2>1
<1>4. MaxPosts \in Nat \ {0}
  BY DataAssumption DEF Friends!SocialAssumption
<1>5. ASSUME NEW user \in Accounts
      PROVE  GoodAccount(social[user]) /\ social[user].feedSeq <= MaxPosts
  <2>1. GoodAccount(Friends!NewAccount) /\ Friends!NewAccount.feedSeq <= MaxPosts
    BY <1>4 DEF Friends!NewAccount, GoodAccount
  <2>2. GoodAccount(Friends!UsedAccount(user)) /\ Friends!UsedAccount(user).feedSeq <= MaxPosts
    <3> DEFINE item == [key |-> <<"post", user>>, counter |-> 1]
               others == {"friend_request"} \X (Accounts \ {user})
    <3>1. /\ item \in [key : Friends!RepeatKeys \cup {None}, counter : Nat]
          /\ item.counter = 1 /\ item.key = <<"post", user>>
      BY DEF Friends!RepeatKeys, Friends!Kinds
    <3>2. others \subseteq Friends!RepeatKeys /\ <<"post", user>> \notin others
      BY DEF Friends!RepeatKeys, Friends!Kinds
    <3>3. /\ Friends!UsedAccount(user).feed = {item}
          /\ Friends!UsedAccount(user).feedSeq = 1
          /\ Friends!UsedAccount(user).dismissed = others
          /\ Friends!UsedAccount(user) \in
                 [feed : {{item}}, feedSeq : {1}, dismissed : {others}]
      BY DEF Friends!UsedAccount
    <3> HIDE DEF item, others
    <3> QED
      BY <1>4, <3>1, <3>2, <3>3 DEF GoodAccount
  <2>3. social[user] \in {Friends!NewAccount, Friends!UsedAccount(user)}
    BY <1>1 DEF Rows
  <2> QED
    BY <2>1, <2>2, <2>3
<1>6. Mirrored(social)
  BY <1>1, <1>2, PairsOfUsers DEF Mirrored
<1>7. GoodRows(social) /\ Bounded(social)
  BY <1>1, <1>3, <1>5 DEF GoodRows, Bounded
<1>8. SocialSlot(Friends!T!NoTx)
  BY DEF SocialSlot, Friends!T!NoTx, Friends!T!Retries
<1>9. AFunction(social)
  BY <1>1 DEF AFunction
<1> QED
  BY <1>6, <1>7, <1>8, <1>9 DEF Friends!Init, Friends!T!InitTx, SocialInv, Good

LEMMA SocialAlways == Spec => []SocialInv
<1>1. Init => SocialInv
  BY SocialInitHolds DEF Init
<1>2. SocialInv /\ [Next]_vars => SocialInv'
  BY SocialInvKept DEF Next, vars, socialVars
<1> QED
  BY <1>1, <1>2, PTL DEF Spec

LEMMA SocialTypes == ASSUME SocialInv PROVE Friends!TypeOK
<1>1. None \notin Friends!Actions /\ MaxPosts \in Nat \ {0}
  BY DataAssumption DEF Friends!SocialAssumption
<1>2. Friends!T!TxTypeOK
  BY <1>1 DEF SocialInv, SocialSlot, Friends!T!TxTypeOK
<1>3. ASSUME NEW p \in Friends!Pairs
      PROVE  /\ social[p].status \in Friends!Status
             /\ social[p].recent \in BOOLEAN
             /\ social[p].told \in Nat
  BY DEF SocialInv, Good, GoodRows, GoodRelation
<1>4. ASSUME NEW user \in Accounts
      PROVE  /\ social[user].feed \subseteq Friends!Item
             /\ social[user].feedSeq \in 0..MaxPosts
             /\ social[user].dismissed \subseteq Friends!RepeatKeys
  <2>1. GoodAccount(social[user]) /\ social[user].feedSeq <= MaxPosts
    BY DEF SocialInv, Good, GoodRows, Bounded
  <2>2. ASSUME NEW i \in social[user].feed PROVE i \in Friends!Item
    <3>1. /\ i \in [key : Friends!RepeatKeys \cup {None}, counter : Nat]
          /\ i.counter \in 1..MaxPosts
      BY <1>1, <2>1 DEF GoodAccount
    <3> QED
      BY <3>1 DEF Friends!Item
  <2> QED
    BY <1>1, <2>1, <2>2 DEF GoodAccount
<1> QED
  BY <1>2, <1>3, <1>4 DEF Friends!TypeOK

-----------------------------------------------------------------------------
(* Friends and the feed: their requests are carried out one by one.        *)

\* Two databases that are alike as far as some rows go.
Alike(d, e, rows) == AFunction(d) /\ AFunction(e) /\ \A x \in rows : d[x] = e[x]

LEMMA PutAlike ==
    ASSUME NEW d, NEW e, NEW rows \in SUBSET Rows, Alike(d, e, rows), NEW y \in Rows, NEW r
    PROVE  Alike([d EXCEPT ![y] = r], [e EXCEPT ![y] = r], rows)
<1>1. DOMAIN d = Rows /\ DOMAIN e = Rows
  BY DEF Alike, AFunction
<1>2. /\ AFunction([d EXCEPT ![y] = r])
      /\ AFunction([e EXCEPT ![y] = r])
  BY <1>1 DEF AFunction
<1>3. \A x \in rows : [d EXCEPT ![y] = r][x] = [e EXCEPT ![y] = r][x]
  BY <1>1 DEF Alike
<1> QED
  BY <1>2, <1>3 DEF Alike

LEMMA FeedPostAlike ==
    ASSUME NEW d, NEW e, NEW rows \in SUBSET Rows, Alike(d, e, rows),
           NEW user \in Accounts, user \in rows, NEW key
    PROVE  Alike(Friends!feedPost(d, user, key), Friends!feedPost(e, user, key), rows)
<1> DEFINE kept == {i \in d[user].feed : key = None \/ i.key # key}
           next == d[user].feedSeq + 1
           r == [d[user] EXCEPT !.feed = kept \cup {[key |-> key, counter |-> next]},
                                !.feedSeq = next]
<1>1. DOMAIN d = Rows /\ DOMAIN e = Rows /\ d[user] = e[user]
  BY DEF Alike, AFunction
<1>2. CASE key \in d[user].dismissed
  BY <1>1, <1>2 DEF Friends!feedPost
<1>3. CASE key \notin d[user].dismissed
  <2>1. Friends!feedPost(d, user, key) = [d EXCEPT ![user] = r]
    BY <1>1, <1>3 DEF Friends!feedPost, Rows
  <2>2. Friends!feedPost(e, user, key) = [e EXCEPT ![user] = r]
    BY <1>1, <1>3 DEF Friends!feedPost, Rows
  <2> HIDE DEF r
  <2>3. user \in Rows
    BY DEF Rows
  <2>4. Alike([d EXCEPT ![user] = r], [e EXCEPT ![user] = r], rows)
    BY <2>3, PutAlike
  <2> QED
    BY <2>1, <2>2, <2>4
<1> QED
  BY <1>2, <1>3

LEMMA DismissAlike ==
    ASSUME NEW d, NEW e, NEW rows \in SUBSET Rows, Alike(d, e, rows),
           NEW user \in Accounts, user \in rows, NEW counter
    PROVE  Alike(Friends!dismiss(d, user, counter), Friends!dismiss(e, user, counter), rows)
<1> DEFINE kept == {i \in d[user].feed : i.counter # counter}
           gone == {i.key : i \in {j \in d[user].feed : j.counter = counter}} \ {None}
           r == [d[user] EXCEPT !.feed = kept, !.dismissed = @ \cup gone]
<1>1. DOMAIN d = Rows /\ DOMAIN e = Rows /\ d[user] = e[user]
  BY DEF Alike, AFunction
<1>2. Friends!dismiss(d, user, counter) = [d EXCEPT ![user] = r]
  BY <1>1 DEF Friends!dismiss, Rows
<1>3. Friends!dismiss(e, user, counter) = [e EXCEPT ![user] = r]
  BY <1>1 DEF Friends!dismiss, Rows
<1> HIDE DEF r
<1>4. user \in Rows
  BY DEF Rows
<1>5. Alike([d EXCEPT ![user] = r], [e EXCEPT ![user] = r], rows)
  BY <1>4, PutAlike
<1> QED
  BY <1>2, <1>3, <1>5

LEMMA RelationshipSetAlike ==
    ASSUME NEW d, NEW e, NEW rows \in SUBSET Rows, Alike(d, e, rows),
           NEW from, NEW to, <<from, to>> \in Friends!Pairs, <<from, to>> \in rows, NEW status
    PROVE  Alike(Friends!relationshipSet(d, from, to, status),
                 Friends!relationshipSet(e, from, to, status), rows)
<1> DEFINE p0 == <<from, to>>
           r == [d[p0] EXCEPT !.status = status]
<1>1. DOMAIN d = Rows /\ DOMAIN e = Rows /\ d[p0] = e[p0] /\ p0 \in Rows
  BY DEF Alike, AFunction, Rows
<1>2. Friends!relationshipSet(d, from, to, status) = [d EXCEPT ![p0] = r]
  BY <1>1 DEF Friends!relationshipSet
<1>3. Friends!relationshipSet(e, from, to, status) = [e EXCEPT ![p0] = r]
  BY <1>1 DEF Friends!relationshipSet
<1> HIDE DEF r, p0
<1>4. Alike([d EXCEPT ![p0] = r], [e EXCEPT ![p0] = r], rows)
  BY <1>1, PutAlike
<1> QED
  BY <1>2, <1>3, <1>4

LEMMA NotifyAlike ==
    ASSUME NEW d, NEW e, NEW rows \in SUBSET Rows, Alike(d, e, rows),
           NEW user \in Accounts, user \in rows, NEW other,
           <<user, other>> \in Friends!Pairs, <<user, other>> \in rows, NEW kind
    PROVE  Alike(Friends!notify(d, user, other, kind), Friends!notify(e, user, other, kind), rows)
<1> DEFINE p0 == <<user, other>>
           postedD == Friends!feedPost(d, user, <<kind, other>>)
           postedE == Friends!feedPost(e, user, <<kind, other>>)
           r == [postedD[p0] EXCEPT !.recent = TRUE, !.told = @ + 1]
<1>1. d[p0] = e[p0]
  BY DEF Alike
<1>2. CASE ~Friends!shouldSendNotification(d[p0])
  BY <1>1, <1>2 DEF Friends!notify
<1>3. CASE Friends!shouldSendNotification(d[p0])
  <2>1. Alike(postedD, postedE, rows)
    BY FeedPostAlike
  <2>2. /\ Friends!notify(d, user, other, kind) =
               [postedD EXCEPT ![p0].recent = TRUE, ![p0].told = @ + 1]
        /\ Friends!notify(e, user, other, kind) =
               [postedE EXCEPT ![p0].recent = TRUE, ![p0].told = @ + 1]
    BY <1>1, <1>3 DEF Friends!notify
  <2> HIDE DEF postedD, postedE
  <2>3. /\ DOMAIN postedD = Rows /\ DOMAIN postedE = Rows
        /\ postedD[p0] = postedE[p0] /\ p0 \in Rows
    BY <2>1 DEF Alike, AFunction, Rows
  <2> HIDE DEF p0
  <2>4. [postedD EXCEPT ![p0].recent = TRUE, ![p0].told = @ + 1] = [postedD EXCEPT ![p0] = r]
    BY <2>3
  <2>5. [postedE EXCEPT ![p0].recent = TRUE, ![p0].told = @ + 1] = [postedE EXCEPT ![p0] = r]
    BY <2>3
  <2> HIDE DEF r
  <2>6. Alike([postedD EXCEPT ![p0] = r], [postedE EXCEPT ![p0] = r], rows)
    BY <2>1, <2>3, PutAlike
  <2> QED
    BY <2>2, <2>4, <2>5, <2>6
<1> QED
  BY <1>2, <1>3

\* The rows that adding and removing look at are all that they depend on.
LEMMA FriendAddAlike ==
    ASSUME NEW d, NEW e, NEW rows \in SUBSET Rows, Alike(d, e, rows), NEW me \in Accounts,
           NEW other \in Accounts, me # other, Between(me, other) \subseteq rows
    PROVE  Alike(Friends!friendAdd(d, me, other), Friends!friendAdd(e, me, other), rows)
<1> DEFINE mine == Friends!relationshipGet(d, me, other)
           theirs == Friends!relationshipGet(d, other, me)
<1>1. /\ <<me, other>> \in Friends!Pairs /\ <<other, me>> \in Friends!Pairs
      /\ me \in rows /\ other \in rows /\ <<me, other>> \in rows /\ <<other, me>> \in rows
  BY PairsOfUsers DEF Between
<1>2. /\ Friends!relationshipGet(e, me, other) = mine
      /\ Friends!relationshipGet(e, other, me) = theirs
  BY <1>1 DEF Alike, Friends!relationshipGet
<1>3. CASE theirs = "requested"
  <2> DEFINE Half(x) == Friends!relationshipSet(x, other, me, "friend")
             Accepted(x) == Friends!relationshipSet(Half(x), me, other, "friend")
             First(x) == Friends!notify(Accepted(x), me, other, "friend_accepted")
             Second(x) == Friends!notify(First(x), other, me, "friend_accepted")
  <2>1. Friends!friendAdd(d, me, other) = Second(d) /\ Friends!friendAdd(e, me, other) = Second(e)
    BY <1>2, <1>3 DEF Friends!friendAdd, Friends!sendFriendshipEstablishedNotification
  <2>2. Alike(Half(d), Half(e), rows)
    BY <1>1, RelationshipSetAlike
  <2> HIDE DEF Half
  <2>3. Alike(Accepted(d), Accepted(e), rows)
    BY <1>1, <2>2, RelationshipSetAlike
  <2> HIDE DEF Accepted
  <2>4. Alike(First(d), First(e), rows)
    BY <1>1, <2>3, NotifyAlike
  <2> HIDE DEF First
  <2>5. Alike(Second(d), Second(e), rows)
    BY <1>1, <2>4, NotifyAlike
  <2> HIDE DEF Second
  <2> QED
    BY <2>1, <2>5
<1>4. CASE theirs # "requested" /\ mine \in {"none", "rejected"}
  <2> DEFINE Requested(x) == Friends!relationshipSet(x, me, other, "requested")
             Told(x) == IF theirs = "none"
                        THEN Friends!relationshipSet(Requested(x), other, me, "pending")
                        ELSE Requested(x)
             Notified(x) == Friends!notify(Told(x), other, me, "friend_request")
  <2>1. Friends!friendAdd(d, me, other) = Notified(d) /\ Friends!friendAdd(e, me, other) = Notified(e)
    BY <1>2, <1>4 DEF Friends!friendAdd, Friends!sendFriendRequestNotification
  <2>2. Alike(Requested(d), Requested(e), rows)
    BY <1>1, RelationshipSetAlike
  <2> HIDE DEF Requested
  <2>3. Alike(Told(d), Told(e), rows)
    <3>1. CASE theirs = "none"
      BY <1>1, <2>2, <3>1, RelationshipSetAlike
    <3>2. CASE theirs # "none"
      BY <2>2, <3>2
    <3> QED
      BY <3>1, <3>2
  <2> HIDE DEF Told
  <2>4. Alike(Notified(d), Notified(e), rows)
    BY <1>1, <2>3, NotifyAlike
  <2> HIDE DEF Notified
  <2> QED
    BY <2>1, <2>4
<1>5. CASE theirs # "requested" /\ mine \notin {"none", "rejected"}
  BY <1>2, <1>5 DEF Friends!friendAdd
<1> QED
  BY <1>3, <1>4, <1>5

LEMMA FriendRemoveAlike ==
    ASSUME NEW d, NEW e, NEW rows \in SUBSET Rows, Alike(d, e, rows), NEW me \in Accounts,
           NEW other \in Accounts, me # other, Between(me, other) \subseteq rows
    PROVE  Alike(Friends!friendRemove(d, me, other), Friends!friendRemove(e, me, other), rows)
<1> DEFINE mine == Friends!relationshipGet(d, me, other)
           theirs == Friends!relationshipGet(d, other, me)
           Mine(x, s) == Friends!relationshipSet(x, me, other, s)
           Theirs(x, s) == Friends!relationshipSet(x, other, me, s)
<1>1. /\ <<me, other>> \in Friends!Pairs /\ <<other, me>> \in Friends!Pairs
      /\ <<me, other>> \in rows /\ <<other, me>> \in rows
  BY PairsOfUsers DEF Between
<1>2. /\ Friends!relationshipGet(e, me, other) = mine
      /\ Friends!relationshipGet(e, other, me) = theirs
  BY <1>1 DEF Alike, Friends!relationshipGet
<1>3. CASE mine = "requested"
  <2>1. /\ Friends!friendRemove(d, me, other) = Mine(d, "rejected")
        /\ Friends!friendRemove(e, me, other) = Mine(e, "rejected")
    BY <1>2, <1>3 DEF Friends!friendRemove
  <2> QED
    BY <1>1, <2>1, RelationshipSetAlike
<1>4. CASE mine = "friend"
  <2>1. /\ Friends!friendRemove(d, me, other) = Mine(Theirs(d, "requested"), "pending")
        /\ Friends!friendRemove(e, me, other) = Mine(Theirs(e, "requested"), "pending")
    BY <1>2, <1>4 DEF Friends!friendRemove
  <2>2. Alike(Theirs(d, "requested"), Theirs(e, "requested"), rows)
    BY <1>1, RelationshipSetAlike
  <2> HIDE DEF Theirs
  <2> QED
    BY <1>1, <2>1, <2>2, RelationshipSetAlike
<1>5. CASE mine = "pending"
  <2>1. Alike(Mine(d, "none"), Mine(e, "none"), rows)
    BY <1>1, RelationshipSetAlike
  <2>2. CASE theirs # "rejected"
    <3>1. /\ Friends!friendRemove(d, me, other) = Theirs(Mine(d, "none"), "none")
          /\ Friends!friendRemove(e, me, other) = Theirs(Mine(e, "none"), "none")
      BY <1>2, <1>5, <2>2 DEF Friends!friendRemove
    <3> HIDE DEF Mine
    <3> QED
      BY <1>1, <2>1, <3>1, RelationshipSetAlike
  <2>3. CASE theirs = "rejected"
    BY <1>2, <1>5, <2>1, <2>3 DEF Friends!friendRemove
  <2> QED
    BY <2>2, <2>3
<1>6. CASE mine \notin {"requested", "friend", "pending"}
  BY <1>2, <1>6 DEF Friends!friendRemove
<1> QED
  BY <1>3, <1>4, <1>5, <1>6

\* A request depends on the rows of its footprint alone.
LEMMA DoneAlike ==
    ASSUME NEW a \in Friends!Actions, NEW d, NEW e, Alike(d, e, Friends!Footprint(a))
    PROVE  Alike(Friends!Done(a, d), Friends!Done(a, e), Friends!Footprint(a))
<1> DEFINE rows == Friends!Footprint(a)
<1>1. rows \in SUBSET Rows
  BY DEF Friends!Footprint, Friends!Actions, Rows
<1>2. CASE a \in [op : {"add", "remove"}, by : Accounts, of : Accounts] /\ a.by # a.of
  <2>1. rows = Between(a.by, a.of)
    BY <1>2, PairsOfUsers DEF Friends!Footprint, Between
  <2>2. \A x : Friends!Done(a, x) = IF a.op = "add" THEN Friends!friendAdd(x, a.by, a.of)
                                                    ELSE Friends!friendRemove(x, a.by, a.of)
    BY <1>2 DEF Friends!Done
  <2> HIDE DEF rows
  <2>3. /\ Alike(Friends!friendAdd(d, a.by, a.of), Friends!friendAdd(e, a.by, a.of), rows)
        /\ Alike(Friends!friendRemove(d, a.by, a.of), Friends!friendRemove(e, a.by, a.of), rows)
    BY <1>1, <1>2, <2>1, FriendAddAlike, FriendRemoveAlike DEF rows
  <2> QED
    BY <2>2, <2>3 DEF rows
<1>3. CASE a \in [op : {"add", "remove"}, by : Accounts, of : Accounts] /\ a.by = a.of
  <2>1. Friends!Done(a, d) = d /\ Friends!Done(a, e) = e
    BY <1>3 DEF Friends!Done, Friends!friendAdd, Friends!friendRemove
  <2> QED
    BY <2>1
<1>4. CASE a.op = "post" /\ a.by \in Accounts
  <2>1. a.by \in rows
    BY <1>4 DEF Friends!Footprint
  <2>2. /\ Friends!Done(a, d) = Friends!feedPost(d, a.by, a.key)
        /\ Friends!Done(a, e) = Friends!feedPost(e, a.by, a.key)
    BY <1>4 DEF Friends!Done
  <2> QED
    BY <1>1, <1>4, <2>1, <2>2, FeedPostAlike
<1>5. CASE a.op = "dismiss" /\ a.by \in Accounts
  <2>1. a.by \in rows
    BY <1>5 DEF Friends!Footprint
  <2>2. /\ Friends!Done(a, d) = Friends!dismiss(d, a.by, a.counter)
        /\ Friends!Done(a, e) = Friends!dismiss(e, a.by, a.counter)
    BY <1>5 DEF Friends!Done
  <2> QED
    BY <1>1, <1>5, <2>1, <2>2, DismissAlike
<1>6. \/ a \in [op : {"add", "remove"}, by : Accounts, of : Accounts]
      \/ a.op = "post" /\ a.by \in Accounts
      \/ a.op = "dismiss" /\ a.by \in Accounts
  BY DEF Friends!Actions
<1> QED
  BY <1>2, <1>3, <1>4, <1>5, <1>6

LEMMA SocialSeen ==
    ASSUME SocialInv, NEW t \in SocialSlots, NEW r, socialTx' = [socialTx EXCEPT ![t] = r]
    PROVE  /\ Friends!T!state' = [Friends!T!state EXCEPT ![t] = StateOf(r)]
           /\ Friends!T!asked' = [Friends!T!asked EXCEPT ![t] = r.request]
           /\ Friends!T!owed' = [Friends!T!owed EXCEPT ![t] = OwedOf(r)]
<1>1. /\ \A u \in SocialSlots : socialTx'[u] = IF u = t THEN r ELSE socialTx[u]
  BY DEF SocialInv
<1>2. /\ Friends!T!state = [u \in SocialSlots |-> StateOf(socialTx[u])]
      /\ Friends!T!asked = [u \in SocialSlots |-> socialTx[u].request]
      /\ Friends!T!owed = [u \in SocialSlots |-> OwedOf(socialTx[u])]
      /\ Friends!T!state' = [u \in SocialSlots |-> StateOf(socialTx'[u])]
      /\ Friends!T!asked' = [u \in SocialSlots |-> socialTx'[u].request]
      /\ Friends!T!owed' = [u \in SocialSlots |-> OwedOf(socialTx'[u])]
  BY DEF Friends!T!state, Friends!T!asked, Friends!T!owed, StateOf, OwedOf
<1>3. \A u \in SocialSlots :
          /\ Friends!T!state'[u] = IF u = t THEN StateOf(r) ELSE Friends!T!state[u]
          /\ Friends!T!asked'[u] = IF u = t THEN r.request ELSE Friends!T!asked[u]
          /\ Friends!T!owed'[u] = IF u = t THEN OwedOf(r) ELSE Friends!T!owed[u]
  BY <1>1, <1>2
<1>4. Friends!T!state' = [Friends!T!state EXCEPT ![t] = StateOf(r)]
  BY <1>2, <1>3
<1>5. Friends!T!asked' = [Friends!T!asked EXCEPT ![t] = r.request]
  BY <1>2, <1>3
<1>6. Friends!T!owed' = [Friends!T!owed EXCEPT ![t] = OwedOf(r)]
  BY <1>2, <1>3
<1> QED
  BY <1>4, <1>5, <1>6

\* A slot that caller and database do not see change.
LEMMA SocialSame ==
    ASSUME SocialInv, NEW t \in SocialSlots, NEW r, socialTx' = [socialTx EXCEPT ![t] = r],
           StateOf(r) = StateOf(socialTx[t]), r.request = socialTx[t].request,
           OwedOf(r) = OwedOf(socialTx[t])
    PROVE  UNCHANGED <<Friends!T!state, Friends!T!asked, Friends!T!owed>>
<1>1. \A u \in SocialSlots : /\ StateOf(socialTx'[u]) = StateOf(socialTx[u])
                         /\ socialTx'[u].request = socialTx[u].request
                         /\ OwedOf(socialTx'[u]) = OwedOf(socialTx[u])
  BY DEF SocialInv
<1>2. UNCHANGED Friends!T!state
  BY <1>1 DEF Friends!T!state, StateOf
<1>3. UNCHANGED Friends!T!asked
  BY <1>1 DEF Friends!T!asked
<1>4. UNCHANGED Friends!T!owed
  BY <1>1 DEF Friends!T!owed, OwedOf
<1> QED
  BY <1>2, <1>3, <1>4

\* A slot that has nothing to announce ends.
LEMMA SocialCloses ==
    ASSUME SocialInv, NEW t \in SocialSlots, Friends!T!Finish(t), OwedOf(socialTx[t]) = {}
    PROVE  /\ Friends!T!state' = [Friends!T!state EXCEPT ![t] = "done"]
           /\ Friends!T!asked' = [Friends!T!asked EXCEPT ![t] = None]
           /\ UNCHANGED Friends!T!owed
<1> DEFINE r == [Friends!T!NoTx EXCEPT !.pc = "done"]
<1>1. socialTx' = [socialTx EXCEPT ![t] = r]
  BY DEF Friends!T!Finish
<1>2. StateOf(r) = "done" /\ r.request = None /\ OwedOf(r) = {}
  BY DEF StateOf, OwedOf, Friends!T!NoTx
<1> HIDE DEF r
<1>0. /\ Friends!T!state' = [Friends!T!state EXCEPT ![t] = StateOf(r)]
      /\ Friends!T!asked' = [Friends!T!asked EXCEPT ![t] = r.request]
      /\ Friends!T!owed' = [Friends!T!owed EXCEPT ![t] = OwedOf(r)]
  BY <1>1, SocialSeen
<1>3. /\ Friends!T!state' = [Friends!T!state EXCEPT ![t] = "done"]
      /\ Friends!T!asked' = [Friends!T!asked EXCEPT ![t] = None]
      /\ Friends!T!owed' = [Friends!T!owed EXCEPT ![t] = {}]
  BY <1>0, <1>2
<1>4. Friends!T!owed = [u \in SocialSlots |-> OwedOf(socialTx[u])]
  BY DEF Friends!T!owed, OwedOf
<1>5. UNCHANGED Friends!T!owed
  BY <1>3, <1>4
<1> QED
  BY <1>3, <1>5

LEMMA SocialEnds ==
    ASSUME SocialInv, NEW t \in SocialSlots, Friends!T!Finish(t), UNCHANGED social, OwedOf(socialTx[t]) = {}
    PROVE  Friends!T!Promise!Ends(t)
BY SocialCloses DEF Friends!T!Promise!Ends

\* What a request does to rows depends on those of its footprint.
LEMMA SocialAlone ==
    ASSUME NEW a \in Friends!Actions, NEW d, NEW e, Good(d), Good(e), Bounded(e),
           \A x \in Friends!Footprint(a) : d[x] = e[x], Friends!Result(a, d).ok
    PROVE  /\ Friends!Result(a, e).ok
           /\ Friends!Result(a, e).callbacks = Friends!Result(a, d).callbacks
           /\ Friends!Result(a, e).db =
                  [x \in Rows |-> IF Friends!Done(a, d)[x] # d[x]
                                  THEN Friends!Done(a, d)[x] ELSE e[x]]
<1> DEFINE rows == Friends!Footprint(a)
           newD == Friends!Done(a, d)
           newE == Friends!Done(a, e)
<1>1. /\ Changes(d, newD, rows) /\ Changes(e, newE, rows)
      /\ Alike(newD, newE, rows) /\ AFunction(d) /\ AFunction(e)
  BY DoneChanges, DoneAlike DEF Good, Alike
<1>2. /\ newD # d /\ \A user \in Accounts : newD[user].feedSeq <= MaxPosts
      /\ \A x \in rows : d[x] = e[x]
  BY DEF Friends!Result
<1>3. /\ Friends!Result(a, e).ok =
            (newE # e /\ \A user \in Accounts : newE[user].feedSeq <= MaxPosts)
      /\ Friends!Result(a, e).callbacks = Friends!Updates(a, e, newE)
      /\ Friends!Result(a, d).callbacks = Friends!Updates(a, d, newD)
      /\ Friends!Result(a, e).db = newE
  BY DEF Friends!Result
<1> HIDE DEF rows, newD, newE
<1>4. ASSUME NEW x \in Rows
      PROVE  \/ newD[x] = d[x] /\ newE[x] = e[x]
             \/ newD[x] = newE[x] /\ d[x] = e[x]
  BY <1>1, <1>2 DEF Changes, Alike
<1>5. PICK x \in Rows : newD[x] # d[x]
  BY <1>1, <1>2 DEF Alike, AFunction
<1>6. newE # e
  BY <1>4, <1>5
<1>7. \A user \in Accounts : newE[user].feedSeq <= MaxPosts
  BY <1>2, <1>4 DEF Bounded, Rows
<1>8. Friends!Updates(a, e, newE) = Friends!Updates(a, d, newD)
  <2>1. \A user \in Accounts : newE[user].feed \ e[user].feed = newD[user].feed \ d[user].feed
    BY <1>4 DEF Rows
  <2> DEFINE New(db, new) == UNION {{<<"new-feed-post", user, i>> : i \in new[user].feed \ db[user].feed}
                                    : user \in Accounts}
  <2>2. New(e, newE) = New(d, newD)
    BY <2>1
  <2> QED
    BY <2>2 DEF Friends!Updates
<1>9. newE = [y \in Rows |-> IF newD[y] # d[y] THEN newD[y] ELSE e[y]]
  <2>1. \A y \in Rows : newE[y] = IF newD[y] # d[y] THEN newD[y] ELSE e[y]
    BY <1>4
  <2> QED
    BY <1>1, <2>1 DEF Alike, AFunction
<1> QED
  BY <1>3, <1>6, <1>7, <1>8, <1>9 DEF newD

\* The function is run for the first time or again: nothing is seen of it, unless it refuses.
LEMMA SocialRuns ==
    ASSUME SocialInv, NEW t \in SocialSlots, NEW a \in Friends!Actions, NEW counter,
           Friends!T!Run(t, a, counter),
           \/ socialTx[t].pc = "idle"
           \/ socialTx[t].pc = "delay" /\ socialTx[t].request = a
    PROVE  Friends!T!Promise!Next \/ UNCHANGED Friends!T!Promise!vars
<1>1. UNCHANGED social /\ OwedOf(socialTx[t]) = {}
  BY DEF Friends!T!Run, OwedOf
<1>2. Friends!T!state[t] = StateOf(socialTx[t]) /\ Friends!T!asked[t] = socialTx[t].request
  BY DEF Friends!T!state, Friends!T!asked, StateOf
<1>3. CASE Friends!Result(a, social).ok
  <2> DEFINE r == [pc |-> "running", request |-> a, counter |-> counter, seen |-> social,
                   callbacks |-> Friends!T!Fresh(t) \cup Friends!Result(a, social).callbacks]
  <2>1. socialTx' = [socialTx EXCEPT ![t] = r]
    BY <1>3 DEF Friends!T!Run
  <2>2. StateOf(r) = "open" /\ r.request = a /\ OwedOf(r) = {}
    BY DEF StateOf, OwedOf
  <2> HIDE DEF r
  <2>3. CASE socialTx[t].pc = "delay" /\ socialTx[t].request = a
    <3>1. StateOf(socialTx[t]) = "open"
      BY <2>3 DEF StateOf
    <3> QED
      BY <1>1, <2>1, <2>2, <2>3, <3>1, SocialSame DEF Friends!T!Promise!vars
  <2>4. CASE socialTx[t].pc = "idle"
    <3>1. /\ Friends!T!state' = [Friends!T!state EXCEPT ![t] = StateOf(r)]
          /\ Friends!T!asked' = [Friends!T!asked EXCEPT ![t] = r.request]
          /\ Friends!T!owed' = [Friends!T!owed EXCEPT ![t] = OwedOf(r)]
      BY <2>1, SocialSeen
    <3>2. Friends!T!state[t] = "idle"
      BY <1>2, <2>4 DEF StateOf
    <3>3. UNCHANGED Friends!T!owed
      <4>1. Friends!T!owed = [u \in SocialSlots |-> OwedOf(socialTx[u])]
        BY DEF Friends!T!owed, OwedOf
      <4> QED
        BY <1>1, <2>2, <3>1, <4>1
    <3>4. Friends!T!Promise!Ask(t)
      BY <1>1, <2>2, <3>1, <3>2, <3>3 DEF Friends!T!Promise!Ask
    <3> QED
      BY <3>4 DEF Friends!T!Promise!Next
  <2> QED
    BY <2>3, <2>4
<1>4. CASE ~Friends!Result(a, social).ok
  <2>1. Friends!T!Promise!Ends(t)
    BY <1>1, <1>4, SocialEnds DEF Friends!T!Run
  <2>2. Friends!T!state[t] = "idle" \/ (Friends!T!state[t] = "open" /\ Friends!T!asked[t] = a)
    BY <1>2 DEF StateOf
  <2>3. Friends!T!Promise!Refuse(t)
    BY <1>4, <2>1, <2>2 DEF Friends!T!Promise!Refuse
  <2> QED
    BY <2>3 DEF Friends!T!Promise!Next
<1> QED
  BY <1>3, <1>4

\* An attempt that is isolated commits what the request does to the rows as they are.
LEMMA SocialTakes ==
    ASSUME SocialInv, NEW t \in SocialSlots, Friends!T!Committed(t)
    PROVE  /\ Friends!T!Promise!Takes(t)
           /\ Friends!T!asked[t] = socialTx[t].request
           /\ Friends!Result(socialTx[t].request, social).callbacks = socialTx[t].callbacks
<1> DEFINE a == socialTx[t].request
           seen == socialTx[t].seen
<1>1. /\ a \in Friends!Actions /\ Good(seen) /\ Good(social) /\ Bounded(social)
      /\ Friends!Result(a, seen).ok
      /\ \A x \in Friends!Footprint(a) : seen[x] = social[x]
      /\ socialTx[t].pc = "running"
      /\ socialTx[t].callbacks = Friends!Result(a, seen).callbacks
  BY DEF SocialInv, SocialSlot, Friends!T!Committed, Friends!T!Isolated
<1>2. social' = [x \in Rows |-> IF Friends!Done(a, seen)[x] # seen[x]
                               THEN Friends!Done(a, seen)[x] ELSE social[x]]
  BY DEF Friends!T!Committed, Friends!Result, Rows
<1>3. Friends!T!state[t] = "open" /\ Friends!T!asked[t] = a
  BY <1>1 DEF Friends!T!state, Friends!T!asked
<1> HIDE DEF a, seen
<1>4. /\ Friends!Result(a, social).ok
      /\ Friends!Result(a, social).callbacks = socialTx[t].callbacks
      /\ Friends!Result(a, social).db = social'
  BY <1>1, <1>2, SocialAlone
<1> QED
  BY <1>3, <1>4 DEF Friends!T!Promise!Takes, a

LEMMA SocialCommits ==
    ASSUME SocialInv, NEW t \in SocialSlots, Friends!T!Commit(t)
    PROVE  Friends!T!Promise!Execute(t)
<1> DEFINE r == [socialTx[t] EXCEPT !.pc = "after", !.seen = <<>>]
<1>1. Friends!T!Committed(t) /\ socialTx' = [socialTx EXCEPT ![t] = r]
  BY DEF Friends!T!Commit, SocialInv
<1>2. /\ Friends!T!Promise!Takes(t) /\ Friends!T!asked[t] = socialTx[t].request
      /\ Friends!Result(socialTx[t].request, social).callbacks = socialTx[t].callbacks
  BY <1>1, SocialTakes
<1>3. StateOf(r) = "announcing" /\ r.request = socialTx[t].request /\ OwedOf(r) = socialTx[t].callbacks
  <2>1. socialTx[t].pc = "running"
    BY <1>1 DEF Friends!T!Committed
  <2>2. r.pc = "after" /\ r.request = socialTx[t].request /\ r.callbacks = socialTx[t].callbacks
    BY <2>1 DEF SocialInv, SocialSlot
  <2> QED
    BY <2>2 DEF StateOf, OwedOf
<1> HIDE DEF r
<1>4. /\ Friends!T!state' = [Friends!T!state EXCEPT ![t] = StateOf(r)]
      /\ Friends!T!asked' = [Friends!T!asked EXCEPT ![t] = r.request]
      /\ Friends!T!owed' = [Friends!T!owed EXCEPT ![t] = OwedOf(r)]
  BY <1>1, SocialSeen
<1>5. UNCHANGED Friends!T!asked
  <2>1. Friends!T!asked = [u \in SocialSlots |-> socialTx[u].request]
    BY DEF Friends!T!asked
  <2> QED
    BY <1>3, <1>4, <2>1
<1> QED
  BY <1>2, <1>3, <1>4, <1>5 DEF Friends!T!Promise!Execute

\* A commit whose answer is lost does as much and announces nothing.
LEMMA SocialLoses ==
    ASSUME SocialInv, NEW t \in SocialSlots, Friends!T!CommitLost(t)
    PROVE  Friends!T!Promise!ExecuteUnknown(t)
<1>1. OwedOf(socialTx[t]) = {}
  BY DEF Friends!T!CommitLost, Friends!T!Committed, OwedOf
<1> QED
  BY <1>1, SocialTakes, SocialCloses DEF Friends!T!CommitLost, Friends!T!Promise!ExecuteUnknown

\* A conflict is not seen, unless it is the last one; an error gives the request up.
LEMMA SocialGivesUp ==
    ASSUME SocialInv, NEW t \in SocialSlots, Friends!T!Conflict(t) \/ Friends!T!Throw(t)
    PROVE  Friends!T!Promise!Next \/ UNCHANGED Friends!T!Promise!vars
<1>1. UNCHANGED social /\ socialTx[t].pc = "running"
  BY DEF Friends!T!Conflict, Friends!T!Throw
<1>2. StateOf(socialTx[t]) = "open" /\ OwedOf(socialTx[t]) = {}
  BY <1>1 DEF StateOf, OwedOf
<1>3. Friends!T!state[t] = "open"
  BY <1>2 DEF Friends!T!state, StateOf
<1>4. CASE Friends!T!Finish(t)
  <2>1. Friends!T!Promise!GiveUp(t)
    BY <1>1, <1>2, <1>3, <1>4, SocialEnds DEF Friends!T!Promise!GiveUp
  <2> QED
    BY <2>1 DEF Friends!T!Promise!Next
<1>5. CASE ~Friends!T!Finish(t)
  <2> DEFINE r == [socialTx[t] EXCEPT !.pc = "delay", !.counter = @ + 1, !.seen = <<>>]
  <2>1. socialTx' = [socialTx EXCEPT ![t] = r]
    BY <1>5 DEF Friends!T!Conflict, Friends!T!Throw, SocialInv
  <2>2. r.pc = "delay" /\ r.request = socialTx[t].request
    BY DEF SocialInv, SocialSlot
  <2>3. StateOf(r) = "open" /\ OwedOf(r) = {}
    BY <2>2 DEF StateOf, OwedOf
  <2> HIDE DEF r
  <2> QED
    BY <1>1, <1>2, <2>1, <2>2, <2>3, SocialSame DEF Friends!T!Promise!vars
<1> QED
  BY <1>4, <1>5

LEMMA SocialAnnounces ==
    ASSUME SocialInv, NEW t \in SocialSlots, Friends!T!Callback(t)
    PROVE  Friends!T!Promise!Announce(t)
<1>1. UNCHANGED social /\ socialTx[t].pc = "after"
  BY DEF Friends!T!Callback
<1>2. Friends!T!state[t] = "announcing" /\ Friends!T!owed[t] = socialTx[t].callbacks
  BY <1>1 DEF Friends!T!state, Friends!T!owed
<1>3. CASE socialTx[t].callbacks = {} /\ Friends!T!Finish(t)
  <2>1. Friends!T!Promise!Ends(t)
    BY <1>1, <1>3, SocialEnds DEF OwedOf
  <2> QED
    BY <1>2, <1>3, <2>1 DEF Friends!T!Promise!Announce
<1>4. ASSUME NEW callback \in socialTx[t].callbacks,
             socialTx' = [socialTx EXCEPT ![t].callbacks = @ \ {callback}]
      PROVE  Friends!T!Promise!Announce(t)
  <2> DEFINE r == [socialTx[t] EXCEPT !.callbacks = @ \ {callback}]
  <2>1. socialTx' = [socialTx EXCEPT ![t] = r]
    BY <1>4 DEF SocialInv
  <2>2. r.pc = "after" /\ r.request = socialTx[t].request /\ r.callbacks = socialTx[t].callbacks \ {callback}
    BY <1>1 DEF SocialInv, SocialSlot
  <2>3. /\ StateOf(r) = StateOf(socialTx[t]) /\ OwedOf(r) = socialTx[t].callbacks \ {callback}
    BY <1>1, <2>2 DEF StateOf, OwedOf
  <2> HIDE DEF r
  <2>4. UNCHANGED Friends!T!state /\ UNCHANGED Friends!T!asked
    <3>1. \A u \in SocialSlots : /\ StateOf(socialTx'[u]) = StateOf(socialTx[u])
                             /\ socialTx'[u].request = socialTx[u].request
      BY <2>1, <2>2, <2>3 DEF SocialInv
    <3>2. UNCHANGED Friends!T!state
      BY <3>1 DEF Friends!T!state, StateOf
    <3>3. UNCHANGED Friends!T!asked
      BY <3>1 DEF Friends!T!asked
    <3> QED
      BY <3>2, <3>3
  <2>5. Friends!T!owed' = [Friends!T!owed EXCEPT ![t] = OwedOf(r)]
    BY <2>1, SocialSeen
  <2>6. Friends!T!owed' = [Friends!T!owed EXCEPT ![t] = @ \ {callback}]
    <3>1. Friends!T!owed = [u \in SocialSlots |-> OwedOf(socialTx[u])]
      BY DEF Friends!T!owed, OwedOf
    <3> QED
      BY <1>2, <2>3, <2>5, <3>1
  <2> QED
    BY <1>1, <1>2, <1>4, <2>4, <2>6 DEF Friends!T!Promise!Announce
<1> QED
  BY <1>3, <1>4 DEF Friends!T!Callback

\* The refinement of the part of friends and feeds, which time and settings do not touch.
LEMMA SocialSteps ==
    ASSUME SocialInv, [Friends!Next]_socialVars
    PROVE  [Friends!T!Promise!Next \/ Friends!Outside]_(Friends!T!Promise!vars)
<1>1. CASE UNCHANGED socialVars
  BY <1>1 DEF socialVars, Friends!T!Promise!vars, Friends!T!state, Friends!T!asked, Friends!T!owed
<1>0. CASE Friends!Outside
  BY <1>0
<1>2. SUFFICES ASSUME NEW t \in SocialSlots,
                      \/ Friends!T!Begin(t) \/ Friends!T!Retry(t) \/ Friends!T!Commit(t) \/ Friends!T!Conflict(t)
                      \/ Friends!T!Throw(t) \/ Friends!T!CommitLost(t) \/ Friends!T!Callback(t)
               PROVE  Friends!T!Promise!Next \/ UNCHANGED Friends!T!Promise!vars
  BY <1>0, <1>1 DEF Friends!Next, Friends!T!NextTx
<1>3. CASE Friends!T!Begin(t)
  BY <1>3, SocialRuns DEF Friends!T!Begin
<1>4. CASE Friends!T!Retry(t)
  BY <1>4, SocialRuns DEF Friends!T!Retry, SocialInv, SocialSlot
<1>5. CASE Friends!T!Commit(t)
  BY <1>5, SocialCommits DEF Friends!T!Promise!Next
<1>8. CASE Friends!T!CommitLost(t)
  BY <1>8, SocialLoses DEF Friends!T!Promise!Next
<1>6. CASE Friends!T!Conflict(t) \/ Friends!T!Throw(t)
  BY <1>6, SocialGivesUp
<1>7. CASE Friends!T!Callback(t)
  BY <1>7, SocialAnnounces DEF Friends!T!Promise!Next
<1> QED
  BY <1>2, <1>3, <1>4, <1>5, <1>6, <1>7, <1>8
LEMMA NothingAsked ==
    /\ Kv!Init => Kv!T!Promise!Init
    /\ Friends!Init => Friends!T!Promise!Init
<1>1. Kv!Init => Kv!T!Promise!Init
  BY DEF Kv!Init, Kv!T!InitTx, Kv!T!NoTx, Kv!T!Promise!Init, Kv!T!state, Kv!T!asked, Kv!T!owed
<1>2. Friends!Init => Friends!T!Promise!Init
  BY DEF Friends!Init, Friends!T!InitTx, Friends!T!NoTx, Friends!T!Promise!Init,
         Friends!T!state, Friends!T!asked, Friends!T!owed
<1> QED
  BY <1>1, <1>2

\* However often a request is tried and whatever overlaps with it, it takes effect once, as
\* a whole, on the rows of one moment, and announces what it did to them, unless the answer
\* of its commit was lost; or it does nothing.
\* An attempt that commits saw the rows that it depends on as they then are, and what it
\* makes of them does not depend on other ones.
THEOREM SerializableHolds == Spec => Serializable
<1>1. Init => Kv!T!Promise!Init /\ Friends!T!Promise!Init
  BY NothingAsked DEF Init
<1>2. KvInv /\ [Next]_vars => [Kv!T!Promise!Next]_(Kv!T!Promise!vars)
  BY KvSteps DEF Next, vars, kvVars
<1>3. SocialInv /\ [Next]_vars
      => [Friends!T!Promise!Next \/ Friends!Outside]_(Friends!T!Promise!vars)
  BY SocialSteps DEF Next, vars, socialVars
<1> QED
  BY <1>1, <1>2, <1>3, KvAlways, SocialAlways, PTL
     DEF Spec, Serializable, Kv!Serializable, Friends!Serializable, Kv!T!Promise!Spec

-----------------------------------------------------------------------------
(* Theorems about friends, feeds and all of the services.                  *)

\* Both are friends, or one has asked and the other one been asked, however the requests
\* of the two and of others overlap: an attempt commits only if both rows are as it saw
\* them, and every function takes one story to another.
THEOREM RelationsMirroredHolds == Spec => []RelationsMirrored
<1>1. SocialInv => RelationsMirrored
  BY DEF SocialInv, Good, Mirrored, RelationsMirrored, Friends!RelationsMirrored
<1> QED
  BY <1>1, SocialAlways, PTL

\* However often two users add and remove each other, each is told of the other one once
\* before 24 hours have passed.
THEOREM ToldOncePerDayHolds == Spec => []ToldOncePerDay
<1>1. ASSUME SocialInv, NEW p \in Friends!Pairs PROVE social[p].told <= 1
  BY <1>1 DEF SocialInv, Good, GoodRows, GoodRelation
<1>2. SocialInv => ToldOncePerDay
  BY <1>1 DEF ToldOncePerDay, Friends!ToldOncePerDay
<1> QED
  BY <1>2, SocialAlways, PTL

\* No item whose key is dismissed by then is put into a feed, and no second one of a key,
\* whatever posts, notifications and dismissals overlap, and whatever settings the user's
\* clients store meanwhile: an attempt that posts commits only if the account is as it saw it.
THEOREM FeedConsistentHolds == Spec => FeedConsistent
<1> DEFINE Kept == \A user \in Accounts : \A i \in social'[user].feed :
                       /\ i \in social[user].feed \/ i.key \notin social[user].dismissed
                       /\ \A j \in social'[user].feed : i.key = j.key /\ i.key # None => i = j
<1>1. ASSUME SocialInv, SocialInv', Allowed(social, social') PROVE Kept
  BY <1>1 DEF SocialInv, Good, GoodRows, GoodAccount, Allowed
<1>2. ASSUME SocialInv, SocialInv', \A user \in Accounts : social'[user].feed = social[user].feed
      PROVE  Kept
  BY <1>2 DEF SocialInv, Good, GoodRows, GoodAccount
<1>3. ASSUME SocialInv, Friends!Next PROVE Kept
  <2>1. SocialInv'
    BY <1>3, SocialInvKept
  <2>2. CASE UNCHANGED social
    BY <1>2, <1>3, <2>1, <2>2
  <2>3. CASE Friends!Outside
    <3>1. GoodRows(social)
      BY <1>3 DEF SocialInv, Good
    <3>2. \A user \in Accounts : social'[user].feed = social[user].feed
      <4>1. ASSUME NEW p \in Friends!Pairs, Friends!CooldownOver(p), NEW user \in Accounts
            PROVE  social'[user] = social[user]
        BY <3>1, <4>1, PairsOfUsers DEF Friends!CooldownOver, GoodRows, Rows
      <4>2. ASSUME NEW other \in Accounts, Friends!ReplaceSettings(other), NEW user \in Accounts
            PROVE  social'[user].feed = social[user].feed
        BY <3>1, <4>2 DEF Friends!ReplaceSettings, GoodRows, GoodAccount, Rows
      <4> QED
        BY <2>3, <4>1, <4>2 DEF Friends!Outside
    <3> QED
      BY <1>2, <1>3, <2>1, <3>2
  <2>4. ASSUME NEW t \in SocialSlots, Friends!T!Committed(t) PROVE Kept
    BY <1>1, <1>3, <2>1, <2>4, CommitGood
  <2>5. ASSUME NEW t \in SocialSlots,
               \/ Friends!T!Begin(t) \/ Friends!T!Retry(t) \/ Friends!T!Conflict(t)
               \/ Friends!T!Throw(t) \/ Friends!T!Callback(t)
        PROVE  UNCHANGED social
    BY <2>5 DEF Friends!T!Begin, Friends!T!Retry, Friends!T!Run, Friends!T!Conflict,
                Friends!T!Throw, Friends!T!Callback
  <2> QED
    BY <1>3, <2>2, <2>3, <2>4, <2>5
    DEF Friends!Next, Friends!T!NextTx, Friends!T!Commit, Friends!T!CommitLost
<1>4. SocialInv /\ [Next]_vars => [Kept]_socialVars
  <2>1. CASE UNCHANGED socialVars
    BY <2>1
  <2> HIDE DEF Kept
  <2> QED
    BY <1>3, <2>1 DEF Next, vars
<1> QED
  BY <1>4, SocialAlways, PTL DEF Spec, FeedConsistent, Friends!FeedConsistent, Friends!vars, socialVars

\* Every service keeps the types of its data, whatever is asked of it.
THEOREM TypesAlways == Spec => []TypeOK
<1>1. ArtifactFacts!ArtifactsAssumption
  BY DataAssumption DEF Artifact!ArtifactsAssumption, ArtifactFacts!ArtifactsAssumption
<1>2. Spec => []ArtifactFacts!TypeOK
  BY <1>1, OfArtifacts, ArtifactFacts!Types, PTL
<1>3. ArtifactFacts!TypeOK => Artifact!TypeOK
  BY DEF Artifact!TypeOK, ArtifactFacts!TypeOK, Artifact!Call, ArtifactFacts!Call,
         Artifact!Parts, ArtifactFacts!Parts, Artifact!Vias, ArtifactFacts!Vias,
         Artifact!Points, ArtifactFacts!Points, Artifact!Events, ArtifactFacts!Events
<1>4. KvInv => Kv!TypeOK
  BY KvTypes
<1>5. SocialInv => Friends!TypeOK
  BY SocialTypes
<1>6. LinkInv => Link!TypeOK
  BY DEF LinkInv
<1> QED
  BY <1>2, <1>3, <1>4, <1>5, <1>6, KvAlways, SocialAlways, LinkAlways, PTL DEF TypeOK
=============================================================================
