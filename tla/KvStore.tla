------------------------------- MODULE KvStore -------------------------------
(***************************************************************************)
(* The key-value store of one account.  A request is a batch of mutations, *)
(* each with the version its client expects, -1 for a key that must not    *)
(* exist; deleting keeps the record, without a value.  A batch is applied  *)
(* as a whole, in a transaction of InTx, and announced in one update.      *)
(***************************************************************************)
EXTENDS Integers, Sequences, FiniteSets

CONSTANTS Slots,
          Keys,
          Values,
          Null,         \* no value: of a deleted key, or a missing one
          NoBatch,
          MaxVersion    \* bound: versions that clients know of

VARIABLES kv, tx

vars == <<kv, tx>>

Missing == [version |-> -1, value |-> Null]

Mutation == [key : Keys, version : -1..MaxVersion, value : Values \cup {Null}]

\* One mutation, or two: of two keys, or of one key twice.
Batches == {<<m>> : m \in Mutation} \cup (Mutation \X Mutation)

KvAssumption == /\ Null \notin Values
                /\ MaxVersion \in Nat
                /\ NoBatch \notin Batches

Touched(batch) == {batch[i].key : i \in DOMAIN batch}

\* Mutant: the version of the first mutation only is looked at.
ExpectedFirst(batch, db) == db[batch[1].key].version = batch[1].version

\* Every mutation expects the version its key has now.
Expected(batch, db) == \A i \in DOMAIN batch : db[batch[i].key].version = batch[i].version

\* Creating a key twice fails for its second creation, as a unique key is violated.
CreatesTwice(batch) ==
    \E i, j \in DOMAIN batch : i < j /\ batch[i].key = batch[j].key /\ batch[i].version = -1

\* The last mutation of a key decides its value.
LastOf(batch, key) ==
    batch[CHOOSE i \in DOMAIN batch : /\ batch[i].key = key
                                      /\ \A j \in DOMAIN batch : batch[j].key = key => j <= i]

Applied(batch, db) ==
    [key \in Keys |-> IF key \in Touched(batch)
                      THEN [version |-> LastOf(batch, key).version + 1,
                            value |-> LastOf(batch, key).value]
                      ELSE db[key]]

\* The one callback: the changes, with the versions they made.
Change(mutation) == [key |-> mutation.key, version |-> mutation.version + 1,
                     value |-> mutation.value]

KvMutate(batch, db) ==
    [ok |-> Expected(batch, db) /\ ~CreatesTwice(batch),
     db |-> Applied(batch, db),
     callbacks |-> {[i \in DOMAIN batch |-> Change(batch[i])]}]

T == INSTANCE InTx WITH Requests <- Batches, NoRequest <- NoBatch, Rows <- Keys, db <- kv,
                        Footprint <- Touched, Result <- KvMutate

TypeOK == /\ kv \in [Keys -> [version : -1..MaxVersion + 1, value : Values \cup {Null}]]
          /\ T!TxTypeOK

Init == /\ kv = [key \in Keys |-> Missing]
        /\ T!InitTx

Next == T!NextTx

Spec == Init /\ [][Next]_vars

\* A key is never given another value, or taken back, without a version that is new:
\* of two batches that expect the same version of a key, one is refused, whatever else
\* they mutate (kvMutate.ts:56).
VersionsGrow == [][\A key \in Keys : kv'[key] = kv[key] \/ kv'[key].version > kv[key].version]_vars

\* A batch is applied as if alone, to the store of one moment, and announces what it did
\* then, however often it was made again; it announces nothing only if its commit seemed
\* to fail (inTx.ts:17, kvMutate.ts:39).
Serializable == T!Promise!Spec
=============================================================================
