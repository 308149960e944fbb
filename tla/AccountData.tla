----------------------------- MODULE AccountData -----------------------------
(***************************************************************************)
(* What the server keeps for accounts beside their sessions: artifacts,    *)
(* the key-value store, friends and feed, the GitHub link.  Their handlers *)
(* share no row that one of them would read and another one write, so a    *)
(* behaviour is one of a single service, and the other ones stay in a      *)
(* state of their own: a sum of the four, where a product would only       *)
(* interleave steps that commute.                                          *)
(***************************************************************************)
EXTENDS Integers

CONSTANTS ArtifactCalls, KvSlots, SocialSlots, LinkCalls,   \* requests to each service
          Accounts, NoAccount,
          Keys, Values, Null, MaxVersion,                   \* of the key-value store
          GithubUsers,
          None,                                             \* no batch, action, key, link
          MaxFailures, MaxPosts, KeySets                    \* bounds

VARIABLES service,      \* the service that this behaviour is of
          row, artifactCall, wins, stale, failures,
          kv, kvTx,
          social, socialTx,
          account, githubUsers, linkCall, cut

artifactVars == <<row, artifactCall, wins, stale, failures>>
kvVars == <<kv, kvTx>>
socialVars == <<social, socialTx>>
linkVars == <<account, githubUsers, linkCall, cut>>
vars == <<service, artifactVars, kvVars, socialVars, linkVars>>

Artifact == INSTANCE Artifacts WITH Calls <- ArtifactCalls, call <- artifactCall
Kv == INSTANCE KvStore WITH Slots <- KvSlots, NoBatch <- None, tx <- kvTx
Friends == INSTANCE Social WITH Slots <- SocialSlots, Users <- Accounts, NoKey <- None,
                                NoAction <- None, tx <- socialTx
Link == INSTANCE GithubLink WITH Calls <- LinkCalls, call <- linkCall

ASSUME DataAssumption == /\ Artifact!ArtifactsAssumption
                         /\ Kv!KvAssumption
                         /\ Friends!SocialAssumption
                         /\ Link!GithubAssumption

\* A service that this behaviour is not of has its data in the first state of them all.
Dormant == /\ service # "artifacts" => ~row.live
           /\ service # "friends" => social = Friends!FirstOfAll
           /\ service # "link" => githubUsers = {}

Init == /\ service \in {"artifacts", "kv", "friends", "link"}
        /\ Artifact!Init
        /\ Kv!Init
        /\ Friends!Init
        /\ Link!Init
        /\ Dormant

Next == /\ UNCHANGED service
        /\ \/ /\ service = "artifacts"
              /\ Artifact!Next
              /\ UNCHANGED <<kvVars, socialVars, linkVars>>
           \/ /\ service = "kv"
              /\ Kv!Next
              /\ UNCHANGED <<artifactVars, socialVars, linkVars>>
           \/ /\ service = "friends"
              /\ Friends!Next
              /\ UNCHANGED <<artifactVars, kvVars, linkVars>>
           \/ /\ service = "link"
              /\ Link!Next
              /\ UNCHANGED <<artifactVars, kvVars, socialVars>>

Spec == Init /\ [][Next]_vars
-----------------------------------------------------------------------------
(* The services' properties, each stated with its service.                 *)

\* The four services keep the types of their data (artifactUpdateHandler.ts,
\* kvMutate.ts, friendAdd.ts and githubConnect.ts write them).
TypeOK == Artifact!TypeOK /\ Kv!TypeOK /\ Friends!TypeOK /\ Link!TypeOK

\* Two writers never both replace one version of a part of an artifact, unless an HTTP
\* update overwrote one it had not read (artifactUpdateHandler.ts:182).
NoLostUpdate == Artifact!NoLostUpdate

\* No life of an artifact id is announced as new or as deleted by two calls, and until a
\* call fails each one is announced (artifactsRoutes.ts:395).
LivesAnnounced == Artifact!LivesAnnounced

\* A key's value never changes without a new version (kvMutate.ts:56).
VersionsGrow == Kv!VersionsGrow

\* A request to the key-value store or about friends and feeds takes effect at one moment,
\* as a whole, or not at all, and announces what it did then, unless the answer of its
\* commit was lost (inTx.ts:17-46).
Serializable == Kv!Serializable /\ Friends!Serializable

\* The two rows of a relation tell one story (friendAdd.ts:45, friendRemove.ts:29).
RelationsMirrored == Friends!RelationsMirrored

\* A user is told of another one once in 24 hours (friendNotification.ts:29).
ToldOncePerDay == Friends!ToldOncePerDay

\* A feed gets no second item of one repeatKey, and no item that is dismissed by then
\* (feedPost.ts:34).
FeedConsistent == Friends!FeedConsistent

\* A user name is that of the linked GitHub user, but for the account whose link was
\* cut off (githubDisconnect.ts:48).
NameOfLink == Link!NameOfLink
=============================================================================
