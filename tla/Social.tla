------------------------------- MODULE Social -------------------------------
(***************************************************************************)
(* Friends and the feed.  Between two users there are two rows, one from   *)
(* each of them to the other; adding and removing a friend reads both and  *)
(* may write both, and tells the other user in his feed, at most once in   *)
(* 24 hours.  A feed holds one item per repeatKey, and a repeatKey that    *)
(* its user has dismissed is not posted again.  All of it runs in          *)
(* transactions of InTx, but for the settings, in which the dismissed keys *)
(* are kept and which the user's clients may replace at any time.          *)
(***************************************************************************)
EXTENDS Integers, FiniteSets

CONSTANTS Slots,
          Users,
          NoKey,
          NoAction,
          MaxPosts,    \* bound: items ever posted to one feed
          KeySets      \* bound: the dismissed keys of the settings that clients store

VARIABLES social, tx

vars == <<social, tx>>

Status == {"none", "requested", "pending", "friend", "rejected"}
Pairs == {p \in Users \X Users : p[1] # p[2]}
Kinds == {"friend_request", "friend_accepted", "post"}
RepeatKeys == Kinds \X Users

Item == [key : RepeatKeys \cup {NoKey}, counter : 1..MaxPosts]

Actions == [op : {"add", "remove"}, by : Users, of : Users]
               \cup {[op |-> "post", by |-> user, key |-> <<"post", user>>] : user \in Users}
               \cup [op : {"post"}, by : Users, key : {NoKey}]
               \cup [op : {"dismiss"}, by : Users, counter : 1..MaxPosts]

\* A user is not a pair of users: relations and accounts are different rows.
SocialAssumption == /\ Users \cap Pairs = {}
                    /\ NoKey \notin RepeatKeys
                    /\ NoAction \notin Actions
                    /\ MaxPosts \in Nat \ {0}
                    /\ KeySets \subseteq SUBSET RepeatKeys

\* A relation has a status and the time of the last notification: within 24 hours or
\* not.  History: how often the user was told within them.
NewAccount == [feed |-> {}, feedSeq |-> 0, dismissed |-> {}]

relationshipGet(db, from, to) == db[<<from, to>>].status

\* Mutant: the time of the last notification is not preserved.
relationshipSetAnew(db, from, to, status) ==
    [db EXCEPT ![<<from, to>>].status = status, ![<<from, to>>].recent = FALSE]

relationshipSet(db, from, to, status) == [db EXCEPT ![<<from, to>>].status = status]

\* Mutant: the keys that were dismissed are not looked at.
feedPostAgain(db, user, key) ==
    LET kept == {i \in db[user].feed : key = NoKey \/ i.key # key}
        next == db[user].feedSeq + 1
    IN [db EXCEPT ![user].feed = kept \cup {[key |-> key, counter |-> next]},
                  ![user].feedSeq = next]

\* A new item, in place of those with its repeatKey, unless that was dismissed.
feedPost(db, user, key) ==
    LET kept == {i \in db[user].feed : key = NoKey \/ i.key # key}
        next == db[user].feedSeq + 1
    IN IF key \in db[user].dismissed
       THEN db
       ELSE [db EXCEPT ![user].feed = kept \cup {[key |-> key, counter |-> next]},
                       ![user].feedSeq = next]

shouldSendNotification(relation) == relation.status # "rejected" /\ ~relation.recent

\* Tell the receiver about the other user, and note when.
notify(db, receiver, other, kind) ==
    LET relation == db[<<receiver, other>>] IN
    IF shouldSendNotification(relation)
    THEN [feedPost(db, receiver, <<kind, other>>)
              EXCEPT ![<<receiver, other>>].recent = TRUE,
                     ![<<receiver, other>>].told = @ + 1]
    ELSE db

sendFriendRequestNotification(db, receiver, sender) ==
    notify(db, receiver, sender, "friend_request")

sendFriendshipEstablishedNotification(db, user1, user2) ==
    notify(notify(db, user1, user2, "friend_accepted"), user2, user1, "friend_accepted")

\* Accept the other user's request, or make one; the other side becomes pending if it
\* was nothing.
friendAdd(db, me, other) ==
    LET mine == relationshipGet(db, me, other)
        theirs == relationshipGet(db, other, me)
        accepted == relationshipSet(relationshipSet(db, other, me, "friend"), me, other, "friend")
        requested == relationshipSet(db, me, other, "requested")
        told == IF theirs = "none" THEN relationshipSet(requested, other, me, "pending")
                                   ELSE requested
    IN CASE me = other -> db
         [] me # other /\ theirs = "requested" ->
                sendFriendshipEstablishedNotification(accepted, me, other)
         [] me # other /\ theirs # "requested" /\ mine \in {"none", "rejected"} ->
                sendFriendRequestNotification(told, other, me)
         [] OTHER -> db

\* Take a request back, end a friendship (which leaves the other side's request), or
\* decline one.
friendRemove(db, me, other) ==
    LET mine == relationshipGet(db, me, other)
        theirs == relationshipGet(db, other, me)
        declined == relationshipSet(db, me, other, "none")
    IN CASE me = other -> db
         [] me # other /\ mine = "requested" -> relationshipSet(db, me, other, "rejected")
         [] me # other /\ mine = "friend" ->
                relationshipSet(relationshipSet(db, other, me, "requested"), me, other, "pending")
         [] me # other /\ mine = "pending" ->
                IF theirs # "rejected" THEN relationshipSet(declined, other, me, "none")
                                       ELSE declined
         [] OTHER -> db

\* Dismiss an item: its key is remembered, the item deleted.
dismiss(db, user, counter) ==
    [db EXCEPT ![user].feed = {i \in @ : i.counter # counter},
               ![user].dismissed = @ \cup ({i.key : i \in {j \in db[user].feed :
                                                            j.counter = counter}} \ {NoKey})]

Done(a, db) == CASE a.op = "add" -> friendAdd(db, a.by, a.of)
                 [] a.op = "remove" -> friendRemove(db, a.by, a.of)
                 [] a.op = "post" -> feedPost(db, a.by, a.key)
                 [] a.op = "dismiss" -> dismiss(db, a.by, a.counter)

\* The callbacks: a new item each, or the one that was dismissed; an item that is
\* replaced is not said to be deleted.
Updates(a, old, new) ==
    (UNION {{<<"new-feed-post", user, i>> : i \in new[user].feed \ old[user].feed} : user \in Users})
    \cup (IF a.op = "dismiss" THEN {<<"delete-feed-post", a.by, a.counter>>} ELSE {})

\* Requests that would exceed the bound on posts are left out.
Result(a, db) ==
    LET new == Done(a, db) IN
    [ok |-> new # db /\ \A user \in Users : new[user].feedSeq <= MaxPosts,
     db |-> new,
     callbacks |-> Updates(a, db, new)]

\* Adding and removing look at both relations and both accounts.
Footprint(a) == IF a.op \in {"add", "remove"}
                THEN {a.by, a.of} \cup ({<<a.by, a.of>>, <<a.of, a.by>>} \cap Pairs)
                ELSE {a.by}

T == INSTANCE InTx WITH Requests <- Actions, NoRequest <- NoAction, Rows <- Users \cup Pairs,
                        db <- social

TypeOK == /\ \A p \in Pairs : /\ social[p].status \in Status
                              /\ social[p].recent \in BOOLEAN
                              /\ social[p].told \in Nat
          /\ \A user \in Users : /\ social[user].feed \subseteq Item
                                 /\ social[user].feedSeq \in 0..MaxPosts
                                 /\ social[user].dismissed \subseteq RepeatKeys
          /\ T!TxTypeOK

\* Two users stand to each other as earlier requests have left them.
Stories == {<<"none", "none">>, <<"friend", "friend">>, <<"requested", "pending">>,
            <<"rejected", "pending">>, <<"rejected", "none">>, <<"rejected", "requested">>,
            <<"rejected", "rejected">>}

InStory(mine, theirs) == <<mine, theirs>> \in Stories \/ <<theirs, mine>> \in Stories

Earlier == {r \in [status : Status, recent : BOOLEAN, told : 0..1] : (r.told = 1) = r.recent}

FirstOfAll == [row \in Users \cup Pairs |->
                  IF row \in Users THEN NewAccount
                                  ELSE [status |-> "none", recent |-> FALSE, told |-> 0]]

\* Each of their accounts is new, or each has an item, and the key of an earlier one
\* dismissed, of which the notification is over 24 hours old.
UsedAccount(user) == [feed |-> {[key |-> <<"post", user>>, counter |-> 1]}, feedSeq |-> 1,
                      dismissed |-> {"friend_request"} \X (Users \ {user})]

Init == /\ \E relation \in [Pairs -> Earlier], used \in {{}, Users} :
              /\ \A p \in Pairs : InStory(relation[p].status, relation[<<p[2], p[1]>>].status)
              /\ used = Users => \A p \in Pairs : ~relation[p].recent
              /\ social = [row \in Users \cup Pairs |->
                             IF row \in used THEN UsedAccount(row)
                             ELSE IF row \in Users THEN NewAccount ELSE relation[row]]
        /\ T!InitTx

\* 24 hours have passed.
CooldownOver(p) ==
    /\ social[p].recent
    /\ social' = [social EXCEPT ![p].recent = FALSE, ![p].told = 0]
    /\ UNCHANGED tx

\* A client stores settings of its own making: whatever keys they call dismissed, that of
\* an item in the feed among them.
ReplaceSettings(user) ==
    /\ \E keys \in KeySets : social' = [social EXCEPT ![user].dismissed = keys]
    /\ UNCHANGED tx

Outside == \/ \E p \in Pairs : CooldownOver(p)
           \/ \E user \in Users : ReplaceSettings(user)

Next == T!NextTx \/ Outside

Spec == Init /\ [][Next]_vars
-----------------------------------------------------------------------------
(* Properties.                                                             *)

\* The two rows always tell one story, however the two users' requests overlap: both
\* are friends, one has asked and the other one been asked, or an old request was
\* taken back; never a friend on one side only, and never two requests that wait for
\* each other (friendAdd.ts:45, friendRemove.ts:29).
RelationsMirrored ==
    \A p \in Pairs : InStory(social[p].status, social[<<p[2], p[1]>>].status)

\* A user is told about another one at most once in 24 hours, whatever the two add and
\* remove (friendNotification.ts:29, relationshipSet.ts:56).
ToldOncePerDay == \A p \in Pairs : social[p].told <= 1

\* No step puts an item into a feed whose repeatKey is dismissed by then, however a post
\* overlaps a dismissal or the settings of a client, or a second item of one repeatKey
\* (feedPost.ts:34).
FeedConsistent ==
    [][\A user \in Users : \A i \in social'[user].feed :
          /\ i \in social[user].feed \/ i.key \notin social[user].dismissed
          /\ \A j \in social'[user].feed : i.key = j.key /\ i.key # NoKey => i = j]_vars

\* A request takes effect as if alone, on the rows of one moment, and announces what it did
\* then, unless its commit seemed to fail; what the transactions do not do is left to happen
\* between them (inTx.ts:17, friendAdd.ts:23).
Serializable == T!Promise!Init /\ [][T!Promise!Next \/ Outside]_(T!Promise!vars)
=============================================================================
