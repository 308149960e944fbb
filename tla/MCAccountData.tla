---------------------------- MODULE MCAccountData ----------------------------
EXTENDS AccountData, TLC

\* Accounts differ only in name, and so do the slots of requests about friends.
DataSymmetry == Permutations(SocialSlots) \cup Permutations(Accounts)

\* Clients store settings that dismiss the posts of both users, in the feed or not.
SomeKeySets == {{"post"} \X Accounts}
=============================================================================
