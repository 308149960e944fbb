----------------------------- MODULE GithubLink -----------------------------
(***************************************************************************)
(* The link between an account and a GitHub user.  Connecting takes a      *)
(* GitHub user from the account that has it; the two look-ups, the nested  *)
(* disconnect and the transaction that links are separate steps, between   *)
(* which other requests run.  The database allows a GitHub user, and a     *)
(* user name, on one account only, and when a GitHub user is deleted it    *)
(* unlinks the account that has it, leaving the account's user name.       *)
(***************************************************************************)
EXTENDS Integers

CONSTANTS Calls,         \* requests, each made at most once
          Accounts,
          GithubUsers,
          None           \* no GitHub user, no user name, no account

GithubAssumption == None \notin Accounts /\ None \notin GithubUsers

VARIABLES account,      \* per account: its GitHub user and its user name
          githubUsers,  \* the GitHub users stored, with their tokens
          call,         \* per call: its request and where it is
          cut           \* history: accounts that lost a GitHub user another one gave up

vars == <<account, githubUsers, call, cut>>

Points == {"idle", "check", "find", "look", "unlink", "announceUnlink", "link",
           "announceLink", "done", "failed"}

TypeOK == /\ account \in [Accounts -> [github : GithubUsers \cup {None},
                                       username : GithubUsers \cup {None}]]
          /\ githubUsers \subseteq GithubUsers
          /\ \A a \in Accounts : account[a].github \in githubUsers \cup {None}
          /\ call \in [Calls -> [pc : Points, account : Accounts \cup {None},
                                 github : GithubUsers \cup {None},
                                 other : Accounts \cup {None},
                                 given : GithubUsers \cup {None}]]
          /\ cut \subseteq Accounts

Unlinked == [github |-> None, username |-> None]
NoCall == [pc |-> "idle", account |-> None, github |-> None, other |-> None, given |-> None]

\* Accounts are linked to GitHub users of their own, whose login is their user name.
Init == /\ account \in [Accounts -> {[github |-> g, username |-> g] : g \in GithubUsers \cup {None}}]
        /\ \A a, b \in Accounts :
               a # b /\ account[a] = account[b] => account[a] = Unlinked
        /\ githubUsers = {account[a].github : a \in Accounts} \ {None}
        /\ call = [c \in Calls |-> NoCall]
        /\ cut = {}

GoTo(c, pc) == call' = [call EXCEPT ![c].pc = pc]
End(c, pc) == call' = [call EXCEPT ![c] = [NoCall EXCEPT !.pc = pc]]
Connects(c) == call[c].github # None
AfterUnlink(c) == IF Connects(c) THEN GoTo(c, "link") ELSE End(c, "done")

\* A request to disconnect an account, or GitHub's redirect that connects it.
Begin(c) ==
    /\ call[c].pc = "idle"
    /\ \E a \in Accounts :
           \/ call' = [call EXCEPT ![c].pc = "look", ![c].account = a, ![c].other = a]
           \/ \E g \in GithubUsers :
                  call' = [call EXCEPT ![c].pc = "check", ![c].account = a, ![c].github = g]
    /\ UNCHANGED <<account, githubUsers, cut>>

CheckSame(c) ==
    /\ call[c].pc = "check"
    /\ IF account[call[c].account].github = call[c].github
       THEN End(c, "done")
       ELSE GoTo(c, "find")
    /\ UNCHANGED <<account, githubUsers, cut>>

FindOther(c) ==
    LET others == {a \in Accounts \ {call[c].account} : account[a].github = call[c].github} IN
    /\ call[c].pc = "find"
    /\ \/ others = {} /\ GoTo(c, "link")
       \/ \E a \in others : call' = [call EXCEPT ![c].pc = "look", ![c].other = a]
    /\ UNCHANGED <<account, githubUsers, cut>>

\* githubDisconnect: nothing to do, or remember the GitHub user the account has now.
Look(c) ==
    LET g == account[call[c].other].github IN
    /\ call[c].pc = "look"
    /\ IF g = None THEN AfterUnlink(c)
                   ELSE call' = [call EXCEPT ![c].pc = "unlink", ![c].given = g]
    /\ UNCHANGED <<account, githubUsers, cut>>

\* Mutants: the user name stays; only the user name goes.
ClearedKeepsName(a) == [account[a] EXCEPT !.github = None]

ClearedNameOnly(a) == [account[a] EXCEPT !.username = None]

\* An account that gives up its GitHub user.
Cleared(a) == Unlinked

\* One transaction clears the account and deletes the GitHub user it had when it was
\* looked at.  It fails as a whole if that is gone; if another account has it by now,
\* the database unlinks that one.
Unlink(c) ==
    LET losers == {a \in Accounts \ {call[c].other} : account[a].github = call[c].given} IN
    /\ call[c].pc = "unlink"
    /\ \/ /\ call[c].given \notin githubUsers
          /\ End(c, "failed")
          /\ UNCHANGED <<account, githubUsers, cut>>
       \/ /\ call[c].given \in githubUsers
          /\ account' = [a \in Accounts |-> IF a = call[c].other THEN Cleared(a)
                                            ELSE IF a \in losers
                                            THEN [account[a] EXCEPT !.github = None]
                                            ELSE account[a]]
          /\ githubUsers' = githubUsers \ {call[c].given}
          /\ cut' = (cut \cup losers) \ {call[c].other}
          /\ GoTo(c, "announceUnlink")

AnnounceUnlink(c) == /\ call[c].pc = "announceUnlink"
                     /\ AfterUnlink(c)
                     /\ UNCHANGED <<account, githubUsers, cut>>

\* Another account has the GitHub user, or its login as user name.
Taken(c) == \E a \in Accounts \ {call[c].account} :
                call[c].github \in {account[a].github, account[a].username}

\* One transaction stores the GitHub user and links it; a violated uniqueness undoes it.
\* The GitHub user that the account had before stays stored.
Link(c) ==
    /\ call[c].pc = "link"
    /\ \/ /\ Taken(c)
          /\ End(c, "failed")
          /\ UNCHANGED <<account, githubUsers, cut>>
       \/ /\ ~Taken(c)
          /\ account' = [account EXCEPT ![call[c].account] =
                             [github |-> call[c].github, username |-> call[c].github]]
          /\ githubUsers' = githubUsers \cup {call[c].github}
          /\ cut' = cut \ {call[c].account}
          /\ GoTo(c, "announceLink")

AnnounceLink(c) == /\ call[c].pc = "announceLink"
                   /\ End(c, "done")
                   /\ UNCHANGED <<account, githubUsers, cut>>

\* GitHub, the image store or the database fails: what was written stays.
Fail(c) == /\ call[c].pc \notin {"idle", "done", "failed"}
           /\ End(c, "failed")
           /\ UNCHANGED <<account, githubUsers, cut>>

Next == \E c \in Calls : \/ Begin(c) \/ CheckSame(c) \/ FindOther(c) \/ Look(c)
                         \/ Unlink(c) \/ AnnounceUnlink(c) \/ Link(c) \/ AnnounceLink(c)
                         \/ Fail(c)

Spec == Init /\ [][Next]_vars
-----------------------------------------------------------------------------
(* Properties.                                                             *)

\* An account has its user name from the GitHub user it is linked to.  The one way in
\* which it keeps the name of a user it is no longer linked to is that another
\* account, to disconnect, deleted a GitHub user that had moved on since it looked
\* (githubDisconnect.ts:48, schema.prisma:32).
NameOfLink ==
    \A a \in Accounts : \/ account[a].username = account[a].github
                        \/ a \in cut /\ account[a].github = None
=============================================================================
