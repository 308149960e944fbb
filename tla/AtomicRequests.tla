--------------------------- MODULE AtomicRequests ---------------------------
(***************************************************************************)
(* What the callers of inTx rely on.  A request is carried out as a whole, *)
(* at one moment between the call and its end, on the database as it then  *)
(* is; or it is refused, for what the database then is; or it is given up  *)
(* and has done nothing.  A request that has been carried out announces    *)
(* what it did at that moment, and nothing else, unless its caller is told *)
(* of an error instead: then nothing is announced.  Nothing here says how  *)
(* often the function was tried, or what it saw when it was.               *)
(***************************************************************************)
CONSTANTS Slots,           \* of a request each
          Requests,
          NoRequest,
          Result(_, _)     \* of a request on a database: [ok, db, callbacks]

VARIABLES db,
          state,           \* per slot: "idle", "open", "announcing" or "done"
          asked,           \* per slot: its request
          owed             \* per slot: what has been done and not yet announced

vars == <<db, state, asked, owed>>

Init == /\ state = [t \in Slots |-> "idle"]
        /\ asked = [t \in Slots |-> NoRequest]
        /\ owed = [t \in Slots |-> {}]

\* A request is made.
Ask(t) == /\ state[t] = "idle"
          /\ state' = [state EXCEPT ![t] = "open"]
          /\ UNCHANGED <<db, owed>>
          /\ \E request \in Requests : asked' = [asked EXCEPT ![t] = request]

Ends(t) == /\ state' = [state EXCEPT ![t] = "done"]
           /\ asked' = [asked EXCEPT ![t] = NoRequest]
           /\ UNCHANGED <<db, owed>>

\* A request is refused, at once or later.
Refuse(t) == /\ Ends(t)
             /\ \/ state[t] = "idle" /\ \E request \in Requests : ~Result(request, db).ok
                \/ state[t] = "open" /\ ~Result(asked[t], db).ok

\* What a request that is carried out does to the database.
Takes(t) == /\ state[t] = "open"
            /\ Result(asked[t], db).ok
            /\ db' = Result(asked[t], db).db

Execute(t) == /\ Takes(t)
              /\ state' = [state EXCEPT ![t] = "announcing"]
              /\ owed' = [owed EXCEPT ![t] = Result(asked[t], db).callbacks]
              /\ UNCHANGED asked

\* A request is carried out, and its caller told that it failed.
ExecuteUnknown(t) == /\ Takes(t)
                     /\ state' = [state EXCEPT ![t] = "done"]
                     /\ asked' = [asked EXCEPT ![t] = NoRequest]
                     /\ UNCHANGED owed

\* A request is given up.
GiveUp(t) == state[t] = "open" /\ Ends(t)

\* The announcements are made, in any order; then the request is done.
Announce(t) == /\ state[t] = "announcing"
               /\ \/ /\ \E callback \in owed[t] :
                           owed' = [owed EXCEPT ![t] = @ \ {callback}]
                     /\ UNCHANGED <<db, state, asked>>
                  \/ owed[t] = {} /\ Ends(t)

Next == \E t \in Slots : \/ Ask(t) \/ Refuse(t) \/ GiveUp(t)
                         \/ Execute(t) \/ ExecuteUnknown(t) \/ Announce(t)

Spec == Init /\ [][Next]_vars
=============================================================================
