-------------------------------- MODULE InTx --------------------------------
(***************************************************************************)
(* inTx: a function run in a serializable transaction, again when it       *)
(* conflicts with another one, at most three times; what it registers with *)
(* afterTx is called once it has committed.  A slot serves one request: *)
(* what the function does to the database is Result.                       *)
(*                                                                         *)
(* The database is a function of rows.  A transaction reads its rows as    *)
(* they are when it begins, and commits what it changed; Serializable      *)
(* means that by then none of the rows it depends on has changed.  The     *)
(* answer of a commit may be lost, and then nobody knows that it was done. *)
(***************************************************************************)
EXTENDS Integers

CONSTANTS Slots,
          Requests,
          NoRequest,
          Rows,
          Footprint(_),   \* the rows a request reads or writes
          Result(_, _)    \* of a request on a database: [ok, db, callbacks]

VARIABLES db,   \* the rows
          tx    \* per slot: the request, its attempt and the callbacks of it

txVars == <<db, tx>>

Retries == 3

NoTx == [pc |-> "idle", request |-> NoRequest, counter |-> 0, seen |-> <<>>, callbacks |-> {}]

InitTx == tx = [t \in Slots |-> NoTx]

TxTypeOK == \A t \in Slots : /\ tx[t].pc \in {"idle", "running", "delay", "after", "done"}
                             /\ (tx[t].pc \in {"idle", "done"}) = (tx[t].request = NoRequest)
                             /\ tx[t].counter \in 0..Retries

Finish(t) == tx' = [tx EXCEPT ![t] = [NoTx EXCEPT !.pc = "done"]]

\* Mutant: the callbacks of an attempt that conflicted stay.
FreshKept(t) == tx[t].callbacks

\* An attempt begins without callbacks.
Fresh(t) == {}

\* The function runs.  If it refuses, nothing was written and its answer is returned.
Run(t, request, counter) ==
    LET result == Result(request, db) IN
    /\ IF result.ok
       THEN tx' = [tx EXCEPT ![t] = [pc |-> "running", request |-> request,
                                     counter |-> counter, seen |-> db,
                                     callbacks |-> Fresh(t) \cup result.callbacks]]
       ELSE Finish(t)
    /\ UNCHANGED db

Begin(t) == /\ tx[t].pc = "idle"
            /\ \E request \in Requests : Run(t, request, 0)

Retry(t) == /\ tx[t].pc = "delay"
            /\ Run(t, tx[t].request, tx[t].counter)

\* Mutant: the isolation level is the database's default.
IsolatedNever(t) == TRUE

\* Serializable: what the attempt depends on is as it saw it.
Isolated(t) == \A row \in Footprint(tx[t].request) : db[row] = tx[t].seen[row]

\* What the attempt changed is committed.
Committed(t) ==
    LET new == Result(tx[t].request, tx[t].seen).db IN
    /\ tx[t].pc = "running"
    /\ Isolated(t)
    /\ db' = [row \in Rows |-> IF new[row] # tx[t].seen[row] THEN new[row] ELSE db[row]]

Commit(t) == /\ Committed(t)
             /\ tx' = [tx EXCEPT ![t].pc = "after", ![t].seen = <<>>]

\* P2034: once more after a delay, or the error is thrown.
Conflict(t) ==
    /\ tx[t].pc = "running"
    /\ ~Isolated(t)
    /\ IF tx[t].counter < Retries
       THEN tx' = [tx EXCEPT ![t].pc = "delay", ![t].counter = @ + 1, ![t].seen = <<>>]
       ELSE Finish(t)
    /\ UNCHANGED db

\* Any other error is thrown to the caller, and no callback is called.
Throw(t) == tx[t].pc = "running" /\ Finish(t) /\ UNCHANGED db

\* Such an error is also that of a commit which took effect and whose answer was lost.
CommitLost(t) == Committed(t) /\ Finish(t)

\* A callback allocates a number and emits an update, or fails, which nobody notices;
\* the callbacks run beside each other.  inTx returns after it has called them.
Callback(t) ==
    /\ tx[t].pc = "after"
    /\ \/ \E callback \in tx[t].callbacks :
              tx' = [tx EXCEPT ![t].callbacks = @ \ {callback}]
       \/ tx[t].callbacks = {} /\ Finish(t)
    /\ UNCHANGED db

NextTx == \E t \in Slots : \/ Begin(t) \/ Retry(t) \/ Commit(t) \/ Callback(t)
                           \/ Conflict(t) \/ Throw(t) \/ CommitLost(t)

-----------------------------------------------------------------------------
\* What a caller sees: how often the function was tried and what it saw is hidden, and
\* so is what it would announce until it has been committed.
state == [t \in Slots |-> CASE tx[t].pc \in {"running", "delay"} -> "open"
                            [] tx[t].pc = "after" -> "announcing"
                            [] OTHER -> tx[t].pc]
asked == [t \in Slots |-> tx[t].request]
owed == [t \in Slots |-> IF tx[t].pc = "after" THEN tx[t].callbacks ELSE {}]

Promise == INSTANCE AtomicRequests
=============================================================================
