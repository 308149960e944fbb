------------------------------ MODULE FifoMutex ------------------------------
(***************************************************************************)
(* What the callers of AsyncLock.inLock (sources/utils/lock.ts) rely on:   *)
(* the functions they pass in run one at a time, in the order in which the *)
(* calls were made.  A call stands in line from the moment it is made; its *)
(* function runs when it is first in line; it leaves the line when the     *)
(* function settles.  Nothing here says how the lock gets there.           *)
(***************************************************************************)
EXTENDS Sequences

CONSTANT Calls        \* identities of concurrent inLock calls

VARIABLES line,       \* the calls made and not finished, in arrival order
          inside      \* the calls whose function is running

vars == <<line, inside>>

InLine == {line[i] : i \in DOMAIN line}

Init == /\ line = <<>>
        /\ inside = {}

\* A call not in line is made.
Arrive(c) ==
    /\ c \notin InLine
    /\ line' = Append(line, c)
    /\ UNCHANGED inside

\* The function of the first call in line starts, unless it is running.
Enter(c) ==
    /\ line # <<>>
    /\ c = Head(line)
    /\ inside = {}
    /\ inside' = {c}
    /\ UNCHANGED line

\* The running function settles.
Leave(c) ==
    /\ line # <<>>
    /\ c = Head(line)
    /\ inside = {c}
    /\ inside' = {}
    /\ line' = Tail(line)

Next == \E c \in Calls : Arrive(c) \/ Enter(c) \/ Leave(c)

\* A function that is first in line starts, and settles once started.
Fairness == /\ WF_vars(\E c \in Calls : Enter(c))
            /\ WF_vars(\E c \in Calls : Leave(c))

SafeSpec == Init /\ [][Next]_vars

Spec == SafeSpec /\ Fairness
=============================================================================
