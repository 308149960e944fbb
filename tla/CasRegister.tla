----------------------------- MODULE CasRegister -----------------------------
(***************************************************************************)
(* What the clients of a versioned field rely on: a register that is       *)
(* written by compare-and-set.  A call names a version; at one moment      *)
(* between the call and its answer the register takes the call's value,    *)
(* under the next version, or it does not, and it does so only while it    *)
(* holds the version named.  A call is refused only when it no longer does *)
(* or is gone, and is then answered with a pair of version and value that  *)
(* the register has had.  A call that fails may have been carried out.     *)
(* Nothing here says how comparing and writing become one step.            *)
(***************************************************************************)
EXTENDS Integers

CONSTANTS Clients,
          Values,       \* what a call may ask for
          NoPair        \* the pair of an answer without one

VARIABLES row,          \* the register: [live, version, value]
          past,         \* the value each version was given
          call          \* per client: its call

vars == <<row, past, call>>

Init == /\ row = [live |-> TRUE, version |-> 0, value |-> 0]
        /\ past = [v \in {0} |-> 0]
        /\ call = [c \in Clients |-> [state |-> "idle", expected |-> 0, value |-> 0,
                                    pair |-> NoPair]]

\* A call is made, with a version that somebody may know of.
Ask(c) ==
    /\ call[c].state = "idle"
    /\ \E expected \in 0..row.version, value \in Values :
          call' = [call EXCEPT ![c] = [state |-> "asked", expected |-> expected,
                                       value |-> value, pair |-> NoPair]]
    /\ UNCHANGED <<row, past>>

\* The call's state and answer from now on.
Answered(c, state, pair) ==
    call' = [call EXCEPT ![c] = [state |-> state, expected |-> call[c].expected,
                                 value |-> call[c].value, pair |-> pair]]

\* The register holds the version the call named, and takes its value.
Takes(c) ==
    /\ call[c].state = "asked"
    /\ row.live /\ row.version = call[c].expected
    /\ row' = [live |-> row.live, version |-> row.version + 1, value |-> call[c].value]
    /\ past' = [v \in 0..row.version + 1 |-> IF v \in 0..row.version THEN past[v]
                                             ELSE call[c].value]

\* The caller will be told the version and the value that the register took.
Set(c) == Takes(c) /\ Answered(c, "set", [version |-> call[c].expected + 1,
                                          value |-> call[c].value])

\* The call is not carried out, as the register no longer holds the version it named:
\* the answer is a pair the register has had, no older than that.
Refuse(c) ==
    /\ call[c].state = "asked"
    /\ row.version # call[c].expected \/ ~row.live
    /\ \E version \in call[c].expected..row.version :
          Answered(c, "refused", [version |-> version, value |-> past[version]])
    /\ UNCHANGED <<row, past>>

\* The register is gone: there is no pair to answer with, or no answer.
Vanished(c) ==
    /\ call[c].state = "asked" /\ ~row.live
    /\ \E state \in {"refused", "error", "unanswered"} : Answered(c, state, NoPair)
    /\ UNCHANGED <<row, past>>

\* The call fails, before, while or after the register takes its value.
Fail(c) == /\ \/ call[c].state \in {"asked", "set"} /\ UNCHANGED <<row, past>>
              \/ Takes(c)
           /\ Answered(c, "error", NoPair)

\* The caller has its answer.
Return(c) == /\ call[c].state \in {"set", "refused", "error"}
             /\ Answered(c, "idle", NoPair)
             /\ UNCHANGED <<row, past>>

\* Somebody who is no client writes the register, whatever version it holds.
Overwrite ==
    \E value \in Values :
        /\ row' = [live |-> row.live, version |-> row.version + 1, value |-> value]
        /\ past' = [v \in 0..row.version + 1 |-> IF v \in 0..row.version THEN past[v] ELSE value]
        /\ UNCHANGED call

\* The register is deleted.
Delete == /\ row.live
          /\ row' = [live |-> FALSE, version |-> row.version, value |-> row.value]
          /\ UNCHANGED <<past, call>>

Next == \/ \E c \in Clients : Ask(c) \/ Set(c) \/ Refuse(c) \/ Vanished(c) \/ Fail(c) \/ Return(c)
        \/ Overwrite \/ Delete

Spec == Init /\ [][Next]_vars
=============================================================================
