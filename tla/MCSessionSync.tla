---------------------------- MODULE MCSessionSync ----------------------------
(***************************************************************************)
(* SessionSync with the sessions that exist at the start given as tuples,  *)
(* which a cfg cannot write.                                               *)
(***************************************************************************)
EXTENDS SessionSync, TLC

CONSTANTS t1

NoSession == <<>>
OneSession == <<t1>>

\* Sockets are interchangeable in the runs that check only invariants.
SocketSymmetry == Permutations(Sockets)
=============================================================================
