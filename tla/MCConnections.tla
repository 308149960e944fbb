---------------------------- MODULE MCConnections ----------------------------
(***************************************************************************)
(* Connections with three sockets, so that a client, the old socket of the *)
(* daemon it calls and the daemon's new socket meet.                       *)
(***************************************************************************)
EXTENDS Connections, TLC

Symmetry == Permutations(Sockets) \cup Permutations(Methods)
=============================================================================
