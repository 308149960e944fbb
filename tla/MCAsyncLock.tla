----------------------------- MODULE MCAsyncLock -----------------------------
(***************************************************************************)
(* AsyncLock with four calls, each made again and again: a call waits      *)
(* behind several others, and the lock is handed over and released in      *)
(* every order.  The calls are interchangeable, but a temporal property is *)
(* checked, so no symmetry is declared.                                    *)
(***************************************************************************)
EXTENDS AsyncLock
=============================================================================
