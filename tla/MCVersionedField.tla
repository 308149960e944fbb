-------------------------- MODULE MCVersionedField --------------------------
(***************************************************************************)
(* VersionedField with two writers; the policy is chosen in the initial    *)
(* state, so one run covers the six handlers.                              *)
(***************************************************************************)
EXTENDS VersionedField
=============================================================================
