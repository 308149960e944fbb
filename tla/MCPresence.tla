----------------------------- MODULE MCPresence -----------------------------
(***************************************************************************)
(* Presence with a TTL and a threshold of one tick and a timeout of three, *)
(* enough for an entry to expire, be replaced and be flushed before the    *)
(* row times out.                                                          *)
(***************************************************************************)
EXTENDS Presence
=============================================================================
