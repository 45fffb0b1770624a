---------------------------- MODULE MCRequestQueue ----------------------------
(* RequestQueue on small instances.                                           *)
EXTENDS RequestQueue, TLC
=============================================================================
