---------------------------- MODULE MCEventHub ----------------------------
(* Bounds for TLC: three events, so that one is queued behind one in the      *)
(* callback while a third is sent; two clients registering twice in all, so   *)
(* that a registration replaces another one.                                  *)
EXTENDS EventHub
=============================================================================
