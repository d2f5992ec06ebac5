---------------------------- MODULE MCAnvilState ----------------------------
(***************************************************************************)
(* AnvilState for model checking.  Addresses, bytecodes and callers are    *)
(* interchangeable; no liveness is checked.                                *)
(***************************************************************************)
EXTENDS AnvilState, TLC

Symmetry == Permutations(Addrs) \cup Permutations(Codes) \cup Permutations(Clients)
=============================================================================
