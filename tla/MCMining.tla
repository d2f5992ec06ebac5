------------------------------ MODULE MCMining ------------------------------
(***************************************************************************)
(* Mining for model checking.  Transactions and callers are                *)
(* interchangeable, so safety is checked up to their permutations; the     *)
(* liveness run does without.                                              *)
(***************************************************************************)
EXTENDS Mining, TLC

Symmetry == Permutations(Txs) \cup Permutations(Clients)
=============================================================================
