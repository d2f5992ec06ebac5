-------------------------- MODULE MCImpersonation --------------------------
(***************************************************************************)
(* Impersonation for model checking: two senders whose transactions differ *)
(* (OwnHash) or have the same content (SharedHash).                        *)
(***************************************************************************)
EXTENDS Impersonation, TLC

CONSTANTS s1, s2, h1, h2

OwnHash == s1 :> h1 @@ s2 :> h2
SharedHash == s1 :> h1 @@ s2 :> h1

Symmetry == Permutations(Clients)
=============================================================================
