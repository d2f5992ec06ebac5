------------------------------- MODULE MCNode -------------------------------
(* Instances of Node for TLC.  The token is a proxy: the slot `impl` says  *)
(* which code answers.  1 is a token with one slot per holder, 0 none: the *)
(* answer is empty; with 2 one query reverts, the other answers too much.  *)
EXTENDS Node

MCAnswers(q, s) ==
    CASE s["impl"] = 0 -> Empty
      [] s["impl"] = 1 -> s[q]
      [] OTHER -> IF q = "alice" THEN Reverted ELSE Wide

MCTouched(q, s) ==
    {<<Token, "impl">>, <<Other, q>>}
        \cup (IF s["impl"] = 1 THEN {<<Token, q>>} ELSE {})

MCStores == {[s \in Slots |-> IF s = "impl" THEN 1 ELSE 0]}

\* One fork from the genesis block on, three that the chain runs into.
MCActivation == [shanghai |-> 0, cancun |-> 1, prague |-> 1, osaka |-> 2]
=============================================================================
