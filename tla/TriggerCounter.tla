--------------------------- MODULE TriggerCounter ---------------------------
(***************************************************************************)
(* What MiningTriggers promises to the rest of the node (src/mining.rs):   *)
(* a counter of mining requests.  trigger() adds one request, the stream   *)
(* hands out one item per request, and a request that was added is handed  *)
(* out sooner or later.  TriggerStream shows that the lock-free code with  *)
(* an atomic counter and a tokio Notify implements this; Mining and        *)
(* MineRpc use the counter in this form.                                   *)
(***************************************************************************)
EXTENDS Naturals

VARIABLE pending    \* requests added and not yet handed out

Init == pending = 0

Trigger == pending' = pending + 1

Take == pending > 0 /\ pending' = pending - 1

Next == Trigger \/ Take

\* The safety half: the part of the promise every step has to keep.
SafeSpec == Init /\ [][Next]_pending

\* With the promise that requests do not stay in the counter for ever.
Spec == SafeSpec /\ WF_pending(Take)
=============================================================================
