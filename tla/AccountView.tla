----------------------------- MODULE AccountView -----------------------------
(***************************************************************************)
(* What AnvilState promises to those who read accounts through it.  The    *)
(* fields of an account are pinned when a call sets them: from then on     *)
(* only calls that set them change them, while blocks change the others.   *)
(***************************************************************************)
CONSTANTS
    Addrs, Fields,
    Groups          \* the sets of fields that a call sets in one step

VARIABLES
    view,           \* per address and field: what eth_* calls see
    pinned          \* per address: the fields that were set

Init == pinned = [a \in Addrs |-> {}]

\* Only account a changes, and of its fields at most those in F.
OnlyIn(a, F) ==
    /\ \A b \in Addrs \ {a} : view'[b] = view[b] /\ pinned'[b] = pinned[b]
    /\ \A f \in Fields \ F : view'[a][f] = view[a][f]

Set(a, F) == OnlyIn(a, F) /\ pinned'[a] = pinned[a] \cup F

Block(a) == OnlyIn(a, Fields \ pinned[a]) /\ pinned'[a] = pinned[a]

Next == \E a \in Addrs : Block(a) \/ \E F \in Groups : Set(a, F)

Spec == Init /\ [][Next]_<<view, pinned>>
=============================================================================
