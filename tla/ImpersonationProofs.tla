------------------------ MODULE ImpersonationProofs ------------------------
(***************************************************************************)
(* Proofs about Impersonation.  Both safety theorems assume what the       *)
(* placeholder signature does not give: that no two senders submit         *)
(* transactions with the same hash.                                        *)
(***************************************************************************)
EXTENDS Impersonation, TLAPS

\* A handler that is past signing has a sender.
RequestInv ==
    \A c \in Clients : pc[c] \in {"validate", "remember", "insert"} => req[c] \in Senders

LEMMA InitType == Init => TypeOK /\ RequestInv
  BY ImpersonationAssumption DEF Init, TypeOK, RequestInv, Entry

LEMMA SubmitType ==
    ASSUME TypeOK, RequestInv, NEW c \in Clients, Submit(c)
    PROVE  TypeOK' /\ RequestInv'
<1> USE ImpersonationAssumption DEF TypeOK, RequestInv, Goto, stateVars, chainVars
<1>1. ASSUME NEW s \in Senders, Sign(c, s) PROVE TypeOK' /\ RequestInv'
  BY <1>1 DEF Sign, NewCall
<1>2. CASE Validate(c)
  BY <1>2 DEF Validate
<1>3. CASE Remember(c)
  BY <1>3 DEF Remember
<1>4. CASE Insert(c)
  <2> DEFINE new == [sender |-> req[c], via |-> via[c]]
  <2>1. new \in Entry BY <1>4 DEF Insert, Entry
  <2>2. pool' \subseteq pool \cup {new} BY <1>4 DEF Insert
  <2>3. pool' \subseteq Entry BY <2>1, <2>2
  <2> QED BY <1>4, <2>3 DEF Insert
<1> QED BY <1>1, <1>2, <1>3, <1>4 DEF Submit

LEMMA ControlType ==
    ASSUME TypeOK, RequestInv, NEW c \in Clients, Control(c)
    PROVE  TypeOK' /\ RequestInv'
<1> USE ImpersonationAssumption DEF TypeOK, RequestInv, NewCall, stateVars, chainVars
<1>1. ASSUME NEW s \in Senders, Impersonate(c, s) PROVE TypeOK' /\ RequestInv'
  BY <1>1 DEF Impersonate
<1>2. ASSUME NEW s \in Senders, StopImpersonating(c, s) PROVE TypeOK' /\ RequestInv'
  BY <1>2 DEF StopImpersonating
<1>3. ASSUME NEW enabled \in {"on", "off"}, AutoImpersonate(c, enabled)
      PROVE  TypeOK' /\ RequestInv'
  BY <1>3 DEF AutoImpersonate
<1> QED BY <1>1, <1>2, <1>3 DEF Control

LEMMA DropSomeType ==
    ASSUME TypeOK, RequestInv, NEW c \in Clients, NEW H \in SUBSET Hashes, DropSome(c, H)
    PROVE  TypeOK' /\ RequestInv'
  BY ImpersonationAssumption
  DEF DropSome, Drop, NewCall, Without, Goto, TypeOK, RequestInv, stateVars, chainVars

LEMMA PoolHashes ==
    ASSUME TypeOK, NEW P, P \subseteq pool
    PROVE  {HashOf(e) : e \in P} \in SUBSET Hashes
  BY ImpersonationAssumption DEF TypeOK, HashOf, Entry

LEMMA DropsType ==
    ASSUME TypeOK, RequestInv, NEW c \in Clients, Drops(c)
    PROVE  TypeOK' /\ RequestInv'
<1>1. ASSUME NEW e \in pool, DropSome(c, {HashOf(e)}) PROVE TypeOK' /\ RequestInv'
  <2>1. {HashOf(e)} \in SUBSET Hashes
    BY ImpersonationAssumption DEF TypeOK, HashOf, Entry
  <2> QED BY <1>1, <2>1, DropSomeType
<1>2. ASSUME NEW s \in Senders,
             DropSome(c, {HashOf(e) : e \in {f \in pool : f.sender = s}})
      PROVE  TypeOK' /\ RequestInv'
  <2> DEFINE P == {f \in pool : f.sender = s}
  <2>1. P \subseteq pool OBVIOUS
  <2> HIDE DEF P
  <2>2. {HashOf(e) : e \in P} \in SUBSET Hashes BY <2>1, PoolHashes
  <2>3. DropSome(c, {HashOf(e) : e \in P}) BY <1>2 DEF P
  <2> QED BY <2>2, <2>3, DropSomeType
<1>3. CASE DropAll(c)
  <2>1. {HashOf(e) : e \in pool} \in SUBSET Hashes BY PoolHashes
  <2> QED
    BY <1>3, <2>1, ImpersonationAssumption
    DEF DropAll, Drop, NewCall, Goto, TypeOK, RequestInv, stateVars, chainVars
<1>4. CASE DropRemove(c)
  BY <1>4 DEF DropRemove, Without, Goto, TypeOK, RequestInv, stateVars, chainVars
<1>5. CASE DropForget(c)
  BY <1>5, ImpersonationAssumption
  DEF DropForget, Forget, Goto, TypeOK, RequestInv, chainVars
<1> QED BY <1>1, <1>2, <1>3, <1>4, <1>5 DEF Drops

LEMMA BlocksType == TypeOK /\ RequestInv /\ Blocks => TypeOK' /\ RequestInv'
<1> SUFFICES ASSUME TypeOK, RequestInv, Blocks PROVE TypeOK' /\ RequestInv'
  OBVIOUS
<1> USE DEF TypeOK, RequestInv, stateVars, rpcVars
<1>1. CASE Build
  BY <1>1 DEF Build
<1>2. ASSUME NEW e \in todo, Convert(e) PROVE TypeOK' /\ RequestInv'
  BY <1>2 DEF Convert
<1>3. CASE Commit
  <2>1. {HashOf(e) : e \in payload} \subseteq Hashes
    BY ImpersonationAssumption DEF HashOf, Entry
  <2> QED BY <1>3, <2>1 DEF Commit
<1>4. CASE OnNewHeadBlock
  BY <1>4, ImpersonationAssumption DEF OnNewHeadBlock, Forget, Without
<1> QED BY <1>1, <1>2, <1>3, <1>4 DEF Blocks

LEMMA NextType == TypeOK /\ RequestInv /\ [Next]_vars => TypeOK' /\ RequestInv'
<1> SUFFICES ASSUME TypeOK, RequestInv, [Next]_vars PROVE TypeOK' /\ RequestInv'
  OBVIOUS
<1>1. CASE Blocks BY <1>1, BlocksType
<1>2. ASSUME NEW c \in Clients, Submit(c) PROVE TypeOK' /\ RequestInv'
  BY <1>2, SubmitType
<1>3. ASSUME NEW c \in Clients, Control(c) PROVE TypeOK' /\ RequestInv'
  BY <1>3, ControlType
<1>4. ASSUME NEW c \in Clients, Drops(c) PROVE TypeOK' /\ RequestInv'
  BY <1>4, DropsType
<1>5. CASE UNCHANGED vars
  BY <1>5 DEF vars, stateVars, rpcVars, chainVars, TypeOK, RequestInv
<1> QED BY <1>1, <1>2, <1>3, <1>4, <1>5 DEF Next

(* The impersonation state, the handlers in progress, the pool and the     *)
(* payload keep their types; in particular a failed conversion leaves      *)
(* nothing of its payload behind.                                          *)
THEOREM TypeCorrect == Spec => [](TypeOK /\ RequestInv)
<1>1. Init => TypeOK /\ RequestInv BY InitType
<1>2. TypeOK /\ RequestInv /\ [Next]_vars => (TypeOK /\ RequestInv)'
  BY NextType
<1> QED BY <1>1, <1>2, PTL DEF Spec

-----------------------------------------------------------------------------
(* Attribution *)

\* What the theorems assume of the hashes.
DistinctHashes == \A s, t \in Senders : Hash[s] = Hash[t] => s = t

\* A remembered sender is one whose transaction has that hash.
OwnerInv == \A h \in Hashes : tx_senders[h] # None => Hash[tx_senders[h]] = h

LEMMA ForgetOwner ==
    ASSUME TypeOK, OwnerInv, NEW H, Forget(H)
    PROVE  OwnerInv'
  BY DEF TypeOK, OwnerInv, Forget

LEMMA NextOwner ==
    ASSUME TypeOK, RequestInv, OwnerInv, [Next]_vars
    PROVE  OwnerInv'
<1>1. ASSUME NEW c \in Clients, Remember(c) PROVE OwnerInv'
  <2>1. req[c] \in Senders BY <1>1 DEF Remember, RequestInv
  <2> QED BY <1>1, <2>1, ImpersonationAssumption DEF Remember, TypeOK, OwnerInv
<1>2. ASSUME NEW c \in Clients, DropForget(c) PROVE OwnerInv'
  BY <1>2, ForgetOwner DEF DropForget
<1>3. CASE OnNewHeadBlock
  BY <1>3, ForgetOwner DEF OnNewHeadBlock
<1>4. CASE UNCHANGED tx_senders
  BY <1>4 DEF OwnerInv
<1>5. ASSUME NEW c \in Clients, Submit(c) PROVE Remember(c) \/ UNCHANGED tx_senders
  BY <1>5 DEF Submit, Sign, Validate, Insert, stateVars
<1>6. ASSUME NEW c \in Clients, Control(c) PROVE UNCHANGED tx_senders
  BY <1>6 DEF Control, Impersonate, StopImpersonating, AutoImpersonate
<1>7. ASSUME NEW c \in Clients, Drops(c) PROVE DropForget(c) \/ UNCHANGED tx_senders
  BY <1>7 DEF Drops, DropSome, DropAll, Drop, DropRemove, stateVars
<1>8. ASSUME Blocks PROVE OnNewHeadBlock \/ UNCHANGED tx_senders
  BY <1>8 DEF Blocks, Build, Convert, Commit, stateVars
<1>9. ASSUME UNCHANGED vars PROVE UNCHANGED tx_senders
  BY <1>9 DEF vars, stateVars
<1> QED BY <1>1, <1>2, <1>3, <1>4, <1>5, <1>6, <1>7, <1>8, <1>9 DEF Next

LEMMA OwnerSafe ==
    ASSUME DistinctHashes, TypeOK, OwnerInv
    PROVE  NeverMisattributed
<1> SUFFICES ASSUME NEW e \in todo, Attributed(e) # None
             PROVE  Attributed(e) = e.sender
  BY DEF NeverMisattributed
<1>1. e.sender \in Senders /\ Hash[e.sender] \in Hashes
  BY ImpersonationAssumption DEF TypeOK, Entry
<1>2. Attributed(e) \in Senders /\ Hash[Attributed(e)] = Hash[e.sender]
  BY <1>1 DEF Attributed, HashOf, TypeOK, OwnerInv
<1> QED BY <1>1, <1>2 DEF DistinctHashes

(* While no two senders submit the same content, payload execution never   *)
(* attributes a transaction to a sender that did not submit it, whatever   *)
(* is impersonated, dropped, resubmitted or mined in the meantime.         *)
THEOREM AttributionTheorem ==
    ASSUME DistinctHashes
    PROVE  Spec => []NeverMisattributed
<1>1. Init => OwnerInv BY DEF Init, OwnerInv
<1>2. TypeOK /\ RequestInv /\ OwnerInv /\ [Next]_vars => OwnerInv' BY NextOwner
<1>3. TypeOK /\ OwnerInv => NeverMisattributed BY OwnerSafe
<1> QED BY <1>1, <1>2, <1>3, TypeCorrect, PTL DEF Spec

-----------------------------------------------------------------------------
(* Nothing is forgotten too early, if nothing is dropped *)

\* The sender of e's transaction is known, unless the block is already there.
Known(s) == Hash[s] \in mined \/ tx_senders[Hash[s]] = s

NoDropInv == \A c \in Clients : pc[c] \notin {"remove", "forget"}
HandlerInv == \A c \in Clients :
                  pc[c] = "insert" /\ via[c] = "impersonated" => Known(req[c])
PoolInv == \A e \in pool : e.via = "impersonated" => Known(e.sender)
TodoInv == \A e \in todo : /\ HashOf(e) \notin mined
                           /\ e.via = "impersonated" => Known(e.sender)
KnownInv == NoDropInv /\ HandlerInv /\ PoolInv /\ TodoInv

\* Drops are counted and the count never falls.
UndroppedInv == drops = 0 => KnownInv

\* What a step that keeps the known senders known has to show.
LEMMA KnownStable ==
    ASSUME TypeOK, RequestInv, KnownInv,
           \A s \in Senders : Known(s) => Known(s)',
           pc' = pc /\ via' = via /\ req' = req,
           pool' \subseteq pool, todo' \subseteq todo,
           \A e \in todo' : HashOf(e) \notin mined'
    PROVE  KnownInv'
<1>1. NoDropInv' BY DEF KnownInv, NoDropInv
<1>2. HandlerInv' BY DEF KnownInv, HandlerInv, RequestInv
<1>3. PoolInv' BY DEF KnownInv, PoolInv, TypeOK, Entry
<1>4. TodoInv' BY DEF KnownInv, TodoInv, TypeOK, Entry, HashOf
<1> QED BY <1>1, <1>2, <1>3, <1>4 DEF KnownInv

LEMMA SubmitKnown ==
    ASSUME DistinctHashes, TypeOK, RequestInv, KnownInv, NEW c \in Clients, Submit(c)
    PROVE  KnownInv'
<1> USE DEF KnownInv, NoDropInv, HandlerInv, PoolInv, TodoInv, TypeOK
<1>1. ASSUME NEW s \in Senders, Sign(c, s) PROVE KnownInv'
  BY <1>1 DEF Sign, NewCall, Goto, Known, stateVars, chainVars, HashOf
<1>2. CASE Validate(c)
  BY <1>2 DEF Validate, Goto, Known, stateVars, chainVars, HashOf
<1>3. CASE Remember(c)
  <2>1. req[c] \in Senders /\ Hash[req[c]] \in Hashes
    BY <1>3, ImpersonationAssumption DEF Remember, RequestInv
  <2>2. \A s \in Senders : Known(s) => Known(s)'
    BY <1>3, <2>1, ImpersonationAssumption DEF Remember, Known, DistinctHashes, chainVars
  <2>3. Known(req[c])' BY <1>3, <2>1 DEF Remember, Known
  <2>4. NoDropInv' BY <1>3 DEF Remember, Goto
  <2>5. HandlerInv' BY <1>3, <2>2, <2>3 DEF Remember, Goto, RequestInv
  <2>6. PoolInv' BY <1>3, <2>2 DEF Remember, Entry
  <2>7. TodoInv' BY <1>3, <2>2 DEF Remember, Entry, HashOf, chainVars
  <2> QED BY <2>4, <2>5, <2>6, <2>7
<1>4. CASE Insert(c)
  <2>1. \A e \in pool' : e \in pool \/ e = [sender |-> req[c], via |-> via[c]]
    BY <1>4 DEF Insert
  <2>2. PoolInv' BY <1>4, <2>1 DEF Insert, Known, stateVars, chainVars
  <2>3. NoDropInv' /\ HandlerInv' /\ TodoInv'
    BY <1>4 DEF Insert, Goto, Known, stateVars, chainVars, HashOf
  <2> QED BY <2>2, <2>3
<1> QED BY <1>1, <1>2, <1>3, <1>4 DEF Submit

LEMMA BlocksKnown ==
    ASSUME TypeOK, RequestInv, KnownInv, Blocks
    PROVE  KnownInv'
<1>1. CASE Build
  <2>1. NoDropInv' /\ HandlerInv' /\ PoolInv'
    BY <1>1 DEF Build, KnownInv, NoDropInv, HandlerInv, PoolInv, Known, stateVars, rpcVars
  <2>2. TodoInv' BY <1>1 DEF Build, KnownInv, PoolInv, TodoInv, Known, stateVars, HashOf
  <2> QED BY <2>1, <2>2 DEF KnownInv
<1>2. ASSUME NEW e \in todo, Convert(e) PROVE KnownInv'
  <2>1. todo' \subseteq todo BY <1>2 DEF Convert
  <2>2. \A s \in Senders : Known(s) => Known(s)' BY <1>2 DEF Convert, Known, stateVars
  <2>3. \A f \in todo' : HashOf(f) \notin mined'
    BY <1>2, <2>1 DEF Convert, KnownInv, TodoInv
  <2> QED BY <1>2, <2>1, <2>2, <2>3, KnownStable DEF Convert, rpcVars
<1>3. CASE Commit
  <2>1. \A s \in Senders : Known(s) => Known(s)' BY <1>3 DEF Commit, Known, stateVars
  <2> QED BY <1>3, <2>1, KnownStable DEF Commit, rpcVars
<1>4. CASE OnNewHeadBlock
  <2>1. \A s \in Senders : Known(s) => Known(s)'
    BY <1>4, ImpersonationAssumption DEF OnNewHeadBlock, Forget, Known, TypeOK
  <2>2. \A f \in todo' : HashOf(f) \notin mined'
    BY <1>4 DEF OnNewHeadBlock, KnownInv, TodoInv
  <2> QED BY <1>4, <2>1, <2>2, KnownStable DEF OnNewHeadBlock, Without, rpcVars
<1> QED BY <1>1, <1>2, <1>3, <1>4 DEF Blocks

LEMMA OtherKnown ==
    ASSUME TypeOK, RequestInv, KnownInv, UNCHANGED <<tx_senders, pc, req, via, pool, todo, mined>>
    PROVE  KnownInv'
  BY DEF KnownInv, NoDropInv, HandlerInv, PoolInv, TodoInv, Known, HashOf

LEMMA NextKnown ==
    ASSUME DistinctHashes, TypeOK, RequestInv, UndroppedInv, [Next]_vars
    PROVE  UndroppedInv'
<1> SUFFICES ASSUME drops' = 0 PROVE KnownInv'
  BY DEF UndroppedInv
<1>0. ASSUME NEW c \in Clients, Drops(c) PROVE DropRemove(c) \/ DropForget(c)
  <2>1. ~(drops' = drops + 1) BY DEF TypeOK
  <2>2. ~DropAll(c) BY <2>1 DEF DropAll, Drop
  <2>3. \A H : ~DropSome(c, H) BY <2>1 DEF DropSome, Drop
  <2> QED BY <1>0, <2>2, <2>3 DEF Drops
<1>k. drops = 0
  <2>1. ASSUME NEW c \in Clients, Submit(c) PROVE UNCHANGED drops
    BY <2>1 DEF Submit, Sign, Validate, Remember, Insert
  <2>2. ASSUME NEW c \in Clients, Control(c) PROVE UNCHANGED drops
    BY <2>2 DEF Control, Impersonate, StopImpersonating, AutoImpersonate
  <2>3. ASSUME NEW c \in Clients, Drops(c) PROVE UNCHANGED drops
    BY <2>3, <1>0 DEF DropRemove, DropForget
  <2>4. ASSUME Blocks PROVE UNCHANGED drops
    BY <2>4 DEF Blocks, Build, Convert, Commit, OnNewHeadBlock, rpcVars
  <2>5. ASSUME UNCHANGED vars PROVE UNCHANGED drops
    BY <2>5 DEF vars, rpcVars
  <2> QED BY <2>1, <2>2, <2>3, <2>4, <2>5 DEF Next
<1>i. KnownInv BY <1>k DEF UndroppedInv
<1>1. CASE Blocks BY <1>1, <1>i, BlocksKnown
<1>2. ASSUME NEW c \in Clients, Submit(c) PROVE KnownInv' BY <1>2, <1>i, SubmitKnown
<1>3. ASSUME NEW c \in Clients, Control(c) PROVE KnownInv'
  BY <1>3, <1>i, OtherKnown DEF Control, Impersonate, StopImpersonating, AutoImpersonate, chainVars
<1>4. ASSUME NEW c \in Clients, Drops(c) PROVE FALSE
  BY <1>4, <1>0, <1>i DEF KnownInv, NoDropInv, DropRemove, DropForget
<1>5. CASE UNCHANGED vars
  BY <1>5, <1>i, OtherKnown DEF vars, stateVars, rpcVars, chainVars
<1> QED BY <1>1, <1>2, <1>3, <1>4, <1>5 DEF Next

LEMMA KnownSafe == UndroppedInv => AcceptedStaysAttributed
  BY DEF UndroppedInv, KnownInv, TodoInv, Known, AcceptedStaysAttributed, Attributed, HashOf

(* While nothing was dropped and no two senders submit the same content,    *)
(* execution finds the sender of every transaction that the validator let  *)
(* through as impersonated: stopping the impersonation, mining other       *)
(* blocks and hearing of them late take no sender away.                    *)
THEOREM AcceptedTheorem ==
    ASSUME DistinctHashes
    PROVE  Spec => []AcceptedStaysAttributed
<1>1. Init => UndroppedInv
  BY DEF Init, UndroppedInv, KnownInv, NoDropInv, HandlerInv, PoolInv, TodoInv
<1>2. TypeOK /\ RequestInv /\ UndroppedInv /\ [Next]_vars => UndroppedInv' BY NextKnown
<1> QED BY <1>1, <1>2, KnownSafe, TypeCorrect, PTL DEF Spec
=============================================================================
