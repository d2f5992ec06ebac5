---------------------------- MODULE Impersonation ----------------------------
(***************************************************************************)
(* Impersonated transactions from eth_sendTransaction to the block:        *)
(* ImpersonationState and its signer (src/impersonation.rs), the pool      *)
(* validator (src/pool.rs), the sender lookup of payload execution         *)
(* (src/evm.rs) and the RPC handlers that drop transactions                *)
(* (src/anvil_api.rs).                                                     *)
(*                                                                         *)
(* An impersonated transaction carries a placeholder signature, the same   *)
(* for every sender.  Its hash is therefore a function of its content      *)
(* alone: Hash[s] is the hash of what sender s submits.  Its sender cannot *)
(* be recovered from the signature; execution finds it in tx_senders.      *)
(*                                                                         *)
(* The pool and the engine are reth's.  The pool refuses a hash it already *)
(* holds, after validating it; a payload is built from the pool's entries  *)
(* and executed later from their bytes; the validator hears of a new head  *)
(* some time after the block.                                              *)
(***************************************************************************)
EXTENDS Naturals

CONSTANTS
    Senders, Hashes, None,
    Hash,               \* sender -> hash of the transaction it submits
    Clients,            \* concurrent RPC callers
    MaxCalls, MaxDrops  \* bounds: RPC calls, and how many of them drop

ASSUME ImpersonationAssumption ==
    /\ Hash \in [Senders -> Hashes]
    /\ None \notin Senders
    /\ MaxCalls \in Nat /\ MaxDrops \in Nat

VARIABLES
    accounts, auto_impersonate, tx_senders,     \* struct Inner
    pc, req, via, hashes,                       \* handlers in progress
    calls, drops,
    pool,               \* entries: who sends, and which way validation went
    payload, todo,      \* the payload, and what is left of it to convert
    mined, news         \* hashes on chain, hashes of blocks not yet heard of

stateVars == <<accounts, auto_impersonate, tx_senders>>
rpcVars == <<pc, req, via, hashes, calls, drops>>
chainVars == <<payload, todo, mined, news>>
vars == <<stateVars, rpcVars, pool, chainVars>>

Entry == [sender : Senders, via : {"impersonated", "inner"}]
HashOf(e) == Hash[e.sender]

Init ==
    /\ accounts = {} /\ auto_impersonate = "off"
    /\ tx_senders = [h \in Hashes |-> None]
    /\ pc = [c \in Clients |-> "idle"]
    /\ req = [c \in Clients |-> None]
    /\ via = [c \in Clients |-> "inner"]
    /\ hashes = [c \in Clients |-> {}]
    /\ calls = 0 /\ drops = 0
    /\ pool = {} /\ payload = {} /\ todo = {} /\ mined = {} /\ news = {}

is_impersonated(s) == auto_impersonate = "on" \/ s \in accounts

Forget(H) == tx_senders' = [h \in Hashes |-> IF h \in H THEN None ELSE tx_senders[h]]

-----------------------------------------------------------------------------
(* RPC handlers *)

NewCall(c) ==
    /\ pc[c] = "idle"
    /\ calls < MaxCalls
    /\ calls' = calls + 1

Goto(c, label) == pc' = [pc EXCEPT ![c] = label]

\* anvil_impersonate_account
Impersonate(c, s) ==
    /\ NewCall(c)
    /\ accounts' = accounts \cup {s}
    /\ UNCHANGED <<auto_impersonate, tx_senders, pc, req, via, hashes, drops, pool,
                   chainVars>>

\* anvil_stop_impersonating_account
StopImpersonating(c, s) ==
    /\ NewCall(c)
    /\ accounts' = accounts \ {s}
    /\ UNCHANGED <<auto_impersonate, tx_senders, pc, req, via, hashes, drops, pool,
                   chainVars>>

\* anvil_auto_impersonate_account
AutoImpersonate(c, enabled) ==
    /\ NewCall(c)
    /\ auto_impersonate' = enabled
    /\ UNCHANGED <<accounts, tx_senders, pc, req, via, hashes, drops, pool, chainVars>>

\* eth_sendTransaction: ImpersonatedSigner is the signer for s and signs.
Sign(c, s) ==
    /\ NewCall(c)
    /\ is_impersonated(s)
    /\ req' = [req EXCEPT ![c] = s]
    /\ Goto(c, "validate")
    /\ UNCHANGED <<stateVars, via, hashes, drops, pool, chainVars>>

\* validate_transaction asks again; reth's own validator may refuse.
Validate(c) ==
    /\ pc[c] = "validate"
    /\ IF is_impersonated(req[c])
       THEN Goto(c, "remember")
       ELSE Goto(c, "insert") \/ Goto(c, "idle")
    /\ via' = [via EXCEPT ![c] =
                  IF is_impersonated(req[c]) THEN "impersonated" ELSE "inner"]
    /\ UNCHANGED <<stateVars, req, hashes, calls, drops, pool, chainVars>>

\* Mutant: some impersonated account is remembered, not the sender.
RememberAnyAccount(c) ==
    /\ pc[c] = "remember"
    /\ \E s \in accounts \cup {req[c]} :
           tx_senders' = [tx_senders EXCEPT ![Hash[req[c]]] = s]
    /\ Goto(c, "insert")
    /\ UNCHANGED <<accounts, auto_impersonate, req, via, hashes, calls, drops, pool,
                   chainVars>>

\* remember_tx_sender
Remember(c) ==
    /\ pc[c] = "remember"
    /\ tx_senders' = [tx_senders EXCEPT ![Hash[req[c]]] = req[c]]
    /\ Goto(c, "insert")
    /\ UNCHANGED <<accounts, auto_impersonate, req, via, hashes, calls, drops, pool,
                   chainVars>>

\* External: the pool takes the transaction unless it holds that hash.
Insert(c) ==
    /\ pc[c] = "insert"
    /\ pool' = IF \E e \in pool : HashOf(e) = Hash[req[c]] THEN pool
               ELSE pool \cup {[sender |-> req[c], via |-> via[c]]}
    /\ Goto(c, "idle")
    /\ UNCHANGED <<stateVars, req, via, hashes, calls, drops, chainVars>>

\* A handler that drops transactions settles which.
Drop(c, H) ==
    /\ NewCall(c)
    /\ drops < MaxDrops
    /\ drops' = drops + 1
    /\ hashes' = [hashes EXCEPT ![c] = H]
    /\ UNCHANGED <<stateVars, req, via, chainVars>>

Without(H) == {e \in pool : HashOf(e) \notin H}

\* anvil_drop_transaction, when the pool has it, and
\* anvil_remove_pool_transactions: the pool says what it removed.
DropSome(c, H) ==
    /\ H # {} /\ Drop(c, H)
    /\ pool' = Without(H)
    /\ Goto(c, "forget")

\* anvil_drop_all_transactions lists the hashes ...
DropAll(c) ==
    /\ pool # {} /\ Drop(c, {HashOf(e) : e \in pool})
    /\ Goto(c, "remove")
    /\ UNCHANGED pool

\* ... removes them ...
DropRemove(c) ==
    /\ pc[c] = "remove"
    /\ pool' = Without(hashes[c])
    /\ Goto(c, "forget")
    /\ UNCHANGED <<stateVars, req, via, hashes, calls, drops, chainVars>>

\* ... and, like the others, forgets their senders.
DropForget(c) ==
    /\ pc[c] = "forget"
    /\ Forget(hashes[c])
    /\ Goto(c, "idle")
    /\ UNCHANGED <<accounts, auto_impersonate, req, via, hashes, calls, drops, pool,
                   chainVars>>

-----------------------------------------------------------------------------
(* Blocks.  Building, committing and the pool's upkeep are external. *)

\* The local miner builds a payload from what fits of the pool.
Build ==
    /\ payload = {}
    /\ payload' \in SUBSET {e \in pool : HashOf(e) \notin mined}
    /\ payload' # {}
    /\ todo' = payload'
    /\ UNCHANGED <<stateVars, rpcVars, pool, mined, news>>

\* The sender tx_iterator_for_payload gives a transaction; None if it has to
\* recover it, which fails on a placeholder signature.
Attributed(e) == tx_senders[HashOf(e)]

\* Mutant: after an error the conversion goes on with the other transactions.
ConvertGoesOn(e) ==
    /\ e \in todo
    /\ todo' = todo \ {e}
    /\ payload' = IF Attributed(e) = None THEN {} ELSE payload
    /\ UNCHANGED <<stateVars, rpcVars, pool, mined, news>>

\* Its convert closure; an error ends the payload.
Convert(e) ==
    /\ e \in todo
    /\ todo' = IF Attributed(e) = None THEN {} ELSE todo \ {e}
    /\ payload' = IF Attributed(e) = None THEN {} ELSE payload
    /\ UNCHANGED <<stateVars, rpcVars, pool, mined, news>>

\* The executed block becomes the head.
Commit ==
    /\ payload # {} /\ todo = {}
    /\ mined' = mined \cup {HashOf(e) : e \in payload}
    /\ news' = news \cup {HashOf(e) : e \in payload}
    /\ payload' = {}
    /\ UNCHANGED <<stateVars, rpcVars, pool, todo>>

\* Mutant: every sender of a transaction in the pool is forgotten.
OnNewHeadBlockForgetsPool ==
    /\ news # {}
    /\ Forget(news \cup {HashOf(e) : e \in pool})
    /\ pool' = Without(news)
    /\ news' = {}
    /\ UNCHANGED <<accounts, auto_impersonate, rpcVars, payload, todo, mined>>

\* on_new_head_block, and the pool removes what was mined.
OnNewHeadBlock ==
    /\ news # {}
    /\ Forget(news)
    /\ pool' = Without(news)
    /\ news' = {}
    /\ UNCHANGED <<accounts, auto_impersonate, rpcVars, payload, todo, mined>>

-----------------------------------------------------------------------------
Submit(c) ==
    \/ \E s \in Senders : Sign(c, s)
    \/ Validate(c) \/ Remember(c) \/ Insert(c)

Control(c) ==
    \/ \E s \in Senders : Impersonate(c, s) \/ StopImpersonating(c, s)
    \/ \E enabled \in {"on", "off"} : AutoImpersonate(c, enabled)

Drops(c) ==
    \/ \E e \in pool : DropSome(c, {HashOf(e)})
    \/ \E s \in Senders : DropSome(c, {HashOf(e) : e \in {f \in pool : f.sender = s}})
    \/ DropAll(c) \/ DropRemove(c) \/ DropForget(c)

Blocks == Build \/ (\E e \in todo : Convert(e)) \/ Commit \/ OnNewHeadBlock

Next == Blocks \/ \E c \in Clients : Submit(c) \/ Control(c) \/ Drops(c)

Spec == Init /\ [][Next]_vars

-----------------------------------------------------------------------------
TypeOK ==
    /\ accounts \subseteq Senders /\ auto_impersonate \in {"on", "off"}
    /\ tx_senders \in [Hashes -> Senders \cup {None}]
    /\ pc \in [Clients -> {"idle", "validate", "remember", "insert", "remove", "forget"}]
    /\ req \in [Clients -> Senders \cup {None}]
    /\ via \in [Clients -> {"impersonated", "inner"}]
    /\ hashes \in [Clients -> SUBSET Hashes]
    /\ calls \in 0..MaxCalls /\ drops \in 0..MaxDrops
    /\ pool \subseteq Entry /\ payload \subseteq Entry /\ todo \subseteq payload
    /\ mined \subseteq Hashes /\ news \subseteq mined

(* "Maps impersonated tx hashes to the intended sender address so the      *)
(* engine can attribute them correctly during payload execution."          *)
(* (src/impersonation.rs:25)  No transaction of a payload is executed for  *)
(* a sender other than the one that submitted it.                          *)
NeverMisattributed ==
    \A e \in todo : Attributed(e) \in {None, e.sender}

(* The other half of that comment: execution finds the sender of every     *)
(* transaction that was validated as impersonated, even if the account is  *)
(* no longer impersonated by then.  (Up to the first call that drops:      *)
(* anvil_drop_transaction and its kin forget the senders of transactions   *)
(* that a payload may already hold.)                                       *)
AcceptedStaysAttributed ==
    drops = 0 => \A e \in todo : e.via = "impersonated" => Attributed(e) = e.sender
=============================================================================
