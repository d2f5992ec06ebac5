------------------------------ MODULE Erc20Slot ------------------------------
(***************************************************************************)
(* anvil_deal_erc20 and anvil_set_erc20_allowance (src/anvil_api.rs): find *)
(* the storage slot a token keeps a number in, by simulating the query     *)
(* with each slot the query reads replaced, then override that slot.  The  *)
(* simulations and the override are steps of their own: blocks and other   *)
(* calls come in between.                                                  *)
(*                                                                         *)
(* The token's code is any pair of operators on its storage: what a query  *)
(* (balanceOf of a holder, allowance of an owner and spender) answers, and *)
(* which slots it reads.  The eth API reads storage through its handle on  *)
(* the anvil state, the handlers write through theirs.                     *)
(***************************************************************************)
EXTENDS Launch

CONSTANTS
    Dealers,            \* concurrent RPC callers
    Queries, Slots,     \* of the token
    Stores,             \* storages the token may have when the node starts
    Values,             \* 32-byte words; 0 is the empty one
    Wide, Reverted, Empty,      \* an answer of more than 32 bytes, none, of no bytes
    Token, Other,       \* the token's address, and another one
    Answers(_, _),      \* what a query answers with a given storage
    Touched(_, _),      \* the <<address, slot>> pairs it reads
    NoOverride

ASSUME Erc20Assumption ==
    /\ 0 \in Values /\ Queries # {} /\ Slots # {}
    /\ Stores \subseteq [Slots -> Values]
    /\ {Wide, Reverted, Empty, NoOverride} \cap Values = {}
    /\ Wide # Empty /\ Wide # Reverted /\ Reverted # Empty
    /\ \A q \in Queries, s \in [Slots -> Values] :
          /\ Answers(q, s) \in Values \cup {Wide, Reverted, Empty}
          /\ Touched(q, s) \subseteq {Token, Other} \X Slots

VARIABLES
    stored,     \* the token's storage on chain
    overlay,    \* per anvil state: the overrides of it
    deal        \* per caller: the handler in progress

tokenVars == <<stored, overlay, deal>>

\* `seen` is the storage the slot was found with (history).
Deals ==
    [step : {"idle", "list", "try", "write"}, query : Queries, amount : Values,
     left : SUBSET Slots, slot : Slots, seen : [Slots -> Values]]

NoDeal ==
    [step |-> "idle", query |-> CHOOSE q \in Queries : TRUE, amount |-> 0, left |-> {},
     slot |-> CHOOSE s \in Slots : TRUE, seen |-> [s \in Slots |-> 0]]

NoOverlay == [n \in 1..2 |-> [s \in Slots |-> NoOverride]]

Erc20Init ==
    /\ stored \in Stores
    /\ overlay = NoOverlay
    /\ deal = [c \in Dealers |-> NoDeal]

Through(holder) == holds[holder]["anvil_state"]

\* The storage a state provider of the eth API shows.
EthStorage ==
    [s \in Slots |-> LET v == overlay[Through("eth_api")][s] IN
                     IF v = NoOverride THEN stored[s] ELSE v]

\* U256::from_be_slice; it panics on a Wide answer, which ends the call.  In
\* release builds, which abort on a panic, the step is the node's end (Exit).
FromBeSlice(answer) == IF answer = Empty THEN 0 ELSE answer

\* The handler ends: with an answer, an error or a panic.
Returns(c) == deal' = [deal EXCEPT ![c] = NoDeal]

\* anvil_set_storage_at of the token, and the overrides the handlers make
SetStorageAt(slot, value) ==
    overlay' = [overlay EXCEPT ![Through("rpc")][slot] = value]

\* A handler is called and builds the query's calldata.
DealErc20(c, query, amount) ==
    /\ NewCall /\ deal[c].step = "idle"
    /\ deal' = [deal EXCEPT ![c].step = "list", ![c].query = query, ![c].amount = amount]
    /\ UNCHANGED <<launchVars, settings, stored, overlay>>

\* create_access_list: the items of other addresses are skipped.
CreateAccessList(c) ==
    /\ Serving /\ deal[c].step = "list"
    /\ deal' = [deal EXCEPT ![c].step = "try",
            ![c].left = {s \in Slots : <<Token, s>> \in Touched(deal[c].query, EthStorage)}]
    /\ UNCHANGED <<launchVars, settings, calls, stored, overlay>>

\* ... or it fails, and the call with it.
AccessListFails(c) ==
    /\ Serving /\ deal[c].step = "list" /\ Returns(c)
    /\ UNCHANGED <<launchVars, settings, calls, stored, overlay>>

\* What the query answers with a slot overridden by the amount; the override
\* goes before the anvil state.
Simulated(c, s) == Answers(deal[c].query, [EthStorage EXCEPT ![s] = deal[c].amount])

\* Mutant: the first slot whose simulation succeeds is taken.
TrySlotAny(c, s) ==
    /\ Serving /\ deal[c].step = "try" /\ s \in deal[c].left
    /\ IF Simulated(c, s) # Reverted
       THEN deal' = [deal EXCEPT ![c].step = "write", ![c].slot = s, ![c].seen = EthStorage]
       ELSE deal' = [deal EXCEPT ![c].left = @ \ {s}]
    /\ UNCHANGED <<launchVars, settings, calls, stored, overlay>>

\* One EthApiServer::call answers.
TrySlot(c, s) ==
    /\ Serving /\ deal[c].step = "try" /\ s \in deal[c].left
    /\ \/ /\ Simulated(c, s) = Wide
          /\ Returns(c)
       \/ /\ FromBeSlice(Simulated(c, s)) = deal[c].amount
          /\ deal' = [deal EXCEPT ![c].step = "write", ![c].slot = s,
                                  ![c].seen = EthStorage]
       \/ /\ Simulated(c, s) # Wide /\ FromBeSlice(Simulated(c, s)) # deal[c].amount
          /\ deal' = [deal EXCEPT ![c].left = @ \ {s}]
    /\ UNCHANGED <<launchVars, settings, calls, stored, overlay>>

\* ... or fails for a reason of its own: `continue`.
TrySlotFails(c, s) ==
    /\ Serving /\ deal[c].step = "try" /\ s \in deal[c].left
    /\ deal' = [deal EXCEPT ![c].left = @ \ {s}]
    /\ UNCHANGED <<launchVars, settings, calls, stored, overlay>>

\* Mutant: when no slot is left the search starts over.
NotFoundRetries(c) ==
    /\ Serving /\ deal[c].step = "try" /\ deal[c].left = {}
    /\ deal' = [deal EXCEPT ![c].step = "list"]
    /\ UNCHANGED <<launchVars, settings, calls, stored, overlay>>

\* "Unable to find storage slot"
NotFound(c) ==
    /\ Serving /\ deal[c].step = "try" /\ deal[c].left = {} /\ Returns(c)
    /\ UNCHANGED <<launchVars, settings, calls, stored, overlay>>

\* The slot was found: it is overridden, and the call answered.
WriteSlot(c) ==
    /\ Serving /\ deal[c].step = "write"
    /\ SetStorageAt(deal[c].slot, deal[c].amount)
    /\ Returns(c)
    /\ UNCHANGED <<launchVars, settings, calls, stored>>

Handler(c) ==
    \/ CreateAccessList(c) \/ AccessListFails(c) \/ NotFound(c) \/ WriteSlot(c)
    \/ \E s \in Slots : TrySlot(c, s) \/ TrySlotFails(c, s)

\* anvil_set_storage_at by another caller.
OtherWrite(slot, value) ==
    /\ NewCall /\ SetStorageAt(slot, value)
    /\ UNCHANGED <<launchVars, settings, stored, deal>>

\* External: a block may write a slot.
BlockStores ==
    /\ \E s \in Slots, v \in Values : stored' = [stored EXCEPT ![s] = v]
    /\ UNCHANGED <<overlay, deal>>

Erc20TypeOK ==
    /\ stored \in [Slots -> Values]
    /\ overlay \in [1..2 -> [Slots -> Values \cup {NoOverride}]]
    /\ deal \in [Dealers -> Deals]

(* When anvil_deal_erc20 or anvil_set_erc20_allowance has overridden the   *)
(* slot it found, the token, whatever its code, answers the query with the *)
(* amount, unless its storage was changed since.  (Nothing is said of the  *)
(* token's other answers, and no bytes count as 0, as the code has it.)    *)
(* "eth_call should see the ERC20 balance override" (src/main.rs:822)      *)
DealVisible ==
    [][\A c \in Dealers : WriteSlot(c) /\ EthStorage = deal[c].seen =>
          FromBeSlice(Answers(deal[c].query, EthStorage')) = deal[c].amount
      ]_<<launchVars, tokenVars>>

(* Every call comes to its end, also when simulations fail and whatever    *)
(* the token answers, unless the node ends.                                *)
EveryDealReturns ==
    \A c \in Dealers : deal[c].step # "idle" ~> deal[c].step = "idle" \/ launch = "ended"
=============================================================================
