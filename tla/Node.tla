-------------------------------- MODULE Node --------------------------------
(***************************************************************************)
(* The node from its launch on: the calls that describe it, and those that *)
(* set a token's storage, served while blocks are mined.  A request is     *)
(* answered as soon as the RPC server runs, before the miner and the       *)
(* mining tasks do.                                                        *)
(***************************************************************************)
EXTENDS NodeInfo, Erc20Slot

vars == <<launchVars, settings, calls, infoVars, tokenVars>>

Init == LaunchInit /\ NodeInfoInit /\ Erc20Init

\* A block is added to the chain.
Mine == NewBlock /\ (UNCHANGED tokenVars \/ BlockStores)

Starts == Main /\ UNCHANGED <<infoVars, tokenVars>>

Calls ==
    \/ \E k \in Kinds : Set(k) /\ UNCHANGED <<infoVars, tokenVars>>
    \/ \E r \in Readers : Reader(r) /\ UNCHANGED tokenVars
    \/ /\ \/ \E c \in Dealers, q \in Queries, v \in Values : DealErc20(c, q, v)
          \/ \E c \in Dealers : Handler(c)
          \/ \E s \in Slots, v \in Values : OtherWrite(s, v)
       /\ UNCHANGED infoVars

Exit ==
    /\ End
    /\ chain' = <<Genesis>> /\ read' = [r \in Readers |-> NoRead]
    /\ stored' \in Stores /\ overlay' = NoOverlay
    /\ deal' = [c \in Dealers |-> NoDeal]

Next == Starts \/ Mine \/ Calls \/ Exit

SafeSpec == Init /\ [][Next]_vars

\* Handlers are polled by the runtime.
Spec == SafeSpec /\ \A c \in Dealers : WF_vars(Handler(c) /\ UNCHANGED infoVars)

(* Launch, callers, chain and token storage keep their types, and a reader *)
(* asks only for headers the chain has.                                    *)
TypeOK == LaunchTypeOK /\ NodeInfoTypeOK /\ Erc20TypeOK
=============================================================================
