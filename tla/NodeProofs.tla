----------------------------- MODULE NodeProofs -----------------------------
(***************************************************************************)
(* Proofs about Node: its types, that a setting reaches every part of the  *)
(* node, and that a deal shows in the token's answer for every token and   *)
(* takes finitely many steps.                                              *)
(***************************************************************************)
EXTENDS Node, SequenceTheorems, FiniteSetTheorems, TLAPS

-----------------------------------------------------------------------------
(* The launch *)

\* The parts in H are built, each around main's states.
Handles(H) == [h \in Holders |-> IF h \in H THEN [k \in Wiring[h] |-> 1] ELSE <<>>]

\* Which parts are built before each step of main.
HandlesInv ==
    /\ launch \in {"create", "ended"} => holds = Handles({})
    /\ launch = "evm" => holds = Handles({"main"})
    /\ launch = "pool" => holds = Handles({"main", "executor"})
    /\ launch = "eth_api" => holds = Handles({"main", "executor", "pool"})
    /\ launch = "extend_rpc" => holds = Handles({"main", "executor", "pool", "eth_api"})
    /\ launch \in {"serve", "miner"} => holds = Handles(Holders \ {"tasks", "hook", "miner"})
    /\ launch = "spawn" => holds = Handles(Holders \ {"tasks"})
    /\ launch = "running" => holds = Handles(Holders)

LEMMA WiringFacts ==
    /\ Holders = {"main", "executor", "pool", "eth_api", "signer", "rpc", "hook",
                  "miner", "tasks"}
    /\ Wiring["main"] = Kinds /\ Wiring["rpc"] = Kinds
    /\ Wiring["eth_api"] = {"anvil_state"}
    /\ \A h \in Holders : Wiring[h] \subseteq Kinds
  BY DEF Holders, Wiring, Kinds

\* Clones of main's handles are handles on main's states.
LEMMA CloneHandles ==
    ASSUME NEW H \in SUBSET Holders, NEW G \in SUBSET Holders, "main" \in H,
           holds = Handles(H), Clone(G)
    PROVE  holds' = Handles(H \cup G)
<1>1. holds["main"] = [k \in Kinds |-> 1] BY WiringFacts DEF Handles
<1>2. \A h \in Holders : Given(h, holds["main"]) = [k \in Wiring[h] |-> 1]
  BY <1>1, WiringFacts DEF Given
<1>3. holds' = [h \in Holders |-> IF h \in G THEN [k \in Wiring[h] |-> 1] ELSE holds[h]]
  BY <1>2 DEF Clone
<1> QED BY <1>3 DEF Handles

LEMMA MainHandles ==
    ASSUME HandlesInv, Main
    PROVE  HandlesInv' /\ launch' \in Steps /\ UNCHANGED <<settings, calls>>
<1> USE WiringFacts
<1>1. CASE CreateStates
  <2>1. launch = "create" /\ launch' = "evm" /\ UNCHANGED <<settings, calls>>
        /\ holds' = [holds EXCEPT !["main"] = [k \in Kinds |-> 1]]
    BY <1>1 DEF CreateStates, Step
  <2>2. holds' = Handles({"main"}) BY <2>1 DEF HandlesInv, Handles
  <2> QED BY <2>1, <2>2 DEF HandlesInv, Steps
<1>2. CASE BuildEvm
  <2>1. launch = "evm" /\ launch' = "pool" /\ UNCHANGED <<settings, calls>>
        /\ Clone({"executor"})
    BY <1>2 DEF BuildEvm, Step
  <2>2. holds' = Handles({"main"} \cup {"executor"})
    BY <2>1, CloneHandles DEF HandlesInv
  <2>3. {"main"} \cup {"executor"} = {"main", "executor"} OBVIOUS
  <2> QED BY <2>1, <2>2, <2>3 DEF HandlesInv, Steps
<1>3. CASE BuildPool
  <2>1. launch = "pool" /\ launch' = "eth_api" /\ UNCHANGED <<settings, calls>>
        /\ Clone({"pool"})
    BY <1>3 DEF BuildPool, Step
  <2>2. holds' = Handles({"main", "executor"} \cup {"pool"})
    BY <2>1, CloneHandles DEF HandlesInv
  <2>3. {"main", "executor"} \cup {"pool"} = {"main", "executor", "pool"} OBVIOUS
  <2> QED BY <2>1, <2>2, <2>3 DEF HandlesInv, Steps
<1>4. CASE BuildEthApi
  <2>1. launch = "eth_api" /\ launch' = "extend_rpc" /\ UNCHANGED <<settings, calls>>
        /\ Clone({"eth_api"})
    BY <1>4 DEF BuildEthApi, Step
  <2>2. holds' = Handles({"main", "executor", "pool"} \cup {"eth_api"})
    BY <2>1, CloneHandles DEF HandlesInv
  <2>3. {"main", "executor", "pool"} \cup {"eth_api"}
            = {"main", "executor", "pool", "eth_api"}
    OBVIOUS
  <2> QED BY <2>1, <2>2, <2>3 DEF HandlesInv, Steps
<1>5. CASE ExtendRpcModules
  <2>1. launch = "extend_rpc" /\ launch' = "serve" /\ UNCHANGED <<settings, calls>>
        /\ Clone({"signer", "rpc"})
    BY <1>5 DEF ExtendRpcModules, Step
  <2>2. holds' = Handles({"main", "executor", "pool", "eth_api"} \cup {"signer", "rpc"})
    BY <2>1, CloneHandles DEF HandlesInv
  <2>3. {"main", "executor", "pool", "eth_api"} \cup {"signer", "rpc"}
            = Holders \ {"tasks", "hook", "miner"}
    OBVIOUS
  <2> QED BY <2>1, <2>2, <2>3 DEF HandlesInv, Steps
<1>6. CASE Serve
  BY <1>6 DEF Serve, Step, HandlesInv, Steps
<1>7. CASE StartMiner
  <2>1. launch = "miner" /\ launch' = "spawn" /\ UNCHANGED <<settings, calls>>
        /\ Clone({"hook", "miner"})
    BY <1>7 DEF StartMiner, Step
  <2>2. holds' = Handles((Holders \ {"tasks", "hook", "miner"}) \cup {"hook", "miner"})
    BY <2>1, CloneHandles DEF HandlesInv
  <2>3. (Holders \ {"tasks", "hook", "miner"}) \cup {"hook", "miner"} = Holders \ {"tasks"}
    OBVIOUS
  <2> QED BY <2>1, <2>2, <2>3 DEF HandlesInv, Steps
<1>8. CASE SpawnTasks
  <2>1. launch = "spawn" /\ launch' = "running" /\ UNCHANGED <<settings, calls>>
        /\ Clone({"tasks"})
    BY <1>8 DEF SpawnTasks, Step
  <2>2. holds' = Handles((Holders \ {"tasks"}) \cup {"tasks"})
    BY <2>1, CloneHandles DEF HandlesInv
  <2>3. (Holders \ {"tasks"}) \cup {"tasks"} = Holders OBVIOUS
  <2> QED BY <2>1, <2>2, <2>3 DEF HandlesInv, Steps
<1> QED BY <1>1, <1>2, <1>3, <1>4, <1>5, <1>6, <1>7, <1>8 DEF Main

\* While requests are served, AnvilRpc and the eth API hold main's states.
LEMMA ServingHandles ==
    ASSUME HandlesInv, Serving
    PROVE  /\ \A k \in Kinds : holds["rpc"][k] = 1
           /\ Through("rpc") = 1 /\ Through("eth_api") = 1
<1>1. holds["rpc"] = [k \in Kinds |-> 1] /\ holds["eth_api"] = [k \in {"anvil_state"} |-> 1]
  BY WiringFacts DEF Serving, HandlesInv, Handles
<1> QED BY <1>1 DEF Through, Kinds

LEMMA HandlesType ==
    ASSUME HandlesInv, launch \in Steps
    PROVE  /\ DOMAIN holds = Holders
           /\ \A h \in Holders : holds[h] = <<>> \/ holds[h] \in [Wiring[h] -> 1..2]
<1>1. ASSUME NEW H, holds = Handles(H)
      PROVE  /\ DOMAIN holds = Holders
             /\ \A h \in Holders : holds[h] = <<>> \/ holds[h] \in [Wiring[h] -> 1..2]
  BY <1>1 DEF Handles
<1>2. \E H : holds = Handles(H) BY DEF HandlesInv, Steps
<1> QED BY <1>1, <1>2

-----------------------------------------------------------------------------
(* The calls that describe the node *)

LEMMA ForkNameFacts ==
    ForkNames = {"london", "shanghai", "cancun", "prague", "osaka"}
  BY DEF ForkNames, Forks

LEMMA HardforkType == \A t : hardfork_name(t) \in ForkNames
  BY ForkNameFacts DEF hardfork_name

LEMMA NoReadFacts == NoRead \in Reads /\ NoRead.number = 0
  BY NodeInfoAssumption, ForkNameFacts DEF NoRead, Reads

\* A header of the chain, and what an answer takes from it.
LEMMA HeaderFacts ==
    ASSUME NodeInfoTypeOK
    PROVE  /\ best_block_number \in Nat
           /\ \A n \in 0..best_block_number : Header(n).timestamp \in 0..MaxTime
<1>1. chain \in Seq(0..MaxTime) /\ Len(chain) \in Nat /\ Len(chain) > 0
  BY DEF NodeInfoTypeOK
<1>2. best_block_number \in Nat BY <1>1 DEF best_block_number
<1>3. \A i \in 1..Len(chain) : chain[i] \in 0..MaxTime BY <1>1, ElementOfSeq
<1>4. \A n \in 0..best_block_number : n + 1 \in 1..Len(chain)
  BY <1>1 DEF best_block_number
<1> QED BY <1>2, <1>3, <1>4 DEF Header

LEMMA FromHeaderFacts ==
    ASSUME NodeInfoTypeOK, NEW rec \in Reads, NEW n \in 0..best_block_number
    PROVE  FromHeader(rec, Header(n)) \in Reads /\ FromHeader(rec, Header(n)).number = n
<1>1. Header(n).number = n /\ n \in Nat BY HeaderFacts DEF Header
<1>2. Header(n).timestamp \in 0..MaxTime BY HeaderFacts
<1> QED BY <1>1, <1>2, HardforkType DEF FromHeader, Reads

\* A reader that goes on with a block of the chain leaves the others alone.
LEMMA ReaderRecord ==
    ASSUME NodeInfoTypeOK, NEW r \in Readers, NEW rec \in Reads, Goes(r, rec),
           rec.number <= best_block_number, chain' = chain
    PROVE  NodeInfoTypeOK'
<1>1. best_block_number' = best_block_number BY DEF best_block_number
<1>2. read' \in [Readers -> Reads] BY DEF Goes, NodeInfoTypeOK
<1>3. \A q \in Readers : read'[q].number <= best_block_number BY DEF Goes, NodeInfoTypeOK
<1> QED BY <1>1, <1>2, <1>3 DEF NodeInfoTypeOK

LEMMA ReaderStep ==
    ASSUME NodeInfoTypeOK, NEW r \in Readers, Reader(r)
    PROVE  NodeInfoTypeOK'
<1>b. best_block_number \in Nat BY HeaderFacts
<1>r. read[r] \in Reads /\ read[r].number \in 0..best_block_number
  BY <1>b DEF NodeInfoTypeOK, Reads
<1>1. ASSUME NEW op \in {"node_info", "metadata"}, LatestNumber(r, op)
      PROVE  NodeInfoTypeOK'
  <2> DEFINE rec == [NoRead EXCEPT !.step = "block", !.op = op, !.number = best_block_number]
  <2>1. rec \in Reads /\ rec.number = best_block_number BY <1>b, NoReadFacts DEF Reads
  <2>2. Goes(r, rec) /\ chain' = chain BY <1>1 DEF LatestNumber
  <2> HIDE DEF rec
  <2> QED BY <1>b, <2>1, <2>2, ReaderRecord
<1>2. CASE LatestHeader(r)
  <2> DEFINE from == FromHeader(read[r], Header(read[r].number))
             next == IF read[r].op = "node_info" THEN "gas" ELSE "answered"
             rec == [from EXCEPT !.step = next]
  <2>1. from \in Reads /\ from.number = read[r].number BY <1>r, FromHeaderFacts
  <2>2. Goes(r, rec) /\ chain' = chain BY <1>2 DEF LatestHeader
  <2>3. next \in {"gas", "answered"} OBVIOUS
  <2> HIDE DEF from, next
  <2>4. rec \in Reads /\ rec.number <= best_block_number
    BY <1>b, <1>r, <2>1, <2>3 DEF Reads
  <2> HIDE DEF rec
  <2> QED BY <2>2, <2>4, ReaderRecord
<1>3. CASE GasPrice(r)
  <2> DEFINE rec == [read[r] EXCEPT !.step = "answered"]
  <2>1. rec \in Reads /\ rec.number <= best_block_number BY <1>b, <1>r DEF Reads
  <2>2. Goes(r, rec) /\ chain' = chain BY <1>3 DEF GasPrice
  <2> HIDE DEF rec
  <2> QED BY <2>1, <2>2, ReaderRecord
<1>4. CASE ReadFails(r)
  <2>1. Goes(r, NoRead) /\ chain' = chain BY <1>4 DEF ReadFails
  <2> QED BY <1>b, <2>1, NoReadFacts, ReaderRecord
<1>5. CASE GetGenesisTime(r)
  <2> DEFINE from == FromHeader(NoRead, Header(0))
             rec == [from EXCEPT !.op = "genesis", !.step = "answered"]
  <2>1. from \in Reads /\ from.number = 0 BY <1>b, NoReadFacts, FromHeaderFacts
  <2>2. Goes(r, rec) /\ chain' = chain BY <1>5 DEF GetGenesisTime
  <2> HIDE DEF from
  <2>3. rec \in Reads /\ rec.number = 0 BY <2>1 DEF Reads
  <2> HIDE DEF rec
  <2> QED BY <1>b, <2>2, <2>3, ReaderRecord
<1> QED BY <1>1, <1>2, <1>3, <1>4, <1>5 DEF Reader

\* The blocks that were read stay when the chain grows.
LEMMA BlockStep ==
    ASSUME NodeInfoTypeOK, NewBlock
    PROVE  NodeInfoTypeOK'
<1>1. PICK t \in 0..MaxTime : chain' = Append(chain, t) BY DEF NewBlock
<1>2. best_block_number < MaxHeight /\ read' = read BY DEF NewBlock
<1>3. chain \in Seq(0..MaxTime) /\ Len(chain) \in Nat /\ Len(chain) > 0
      /\ MaxHeight \in Nat
  BY NodeInfoAssumption DEF NodeInfoTypeOK
<1>4. chain' \in Seq(0..MaxTime) /\ Len(chain') = Len(chain) + 1
  BY <1>1, <1>3
<1>5. best_block_number' = best_block_number + 1 /\ best_block_number \in Nat
  BY <1>3, <1>4 DEF best_block_number
<1>6. Len(chain') \in 1..(MaxHeight + 1) BY <1>2, <1>3, <1>4 DEF best_block_number
<1>7. \A r \in Readers : read'[r].number <= best_block_number'
  BY <1>2, <1>5 DEF NodeInfoTypeOK, Reads
<1> QED BY <1>2, <1>4, <1>6, <1>7 DEF NodeInfoTypeOK

LEMMA InfoUnchanged == NodeInfoTypeOK /\ UNCHANGED infoVars => NodeInfoTypeOK'
  BY DEF NodeInfoTypeOK, infoVars, best_block_number

\* Initially, and when the node has ended.
LEMMA InfoInit ==
    /\ NodeInfoInit => NodeInfoTypeOK
    /\ Exit => NodeInfoTypeOK'
<1>1. NodeInfoInit => NodeInfoTypeOK
  BY NodeInfoAssumption, NoReadFacts DEF NodeInfoInit, NodeInfoTypeOK, best_block_number
<1>2. Exit => NodeInfoTypeOK'
  BY NodeInfoAssumption, NoReadFacts DEF Exit, NodeInfoTypeOK, best_block_number
<1> QED BY <1>1, <1>2

-----------------------------------------------------------------------------
(* The token's storage *)

\* A slot was found: with it replaced, the token answered the amount.
FoundInv ==
    \A c \in Dealers : deal[c].step = "write" =>
        FromBeSlice(Answers(deal[c].query,
                            [deal[c].seen EXCEPT ![deal[c].slot] = deal[c].amount]))
            = deal[c].amount
TokenInv == Erc20TypeOK /\ FoundInv

LEMMA NoDealFacts == NoDeal \in Deals /\ NoDeal.step = "idle"
  BY Erc20Assumption DEF NoDeal, Deals

LEMMA EthStorageType ==
    ASSUME Erc20TypeOK, HandlesInv, Serving
    PROVE  EthStorage \in [Slots -> Values]
<1>1. Through("eth_api") = 1 BY ServingHandles
<1>2. overlay[1] \in [Slots -> Values \cup {NoOverride}] BY DEF Erc20TypeOK
<1> QED BY <1>1, <1>2 DEF EthStorage, Erc20TypeOK

\* A handler whose record is a deal, and has a slot only if one was found.
LEMMA DealRecord ==
    ASSUME TokenInv, NEW c \in Dealers, NEW rec \in Deals,
           deal' = [deal EXCEPT ![c] = rec], UNCHANGED stored,
           overlay' \in [1..2 -> [Slots -> Values \cup {NoOverride}]],
           rec.step = "write" =>
               FromBeSlice(Answers(rec.query, [rec.seen EXCEPT ![rec.slot] = rec.amount]))
                   = rec.amount
    PROVE  TokenInv'
<1>1. Erc20TypeOK' BY DEF TokenInv, Erc20TypeOK
<1>2. \A d \in Dealers : deal'[d] = IF d = c THEN rec ELSE deal[d]
  BY DEF TokenInv, Erc20TypeOK
<1>3. FoundInv' BY <1>2 DEF TokenInv, FoundInv
<1> QED BY <1>1, <1>3 DEF TokenInv

LEMMA OverlayType ==
    ASSUME Erc20TypeOK, HandlesInv, Serving, NEW s \in Slots, NEW v \in Values,
           SetStorageAt(s, v)
    PROVE  /\ overlay' = [overlay EXCEPT ![1][s] = v]
           /\ overlay' \in [1..2 -> [Slots -> Values \cup {NoOverride}]]
<1>1. overlay' = [overlay EXCEPT ![1][s] = v] BY ServingHandles DEF SetStorageAt
<1>2. overlay[1] \in [Slots -> Values \cup {NoOverride}] BY DEF Erc20TypeOK
<1> QED BY <1>1, <1>2 DEF Erc20TypeOK

LEMMA HandlerStep ==
    ASSUME TokenInv, HandlesInv, NEW c \in Dealers, Handler(c)
    PROVE  TokenInv'
<1>1. Serving /\ UNCHANGED stored
  BY DEF Handler, CreateAccessList, AccessListFails, NotFound, WriteSlot, TrySlot,
         TrySlotFails
<1>2. deal[c] \in Deals /\ Erc20TypeOK /\ EthStorage \in [Slots -> Values]
  BY <1>1, EthStorageType DEF TokenInv, Erc20TypeOK
<1>o. UNCHANGED overlay => overlay' \in [1..2 -> [Slots -> Values \cup {NoOverride}]]
  BY <1>2 DEF Erc20TypeOK
<1>d. deal \in [Dealers -> Deals] BY DEF TokenInv, Erc20TypeOK
<1>n. ASSUME Returns(c), overlay' \in [1..2 -> [Slots -> Values \cup {NoOverride}]]
      PROVE  TokenInv'
  BY <1>1, <1>n, NoDealFacts, DealRecord DEF Returns
\* The handler goes on to look for a slot.
<1>l. ASSUME NEW found \in SUBSET Slots, NEW step \in {"list", "try"}, UNCHANGED overlay,
             deal' = [deal EXCEPT ![c] = [@ EXCEPT !.step = step, !.left = found]]
      PROVE  TokenInv'
  <2> DEFINE rec == [deal[c] EXCEPT !.step = step, !.left = found]
  <2>1. rec \in Deals /\ rec.step # "write" BY <1>2 DEF Deals
  <2>2. deal' = [deal EXCEPT ![c] = rec] BY <1>l
  <2> HIDE DEF rec
  <2> QED BY <1>1, <1>l, <1>o, <2>1, <2>2, DealRecord
<1>3. CASE CreateAccessList(c)
  <2> DEFINE found == {s \in Slots : <<Token, s>> \in Touched(deal[c].query, EthStorage)}
  <2>1. deal' = [deal EXCEPT ![c] = [@ EXCEPT !.step = "try", !.left = found]]
    BY <1>3, <1>2, <1>d DEF CreateAccessList
  <2>2. found \in SUBSET Slots /\ UNCHANGED overlay BY <1>3 DEF CreateAccessList
  <2> HIDE DEF found
  <2> QED BY <1>l, <2>1, <2>2
<1>4. CASE AccessListFails(c) BY <1>4, <1>n, <1>o DEF AccessListFails
<1>5. CASE NotFound(c) BY <1>5, <1>n, <1>o DEF NotFound
<1>6. CASE WriteSlot(c)
  <2>1. deal[c].slot \in Slots /\ deal[c].amount \in Values BY <1>2 DEF Deals
  <2>2. SetStorageAt(deal[c].slot, deal[c].amount) /\ Returns(c) BY <1>6 DEF WriteSlot
  <2>3. overlay' \in [1..2 -> [Slots -> Values \cup {NoOverride}]]
    BY <1>1, <1>2, <2>1, <2>2, OverlayType
  <2> QED BY <1>n, <2>2, <2>3
<1>7. ASSUME NEW s \in Slots, deal[c].step = "try", UNCHANGED overlay,
             deal' = [deal EXCEPT ![c].left = @ \ {s}]
      PROVE  TokenInv'
  <2> DEFINE found == deal[c].left \ {s}
  <2>1. found \in SUBSET Slots BY <1>2 DEF Deals
  <2>2. deal' = [deal EXCEPT ![c] = [@ EXCEPT !.step = "try", !.left = found]]
    BY <1>2, <1>7, <1>d DEF Deals
  <2> HIDE DEF found
  <2> QED BY <1>l, <1>7, <2>1, <2>2
<1>8. ASSUME NEW s \in Slots, UNCHANGED overlay,
             FromBeSlice(Simulated(c, s)) = deal[c].amount,
             deal' = [deal EXCEPT ![c].step = "write", ![c].slot = s, ![c].seen = EthStorage]
      PROVE  TokenInv'
  <2> DEFINE rec == [deal[c] EXCEPT !.step = "write", !.slot = s, !.seen = EthStorage]
  <2>1. rec \in Deals /\ rec.slot = s /\ rec.seen = EthStorage
        /\ rec.query = deal[c].query /\ rec.amount = deal[c].amount
    BY <1>2 DEF Deals
  <2>2. deal' = [deal EXCEPT ![c] = rec] BY <1>8, <1>d
  <2>3. FromBeSlice(Answers(rec.query, [rec.seen EXCEPT ![rec.slot] = rec.amount]))
            = rec.amount
    BY <1>8, <2>1 DEF Simulated
  <2> HIDE DEF rec
  <2> QED BY <1>1, <1>8, <1>o, <2>1, <2>2, <2>3, DealRecord
<1>9. ASSUME NEW s \in Slots, TrySlot(c, s) PROVE TokenInv'
  BY <1>9, <1>7, <1>8, <1>n, <1>o DEF TrySlot
<1>10. ASSUME NEW s \in Slots, TrySlotFails(c, s) PROVE TokenInv'
  BY <1>10, <1>7 DEF TrySlotFails
<1> QED BY <1>3, <1>4, <1>5, <1>6, <1>9, <1>10 DEF Handler

\* A new call, another caller's override, and a block.
LEMMA OtherTokenStep ==
    ASSUME TokenInv, HandlesInv,
           \/ \E c \in Dealers, q \in Queries, v \in Values : DealErc20(c, q, v)
           \/ \E s \in Slots, v \in Values : OtherWrite(s, v)
           \/ BlockStores \/ UNCHANGED tokenVars
    PROVE  TokenInv'
<1>1. ASSUME NEW c \in Dealers, NEW q \in Queries, NEW v \in Values, DealErc20(c, q, v)
      PROVE  TokenInv'
  <2> DEFINE rec == [deal[c] EXCEPT !.step = "list", !.query = q, !.amount = v]
  <2>1. deal \in [Dealers -> Deals] /\ deal[c] \in Deals BY DEF TokenInv, Erc20TypeOK
  <2>2. rec \in Deals /\ rec.step # "write" BY <2>1 DEF Deals
  <2>3. deal' = [deal EXCEPT ![c] = rec] /\ UNCHANGED <<stored, overlay>>
    BY <1>1, <2>1 DEF DealErc20
  <2>4. overlay' \in [1..2 -> [Slots -> Values \cup {NoOverride}]]
    BY <2>3 DEF TokenInv, Erc20TypeOK
  <2> HIDE DEF rec
  <2> QED BY <2>2, <2>3, <2>4, DealRecord
<1>2. ASSUME NEW s \in Slots, NEW v \in Values, OtherWrite(s, v) PROVE TokenInv'
  <2>1. Serving /\ SetStorageAt(s, v) /\ UNCHANGED <<stored, deal>>
    BY <1>2 DEF OtherWrite, NewCall
  <2>2. overlay' \in [1..2 -> [Slots -> Values \cup {NoOverride}]]
    BY <2>1, OverlayType DEF TokenInv
  <2> QED BY <2>1, <2>2 DEF TokenInv, Erc20TypeOK, FoundInv
<1>3. CASE BlockStores BY <1>3 DEF BlockStores, TokenInv, Erc20TypeOK, FoundInv
<1>4. CASE UNCHANGED tokenVars BY <1>4 DEF tokenVars, TokenInv, Erc20TypeOK, FoundInv
<1> QED BY <1>1, <1>2, <1>3, <1>4

LEMMA TokenInit == (Erc20Init => TokenInv) /\ (Exit => TokenInv')
<1>1. Erc20Init => TokenInv
  BY Erc20Assumption, NoDealFacts DEF Erc20Init, NoOverlay, TokenInv, Erc20TypeOK, FoundInv
<1>2. Exit => TokenInv'
  BY Erc20Assumption, NoDealFacts DEF Exit, NoOverlay, TokenInv, Erc20TypeOK, FoundInv
<1> QED BY <1>1, <1>2

-----------------------------------------------------------------------------
(* The node *)

\* Launch, handles and counters.
LaunchInv ==
    /\ HandlesInv /\ launch \in Steps
    /\ settings \in [Kinds -> [1..2 -> Nat]] /\ calls \in 0..MaxCalls

IInv == LaunchInv /\ NodeInfoTypeOK /\ TokenInv

LEMMA NoHandlesBuilt == NoHandles = Handles({})
  BY DEF NoHandles, Handles

LEMMA InitInv == Init => IInv
<1> SUFFICES ASSUME Init PROVE IInv OBVIOUS
<1>1. LaunchInv
  BY NoHandlesBuilt, LaunchAssumption
  DEF Init, LaunchInit, LaunchInv, HandlesInv, Steps, NoSettings
<1> QED BY <1>1, InfoInit, TokenInit DEF Init, IInv

\* A call that leaves the parts and their settings alone.
LEMMA CallLaunch ==
    LaunchInv /\ UNCHANGED <<launchVars, settings>> /\ (UNCHANGED calls \/ NewCall)
        => LaunchInv'
<1> SUFFICES ASSUME LaunchInv, UNCHANGED <<launchVars, settings>>,
                    UNCHANGED calls \/ NewCall
             PROVE  LaunchInv'
  OBVIOUS
<1>1. calls' \in 0..MaxCalls BY LaunchAssumption DEF LaunchInv, NewCall
<1>2. HandlesInv' BY DEF LaunchInv, HandlesInv, launchVars
<1> QED BY <1>1, <1>2 DEF LaunchInv, launchVars

LEMMA SetLaunch == ASSUME LaunchInv, NEW k \in Kinds, Set(k) PROVE LaunchInv'
<1>1. Serving /\ NewCall /\ UNCHANGED launchVars BY DEF Set, NewCall
<1>2. settings' = [settings EXCEPT ![k][1] = @ + 1]
  BY <1>1, ServingHandles DEF Set, LaunchInv
<1>3. settings' \in [Kinds -> [1..2 -> Nat]] BY <1>2 DEF LaunchInv
<1>4. calls' \in 0..MaxCalls BY <1>1, LaunchAssumption DEF LaunchInv, NewCall
<1>5. HandlesInv' BY <1>1 DEF LaunchInv, HandlesInv, launchVars
<1> QED BY <1>1, <1>3, <1>4, <1>5 DEF LaunchInv, launchVars

LEMMA NextInv == IInv /\ [Next]_vars => IInv'
<1> SUFFICES ASSUME IInv, [Next]_vars PROVE IInv' OBVIOUS
<1> USE DEF IInv
<1>h. HandlesInv BY DEF LaunchInv
<1>1. CASE Starts
  <2>1. Main /\ UNCHANGED <<infoVars, tokenVars>> BY <1>1 DEF Starts
  <2>2. LaunchInv' BY <2>1, MainHandles DEF LaunchInv
  <2> QED BY <1>h, <2>1, <2>2, InfoUnchanged, OtherTokenStep
<1>2. CASE Mine
  <2>1. NewBlock /\ (UNCHANGED tokenVars \/ BlockStores) BY <1>2 DEF Mine
  <2>2. LaunchInv' BY <2>1, CallLaunch DEF NewBlock
  <2> QED BY <1>h, <2>1, <2>2, BlockStep, OtherTokenStep
<1>3. ASSUME NEW k \in Kinds, Set(k), UNCHANGED <<infoVars, tokenVars>> PROVE IInv'
  BY <1>h, <1>3, SetLaunch, InfoUnchanged, OtherTokenStep
<1>4. ASSUME NEW r \in Readers, Reader(r), UNCHANGED tokenVars PROVE IInv'
  <2>1. UNCHANGED <<launchVars, settings>> /\ (UNCHANGED calls \/ NewCall)
    BY <1>4
    DEF Reader, LatestNumber, LatestHeader, GasPrice, ReadFails, GetGenesisTime
  <2>2. LaunchInv' BY <2>1, CallLaunch
  <2>3. NodeInfoTypeOK' BY <1>4, ReaderStep
  <2>4. TokenInv' BY <1>h, <1>4, OtherTokenStep
  <2> QED BY <2>2, <2>3, <2>4
<1>5. ASSUME UNCHANGED infoVars,
             \/ \E c \in Dealers, q \in Queries, v \in Values : DealErc20(c, q, v)
             \/ \E s \in Slots, v \in Values : OtherWrite(s, v)
      PROVE  IInv'
  <2>1. UNCHANGED <<launchVars, settings>> /\ NewCall BY <1>5 DEF DealErc20, OtherWrite
  <2>2. LaunchInv' BY <2>1, CallLaunch
  <2>3. TokenInv' BY <1>h, <1>5, OtherTokenStep
  <2> QED BY <1>5, <2>2, <2>3, InfoUnchanged
<1>6. ASSUME NEW c \in Dealers, Handler(c), UNCHANGED infoVars PROVE IInv'
  <2>1. UNCHANGED <<launchVars, settings, calls>>
    BY <1>6 DEF Handler, CreateAccessList, AccessListFails, NotFound, WriteSlot, TrySlot,
                TrySlotFails
  <2>2. LaunchInv' BY <2>1, CallLaunch
  <2>3. TokenInv' BY <1>h, <1>6, HandlerStep
  <2> QED BY <1>6, <2>2, <2>3, InfoUnchanged
<1>7. CASE Exit
  <2>1. launch' = "ended" /\ holds' = NoHandles /\ settings' = NoSettings
        /\ calls' = calls
    BY <1>7 DEF Exit, End
  <2>2. LaunchInv' BY <2>1, NoHandlesBuilt DEF LaunchInv, HandlesInv, Steps, NoSettings
  <2> QED BY <1>7, <2>2, InfoInit, TokenInit
<1>8. CASE UNCHANGED vars
  <2>1. UNCHANGED <<launchVars, settings, calls>> /\ UNCHANGED infoVars
        /\ UNCHANGED tokenVars
    BY <1>8 DEF vars
  <2> QED BY <1>h, <2>1, CallLaunch, InfoUnchanged, OtherTokenStep
<1> QED BY <1>1, <1>2, <1>3, <1>4, <1>5, <1>6, <1>7, <1>8 DEF Next, Calls

LEMMA Inductive == SafeSpec => []IInv
  BY InitInv, NextInv, PTL DEF SafeSpec

(* Launch steps, handles, callers, the chain and the token's storage keep  *)
(* their types for any token, any fork schedule and any number of callers; *)
(* a reader asks only for headers the chain has.                           *)
THEOREM TypeCorrect == SafeSpec => []TypeOK
<1>1. IInv => TypeOK
  BY HandlesType DEF IInv, LaunchInv, TokenInv, TypeOK, LaunchTypeOK
<1> QED BY <1>1, Inductive, PTL

(* However the launch is cut and however many settings are made, a part    *)
(* that is there goes by what AnvilRpc sets (main, the builders).          *)
THEOREM WiringTheorem == SafeSpec => []SettingsReachParts
<1>1. IInv => SettingsReachParts
  <2> SUFFICES ASSUME IInv, NEW h \in Ready, NEW k \in Wiring[h]
               PROVE  /\ holds[h] # <<>>
                      /\ settings[k][holds[h][k]] = settings[k][holds["rpc"][k]]
    BY DEF SettingsReachParts
  <2>1. h \in Holders /\ Serving /\ holds[h] = [i \in Wiring[h] |-> 1]
    BY WiringFacts DEF Ready, IInv, LaunchInv, HandlesInv, Handles, Serving
  <2>2. holds[h][k] = 1 /\ k \in DOMAIN holds[h] BY <2>1
  <2>3. holds["rpc"][k] = 1
    BY <2>1, WiringFacts, ServingHandles DEF IInv, LaunchInv
  <2>4. DOMAIN <<>> = {} OBVIOUS
  <2> QED BY <2>2, <2>3, <2>4
<1> QED BY <1>1, Inductive, PTL

(* For every token, whatever its code does with its storage: a deal whose  *)
(* slot is written to the storage it was found with makes the token answer *)
(* with the amount (find_erc20_storage_slot, anvil_deal_erc20).            *)
THEOREM DealTheorem == SafeSpec => DealVisible
<1>1. ASSUME IInv, NEW c \in Dealers, WriteSlot(c), EthStorage = deal[c].seen
      PROVE  FromBeSlice(Answers(deal[c].query, EthStorage')) = deal[c].amount
  <2> DEFINE slot == deal[c].slot
             amount == deal[c].amount
  <2>1. deal[c] \in Deals /\ slot \in Slots /\ amount \in Values
    BY <1>1 DEF IInv, TokenInv, Erc20TypeOK, Deals
  <2>2. Serving /\ HandlesInv /\ Erc20TypeOK /\ SetStorageAt(slot, amount)
        /\ UNCHANGED <<holds, stored>> /\ deal[c].step = "write"
    BY <1>1 DEF WriteSlot, launchVars, IInv, LaunchInv, TokenInv
  <2> HIDE DEF slot, amount
  <2>3. overlay' = [overlay EXCEPT ![1][slot] = amount]
    BY <2>1, <2>2, OverlayType
  <2>4. Through("eth_api") = 1 /\ Through("eth_api")' = 1
    BY <2>2, ServingHandles DEF Through
  <2>5. overlay[1] \in [Slots -> Values \cup {NoOverride}] /\ 1 \in DOMAIN overlay
    BY <2>2 DEF Erc20TypeOK
  <2>6. overlay'[1] = [overlay[1] EXCEPT ![slot] = amount] BY <2>3, <2>5
  <2>7. amount # NoOverride BY <2>1, Erc20Assumption
  <2>8. EthStorage' = [EthStorage EXCEPT ![slot] = amount]
    BY <2>1, <2>2, <2>4, <2>5, <2>6, <2>7 DEF EthStorage
  <2>9. FromBeSlice(Answers(deal[c].query, [deal[c].seen EXCEPT ![slot] = amount])) = amount
    BY <1>1, <2>2 DEF IInv, TokenInv, FoundInv, slot, amount
  <2> QED BY <1>1, <2>8, <2>9 DEF amount
<1>2. IInv => \A c \in Dealers : WriteSlot(c) /\ EthStorage = deal[c].seen =>
                  FromBeSlice(Answers(deal[c].query, EthStorage')) = deal[c].amount
  BY <1>1
<1> QED BY <1>2, Inductive, PTL DEF DealVisible

-----------------------------------------------------------------------------
(* Every deal is finite *)

\* A bound on the steps a deal still takes before it is answered.
DealSteps(c) ==
    CASE deal[c].step = "idle" -> 0
      [] deal[c].step = "write" -> 1
      [] deal[c].step = "try" -> 2 + Cardinality(deal[c].left)
      [] deal[c].step = "list" -> 3 + Cardinality(Slots)

\* It is bounded, and 0 exactly when the deal was answered.
DealsBounded ==
    \A c \in Dealers : /\ DealSteps(c) \in 0..(3 + Cardinality(Slots))
                       /\ DealSteps(c) = 0 <=> deal[c].step = "idle"

\* Only the handler's own steps change it, and each of them lowers it.
DealsAdvance ==
    \A c \in Dealers : deal[c].step # "idle" =>
        \/ Handler(c) /\ DealSteps(c)' < DealSteps(c)
        \/ ~Handler(c) /\ (DealSteps(c)' = DealSteps(c) \/ launch' = "ended")

\* What is left to try is a finite set of slots.
LEMMA LeftFacts ==
    ASSUME IsFiniteSet(Slots), Erc20TypeOK, NEW c \in Dealers
    PROVE  /\ Cardinality(Slots) \in Nat /\ IsFiniteSet(deal[c].left)
           /\ Cardinality(deal[c].left) \in 0..Cardinality(Slots)
<1>1. deal[c].left \in SUBSET Slots BY DEF Erc20TypeOK, Deals
<1>2. IsFiniteSet(deal[c].left) /\ Cardinality(deal[c].left) <= Cardinality(Slots)
  BY <1>1, FS_Subset
<1> QED BY <1>2, FS_CardinalityType

\* What a deal has left to do is bounded by the number of slots.
LEMMA DealStepsFacts == IsFiniteSet(Slots) /\ Erc20TypeOK => DealsBounded
<1> SUFFICES ASSUME IsFiniteSet(Slots), Erc20TypeOK, NEW c \in Dealers
             PROVE  /\ DealSteps(c) \in 0..(3 + Cardinality(Slots))
                    /\ DealSteps(c) = 0 <=> deal[c].step = "idle"
  BY DEF DealsBounded
<1>1. deal[c].step \in {"idle", "list", "try", "write"} BY DEF Erc20TypeOK, Deals
<1>2. Cardinality(Slots) \in Nat /\ Cardinality(deal[c].left) \in 0..Cardinality(Slots)
  BY LeftFacts
<1>3. CASE deal[c].step = "idle" BY <1>2, <1>3 DEF DealSteps
<1>4. CASE deal[c].step = "write" BY <1>2, <1>4 DEF DealSteps
<1>5. CASE deal[c].step = "try" BY <1>2, <1>5 DEF DealSteps
<1>6. CASE deal[c].step = "list" BY <1>2, <1>6 DEF DealSteps
<1> QED BY <1>1, <1>3, <1>4, <1>5, <1>6

\* A step of the handler ends the deal, brings it on, or rules a slot out.
LEMMA DealStepAdvances ==
    ASSUME IsFiniteSet(Slots), Erc20TypeOK, NEW c \in Dealers, Handler(c)
    PROVE  DealSteps(c)' < DealSteps(c)
<1>1. deal \in [Dealers -> Deals] /\ deal[c] \in Deals BY DEF Erc20TypeOK
<1>2. /\ Cardinality(Slots) \in Nat /\ IsFiniteSet(deal[c].left)
      /\ Cardinality(deal[c].left) \in 0..Cardinality(Slots)
  BY LeftFacts
<1>3. deal[c].step # "idle"
  BY DEF Handler, CreateAccessList, AccessListFails, NotFound, WriteSlot, TrySlot,
         TrySlotFails
<1>4. deal[c].step = "try" => DealSteps(c) = 2 + Cardinality(deal[c].left)
  BY DEF DealSteps
<1>5. deal[c].step = "list" => DealSteps(c) = 3 + Cardinality(Slots) BY DEF DealSteps
<1>6. CASE Returns(c)
  <2>1. deal'[c].step = "idle" BY <1>1, <1>6, NoDealFacts DEF Returns
  <2>2. DealSteps(c)' = 0 BY <2>1 DEF DealSteps
  <2>3. DealSteps(c) \in Nat /\ DealSteps(c) # 0
    <3>1. DealsBounded BY DealStepsFacts
    <3>2. /\ DealSteps(c) \in 0..(3 + Cardinality(Slots))
          /\ DealSteps(c) = 0 <=> deal[c].step = "idle"
      BY <3>1 DEF DealsBounded
    <3> QED BY <1>2, <1>3, <3>2
  <2> QED BY <2>2, <2>3
<1>7. CASE CreateAccessList(c)
  <2> DEFINE found == {s \in Slots : <<Token, s>> \in Touched(deal[c].query, EthStorage)}
  <2>1. deal'[c].step = "try" /\ deal'[c].left = found
    BY <1>1, <1>7 DEF CreateAccessList, Deals
  <2>2. found \in SUBSET Slots OBVIOUS
  <2> HIDE DEF found
  <2>3. /\ Cardinality(found) <= Cardinality(Slots) /\ Cardinality(found) \in Nat
    BY <2>2, FS_Subset, FS_CardinalityType
  <2>4. DealSteps(c)' = 2 + Cardinality(found) BY <2>1 DEF DealSteps
  <2>5. DealSteps(c) = 3 + Cardinality(Slots) BY <1>5, <1>7 DEF CreateAccessList
  <2> QED BY <1>2, <2>3, <2>4, <2>5
<1>8. ASSUME NEW s \in deal[c].left, deal[c].step = "try",
             deal' = [deal EXCEPT ![c].left = @ \ {s}]
      PROVE  DealSteps(c)' < DealSteps(c)
  <2>1. deal'[c].step = "try" /\ deal'[c].left = deal[c].left \ {s}
    BY <1>1, <1>8 DEF Deals
  <2>2. Cardinality(deal[c].left \ {s}) = Cardinality(deal[c].left) - 1
    BY <1>2, FS_RemoveElement
  <2>3. DealSteps(c)' = 2 + Cardinality(deal[c].left \ {s}) BY <2>1 DEF DealSteps
  <2> QED BY <1>2, <1>4, <1>8, <2>2, <2>3
<1>9. ASSUME NEW s, deal[c].step = "try",
             deal' = [deal EXCEPT ![c].step = "write", ![c].slot = s, ![c].seen = EthStorage]
      PROVE  DealSteps(c)' < DealSteps(c)
  <2>1. deal'[c].step = "write" BY <1>1, <1>9 DEF Deals
  <2>2. DealSteps(c)' = 1 BY <2>1 DEF DealSteps
  <2> QED BY <1>2, <1>4, <1>9, <2>2
<1>10. ASSUME NEW s \in Slots, TrySlot(c, s) \/ TrySlotFails(c, s)
       PROVE  DealSteps(c)' < DealSteps(c)
  BY <1>6, <1>8, <1>9, <1>10 DEF TrySlot, TrySlotFails
<1> QED
  BY <1>6, <1>7, <1>10 DEF Handler, AccessListFails, NotFound, WriteSlot

\* Only the deal's own handler, and the end of the node, change it.
LEMMA DealLeftAlone ==
    ASSUME Erc20TypeOK, [Next]_vars, NEW c \in Dealers, deal[c].step # "idle", ~Handler(c)
    PROVE  deal'[c] = deal[c] \/ launch' = "ended"
<1>1. deal \in [Dealers -> Deals] BY DEF Erc20TypeOK
<1>2. CASE Starts \/ Mine \/ UNCHANGED vars
  BY <1>2 DEF Starts, Mine, BlockStores, vars, tokenVars
<1>3. CASE Exit BY <1>3 DEF Exit, End
<1>4. ASSUME NEW d \in Dealers, NEW q, NEW v, DealErc20(d, q, v) PROVE deal'[c] = deal[c]
  BY <1>1, <1>4 DEF DealErc20
<1>5. ASSUME NEW d \in Dealers, d # c, Handler(d) PROVE deal'[c] = deal[c]
  BY <1>1, <1>5 DEF Handler, CreateAccessList, AccessListFails, NotFound, WriteSlot, TrySlot,
                    TrySlotFails, Returns
<1>6. CASE Calls BY <1>4, <1>5, <1>6 DEF Calls, OtherWrite, tokenVars
<1> QED BY <1>2, <1>3, <1>6 DEF Next

(* Every anvil_deal_erc20 and anvil_set_erc20_allowance is finite, for     *)
(* every token with finitely many slots: each step of its handler strictly *)
(* lowers a bounded number of steps that is 0 exactly when the call was    *)
(* answered, and that no block, no other caller and no answer of the token *)
(* changes, unless the node ends.  The search tries no slot twice; only    *)
(* that the runtime goes on polling the handler is left to assume.         *)
THEOREM DealFiniteTheorem ==
    ASSUME IsFiniteSet(Slots)
    PROVE  SafeSpec => []DealsBounded /\ [][DealsAdvance]_vars
<1>1. IInv => DealsBounded BY DealStepsFacts DEF IInv, TokenInv
<1>2. IInv /\ [Next]_vars => [DealsAdvance]_vars
  <2> SUFFICES ASSUME IInv, [Next]_vars, NEW c \in Dealers, deal[c].step # "idle"
               PROVE  \/ Handler(c) /\ DealSteps(c)' < DealSteps(c)
                      \/ ~Handler(c) /\ (DealSteps(c)' = DealSteps(c) \/ launch' = "ended")
    BY DEF DealsAdvance
  <2>0. Erc20TypeOK BY DEF IInv, TokenInv
  <2>1. CASE Handler(c) BY <2>0, <2>1, DealStepAdvances
  <2>2. CASE ~Handler(c)
    <3>1. deal'[c] = deal[c] \/ launch' = "ended" BY <2>0, <2>2, DealLeftAlone
    <3>2. deal'[c] = deal[c] => DealSteps(c)' = DealSteps(c) BY DEF DealSteps
    <3> QED BY <2>2, <3>1, <3>2
  <2> QED BY <2>1, <2>2
<1> QED BY <1>1, <1>2, Inductive, PTL DEF SafeSpec
=============================================================================
