------------------------------ MODULE NodeInfo ------------------------------
(***************************************************************************)
(* The calls that describe the node: anvil_node_info, anvil_metadata and   *)
(* anvil_get_genesis_time (src/anvil_api.rs), over latest_block and the    *)
(* BlockSource (src/block_source.rs).  Blocks are mined between the reads  *)
(* an answer is put together from.                                         *)
(***************************************************************************)
EXTENDS Launch, Sequences

CONSTANTS
    Readers,        \* concurrent RPC callers
    Activation,     \* per hardfork: the timestamp it is active from
    Genesis,        \* timestamp of the genesis block
    MaxTime,        \* bound: block timestamps
    MaxHeight       \* bound: blocks

Forks == <<"london", "shanghai", "cancun", "prague", "osaka">>
ForkNames == {Forks[i] : i \in DOMAIN Forks}

ASSUME NodeInfoAssumption ==
    /\ Activation \in [ForkNames \ {"london"} -> Nat]
    /\ Genesis \in 0..MaxTime /\ MaxTime \in Nat /\ MaxHeight \in Nat

VARIABLES
    chain,      \* the timestamps of the blocks, the genesis block's first
    read        \* per caller: the handler in progress, or its last answer

infoVars == <<chain, read>>

Reads ==
    [step : {"idle", "block", "gas", "answered"},
     op : {"node_info", "metadata", "genesis"},
     number : Nat, timestamp : 0..MaxTime, hard_fork : ForkNames]
NoRead ==
    [step |-> "idle", op |-> "metadata", number |-> 0, timestamp |-> 0,
     hard_fork |-> "london"]

best_block_number == Len(chain) - 1
Header(number) == [number |-> number, timestamp |-> chain[number + 1]]

NodeInfoInit ==
    /\ chain = <<Genesis>>
    /\ read = [r \in Readers |-> NoRead]

ActiveAt(fork, timestamp) == Activation[fork] <= timestamp

hardfork_name(timestamp) ==
    IF ActiveAt("osaka", timestamp) THEN "osaka"
    ELSE IF ActiveAt("prague", timestamp) THEN "prague"
    ELSE IF ActiveAt("cancun", timestamp) THEN "cancun"
    ELSE IF ActiveAt("shanghai", timestamp) THEN "shanghai"
    ELSE "london"

Idle(r) == read[r].step \in {"idle", "answered"}

\* Handler r goes on with, or answers, rec.
Goes(r, rec) == read' = [read EXCEPT ![r] = rec]

\* Mutant: the number is the pending block's.
LatestNumberPending(r, op) ==
    /\ NewCall /\ Idle(r)
    /\ Goes(r, [NoRead EXCEPT !.step = "block", !.op = op, !.number = best_block_number + 1])
    /\ UNCHANGED <<launchVars, settings, chain>>

\* latest_block reads the latest number; a provider error ends the call.
LatestNumber(r, op) ==
    /\ NewCall /\ Idle(r)
    /\ Goes(r, [NoRead EXCEPT !.step = "block", !.op = op, !.number = best_block_number])
    /\ UNCHANGED <<launchVars, settings, chain>>

\* Everything an answer says of a block comes from one header.
FromHeader(rec, header) ==
    [rec EXCEPT !.number = header.number, !.timestamp = header.timestamp,
                !.hard_fork = hardfork_name(header.timestamp)]

\* BlockSource::block_by_number of that number; anvil_metadata then answers.
LatestHeader(r) ==
    /\ Serving /\ read[r].step = "block"
    /\ Goes(r, [FromHeader(read[r], Header(read[r].number)) EXCEPT
                  !.step = IF read[r].op = "node_info" THEN "gas" ELSE "answered"])
    /\ UNCHANGED <<launchVars, settings, calls, chain>>

\* BlockSource::gas_price, and the answer of anvil_node_info
GasPrice(r) ==
    /\ Serving /\ read[r].step = "gas"
    /\ Goes(r, [read[r] EXCEPT !.step = "answered"])
    /\ UNCHANGED <<launchVars, settings, calls, chain>>

\* An await ends in an error, or the block is missing.
ReadFails(r) ==
    /\ Serving /\ ~Idle(r)
    /\ Goes(r, NoRead)
    /\ UNCHANGED <<launchVars, settings, calls, chain>>

\* anvil_get_genesis_time: no await.
GetGenesisTime(r) ==
    /\ NewCall /\ Idle(r)
    /\ Goes(r, [FromHeader(NoRead, Header(0)) EXCEPT !.op = "genesis", !.step = "answered"])
    /\ UNCHANGED <<launchVars, settings, chain>>

Reader(r) ==
    \/ \E op \in {"node_info", "metadata"} : LatestNumber(r, op)
    \/ LatestHeader(r) \/ GasPrice(r) \/ ReadFails(r) \/ GetGenesisTime(r)

\* External: a block is added.  After anvil_setTime into the past its timestamp
\* need not be later than its parent's.
NewBlock ==
    /\ Serving /\ best_block_number < MaxHeight
    /\ \E t \in 0..MaxTime : chain' = Append(chain, t)
    /\ UNCHANGED <<launchVars, settings, calls, read>>

\* The number a handler has read is that of a block, so that its header can be
\* fetched after the await.
NodeInfoTypeOK ==
    /\ chain \in Seq(0..MaxTime) /\ Len(chain) \in 1..(MaxHeight + 1)
    /\ read \in [Readers -> Reads]
    /\ \A r \in Readers : read[r].number <= best_block_number
=============================================================================
