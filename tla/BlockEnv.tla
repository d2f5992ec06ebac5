------------------------------- MODULE BlockEnv -------------------------------
(***************************************************************************)
(* BlockEnvOverrides (src/block_env.rs): the coinbase that                 *)
(* payload_attributes_hook reads (src/time.rs), and the gas limit and the  *)
(* next base fee that AnvilEvmConfig::next_evm_env reads (src/evm.rs).     *)
(*                                                                         *)
(* next_evm_env serves the block builder and, through the stock eth_*      *)
(* handlers, every request that is evaluated on the pending block.  The    *)
(* workers below are those two kinds: Miner and Readers.                   *)
(*                                                                         *)
(* Settings are numbered in the order they are made; 0 is "not set".       *)
(***************************************************************************)
EXTENDS Naturals

CONSTANTS
    Miner, Readers,             \* who calls next_evm_env
    MaxSets,                    \* bound on the calls of each setter
    MaxBlocks, MaxReads,        \* bounds on blocks and pending-block requests
    MaxFailures, MaxDiscards    \* bounds on failing environments, discarded payloads

ASSUME BlockEnvAssumption ==
    /\ Miner \notin Readers
    /\ MaxSets \in Nat /\ MaxBlocks \in Nat /\ MaxReads \in Nat
    /\ MaxFailures \in Nat /\ MaxDiscards \in Nat

VARIABLES
    gas_limit, coinbase, next_base_fee,     \* BlockEnvOverrides
    pc, env,                                \* next_evm_env, per worker
    attributes,                             \* coinbase of the block being built
    asked,                                  \* settings when its build began (history)
    fees,                                   \* base fees set so far
    owed,                                   \* the base fee no block has had yet (history)
    takers,                                 \* how often each fee was taken (history)
    blocks, reads, failures, discards

overrides == <<gas_limit, coinbase, next_base_fee, fees>>
workerVars == <<pc, env, attributes, asked>>
counters == <<blocks, reads, failures, discards>>
vars == <<overrides, workerVars, owed, takers, counters>>

Workers == Readers \cup {Miner}
Env == [gas_limit : 0..MaxSets, base_fee : 0..MaxSets]
NoEnv == [gas_limit |-> 0, base_fee |-> 0]

Init ==
    /\ gas_limit = 0 /\ coinbase = 0 /\ next_base_fee = 0 /\ fees = 0
    /\ pc = [w \in Workers |-> "idle"]
    /\ env = [w \in Workers |-> NoEnv]
    /\ attributes = 0
    /\ asked = [gas_limit |-> 0, coinbase |-> 0]
    /\ owed = 0 /\ takers = [f \in 1..MaxSets |-> 0]
    /\ blocks = 0 /\ reads = 0 /\ failures = 0 /\ discards = 0

Goto(w, label) == pc' = [pc EXCEPT ![w] = label]

-----------------------------------------------------------------------------
(* RPC handlers: one write under a lock each *)

\* anvil_set_block_gas_limit (a value above u64::MAX is refused)
SetGasLimit ==
    /\ gas_limit < MaxSets
    /\ gas_limit' = gas_limit + 1
    /\ UNCHANGED <<coinbase, next_base_fee, fees, workerVars, owed, takers, counters>>

\* anvil_set_coinbase
SetCoinbase ==
    /\ coinbase < MaxSets
    /\ coinbase' = coinbase + 1
    /\ UNCHANGED <<gas_limit, next_base_fee, fees, workerVars, owed, takers, counters>>

\* anvil_set_next_block_base_fee_per_gas
SetNextBaseFee ==
    /\ fees < MaxSets
    /\ fees' = fees + 1
    /\ next_base_fee' = fees + 1
    /\ owed' = fees + 1
    /\ UNCHANGED <<gas_limit, coinbase, workerVars, takers, counters>>

-----------------------------------------------------------------------------
(* A block: attributes, environment, block *)

\* Mutant: the hook keeps the coinbase it has once read.
HookKeeps ==
    /\ pc[Miner] = "idle" /\ blocks < MaxBlocks
    /\ attributes' = IF attributes = 0 THEN coinbase ELSE attributes
    /\ asked' = [gas_limit |-> gas_limit, coinbase |-> coinbase]
    /\ Goto(Miner, "gas_limit")
    /\ UNCHANGED <<overrides, env, owed, takers, counters>>

\* The miner asks payload_attributes_hook.
Hook ==
    /\ pc[Miner] = "idle" /\ blocks < MaxBlocks
    /\ attributes' = coinbase
    /\ asked' = [gas_limit |-> gas_limit, coinbase |-> coinbase]
    /\ Goto(Miner, "gas_limit")
    /\ UNCHANGED <<overrides, env, owed, takers, counters>>

\* A request on the pending block.
Read(r) ==
    /\ pc[r] = "idle" /\ reads < MaxReads
    /\ reads' = reads + 1
    /\ Goto(r, "gas_limit")
    /\ UNCHANGED <<overrides, env, attributes, asked, owed, takers, blocks, failures, discards>>

\* next_evm_env reads the gas limit; the inner next_evm_env may fail.
ReadGasLimit(w) ==
    /\ pc[w] = "gas_limit"
    /\ \/ /\ env' = [env EXCEPT ![w].gas_limit = gas_limit]
          /\ Goto(w, "base_fee")
          /\ UNCHANGED failures
       \/ /\ failures < MaxFailures /\ failures' = failures + 1
          /\ Goto(w, "idle")
          /\ UNCHANGED env
    /\ UNCHANGED <<overrides, attributes, asked, owed, takers, blocks, reads, discards>>

Taken == IF next_base_fee = 0 THEN takers ELSE [takers EXCEPT ![next_base_fee] = @ + 1]

\* Mutant: the base fee is read and not taken.
TakeNextBaseFeeReads(w) ==
    /\ pc[w] = "base_fee"
    /\ env' = [env EXCEPT ![w].base_fee = next_base_fee]
    /\ takers' = Taken
    /\ Goto(w, "done")
    /\ UNCHANGED <<overrides, attributes, asked, owed, counters>>

\* Mutant: the base fee is taken whether or not it is passed on.
TakeNextBaseFeeDrops(w) ==
    /\ pc[w] = "base_fee"
    /\ takers' = Taken
    /\ next_base_fee' = 0
    /\ Goto(w, "done")
    /\ UNCHANGED <<gas_limit, coinbase, fees, env, attributes, asked, owed, counters>>

\* take_next_base_fee, under the write lock
TakeNextBaseFee(w) ==
    /\ pc[w] = "base_fee"
    /\ env' = [env EXCEPT ![w].base_fee = next_base_fee]
    /\ takers' = Taken
    /\ next_base_fee' = 0
    /\ Goto(w, "done")
    /\ UNCHANGED <<gas_limit, coinbase, fees, attributes, asked, owed, counters>>

\* The reader answers its request.
Answer(r) ==
    /\ pc[r] = "done"
    /\ env' = [env EXCEPT ![r] = NoEnv]
    /\ Goto(r, "idle")
    /\ UNCHANGED <<overrides, attributes, asked, owed, takers, counters>>

\* The block is mined.
Commit ==
    /\ pc[Miner] = "done"
    /\ blocks' = blocks + 1
    /\ owed' = IF env[Miner].base_fee = owed THEN 0 ELSE owed
    /\ env' = [env EXCEPT ![Miner] = NoEnv]
    /\ Goto(Miner, "idle")
    /\ UNCHANGED <<overrides, attributes, asked, takers, reads, failures, discards>>

\* The engine refuses the payload, or the payload job fails.
Discard ==
    /\ pc[Miner] = "done" /\ discards < MaxDiscards
    /\ discards' = discards + 1
    /\ env' = [env EXCEPT ![Miner] = NoEnv]
    /\ Goto(Miner, "idle")
    /\ UNCHANGED <<overrides, attributes, asked, owed, takers, blocks, reads, failures>>

-----------------------------------------------------------------------------
Next ==
    \/ SetGasLimit \/ SetCoinbase \/ SetNextBaseFee
    \/ Hook \/ Commit \/ Discard
    \/ \E w \in Workers : ReadGasLimit(w) \/ TakeNextBaseFee(w)
    \/ \E r \in Readers : Read(r) \/ Answer(r)

Spec == Init /\ [][Next]_vars

-----------------------------------------------------------------------------
TypeOK ==
    /\ gas_limit \in 0..MaxSets /\ coinbase \in 0..MaxSets
    /\ next_base_fee \in 0..MaxSets /\ fees \in 0..MaxSets /\ owed \in 0..MaxSets
    /\ pc \in [Workers -> {"idle", "gas_limit", "base_fee", "done"}]
    /\ env \in [Workers -> Env]
    /\ attributes \in 0..MaxSets
    /\ asked \in [gas_limit : 0..MaxSets, coinbase : 0..MaxSets]
    /\ takers \in [1..MaxSets -> Nat]
    /\ blocks \in 0..MaxBlocks /\ reads \in 0..MaxReads
    /\ failures \in 0..MaxFailures /\ discards \in 0..MaxDiscards

(* "gas_limit and coinbase are persistent [...] they apply to every subsequent*)
(* block until changed again" (src/block_env.rs:7): a block has no older   *)
(* coinbase or gas limit than the ones in force when its build began,      *)
(* though the two are read at different times.                             *)
SettingsNotStale ==
    pc[Miner] = "done" =>
        env[Miner].gas_limit >= asked.gas_limit /\ attributes >= asked.coinbase

(* "base fee override should be consumed after one block"                  *)
(* (src/main.rs:1242): no two environments, of blocks or of requests on    *)
(* the pending block, have the same override.                              *)
BaseFeeTakenOnce == \A f \in 1..MaxSets : takers[f] <= 1

(* "next_base_fee is consumed once when the next block is built"           *)
(* (src/block_env.rs:8): the base fee last set waits for the next block,   *)
(* or is in the block being built, until a block has it.                   *)
BaseFeeReachesBlock ==
    owed # 0 => next_base_fee = owed \/ env[Miner].base_fee = owed

(* What the code does keep of that promise: the base fee reaches its block *)
(* as long as no request was evaluated on the pending block and no built   *)
(* payload was discarded, also when next_evm_env fails.                    *)
MinerDeliversBaseFee ==
    reads = 0 /\ discards = 0 => BaseFeeReachesBlock
=============================================================================
