# A verification project for anvil-reth

anvil-reth makes a development node out of reth: a stock Ethereum node with
instant block production and the `anvil_*` RPC methods. The repository's own
logic is small and lies almost entirely in shared mutable state that RPC
handlers, two background tasks, the transaction pool and the block producer
touch at the same time. This project models that logic in TLA+, model-checks
it with TLC and proves its main properties with TLAPS.

Source paths below are relative to the repository (`src/` holds the Rust
files).

## 1. Inventory

| Component | State it keeps | Operations | Who else touches it |
|---|---|---|---|
| Trigger queue (`mining.rs`: `MiningTriggers`, `MiningTriggerStream`) | an atomic counter, a tokio `Notify`, the stream's `Notified` future | `trigger`, `poll_next` | every handler and task that wants a block; the miner polls |
| Mining control (`mining.rs`: `MiningController`, `run_automine_task`, `run_interval_mining_task`) | the mode in a watch channel | `set_automine`, `set_interval_mining`, the two tasks | RPC handlers, the pool's listener |
| Mining RPC (`anvil_api.rs`: `anvil_mine`, `anvil_mine_detailed`, `mine_blocks`, `wait_for_block_number`) | locals across awaits; the time manager's interval, saved and restored | mine n blocks and wait for them | the miner, the tasks, other callers |
| Time manager (`time.rs`) | offset, last timestamp, next exact timestamp, interval, each behind its own lock | four setters, `reset`, `next_timestamp` | RPC handlers, the payload attributes hook |
| Block environment (`block_env.rs`, `evm.rs`, `time.rs`) | gas limit, coinbase, one-shot next base fee | three setters; read by the attributes hook and by `next_evm_env` | the builder, and stock `eth_*` requests on the pending block |
| Account overrides (`state.rs`, `state_provider.rs`) | per-account overrides, one map of bytecodes | setters, overlay reads, `anvil_add_balance` | every `eth_*` read, blocks changing the chain underneath |
| Dump and load (`state_dump.rs`, `anvil_api.rs`) | none of its own | collect, merge, load account by account | the overrides and the chain |
| Impersonation (`impersonation.rs`, `pool.rs`, `evm.rs`) | impersonated accounts, the auto flag, hash -> sender | switches, signing, validation, sender lookup, dropping | pool, payload execution, new-head notifications |
| ERC-20 helpers (`anvil_api.rs`: `find_erc20_storage_slot`, `anvil_deal_erc20`, `anvil_set_erc20_allowance`) | locals across awaits | search for a storage slot by simulated calls, then override it | account overrides, the eth API, blocks |
| Node wiring (`main.rs`, `eth_builder.rs`, the builders in `evm.rs` and `pool.rs`) | who holds a handle on which shared state | the steps of `main` and of reth's launch | every part |
| Node information (`anvil_api.rs`, `block_source.rs`) | locals across awaits | `anvil_node_info`, `anvil_metadata`, `anvil_get_genesis_time` | blocks mined in between |
| State provider pass-throughs, test helpers | - | delegation, tests | - |

Interactions: handlers, both tasks and the pool meet in the trigger queue; the
miner takes a trigger, asks `payload_attributes_hook` (time manager and
coinbase), builds with `next_evm_env` (gas limit, base fee), executes with the
senders of the impersonation state, and commits. The pool then hears of the
head and the impersonation state forgets what was mined. `main` makes the five
shared states and hands clones of them to the pool, the EVM configuration, the
eth API, the signer, `AnvilRpc`, the miner's hook and stream and the tasks, one
after the other, while requests are served as soon as the RPC server is up.

What is hard here: a wakeup between the counter and the `Notify`; decisions on
a mode, a count, a clock or a balance read under one lock and used under
another; locals kept over an await; a listener channel that drops messages; a
wait that times out while its triggers stay pending; forgetting a sender that
somebody still needs; one-shot settings taken by the wrong reader; a slot found in one state and written in another;
a part that was built around a state of its own; a call that is dropped half
way because its client went; a block with room for only some of the
transactions it was triggered for; u64 and U256 at their ends. `PROJECT.json` lists each of these at its line under
"hazards", with the property that would catch it.

## 2. Modules

| Module | Models | Extends / uses |
|---|---|---|
| `TriggerCounter` | abstract specification of the trigger queue: a counter whose requests are handed out sooner or later | - |
| `TriggerStream` | the lock-free implementation, one step per atomic operation | implements `TriggerCounter` (`INSTANCE`) |
| `Mining` (`MCMining`) | modes, automine and interval task, `anvil_set_automine`, `anvil_set_interval_mining`, pool, miner | the queue as `TriggerCounter` describes it |
| `MineRpc` | the mining calls with their wait and timeout | the queue, as above |
| `TimeManager` | timestamps, one step per lock | - |
| `BlockEnv` | block environment overrides and their two readers | - |
| `AccountView` | abstract specification of the overrides: fields of an account that a call set stay as they were set | - |
| `AnvilState` (`MCAnvilState`) | overrides, overlay, add-balance, dump, load | implements `AccountView` (`INSTANCE`) |
| `Impersonation` (`MCImpersonation`) | the life of an impersonated transaction | - |
| `Launch` | `main` and the builders: who holds which shared state, and settings made in them | - |
| `NodeInfo` | the calls that describe the node | extends `Launch` |
| `Erc20Slot` | the slot search and the override it ends in | extends `Launch` |
| `Node` (`MCNode`) | the three together: the node from its launch to its end | extends `NodeInfo`, `Erc20Slot` |
| `*Proofs` | theorems about the module they extend | `TLAPS` |

The `MC` modules add what only TLC needs: symmetry sets, the two hash
functions of `Impersonation`, the token and the fork schedule of `Node`. Definitions whose comment says "Mutant:" are
plausible bugs; nothing uses them unless a mutant run puts them in place of the
definition that follows them.

### How state and actions correspond to the code

Variables keep the field and local names of the source. A handler that holds
several locks one after the other, or awaits, is several actions joined by a
program counter (`pc`, `call`, `automine`, ...), one per lock, atomic
operation or await; a handler that does everything under one lock is one
action. `PROJECT.json`'s "map" gives the lines of each.

* **TriggerStream.** `FetchAdd` and `NotifyOne` are the two halves of
  `trigger`. `Load`, `CompareExchange` and `PollNotified` are `poll_next`;
  `PollNext`, `Wake` and `SpuriousPoll` are the executor calling it, because it
  returned an item, because its waker ran, or for no reason. `Notify` is
  external, by its contract: at most one stored permit, or the registered
  waiter is notified.
* **Mining.** `SetAutomineRead/Store/Count/Trigger` are `set_automine` and the
  rest of its handler. `Automine*` and `Interval*` are the two loops;
  `IntervalChanged` and `IntervalElapsed` are the two branches of the select.
  `PoolInsert`, `PoolAnnounce`, `PoolOnNewHead` and `Miner*` are reth's part.
  A message that does not fit into the listener's channel is dropped. A block
  takes any of the executable transactions: how many fit is a matter of gas,
  whose limit `anvil_setBlockGasLimit` sets. `leftOut` are the ones it did not
  take, until the next block is begun.
* **MineRpc.** `Mine`, `SetInterval` and `Return` are `anvil_mine` before and
  after the await; `Start`, `Trigger`, `Poll`, `Timeout`, `ReadFails` are
  `mine_blocks` and the wait; `Fetch` and `FetchFails` are the blocks that
  `anvil_mine_detailed` answers with. `MinePanics` and `SetIntervalPanics` are
  arguments above u64::MAX, where `U256::to` panics. `Dropped` is a client that
  goes away while its call waits: the server drops the future, and nothing after
  the await runs. A block is recorded as the rule that gave it its timestamp. The
  check inside `set_next_block_timestamp` may refuse here; what it compares is
  `TimeManager`'s subject.
* **TimeManager.** `Miner*` are the steps of `next_timestamp`, with the
  interval and the offset read while the exact timestamp is still locked, as
  edition 2021's `if let` has it. `ResetLast/Offset/Exact` are `reset`,
  `SetNextCheck/Write` are `set_next_block_timestamp`. Timestamps have the
  width of u64 (`MaxU64`), the sum with the offset is cast like `as u64`.
* **BlockEnv.** Settings are numbered in the order they are made, so "older"
  can be said. `ReadGasLimit` and `TakeNextBaseFee` are `next_evm_env`; the
  first includes the inner call that may fail.
* **AnvilState.** An account's overrides are four functions, `None` where there
  is no override. A code hash is modelled by the code. `View` is what the
  overlay shows. Dump and load are one action per lock or chain read, with
  `load_state` going through the accounts in any order (they come from a map).
  What can be loaded is the last dump, or JSON of an account with every field
  left to its default; `Refused` are the calls that end before they change
  anything. A chain read may fail (`ReadFails`): a load then ends half done. An
  account is also a function of its `Fields`, for the refinement: `View` gives
  what is seen and `Overrides` what is pinned. `before` keeps the storage
  overrides from when the latest load began.
* **Launch, NodeInfo, Erc20Slot, Node.** Each shared state is numbered per
  kind: 1 is the one `main` made, 2 would be another. `holds` says which one
  each part has; the steps of `main` are actions in reth's launch order, and
  `End` is a `?` of any of them or the end of the node. `LatestNumber`,
  `LatestHeader` and `GasPrice` are the three reads of an answer; all it says of
  a block comes from the one header that was fetched. A token is
  any pair of operators: what a query answers with a given storage, and which
  slots it reads. `CreateAccessList`, `TrySlot`, `WriteSlot` are the awaits of
  a deal and its write; answers may revert, be empty (read as zero) or longer
  than a word (`from_be_slice` panics).
* **Panics.** A panic of a handler is a step that ends its call, as it is in
  builds that unwind. The release profile has `panic = "abort"`
  (`Cargo.toml:48`): there it ends the node, which is the step `Exit` of `Node`
  and the end of every behaviour of the other modules.
* **Impersonation.** Each sender submits one transaction; `Hash` says which
  hash it has. `Sign`, `Validate`, `Remember`, `Insert` are a submission,
  `Build` (of any part of the pool), `Convert`, `Commit`, `OnNewHeadBlock` a
  block. `Convert` is the
  sender lookup of payload execution: it fails the payload when the sender is
  unknown.

History variables: `issued`/`yielded`, `staleFires`, `early`, `leftOut`,
`rewound`, `accepted`/`used`, `configured`, `gave_up`, `readAt`, `before`,
`asked`, `owed`, `takers`, `seen`, `overlapped` and `serial`. `overlapped`, in
`Mining` and `AnvilState`, becomes "yes" when a call begins while another is in
progress; `serial`, in `MineRpc`, becomes "no" then, and when a call is
dropped. Some guarantees hold exactly until then, and saying so in the property
lets one run and one theorem cover concurrent callers as well.

## 3. Properties and runs

Passing runs:

* **trigger_stream** (`TriggerStream.cfg`; three producers, five triggers).
  `NoLostWakeup`: the miner never sleeps on a request nobody is about to
  announce; `Conservation`: increments =
  pending + handed out; `EveryTriggerYields`: all are handed out in the end;
  `ImplementsCounter`: refinement of `TriggerCounter`, with its fairness.
* **mining_races** (`Mining.cfg`; two callers, two transactions, channel of
  one, three calls, one failing block). `NoStrandedTx`: in automine mode there
  is always a message, a check, a trigger or a block under way for an
  executable transaction, unless the latest block had no room for it;
  `StaleIntervalAtMostOnce`: after leaving interval
  mode at most one more request; `DisableKeepsInterval`: disabling automine
  does not clear interval mining until two calls overlap.
* **mining_live** (`MiningLive.cfg`; fairness, no failing block).
  `AutomineMines`: an executable transaction is mined, or a block comes that has
  no room for it; `IntervalProduces`, `ManualComesToRest`.
* **mine_rpc** (`MineRpc.cfg`; two callers, up to two blocks per call, one
  foreign trigger, failing block, failing read or dropped call, one poll before
  the timeout).
  `EveryCallReturns` even if the miner does nothing; `FetchedExist`: after the
  wait the blocks to be fetched are on the chain; `IntervalRestored` until
  calls overlap or one is dropped, also when an argument makes the call panic; `SpacingKept` and
  `DetailedTimestamp` while calls come one at a time, nobody else mines and no
  call gave up.
* **time** (`TimeManager.cfg`; two callers, u64 of four bits, three calls, two
  blocks). `NeverBehindHead`, `ExactAtMostOnce`, `CastSafe`;
  `AcceptedNotBelowHead`: the check of `set_next_block_timestamp`, though it
  compares with `last_timestamp`, lets nothing below the head pass, until a
  `set_time` moves back.
* **block_env** (`BlockEnv.cfg`; two pending-block readers, two settings of each
  kind, two blocks, a failing environment, a discarded payload).
  `SettingsNotStale`, `BaseFeeTakenOnce`, `MinerDeliversBaseFee`.
* **state** (`AnvilState.cfg`; two callers, two accounts, three calls, one block).
  `CodeReadResolves`, `DumpShowsView` under full concurrency; `LoadRestores`,
  `AddAccumulates`, `LoadKeepsNonce` until calls overlap, with blocks at any
  moment. `LoadRestores` says of every slot what a load makes of it: one that
  the dump lists reads as dumped, any other as it did before the load. `ViewRefined`: `AnvilState` implements `AccountView`.
* **impersonation** (`Impersonation.cfg`; two callers, two senders with
  different transactions, six calls, two of them dropping).
  `NeverMisattributed`; `AcceptedStaysAttributed` until something is dropped.
* **node** (`Node.cfg`; one reader, one dealer, two calls, one block, a proxy
  token with three slots). `SettingsReachParts`: what `AnvilRpc` sets is what
  every part that is there goes by; `DealVisible`: a deal
  makes the token answer with the amount, if its storage is as it was when the
  slot was found; `EveryDealReturns`. `TypeOK` includes that the number a reader
  keeps over an await is one the chain has a header for.

The runs `mining_races`, `time`, `state`, `impersonation`, `mine_rpc` and
`node` also check their module's `TypeOK`; those of `TriggerStream` and
`BlockEnv`, and the inductive `WakeupInv`, are left to the proofs.

Runs that find what a document of the repository says violated:

* **time_exact_lost**: an exact timestamp accepted between
  `compute_next_timestamp` and the take is discarded (`time.rs:60` promises it
  to the next block).
* **impersonation_collision**: two senders submitting the same content share a
  hash, and the second replaces the first's entry in `tx_senders`
  (`impersonation.rs:25`).
* **block_env_pending**: a request on the pending block consumes the next base
  fee (`block_env.rs:8`).

The conditions on the properties above name more limits of the code; without
its condition the property is violated: after `anvil_setTime` into the past,
timestamps below the previous block's are accepted; overlapping
`anvil_setAutomine(false)` and `anvil_setIntervalMining` calls lose the
interval, overlapping `anvil_addBalance` calls lose an amount, overlapping
`anvil_mine` calls leave the wrong interval in force, and so does one whose
client goes away while it waits; transactions that the block of a trigger has no
room for wait for the next trigger, also in automine mode; loading a dump leaves
a slot that was zero when it was dumped, and was set since, as it is; dropping a transaction whose
payload is still to be executed makes the payload fail, and a block of the
automine task moves the block that `anvil_mine_detailed` answers with.
`DealVisible` is about the query of the deal only: dealing 0 of a proxy token
takes the implementation slot, because the simulated call then answers with no
bytes, and dealing what a holder already has takes the first slot that is
tried; other answers of the token change with it. A deal whose token's storage
changed between the simulation and the write may miss.

### Bounds

All bounds are constants named `Max...`, in guards. They are as large as five
minutes allow and at least as large as the scenarios the properties are about:
two callers are enough for every two-lock race; two transactions and a channel
of one give a dropped message; five triggers with three producers give a
stored permit, a pending notification and a failed exchange at once; two
blocks per mining call tell the first from the others; four bits of u64 hold a
millisecond timestamp, saturation and a wrapped cast; one block can fall
between any two steps of a handler, and one is all `Node` has. `PollLimit` is 200 in the code and 1 in
the run: the number of polls matters only in that it is finite. In `AnvilState` three calls are a setting, a dump and a load of
it. In `Node` two calls are a deal with another write, or a setting with a
reader, in between; `impl`, one slot per holder and values 0 to 2 give a token
whose query reads two of its slots and one of another contract, and answers,
reverts, answers nothing or too much. One interval
is enough in `MineRpc`, because "none" is the other value. `MaxMishaps` bounds foreign
triggers, failures and dropped calls there together, so one run has either. `MaxBacklog` stops
the interval timer from filling the trigger queue; the queue itself is not
bounded. Symmetry is used for interchangeable model values in safety runs and
never with liveness. The theorems below hold for every value of the constants.

Deadlock is checked in `trigger_stream`, where it says little, since a spurious
poll is always possible; `EveryTriggerYields` is the real check. The other models stop when their bounds are used
up, so their configurations switch the check off.

### Fairness

* `TriggerStream`: weak fairness of `NotifyOne` (a thread inside `trigger`
  goes on) and of the stream's steps (the executor polls a woken task).
  Nobody has to call `trigger`.
* `Mining`: weak fairness of handlers that have begun, of both tasks (tokio
  polls woken tasks, timers expire), of the pool's announcements and head
  following and of the miner (reth services that run as long as the node).
  Starting the automine task, calls, insertions and failures are not fair.
* `MineRpc`: weak fairness of each handler only; nothing is assumed of the
  miner, since the timeout is there for the case that it does nothing.
* `Node`: weak fairness of each dealer's handler, whose awaits are answered by
  the eth API of the same process; nothing is assumed of the launch, of blocks
  or of the readers, and the node may end at any moment.

## 4. Theorems

All are checked by TLAPS for every value of the constants that satisfies the
named assumption of the module (`ConstantsAssumption`, `MiningAssumption`, ...;
they state types and that `None` and the like are distinct).

| Module | Theorems | Argument |
|---|---|---|
| `TriggerStreamProofs` | `TypeCorrect`, `WakeupTheorem`, `WakeupInvTheorem`, `ConservationTheorem`, `CounterRefinement` | `StreamInv` = types, `WakeupInv`, `Conservation`. `NoLostWakeup` is not inductive: what happens before the stream falls asleep matters, so `WakeupInv` also speaks of a consumer between its load and its park. |
| `MiningProofs` | `TypeCorrect`, `StrandedTheorem`, `StaleTheorem`, `DisableTheorem`, `CounterUse` | `NoStrandedTx` is inductive with the types, whatever a block has room for. `StaleIntervalInv` adds that a stale request ends its decision. `DecisionInv`: until calls overlap, one call is in progress and the mode it replaces is the one it read. `CounterUse`: with `pending <- triggers` every step is one of `TriggerCounter`, so that, with `CounterRefinement`, the counter may stand for the atomics here. |
| `TimeManagerProofs` | `TypeCorrect`, `HeadTheorem`, `ExactTheorem`, `CastTheorem`, `AcceptedTheorem`, `WindowTheorem` | `HeadInv` carries last timestamp >= head through the steps of `next_timestamp`; `ExactInv`: an exact timestamp that waits was accepted and not used yet; `CastInv` bounds the offset. `CastTheorem` assumes `LateEnough`: the genesis timestamp and every set time are at least the seconds that may pass inside `compute_next_timestamp`. `WindowTheorem` bounds what the run `time_exact_lost` finds: with `GuardInv` (no exact timestamp appears under the read guard) only a `set_next_block_timestamp` between the read and the take is lost. |
| `AnvilStateProofs` | `TypeCorrect`, `CodeTheorem`, `Refinement`, `DumpTheorem`, `LoadTheorem`, `AddTheorem`, `NonceTheorem` | `ControlInv` ties handlers to an address and to the dump they load; `CodeInv`: every code hash in an override, in the chain or being read is known. `Refinement` has one lemma per kind of step (setter, add, load, block): what it changes of `View` and of `Overrides`, field by field. `ReadInv`: as long as no block comes, a dump in progress has the accounts of the chain and a load the nonce. `AloneInv`: until calls overlap, one is in progress, what it has read is what the account shows (`Knows`), and the accounts it has loaded are as dumped, with the slots the dump does not list as they were before, while the others still have the overrides they had (`Restored`). None of the four action properties holds of a single step alone: they relate a write to a read several steps earlier. |
| `ImpersonationProofs` | `TypeCorrect`, `AttributionTheorem`, `AcceptedTheorem` | `OwnerInv`: a remembered sender's own transaction has that hash. `KnownInv`: until a drop, pool, payload and handlers hold only impersonated transactions whose sender is known or which are mined. Both theorems assume `DistinctHashes`, which `impersonation_collision` shows to be needed. |
| `MineRpcProofs` | `TypeCorrect`, `RestoreTheorem`, `FetchTheorem`, `SpacingTheorem`, `StampTheorem`, `FiniteTheorem`, `CounterUse` | `ControlInv` for the countdown; `SavedInv`: until calls overlap or one is dropped, one call is in progress and holds the configured interval while it has replaced it. `FetchInv`: a call that fetches saw the chain reach its last block, and the chain does not shrink. `BlocksInv` counts: what is on the chain, on the way and still to be triggered never exceeds what the call asked for (`QuietInv`), so a call that gets its blocks got them all by its own triggers; along with that, the blocks so far follow the interval (`SpacingInv`), and the exact timestamp waits, is in the first block, or was lost with a failing block, in which case the call cannot succeed (`StampInv`). `FiniteTheorem`: `Remaining`, a number of steps that is at most 5 + twice the blocks + the polls, is lowered by each step of the handler, or by dropping the call, and changed by nobody else. |
| `BlockEnvProofs` | `TypeCorrect`, `TakenOnceTheorem`, `FreshTheorem`, `BaseFeeTheorem` | `IInv` with `UntakenInv` (a fee that waits was not taken) and `FreshInv` (settings only grow); `OwedInv` for the base fee's way to its block. |
| `NodeProofs` | `TypeCorrect`, `WiringTheorem`, `DealTheorem`, `DealFiniteTheorem` | `HandlesInv` gives, for each step of `main`, exactly which parts are built and that all their handles are `main`'s. For the readers the types suffice: the chain only grows, so a number that was read stays one of its blocks. `FoundInv`: with the slot that was found, and the storage it was found with, the token answers the amount. `DealSteps` falls with every step of a deal, as the slots left to try do; `DealFiniteTheorem` assumes that the token has finitely many slots (they are 32-byte words). The theorems hold for every token and fork schedule. |

Every invariant and every safety action property of the passing runs is stated
by a theorem. Only model-checked is what needs fairness, which is out of the
prover's reach: `EveryTriggerYields`, `AutomineMines`, `IntervalProduces`,
`ManualComesToRest`, `EveryCallReturns`, `EveryDealReturns` and the liveness
half of `ImplementsCounter`. Of `EveryCallReturns` and `EveryDealReturns` the
part that does not need fairness is proved: `FiniteTheorem` and
`DealFiniteTheorem` show that a handler has only a bounded number of steps to
take. That one of them can always be taken, and is taken when the runtime is
fair, is what the runs add.

## 5. Not modelled

* gzip and JSON of dumps, RPC encoding and logging: formatting. What decoding
  accepts, refuses and fills in is modelled.
* The panic of `anvil_increase_time` on an argument above u64::MAX: it comes
  before anything is read or written.
* Pass-throughs of the state provider (roots, proofs, hashed state, block
  hashes): they call the inner provider and nothing else.
* Constant fields of `anvil_node_info` and `anvil_metadata`, and
  `anvil_set_logging_enabled`, which does nothing.
* The test helpers: test code.
* Clients that go away during the calls other than the mining ones: those that
  await anything (deals, node information) have changed nothing until then, so
  being cut short is what their error steps are.
* reth's pool, engine, payload builder and execution appear as external actions
  with the behaviour this code relies on.

## 6. Plan

Done, in this order: trigger queue; mining control; time manager; account
overrides with dump and load; impersonation; mining RPC; block environment;
their first theorems; the abstract `AccountView` and its refinement; the launch,
node information and ERC-20 helpers, composed in `Node`; error paths of the
provider; the theorems about these.

Then the proofs of the dump and load properties and of `AddAccumulates`, of the
timestamps of mined blocks, that mining calls and deals are finite, and that an
exact timestamp is lost in one window only.

Next:

1. A composition of `MineRpc` with `TimeManager`, to have the lock steps of
   `next_timestamp` under a mining call.
