------------------------------- MODULE Mining -------------------------------
(***************************************************************************)
(* Mining control: the MiningController with its watch channel, the        *)
(* automine and the interval task (src/mining.rs), and the RPC handlers    *)
(* that drive them (src/anvil_api.rs), running concurrently with the       *)
(* transaction pool and the local miner.                                   *)
(*                                                                         *)
(* Requests to mine are kept in `triggers`, the counter that TriggerStream *)
(* implements.  The pool and the miner belong to reth: they are modelled   *)
(* by what this code relies on.  The pool announces a transaction to its   *)
(* listener after it inserted it, on a bounded channel that drops what     *)
(* does not fit, and forgets mined transactions some time after the block. *)
(* The miner takes one request at a time and fills a block with executable *)
(* pool transactions up to the gas limit, which anvil_setBlockGasLimit     *)
(* sets: which of them fit is any choice.  Or it fails to build the block. *)
(***************************************************************************)
EXTENDS Naturals, FiniteSets

CONSTANTS
    Txs,            \* transactions
    Clients,        \* concurrent RPC callers
    Secs,           \* arguments of set_interval_mining
    ListenerCap,    \* capacity of the pending-transaction channel
    MaxCalls,       \* bound: RPC calls in a behaviour
    MaxBacklog,     \* bound: no interval expiry while this many requests wait
    MaxFailures     \* bound: blocks the miner may fail to build

ASSUME MiningAssumption ==
    /\ Secs \subseteq Nat
    /\ ListenerCap \in Nat \ {0}
    /\ MaxCalls \in Nat
    /\ MaxBacklog \in Nat
    /\ MaxFailures \in Nat

VARIABLES
    mode,           \* the watch channel's value
    modeRx,         \* has the interval task's receiver seen it?
    triggers,       \* mining requests not yet taken
    call, arg,      \* anvil_set_automine in progress, per client
    calls,          \* RPC calls made so far
    overlapped,     \* history: has a call begun during another one?
    automine,       \* where run_automine_task is
    interval,       \* where run_interval_mining_task is
    pool,           \* executable transactions in the pool
    announcing,     \* inserted, listener not told yet
    notifs,         \* messages in the listener's channel
    early,          \* announced before run_automine_task had subscribed
    leftOut,        \* history: found no room in the last block, none begun since
    miner, block,   \* the local miner and the transactions of its block
    mined,          \* transactions on chain
    failures,       \* blocks the miner failed to build
    staleFires      \* history: interval triggers since the mode left Interval (2: or more)

callVars  == <<call, arg, calls, overlapped>>
poolVars  == <<pool, announcing, notifs, early, leftOut>>
minerVars == <<miner, block, mined, failures>>
modeVars  == <<mode, modeRx, staleFires>>
vars == <<modeVars, triggers, callVars, automine, interval, poolVars, minerVars>>

-----------------------------------------------------------------------------
(* enum MiningMode *)
Automine == [kind |-> "Automine", secs |-> 0]
Manual == [kind |-> "Manual", secs |-> 0]
Interval(s) == [kind |-> "Interval", secs |-> s]
MiningMode == {Automine, Manual} \cup {Interval(s) : s \in Secs \ {0}}

Init ==
    /\ mode = Automine
    /\ modeRx = "seen"
    /\ triggers = 0
    /\ call = [c \in Clients |-> "idle"]
    /\ arg = [c \in Clients |-> "disable"]
    /\ calls = 0 /\ overlapped = "no"
    /\ automine = "unstarted"
    /\ interval = "read"
    /\ pool = {} /\ announcing = {} /\ notifs = 0 /\ early = {} /\ leftOut = {}
    /\ miner = "idle" /\ block = {} /\ mined = {} /\ failures = 0
    /\ staleFires = 0

Trigger == triggers' = triggers + 1

\* self.mode_tx.send_replace(m)
SendReplace(m) ==
    /\ mode' = m
    /\ modeRx' = "unseen"
    /\ staleFires' = IF m.kind = "Interval" THEN 0 ELSE staleFires

-----------------------------------------------------------------------------
(* RPC handlers *)

\* The start of a handler; every call uses up one of MaxCalls.
NewCall(c) ==
    /\ call[c] = "idle"
    /\ calls < MaxCalls
    /\ calls' = calls + 1
    /\ overlapped' = IF \E d \in Clients : call[d] # "idle" THEN "yes" ELSE overlapped

\* anvil_set_automine(enabled) is called.
SetAutomine(c, enabled) ==
    /\ NewCall(c)
    /\ call' = [call EXCEPT ![c] = "read"]
    /\ arg' = [arg EXCEPT ![c] = enabled]
    /\ UNCHANGED <<modeVars, triggers, automine, interval, poolVars, minerVars>>

\* Mutant: disabling always stores Manual, whatever the mode.
SetAutomineReadAlwaysStores(c) ==
    /\ call[c] = "read"
    /\ call' = [call EXCEPT ![c] =
         IF arg[c] = "enable" /\ mode = Automine THEN "count" ELSE "store"]
    /\ UNCHANGED <<modeVars, triggers, arg, calls, overlapped, automine,
                   interval, poolVars, minerVars>>

\* set_automine reads the mode and decides; the read lock is released before
\* the store.
SetAutomineRead(c) ==
    /\ call[c] = "read"
    /\ call' = [call EXCEPT ![c] =
         IF (arg[c] = "enable") # (mode = Automine) THEN "store"
         ELSE IF arg[c] = "enable" THEN "count" ELSE "idle"]
    /\ UNCHANGED <<modeVars, triggers, arg, calls, overlapped, automine,
                   interval, poolVars, minerVars>>

\* set_automine stores the mode it decided on.
SetAutomineStore(c) ==
    /\ call[c] = "store"
    /\ SendReplace(IF arg[c] = "enable" THEN Automine ELSE Manual)
    /\ call' = [call EXCEPT ![c] = IF arg[c] = "enable" THEN "count" ELSE "idle"]
    /\ UNCHANGED <<triggers, arg, calls, overlapped, automine, interval, poolVars,
                   minerVars>>

\* Mutant: the handler returns without looking at the pool.
SetAutomineNoCount(c) ==
    /\ call[c] = "count"
    /\ call' = [call EXCEPT ![c] = "idle"]
    /\ UNCHANGED <<modeVars, triggers, arg, calls, overlapped, automine,
                   interval, poolVars, minerVars>>

\* The handler looks for pending transactions.
SetAutomineCount(c) ==
    /\ call[c] = "count"
    /\ call' = [call EXCEPT ![c] = IF pool # {} THEN "trigger" ELSE "idle"]
    /\ UNCHANGED <<modeVars, triggers, arg, calls, overlapped, automine,
                   interval, poolVars, minerVars>>

SetAutomineTrigger(c) ==
    /\ call[c] = "trigger"
    /\ Trigger
    /\ call' = [call EXCEPT ![c] = "idle"]
    /\ UNCHANGED <<modeVars, arg, calls, overlapped, automine, interval, poolVars,
                   minerVars>>

\* anvil_set_interval_mining(secs)
SetIntervalMining(c, secs) ==
    /\ NewCall(c)
    /\ SendReplace(IF secs = 0 THEN Manual ELSE Interval(secs))
    /\ UNCHANGED <<triggers, call, arg, automine, interval, poolVars, minerVars>>

\* One trigger of mine_blocks, the loop of anvil_mine (see MineRpc).
MineTrigger(c) ==
    /\ NewCall(c)
    /\ Trigger
    /\ UNCHANGED <<modeVars, call, arg, automine, interval, poolVars, minerVars>>

\* anvil_drop_transaction and its relatives take a transaction out of the pool.
DropTransaction(c, t) ==
    /\ NewCall(c)
    /\ t \in pool
    /\ pool' = pool \ {t}
    /\ early' = early \ {t} /\ leftOut' = leftOut \ {t}
    /\ UNCHANGED <<modeVars, triggers, call, arg, automine, interval,
                   announcing, notifs, minerVars>>

-----------------------------------------------------------------------------
(* run_automine_task *)

\* The task is spawned after the node, its RPC server and its pool run;
\* it subscribes to the pool's pending transactions.
AutomineStart ==
    /\ automine = "unstarted"
    /\ automine' = "recv"
    /\ UNCHANGED <<modeVars, triggers, callVars, interval, poolVars, minerVars>>

\* Mutant: the receiver is polled without waiting for a message.
AutomineRecvNoWait ==
    /\ automine = "recv"
    /\ notifs' = notifs - 1
    /\ automine' = "mode"
    /\ UNCHANGED <<modeVars, triggers, callVars, interval, pool, announcing,
                   early, leftOut, minerVars>>

\* pending_txs.recv().await
AutomineRecv ==
    /\ automine = "recv"
    /\ notifs > 0
    /\ notifs' = notifs - 1
    /\ automine' = "mode"
    /\ UNCHANGED <<modeVars, triggers, callVars, interval, pool, announcing,
                   early, leftOut, minerVars>>

\* mining.is_automine() &&
AutomineCheckMode ==
    /\ automine = "mode"
    /\ automine' = IF mode = Automine THEN "count" ELSE "recv"
    /\ UNCHANGED <<modeVars, triggers, callVars, interval, poolVars, minerVars>>

\* Mutant: `> 1` for `> 0`.
AutomineCheckCountOffByOne ==
    /\ automine = "count"
    /\ automine' = IF Cardinality(pool) > 1 THEN "trigger" ELSE "recv"
    /\ UNCHANGED <<modeVars, triggers, callVars, interval, poolVars, minerVars>>

\* pool.pending_and_queued_txn_count().0 > 0
AutomineCheckCount ==
    /\ automine = "count"
    /\ automine' = IF pool # {} THEN "trigger" ELSE "recv"
    /\ UNCHANGED <<modeVars, triggers, callVars, interval, poolVars, minerVars>>

AutomineTrigger ==
    /\ automine = "trigger"
    /\ Trigger
    /\ automine' = "recv"
    /\ UNCHANGED <<modeVars, callVars, interval, poolVars, minerVars>>

-----------------------------------------------------------------------------
(* run_interval_mining_task *)

\* let mode = *mode_rx.borrow_and_update()
IntervalRead ==
    /\ interval = "read"
    /\ interval' = IF mode.kind = "Interval" THEN "sleep" ELSE "idle"
    /\ modeRx' = "seen"
    /\ UNCHANGED <<mode, staleFires, triggers, callVars, automine, poolVars,
                   minerVars>>

\* mode_rx.changed().await completes, alone or as a branch of select!
IntervalChanged ==
    /\ interval \in {"idle", "sleep"}
    /\ modeRx = "unseen"
    /\ modeRx' = "seen"
    /\ interval' = "read"
    /\ UNCHANGED <<mode, staleFires, triggers, callVars, automine, poolVars,
                   minerVars>>

\* The sleep branch of select! completes.
IntervalElapsed ==
    /\ interval = "sleep"
    /\ triggers < MaxBacklog
    /\ interval' = "expired"
    /\ UNCHANGED <<modeVars, triggers, callVars, automine, poolVars, minerVars>>

\* if matches!(*mode_rx.borrow(), MiningMode::Interval(_))
IntervalCheckMode ==
    /\ interval = "expired"
    /\ interval' = IF mode.kind = "Interval" THEN "trigger" ELSE "read"
    /\ UNCHANGED <<modeVars, triggers, callVars, automine, poolVars, minerVars>>

\* The task triggers and goes on at the label `next`.
IntervalFire(next) ==
    /\ interval = "trigger"
    /\ Trigger
    /\ interval' = next
    /\ staleFires' = IF mode.kind = "Interval" THEN 0 ELSE IF staleFires = 0 THEN 1 ELSE 2
    /\ UNCHANGED <<mode, modeRx, callVars, automine, poolVars, minerVars>>

\* Mutant: after a block the task waits for a change of mode.
IntervalTriggerOnce == IntervalFire("idle")

IntervalTrigger == IntervalFire("read")

\* Mutant: the task sleeps again on the mode it read first.
IntervalTaskCachedMode ==
    \/ IntervalRead \/ IntervalChanged \/ IntervalElapsed
    \/ /\ interval = "expired"
       /\ interval' = "trigger"
       /\ UNCHANGED <<modeVars, triggers, callVars, automine, poolVars, minerVars>>
    \/ IntervalFire("sleep")

\* One step of run_interval_mining_task.
IntervalTask ==
    IntervalRead \/ IntervalChanged \/ IntervalElapsed \/ IntervalCheckMode
    \/ IntervalTrigger

-----------------------------------------------------------------------------
(* The transaction pool and the local miner: external *)

\* A transaction becomes executable in the pool.
PoolInsert(t) ==
    /\ t \notin pool \cup announcing \cup mined
    /\ pool' = pool \cup {t}
    /\ announcing' = announcing \cup {t}
    /\ UNCHANGED <<modeVars, triggers, callVars, automine, interval, notifs,
                   early, leftOut, minerVars>>

\* The pool tells its listeners; without one, or when the channel is full,
\* the message is lost.
PoolAnnounce(t) ==
    /\ t \in announcing
    /\ announcing' = announcing \ {t}
    /\ IF automine = "unstarted"
       THEN early' = early \cup ({t} \cap pool) /\ UNCHANGED notifs
       ELSE /\ notifs' = IF notifs < ListenerCap THEN notifs + 1 ELSE notifs
            /\ UNCHANGED early
    /\ UNCHANGED <<modeVars, triggers, callVars, automine, interval, pool,
                   leftOut, minerVars>>

\* The pool learns of the new head and forgets what it holds.
PoolOnNewHead ==
    /\ pool \cap mined # {}
    /\ pool' = pool \ mined
    /\ early' = early \ mined /\ leftOut' = leftOut \ mined
    /\ UNCHANGED <<modeVars, triggers, callVars, automine, interval, announcing,
                   notifs, minerVars>>

\* The miner takes one item of the trigger stream.
MinerTake ==
    /\ miner = "idle"
    /\ triggers > 0
    /\ triggers' = triggers - 1
    /\ miner' = "taken"
    /\ leftOut' = {}
    /\ UNCHANGED <<modeVars, callVars, automine, interval, pool, announcing,
                   notifs, early, block, mined, failures>>

\* The payload is built from the pool's executable transactions, those that fit
\* under the block's gas limit (next_evm_env): none, some or all of them.
MinerBuild ==
    /\ miner = "taken"
    /\ block' \in SUBSET (pool \ mined)
    /\ leftOut' = pool \ (mined \cup block')
    /\ miner' = "building"
    /\ UNCHANGED <<modeVars, triggers, callVars, automine, interval, pool,
                   announcing, notifs, early, mined, failures>>

\* The block becomes the head.
MinerCommit ==
    /\ miner = "building"
    /\ mined' = mined \cup block
    /\ block' = {}
    /\ miner' = "idle"
    /\ UNCHANGED <<modeVars, triggers, callVars, automine, interval, poolVars,
                   failures>>

\* Building or executing the payload fails; the request is gone.
MinerFail ==
    /\ miner \in {"taken", "building"}
    /\ failures < MaxFailures
    /\ failures' = failures + 1
    /\ block' = {}
    /\ miner' = "idle"
    /\ UNCHANGED <<modeVars, triggers, callVars, automine, interval, poolVars, mined>>

-----------------------------------------------------------------------------
SetAutomineStep(c) ==
    \/ SetAutomineRead(c)
    \/ SetAutomineStore(c)
    \/ SetAutomineCount(c)
    \/ SetAutomineTrigger(c)

Client(c) ==
    \/ \E enabled \in {"enable", "disable"} : SetAutomine(c, enabled)
    \/ SetAutomineStep(c)
    \/ \E s \in Secs : SetIntervalMining(c, s)
    \/ MineTrigger(c)
    \/ \E t \in Txs : DropTransaction(c, t)

AutomineTask ==
    AutomineRecv \/ AutomineCheckMode \/ AutomineCheckCount \/ AutomineTrigger

Pool == (\E t \in Txs : PoolInsert(t) \/ PoolAnnounce(t)) \/ PoolOnNewHead

Miner == MinerTake \/ MinerBuild \/ MinerCommit

Next ==
    \/ \E c \in Clients : Client(c)
    \/ AutomineStart \/ AutomineTask
    \/ IntervalTask
    \/ Pool
    \/ Miner \/ MinerFail

SafeSpec == Init /\ [][Next]_vars

(* Handlers that were called and both tasks keep running, the timer        *)
(* expires, the pool announces what it inserted and follows the head, the  *)
(* miner answers a trigger.  Nobody has to call anything.                  *)
Fairness ==
    /\ \A c \in Clients : WF_vars(SetAutomineStep(c))
    /\ WF_vars(AutomineTask)
    /\ WF_vars(IntervalTask)
    /\ \A t \in Txs : WF_vars(PoolAnnounce(t))
    /\ WF_vars(PoolOnNewHead)
    /\ WF_vars(Miner)

Spec == SafeSpec /\ Fairness

-----------------------------------------------------------------------------
TypeOK ==
    /\ mode \in MiningMode
    /\ modeRx \in {"seen", "unseen"}
    /\ triggers \in Nat
    /\ call \in [Clients -> {"idle", "read", "store", "count", "trigger"}]
    /\ arg \in [Clients -> {"enable", "disable"}]
    /\ calls \in 0..MaxCalls /\ overlapped \in {"no", "yes"}
    /\ automine \in {"unstarted", "recv", "mode", "count", "trigger"}
    /\ interval \in {"read", "idle", "sleep", "expired", "trigger"}
    /\ pool \subseteq Txs /\ announcing \subseteq Txs /\ early \subseteq Txs
    /\ leftOut \subseteq Txs
    /\ notifs \in 0..ListenerCap
    /\ miner \in {"idle", "taken", "building"}
    /\ block \subseteq Txs /\ mined \subseteq Txs
    /\ failures \in 0..MaxFailures
    /\ staleFires \in 0..2

\* Something that is under way will put t into a block.
OnItsWay(t) ==
    \/ t \in announcing
    \/ notifs > 0
    \/ automine \in {"mode", "count", "trigger"}
    \/ \E c \in Clients : call[c] \in {"count", "trigger"}
    \/ triggers > 0
    \/ miner = "taken"
    \/ t \in block

(* In automine mode an executable transaction is never left behind: there  *)
(* is always a message, a check, a trigger or a block under way for it.    *)
(* The exceptions are the ones the code has: transactions announced before *)
(* run_automine_task subscribed, blocks the miner failed to build, and     *)
(* transactions the last block had no room for: a trigger is one block,    *)
(* and neither run_automine_task nor anvil_set_automine triggers again for *)
(* what it left over.  (The next message or call does, for all of them.)   *)
(* This is about the check-then-trigger sequences of run_automine_task and *)
(* anvil_set_automine running against each other.                          *)
NoStrandedTx ==
    mode = Automine /\ failures = 0 =>
        \A t \in pool \ (mined \cup early \cup leftOut) : OnItsWay(t)

(* After the mode left Interval the interval task requests at most one     *)
(* more block: the one it had decided on before the change.                *)
StaleIntervalAtMostOnce == staleFires <= 1

(* "disabling automine should not clear interval mining" (src/main.rs:423) *)
(* Only set_interval_mining(0) turns interval mining into manual mode:     *)
(* set_automine(false), which decides on one read of the mode and stores   *)
(* on another access to it, does not.  (Until two calls overlap: an        *)
(* interval set between the two accesses is overwritten.)                  *)
DisableKeepsInterval ==
    [][overlapped = "no" /\ mode.kind = "Interval" /\ mode'.kind = "Manual" =>
           \E c \in Clients : SetIntervalMining(c, 0)]_vars

(* In automine mode an executable transaction is mined, or a block is      *)
(* built that has no room for it, unless somebody leaves the mode or drops *)
(* it, or it was announced too early.  (What found no room waits for the   *)
(* next trigger, whoever it is from.)                                      *)
AutomineMines ==
    \A t \in Txs : t \in pool \ (early \cup leftOut) ~>
        t \in mined \cup early \cup leftOut \/ t \notin pool \/ mode # Automine

(* While interval mining is on, blocks keep being requested.               *)
IntervalProduces ==
    <>[](mode.kind = "Interval") => []<>(interval = "trigger")

(* "manual mode should not keep producing interval blocks"                 *)
(* (src/main.rs:474): in manual mode the miner comes to rest.              *)
ManualComesToRest ==
    <>[](mode = Manual) => <>[](triggers = 0 /\ miner = "idle")
=============================================================================
