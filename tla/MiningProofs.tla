---------------------------- MODULE MiningProofs ----------------------------
(***************************************************************************)
(* Proofs about Mining, for any number of transactions, callers, interval  *)
(* lengths and any listener capacity of at least one.                      *)
(***************************************************************************)
EXTENDS Mining, TLAPS

(* What makes StaleIntervalAtMostOnce inductive: the stale request ends    *)
(* the decision it came from, and a new decision needs the mode Interval.  *)
StaleIntervalInv ==
    /\ StaleIntervalAtMostOnce
    /\ staleFires = 1 => interval # "trigger" /\ mode.kind # "Interval"

-----------------------------------------------------------------------------
(* Next preserves the type invariant.                                      *)
LEMMA TypeStep == TypeOK /\ [Next]_vars => TypeOK'
<1> SUFFICES ASSUME TypeOK, [Next]_vars PROVE TypeOK'
  OBVIOUS
<1> USE MiningAssumption DEF TypeOK, MiningMode, Automine, Manual, Interval,
        callVars, poolVars, minerVars, modeVars
<1>1. ASSUME NEW c \in Clients, NEW e \in {"enable", "disable"}, SetAutomine(c, e)
      PROVE TypeOK'
  BY <1>1 DEF SetAutomine, NewCall
<1>2. ASSUME NEW c \in Clients, SetAutomineStep(c) PROVE TypeOK'
  <2>1. CASE SetAutomineRead(c)
    BY <2>1 DEF SetAutomineRead
  <2>2. CASE SetAutomineStore(c)
    BY <2>2 DEF SetAutomineStore, SendReplace
  <2>3. CASE SetAutomineCount(c)
    BY <2>3 DEF SetAutomineCount
  <2>4. CASE SetAutomineTrigger(c)
    BY <2>4 DEF SetAutomineTrigger, Trigger
  <2> QED
    BY <1>2, <2>1, <2>2, <2>3, <2>4 DEF SetAutomineStep
<1>3. ASSUME NEW c \in Clients, NEW s \in Secs, SetIntervalMining(c, s)
      PROVE TypeOK'
  BY <1>3 DEF SetIntervalMining, NewCall, SendReplace
<1>4. ASSUME NEW c \in Clients, MineTrigger(c) PROVE TypeOK'
  BY <1>4 DEF MineTrigger, NewCall, Trigger
<1>5. ASSUME NEW c \in Clients, NEW t \in Txs, DropTransaction(c, t) PROVE TypeOK'
  BY <1>5 DEF DropTransaction, NewCall
<1>6. CASE AutomineStart \/ AutomineTask
  BY <1>6 DEF AutomineStart, AutomineTask, AutomineRecv, AutomineCheckMode,
              AutomineCheckCount, AutomineTrigger, Trigger
<1>7. CASE IntervalTask
  BY <1>7 DEF IntervalTask, IntervalRead, IntervalChanged, IntervalElapsed,
              IntervalCheckMode, IntervalTrigger, IntervalFire, Trigger
<1>8. CASE Pool
  BY <1>8 DEF Pool, PoolInsert, PoolAnnounce, PoolOnNewHead
<1>9. CASE Miner \/ MinerFail
  BY <1>9 DEF Miner, MinerTake, MinerBuild, MinerCommit, MinerFail
<1>10. CASE UNCHANGED vars
  BY <1>10 DEF vars
<1> QED
  BY <1>1, <1>2, <1>3, <1>4, <1>5, <1>6, <1>7, <1>8, <1>9, <1>10 DEF Next, Client

(* Type correctness: in particular the listener's channel never holds more *)
(* than its capacity.                                                      *)
THEOREM TypeCorrect == SafeSpec => []TypeOK
<1>1. Init => TypeOK
  BY MiningAssumption DEF Init, TypeOK, MiningMode, Automine
<1> QED
  BY <1>1, TypeStep, PTL DEF SafeSpec

-----------------------------------------------------------------------------
(* NoStrandedTx is inductive with the type invariant.                      *)
LEMMA StrandedStep == TypeOK /\ NoStrandedTx /\ [Next]_vars => NoStrandedTx'
<1> SUFFICES ASSUME TypeOK, NoStrandedTx, [Next]_vars,
                    mode' = Automine, failures' = 0,
                    NEW t \in (pool \ (mined \cup early \cup leftOut))'
             PROVE OnItsWay(t)'
  BY DEF NoStrandedTx
<1> USE MiningAssumption DEF OnItsWay, callVars, poolVars, minerVars, modeVars
\* A step that neither moves t nor the mode keeps the old reason.
<1>0. ASSUME mode = Automine, failures = 0, t \in pool \ (mined \cup early \cup leftOut)
      PROVE OnItsWay(t)
  BY <1>0 DEF NoStrandedTx
<1>1. ASSUME NEW c \in Clients, NEW e \in {"enable", "disable"}, SetAutomine(c, e)
      PROVE OnItsWay(t)'
  BY <1>0, <1>1 DEF SetAutomine, NewCall, TypeOK
<1>2. ASSUME NEW c \in Clients, SetAutomineStep(c) PROVE OnItsWay(t)'
  <2>1. CASE SetAutomineRead(c)
    BY <1>0, <2>1 DEF SetAutomineRead, TypeOK
  <2>2. CASE SetAutomineStore(c)
    <3>1. arg[c] = "enable"
      BY <2>2 DEF SetAutomineStore, SendReplace, Automine, Manual
    <3>2. call'[c] = "count"
      BY <2>2, <3>1 DEF SetAutomineStore, TypeOK
    <3> QED
      BY <3>2
  <2>3. CASE SetAutomineCount(c)
    BY <1>0, <2>3 DEF SetAutomineCount, TypeOK
  <2>4. CASE SetAutomineTrigger(c)
    BY <2>4 DEF SetAutomineTrigger, Trigger, TypeOK
  <2> QED
    BY <1>2, <2>1, <2>2, <2>3, <2>4 DEF SetAutomineStep
<1>3. ASSUME NEW c \in Clients, NEW s \in Secs, SetIntervalMining(c, s)
      PROVE OnItsWay(t)'
  BY <1>3 DEF SetIntervalMining, SendReplace, Automine, Manual, Interval
<1>4. ASSUME NEW c \in Clients, MineTrigger(c) PROVE OnItsWay(t)'
  BY <1>4 DEF MineTrigger, Trigger, TypeOK
<1>5. ASSUME NEW c \in Clients, NEW u \in Txs, DropTransaction(c, u)
      PROVE OnItsWay(t)'
  BY <1>0, <1>5 DEF DropTransaction
<1>6. CASE AutomineStart \/ AutomineTask
  BY <1>0, <1>6 DEF AutomineStart, AutomineTask, AutomineRecv,
              AutomineCheckMode, AutomineCheckCount, AutomineTrigger, Trigger, TypeOK
<1>7. CASE IntervalTask
  BY <1>0, <1>7 DEF IntervalTask, IntervalRead, IntervalChanged,
              IntervalElapsed, IntervalCheckMode, IntervalTrigger, IntervalFire,
              Trigger, TypeOK
<1>8. CASE Pool
  BY <1>0, <1>8 DEF Pool, PoolInsert, PoolAnnounce, PoolOnNewHead, TypeOK
<1>9. CASE Miner \/ MinerFail
  BY <1>0, <1>9 DEF Miner, MinerTake, MinerBuild, MinerCommit, MinerFail, TypeOK
<1>10. CASE UNCHANGED vars
  BY <1>0, <1>10 DEF vars
<1> QED
  BY <1>1, <1>2, <1>3, <1>4, <1>5, <1>6, <1>7, <1>8, <1>9, <1>10 DEF Next, Client

(* However run_automine_task, anvil_set_automine, the pool and the miner   *)
(* interleave and whatever fits into a block, no announced transaction     *)
(* that a block has not left out for lack of room is without something     *)
(* under way for it while automine is on.                                  *)
THEOREM StrandedTheorem == SafeSpec => []NoStrandedTx
<1>1. Init => NoStrandedTx
  BY DEF Init, NoStrandedTx
<1> QED
  BY <1>1, StrandedStep, TypeCorrect, PTL DEF SafeSpec

-----------------------------------------------------------------------------
(* Next preserves StaleIntervalInv.                                        *)
LEMMA StaleStep == TypeOK /\ StaleIntervalInv /\ [Next]_vars => StaleIntervalInv'
<1> SUFFICES ASSUME TypeOK, StaleIntervalInv, [Next]_vars PROVE StaleIntervalInv'
  OBVIOUS
<1> USE DEF StaleIntervalInv, StaleIntervalAtMostOnce, modeVars
<1>1. CASE UNCHANGED <<mode, staleFires, interval>>
  BY <1>1
<1>2. ASSUME NEW c \in Clients, SetAutomineStore(c) PROVE StaleIntervalInv'
  BY <1>2 DEF SetAutomineStore, SendReplace, Automine, Manual
<1>3. ASSUME NEW c \in Clients, NEW s \in Secs, SetIntervalMining(c, s)
      PROVE StaleIntervalInv'
  BY <1>3 DEF SetIntervalMining, SendReplace, Manual, Interval
<1>4. CASE IntervalTask
  <2>1. staleFires \in {0, 1}
    BY DEF TypeOK
  <2> QED
    BY <1>4, <2>1 DEF IntervalTask, IntervalRead, IntervalChanged,
        IntervalElapsed, IntervalCheckMode, IntervalTrigger, IntervalFire
<1>5. ASSUME NEW c \in Clients, NEW e \in {"enable", "disable"}, SetAutomine(c, e)
      PROVE UNCHANGED <<mode, staleFires, interval>>
  BY <1>5 DEF SetAutomine
<1>6. ASSUME NEW c \in Clients,
             SetAutomineRead(c) \/ SetAutomineCount(c) \/ SetAutomineTrigger(c)
      PROVE UNCHANGED <<mode, staleFires, interval>>
  BY <1>6 DEF SetAutomineRead, SetAutomineCount, SetAutomineTrigger
<1>7. ASSUME NEW c \in Clients,
             MineTrigger(c) \/ \E t \in Txs : DropTransaction(c, t)
      PROVE UNCHANGED <<mode, staleFires, interval>>
  BY <1>7 DEF MineTrigger, DropTransaction
<1>8. CASE AutomineStart \/ AutomineTask
  BY <1>8, <1>1 DEF AutomineStart, AutomineTask, AutomineRecv,
                    AutomineCheckMode, AutomineCheckCount, AutomineTrigger
<1>9. CASE Pool
  BY <1>9, <1>1 DEF Pool, PoolInsert, PoolAnnounce, PoolOnNewHead
<1>10. CASE Miner \/ MinerFail
  BY <1>10, <1>1 DEF Miner, MinerTake, MinerBuild, MinerCommit, MinerFail
<1>11. CASE UNCHANGED vars
  BY <1>11, <1>1 DEF vars
<1> QED
  BY <1>1, <1>2, <1>3, <1>4, <1>5, <1>6, <1>7, <1>8, <1>9, <1>10, <1>11
  DEF Next, Client, SetAutomineStep

(* Once the mode is no longer Interval, the interval task requests at most *)
(* the one block it had decided on, however often the mode changes.        *)
THEOREM StaleTheorem == SafeSpec => []StaleIntervalAtMostOnce
<1>1. Init => StaleIntervalInv
  BY DEF Init, StaleIntervalInv, StaleIntervalAtMostOnce
<1>2. StaleIntervalInv => StaleIntervalAtMostOnce
  BY DEF StaleIntervalInv
<1> QED
  BY <1>1, <1>2, StaleStep, TypeCorrect, PTL DEF SafeSpec

-----------------------------------------------------------------------------
(* Disabling automine *)

\* Until two calls overlap, at most one is in progress, and the mode it is to
\* replace with Manual is still the Automine it read.
DecisionInv == overlapped = "no" =>
    /\ \A c, d \in Clients : call[c] # "idle" /\ call[d] # "idle" => c = d
    /\ \A c \in Clients : call[c] = "store" /\ arg[c] = "disable" => mode = Automine

LEMMA CallDecision ==
    ASSUME TypeOK, DecisionInv, NEW c \in Clients, Client(c)
    PROVE  DecisionInv'
<1> SUFFICES ASSUME overlapped' = "no" PROVE DecisionInv'
  BY DEF DecisionInv
<1> USE DEF TypeOK, DecisionInv, modeVars
<1>1. CASE NewCall(c)
  <2>1. \A d \in Clients : call[d] = "idle" BY <1>1 DEF NewCall
  <2>2. \A d \in Clients : call'[d] \in {"idle", "read"}
    BY <2>1, <1>1 DEF Client, SetAutomine, SetAutomineStep, SetAutomineRead, SetAutomineStore,
       SetAutomineCount, SetAutomineTrigger, SetIntervalMining, MineTrigger, DropTransaction
  <2>3. \A d \in Clients \ {c} : call'[d] = "idle"
    BY <2>1, <1>1 DEF Client, SetAutomine, SetAutomineStep, SetAutomineRead, SetAutomineStore,
       SetAutomineCount, SetAutomineTrigger, SetIntervalMining, MineTrigger, DropTransaction
  <2> QED BY <2>2, <2>3
<1>2. CASE SetAutomineStep(c)
  <2>1. overlapped = "no" /\ call[c] # "idle"
    BY <1>2 DEF SetAutomineStep, SetAutomineRead, SetAutomineStore, SetAutomineCount,
                SetAutomineTrigger
  <2>2. \A d \in Clients \ {c} : call[d] = "idle" BY <2>1
  <2>3. CASE SetAutomineRead(c) BY <2>1, <2>2, <2>3 DEF SetAutomineRead
  <2>4. CASE SetAutomineStore(c) BY <2>1, <2>2, <2>4 DEF SetAutomineStore
  <2>5. CASE SetAutomineCount(c) BY <2>1, <2>2, <2>5 DEF SetAutomineCount
  <2>6. CASE SetAutomineTrigger(c) BY <2>1, <2>2, <2>6 DEF SetAutomineTrigger
  <2> QED BY <1>2, <2>3, <2>4, <2>5, <2>6 DEF SetAutomineStep
<1> QED
  BY <1>1, <1>2 DEF Client, SetAutomine, SetIntervalMining, MineTrigger, DropTransaction

\* The tasks, the pool and the miner change neither the mode nor a call.
LEMMA OthersKeepMode ==
    ASSUME AutomineStart \/ AutomineTask \/ IntervalTask \/ Pool \/ Miner \/ MinerFail
           \/ UNCHANGED vars
    PROVE  UNCHANGED <<mode, callVars>>
  BY DEF AutomineStart, AutomineTask, AutomineRecv, AutomineCheckMode, AutomineCheckCount,
         AutomineTrigger, IntervalTask, IntervalRead, IntervalChanged, IntervalElapsed,
         IntervalCheckMode, IntervalTrigger, IntervalFire, Pool, PoolInsert, PoolAnnounce,
         PoolOnNewHead, Miner, MinerTake, MinerBuild, MinerCommit, MinerFail, modeVars, vars

LEMMA DecisionStep == TypeOK /\ DecisionInv /\ [Next]_vars => DecisionInv'
<1> SUFFICES ASSUME TypeOK, DecisionInv, [Next]_vars PROVE DecisionInv'
  OBVIOUS
<1>1. CASE UNCHANGED <<mode, callVars>> BY <1>1 DEF DecisionInv, callVars
<1> QED BY <1>1, CallDecision, OthersKeepMode DEF Next

(* Until two calls overlap, set_automine(false) never clears interval      *)
(* mining: Interval turns into Manual only by set_interval_mining(0).      *)
THEOREM DisableTheorem == SafeSpec => DisableKeepsInterval
<1> DEFINE Kept == overlapped = "no" /\ mode.kind = "Interval" /\ mode'.kind = "Manual" =>
                      \E c \in Clients : SetIntervalMining(c, 0)
<1>1. Init => DecisionInv BY DEF Init, DecisionInv
<1>2. ASSUME TypeOK, DecisionInv, [Next]_vars PROVE [Kept]_vars
  <2> SUFFICES ASSUME overlapped = "no", mode.kind = "Interval", mode'.kind = "Manual"
               PROVE  \E c \in Clients : SetIntervalMining(c, 0)
    OBVIOUS
  <2>1. PICK c \in Clients : Client(c) BY <1>2, OthersKeepMode DEF Next
  <2>2. ~SetAutomineStep(c)
    BY <1>2 DEF SetAutomineStep, SetAutomineRead, SetAutomineStore, SetAutomineCount,
                SetAutomineTrigger, SendReplace, Automine, Manual, DecisionInv, modeVars, TypeOK
  <2>3. PICK s \in Secs : SetIntervalMining(c, s)
    BY <2>1, <2>2 DEF Client, SetAutomine, MineTrigger, DropTransaction, modeVars
  <2>4. s = 0 BY <2>3 DEF SetIntervalMining, SendReplace, Interval
  <2> QED BY <2>3, <2>4
<1> QED
  BY <1>1, <1>2, DecisionStep, TypeCorrect, PTL DEF SafeSpec, DisableKeepsInterval

-----------------------------------------------------------------------------
(* The trigger queue *)

Counter == INSTANCE TriggerCounter WITH pending <- triggers

(* What the tasks, the handlers and the miner do to the trigger queue is   *)
(* what MiningTriggers offers: they add one request at a time, and the     *)
(* miner takes one that is there.  With CounterRefinement of the stream,   *)
(* Mining may stand on the counter instead of the atomics.                 *)
THEOREM CounterUse == SafeSpec => Counter!SafeSpec
<1>1. Init => Counter!Init
  BY DEF Init, Counter!Init
<1>2. [Next]_vars => [Counter!Next]_triggers
  <2> SUFFICES ASSUME [Next]_vars PROVE [Counter!Next]_triggers
    OBVIOUS
  <2> USE DEF Counter!Next, Counter!Trigger, Counter!Take, Trigger
  <2>1. ASSUME NEW c \in Clients, Client(c) PROVE [Counter!Next]_triggers
    BY <2>1 DEF Client, SetAutomine, SetAutomineStep, SetAutomineRead, SetAutomineStore,
                SetAutomineCount, SetAutomineTrigger, SetIntervalMining, MineTrigger,
                DropTransaction
  <2>2. CASE AutomineStart \/ AutomineTask
    BY <2>2 DEF AutomineStart, AutomineTask, AutomineRecv, AutomineCheckMode,
                AutomineCheckCount, AutomineTrigger
  <2>3. CASE IntervalTask
    BY <2>3 DEF IntervalTask, IntervalRead, IntervalChanged, IntervalElapsed,
                IntervalCheckMode, IntervalTrigger, IntervalFire
  <2>4. CASE Pool \/ Miner \/ MinerFail \/ UNCHANGED vars
    BY <2>4 DEF Pool, PoolInsert, PoolAnnounce, PoolOnNewHead, Miner, MinerTake,
                MinerBuild, MinerCommit, MinerFail, vars
  <2> QED
    BY <2>1, <2>2, <2>3, <2>4 DEF Next
<1> QED
  BY <1>1, <1>2, PTL DEF SafeSpec, Counter!SafeSpec
=============================================================================
