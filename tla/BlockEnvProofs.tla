---------------------------- MODULE BlockEnvProofs ----------------------------
(***************************************************************************)
(* Proofs about BlockEnv.                                                  *)
(***************************************************************************)
EXTENDS BlockEnv, TLAPS

\* A base fee not yet set, or still waiting, has not been taken.
UntakenInv ==
    /\ \A f \in 1..MaxSets : f > fees => takers[f] = 0
    /\ next_base_fee # 0 => next_base_fee <= fees /\ takers[next_base_fee] = 0

\* Settings only grow, so what a build reads is not older than it asked for.
FreshInv ==
    /\ asked.gas_limit <= gas_limit
    /\ pc[Miner] # "idle" => attributes >= asked.coinbase
    /\ pc[Miner] \in {"base_fee", "done"} => env[Miner].gas_limit >= asked.gas_limit

\* The build in progress is within the bound.
BoundInv == pc[Miner] # "idle" => blocks < MaxBlocks

IInv == TypeOK /\ BoundInv /\ UntakenInv /\ BaseFeeTakenOnce /\ FreshInv

LEMMA InitInv == Init => IInv
  BY BlockEnvAssumption
  DEF Init, IInv, TypeOK, BoundInv, UntakenInv, BaseFeeTakenOnce, FreshInv, Workers, Env, NoEnv

LEMMA SetInv ==
    ASSUME IInv, SetGasLimit \/ SetCoinbase \/ SetNextBaseFee
    PROVE  IInv'
<1> USE BlockEnvAssumption DEF IInv, TypeOK, BoundInv, workerVars, counters
<1>1. CASE SetGasLimit
  BY <1>1 DEF SetGasLimit, UntakenInv, BaseFeeTakenOnce, FreshInv, Env, Workers
<1>2. CASE SetCoinbase
  BY <1>2 DEF SetCoinbase, UntakenInv, BaseFeeTakenOnce, FreshInv
<1>3. CASE SetNextBaseFee
  BY <1>3 DEF SetNextBaseFee, UntakenInv, BaseFeeTakenOnce, FreshInv
<1> QED BY <1>1, <1>2, <1>3

LEMMA HookInv ==
    ASSUME IInv, Hook
    PROVE  IInv'
  BY BlockEnvAssumption
  DEF IInv, TypeOK, BoundInv, UntakenInv, BaseFeeTakenOnce, FreshInv, Hook, Goto, Workers, overrides,
      counters

LEMMA ReadInv ==
    ASSUME IInv, NEW r \in Readers, Read(r)
    PROVE  IInv'
  BY BlockEnvAssumption
  DEF IInv, TypeOK, BoundInv, UntakenInv, BaseFeeTakenOnce, FreshInv, Read, Goto, Workers, overrides

LEMMA EndInv ==
    ASSUME IInv, Commit \/ Discard \/ \E r \in Readers : Answer(r)
    PROVE  IInv'
<1> USE BlockEnvAssumption
    DEF IInv, TypeOK, BoundInv, UntakenInv, BaseFeeTakenOnce, FreshInv, Goto, Workers, Env, NoEnv,
        overrides, counters
<1>1. CASE Commit
  BY <1>1 DEF Commit
<1>2. ASSUME NEW r \in Readers, Answer(r) PROVE IInv'
  BY <1>2 DEF Answer
<1>3. CASE Discard
  BY <1>3 DEF Discard
<1> QED BY <1>1, <1>2, <1>3

LEMMA ReadGasLimitInv ==
    ASSUME IInv, NEW w \in Workers, ReadGasLimit(w)
    PROVE  IInv'
<1> USE BlockEnvAssumption DEF IInv, TypeOK, BoundInv, ReadGasLimit, Goto, Workers, Env, overrides
<1>1. env[w] \in Env OBVIOUS
<1>2. [env[w] EXCEPT !.gas_limit = gas_limit] \in Env BY <1>1
<1>3. env' \in [Workers -> Env] BY <1>2
<1>4. pc' \in [Workers -> {"idle", "gas_limit", "base_fee", "done"}] OBVIOUS
<1>5. failures' \in 0..MaxFailures
  <2>1. failures' = failures \/ (failures < MaxFailures /\ failures' = failures + 1) OBVIOUS
  <2>2. failures \in 0..MaxFailures OBVIOUS
  <2> HIDE DEF IInv, TypeOK, ReadGasLimit
  <2> QED BY <2>1, <2>2
<1>6. TypeOK' /\ BoundInv' BY <1>3, <1>4, <1>5
<1>7. UntakenInv' /\ BaseFeeTakenOnce' BY DEF UntakenInv, BaseFeeTakenOnce
<1>8. FreshInv'
  <2>1. FreshInv /\ pc[w] = "gas_limit" /\ UNCHANGED <<gas_limit, attributes, asked>>
    OBVIOUS
  <2>2. \/ pc'[w] = "base_fee" /\ env'[w].gas_limit = gas_limit
        \/ pc'[w] = "idle" /\ UNCHANGED env
    <3>1. \/ env' = [env EXCEPT ![w].gas_limit = gas_limit] /\ Goto(w, "base_fee")
          \/ Goto(w, "idle") /\ UNCHANGED env
      OBVIOUS
    <3>2. env \in [Workers -> Env] /\ w \in DOMAIN pc OBVIOUS
    <3> HIDE DEF IInv, TypeOK, BoundInv, ReadGasLimit
    <3> QED BY <1>1, <3>1, <3>2
  <2>3. \A v \in Workers \ {w} : pc'[v] = pc[v] /\ env'[v] = env[v] OBVIOUS
  <2>4. Miner \in Workers OBVIOUS
  <2>5. asked \in [gas_limit : 0..MaxSets, coinbase : 0..MaxSets] OBVIOUS
  <2>6. gas_limit \in 0..MaxSets /\ MaxSets \in Nat OBVIOUS
  <2> HIDE DEF IInv, TypeOK, BoundInv, ReadGasLimit, Env
  <2>7. asked.gas_limit \in Nat /\ gas_limit \in Nat BY <2>5, <2>6
  <2> QED BY <2>1, <2>2, <2>3, <2>4, <2>7 DEF FreshInv
<1> QED BY <1>6, <1>7, <1>8

LEMMA TakenType == TypeOK => Taken \in [1..MaxSets -> Nat]
<1> SUFFICES ASSUME TypeOK PROVE Taken \in [1..MaxSets -> Nat]
  OBVIOUS
<1>1. takers \in [1..MaxSets -> Nat] /\ next_base_fee \in 0..MaxSets BY DEF TypeOK
<1>2. ASSUME next_base_fee # 0
      PROVE  next_base_fee \in 1..MaxSets /\ takers[next_base_fee] + 1 \in Nat
  BY <1>1, <1>2, BlockEnvAssumption
<1> QED BY <1>1, <1>2 DEF Taken

\* A base fee that is taken was not taken before.
LEMMA TakenOnce ==
    ASSUME TypeOK, UntakenInv, BaseFeeTakenOnce,
           takers' = Taken, next_base_fee' = 0, fees' = fees
    PROVE  UntakenInv' /\ BaseFeeTakenOnce'
<1>1. takers \in [1..MaxSets -> Nat] /\ next_base_fee \in 0..MaxSets /\ fees \in 0..MaxSets
  BY DEF TypeOK
<1>2. CASE next_base_fee = 0
  BY <1>2 DEF Taken, UntakenInv, BaseFeeTakenOnce
<1>3. CASE next_base_fee # 0
  <2>1. /\ next_base_fee \in 1..MaxSets /\ next_base_fee <= fees
        /\ takers[next_base_fee] = 0
    BY <1>1, <1>3, BlockEnvAssumption DEF UntakenInv
  <2>2. takers' = [takers EXCEPT ![next_base_fee] = 1]
    BY <1>3, <2>1 DEF Taken
  <2>3. \A f \in 1..MaxSets : takers'[f] = IF f = next_base_fee THEN 1 ELSE takers[f]
    BY <1>1, <2>2
  <2>4. BaseFeeTakenOnce' BY <2>3 DEF BaseFeeTakenOnce
  <2>5. UntakenInv' BY <1>1, <2>1, <2>3 DEF UntakenInv
  <2> QED BY <2>4, <2>5
<1> QED BY <1>2, <1>3

LEMMA TakeInv ==
    ASSUME IInv, NEW w \in Workers, TakeNextBaseFee(w)
    PROVE  IInv'
<1>1. TypeOK /\ UntakenInv /\ BaseFeeTakenOnce BY DEF IInv
<1>2. UntakenInv' /\ BaseFeeTakenOnce'
  BY <1>1, TakenOnce DEF TakeNextBaseFee
<1>3. FreshInv'
  BY BlockEnvAssumption
  DEF IInv, TypeOK, FreshInv, TakeNextBaseFee, Goto, Workers, Env, counters
<1>4. takers' \in [1..MaxSets -> Nat] BY <1>1, TakenType DEF TakeNextBaseFee
<1>5. env' \in [Workers -> Env]
  <2>1. env[w] \in Env BY <1>1 DEF TypeOK
  <2>2. [env[w] EXCEPT !.base_fee = next_base_fee] \in Env BY <1>1, <2>1 DEF Env, TypeOK
  <2> QED BY <1>1, <2>2 DEF TypeOK, TakeNextBaseFee
<1>6. pc' \in [Workers -> {"idle", "gas_limit", "base_fee", "done"}]
  BY <1>1 DEF TypeOK, TakeNextBaseFee, Goto
<1>7. next_base_fee' \in 0..MaxSets BY BlockEnvAssumption DEF TakeNextBaseFee
<1>8. TypeOK' BY <1>1, <1>4, <1>5, <1>6, <1>7 DEF TypeOK, TakeNextBaseFee, counters
<1>9. BoundInv'
  BY <1>1 DEF IInv, BoundInv, TypeOK, TakeNextBaseFee, Goto, counters
<1> QED BY <1>2, <1>3, <1>8, <1>9 DEF IInv

LEMMA NextInv == IInv /\ [Next]_vars => IInv'
<1> SUFFICES ASSUME IInv, [Next]_vars PROVE IInv'
  OBVIOUS
<1>1. CASE UNCHANGED vars
  BY <1>1
  DEF vars, overrides, workerVars, counters, IInv, TypeOK, BoundInv, UntakenInv, BaseFeeTakenOnce,
      FreshInv
<1> QED
  BY <1>1, SetInv, HookInv, ReadInv, EndInv, ReadGasLimitInv, TakeInv DEF Next

LEMMA Invariance == Spec => []IInv
  BY InitInv, NextInv, PTL DEF Spec

(* Overrides, environments and counters keep their types.                  *)
THEOREM TypeCorrect == Spec => []TypeOK
<1>1. IInv => TypeOK BY DEF IInv
<1> QED BY <1>1, Invariance, PTL

(* However many workers build environments at once, no base fee override   *)
(* is given to two of them.                                                *)
THEOREM TakenOnceTheorem == Spec => []BaseFeeTakenOnce
<1>1. IInv => BaseFeeTakenOnce BY DEF IInv
<1> QED BY <1>1, Invariance, PTL

(* A block never has an older coinbase or gas limit than the ones in force *)
(* when its build began, whatever is set while it is built.                *)
THEOREM FreshTheorem == Spec => []SettingsNotStale
<1>1. IInv => SettingsNotStale BY DEF IInv, FreshInv, SettingsNotStale
<1> QED BY <1>1, Invariance, PTL

-----------------------------------------------------------------------------
(* The base fee, while only the miner builds environments *)

\* A base fee is in the miner's hands only after it was taken, and readers
\* that were never asked hold nothing.
OwedInv ==
    reads = 0 /\ discards = 0 =>
        /\ BaseFeeReachesBlock
        /\ \A r \in Readers : pc[r] = "idle"
        /\ pc[Miner] # "done" => env[Miner].base_fee = 0
        /\ env[Miner].base_fee <= fees
        /\ next_base_fee # 0 => next_base_fee = owed /\ env[Miner].base_fee < next_base_fee

LEMMA NextOwed ==
    ASSUME IInv, OwedInv, [Next]_vars
    PROVE  OwedInv'
<1> SUFFICES ASSUME reads' = 0, discards' = 0 PROVE OwedInv'
  BY DEF OwedInv
<1> USE BlockEnvAssumption
    DEF OwedInv, BaseFeeReachesBlock, UntakenInv, IInv, TypeOK, Goto, Workers, Env, NoEnv,
        overrides, workerVars, counters
<1>1. CASE SetGasLimit BY <1>1 DEF SetGasLimit
<1>2. CASE SetCoinbase BY <1>2 DEF SetCoinbase
<1>3. CASE SetNextBaseFee BY <1>3 DEF SetNextBaseFee
<1>4. CASE Hook BY <1>4 DEF Hook
<1>5. CASE Commit BY <1>5 DEF Commit
<1>6. ASSUME NEW w \in Workers, ReadGasLimit(w) PROVE OwedInv'
  <2>1. w = Miner BY <1>6 DEF ReadGasLimit
  <2>2. env'[Miner].base_fee = env[Miner].base_fee
    <3>1. env \in [Workers -> Env] /\ Miner \in Workers OBVIOUS
    <3>2. env' = [env EXCEPT ![Miner].gas_limit = gas_limit] \/ env' = env
      BY <1>6, <2>1 DEF ReadGasLimit
    <3> HIDE DEF OwedInv, IInv, TypeOK, BaseFeeReachesBlock, UntakenInv
    <3> QED BY <3>1, <3>2
  <2>3. pc'[Miner] # "done" /\ \A r \in Readers : pc'[r] = pc[r]
    BY <1>6, <2>1 DEF ReadGasLimit
  <2>4. UNCHANGED <<next_base_fee, fees, owed, reads, discards>>
    BY <1>6 DEF ReadGasLimit
  <2>5. pc[Miner] # "done" BY <1>6, <2>1 DEF ReadGasLimit
  <2> QED BY <2>2, <2>3, <2>4, <2>5
<1>7. ASSUME NEW w \in Workers, TakeNextBaseFee(w) PROVE OwedInv'
  <2>1. w = Miner BY <1>7 DEF TakeNextBaseFee
  <2> QED BY <1>7, <2>1 DEF TakeNextBaseFee
<1>8. CASE UNCHANGED vars BY <1>8 DEF vars
<1>9. ~Discard BY DEF Discard
<1>10. ASSUME NEW r \in Readers, Read(r) PROVE FALSE BY <1>10 DEF Read
<1>11. ASSUME NEW r \in Readers, Answer(r) PROVE OwedInv'
  BY <1>11 DEF Answer
<1> QED
  BY <1>1, <1>2, <1>3, <1>4, <1>5, <1>6, <1>7, <1>8, <1>9, <1>10, <1>11 DEF Next

(* As long as no request was evaluated on the pending block and no built   *)
(* payload was discarded, a base fee override waits for the next block and *)
(* is in it, unless a newer one replaces it.                               *)
THEOREM BaseFeeTheorem == Spec => []MinerDeliversBaseFee
<1>1. Init => OwedInv
  BY BlockEnvAssumption DEF Init, OwedInv, BaseFeeReachesBlock, Workers, NoEnv
<1>2. IInv /\ OwedInv /\ [Next]_vars => OwedInv' BY NextOwed
<1>3. OwedInv => MinerDeliversBaseFee BY DEF OwedInv, MinerDeliversBaseFee
<1> QED BY <1>1, <1>2, <1>3, Invariance, PTL DEF Spec
=============================================================================
