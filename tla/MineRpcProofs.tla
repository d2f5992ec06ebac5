---------------------------- MODULE MineRpcProofs ----------------------------
(***************************************************************************)
(* Proofs about MineRpc: its types; that anvil_mine restores the interval  *)
(* and that the blocks of both calls have the timestamps asked for, when   *)
(* calls are made one at a time; that fetched blocks exist; and that every *)
(* call is finite.                                                         *)
(***************************************************************************)
EXTENDS MineRpc, TLAPS

\* The countdown of triggers runs only while something is left.
CountdownInv == \A c \in Clients : pc[c] \in {"trigger", "fetch"} => left[c] > 0
\* Only a call with an interval sets one; anvil_mine_detailed has none, and
\* fetches blocks it asked for.
SettingInv ==
    \A c \in Clients :
        /\ pc[c] = "set_interval" => req[c].interval # None
        /\ pc[c] \notin {"idle", "set_interval"} => req[c].interval # TooBig
        /\ req[c].op = "detailed" => req[c].interval = None
        /\ pc[c] = "fetch" => req[c].op = "detailed"
        /\ pc[c] \in {"trigger", "wait"} => req[c].blocks > 0
ControlInv == CountdownInv /\ SettingInv

LEMMA InitType == Init => TypeOK /\ ControlInv
  BY MineRpcAssumption
  DEF Init, TypeOK, Labels, ControlInv, CountdownInv, SettingInv, Request, NoRequest

\* A call that begins with a fitting request keeps ControlInv.
LEMMA CallControl ==
    ASSUME TypeOK, ControlInv, NEW c \in Clients, NEW r, NEW l \in {"start", "set_interval"},
           pc' = [pc EXCEPT ![c] = l], req' = [req EXCEPT ![c] = r], UNCHANGED left,
           l = "set_interval" => r.interval # None,
           l = "start" => r.interval # TooBig,
           r.op = "detailed" => r.interval = None
    PROVE  ControlInv'
<1>1. \A d \in Clients : /\ pc'[d] = IF d = c THEN l ELSE pc[d]
                         /\ req'[d] = IF d = c THEN r ELSE req[d]
  BY DEF TypeOK
<1>2. CountdownInv' BY <1>1 DEF ControlInv, CountdownInv
<1>3. SettingInv' BY <1>1 DEF ControlInv, SettingInv
<1> QED BY <1>2, <1>3 DEF ControlInv

LEMMA CallType ==
    ASSUME TypeOK, ControlInv, NEW c \in Clients, Call(c)
    PROVE  TypeOK' /\ ControlInv'
<1> USE MineRpcAssumption
    DEF TypeOK, Labels, ControlInv, CountdownInv, SettingInv, NewCall, Goto, timeVars,
        minerVars, handlerVars
<1>1. ASSUME NEW i \in Intervals \cup {None}, SetBlockTimestampInterval(c, i)
      PROVE  TypeOK' /\ ControlInv'
  BY <1>1 DEF SetBlockTimestampInterval
<1>2. ASSUME NEW i \in Intervals \cup {None, TooBig}, NEW blocks \in 0..MaxRequest,
             Mine(c, blocks, i)
      PROVE  TypeOK' /\ ControlInv'
  <2> DEFINE r == [op |-> "mine", blocks |-> blocks, interval |-> i, timestamp |-> None]
  <2>1. r \in Request /\ r.interval = i /\ r.op = "mine" BY DEF Request
  <2> HIDE DEF r
  <2>2. req' = [req EXCEPT ![c] = r] BY <1>2 DEF Mine, r
  <2>3. ControlInv'
    <3>1. /\ pc' = [pc EXCEPT ![c] = IF i = None THEN "start" ELSE "set_interval"]
          /\ UNCHANGED left
      BY <1>2 DEF Mine
    <3> HIDE DEF TypeOK, ControlInv
    <3> QED BY <2>1, <2>2, <3>1, CallControl
  <2>4. req' \in [Clients -> Request] BY <2>1, <2>2
  <2>5. previous_interval' \in [Clients -> Intervals \cup {None}] BY <1>2 DEF Mine
  <2>6. pc' \in [Clients -> Labels]
    BY <1>2 DEF Mine
  <2>7. calls' \in 0..MaxCalls BY <1>2 DEF Mine
  <2>8. TypeOK' BY <1>2, <2>4, <2>5, <2>6, <2>7 DEF Mine
  <2> QED BY <2>3, <2>8
<1>3. ASSUME NEW blocks \in 0..MaxRequest, MineDetailed(c, blocks)
      PROVE  TypeOK' /\ ControlInv'
  <2> DEFINE r == [NoRequest EXCEPT !.op = "detailed", !.blocks = blocks]
  <2>1. r \in Request /\ r.interval = None BY DEF Request, NoRequest
  <2> HIDE DEF r
  <2>2. req' = [req EXCEPT ![c] = r] BY <1>3 DEF MineDetailed, r
  <2>3. ControlInv'
    <3>1. pc' = [pc EXCEPT ![c] = "start"] /\ UNCHANGED left BY <1>3 DEF MineDetailed
    <3> HIDE DEF TypeOK, ControlInv
    <3> QED BY <2>1, <2>2, <3>1, CallControl
  <2>4. req' \in [Clients -> Request] BY <2>1, <2>2
  <2>5. pc' \in [Clients -> Labels]
    BY <1>3 DEF MineDetailed
  <2>6. calls' \in 0..MaxCalls
    <3>1. calls < MaxCalls /\ calls' = calls + 1 BY <1>3 DEF MineDetailed
    <3> QED BY <3>1
  <2>7. serial' \in {"no", "yes"} BY <1>3 DEF MineDetailed
  <2>8. UNCHANGED <<timeVars, minerVars, previous_interval, start, left, polls, result,
                    gave_up>>
    BY <1>3 DEF MineDetailed
  <2> HIDE DEF NewCall, Goto
  <2>9. TypeOK' BY <2>4, <2>5, <2>6, <2>7, <2>8
  <2> QED BY <2>3, <2>9
<1>4. ASSUME NEW blocks \in 0..MaxRequest, NEW t \in Exacts, MineDetailedAt(c, blocks, t)
      PROVE  TypeOK' /\ ControlInv'
  <2> DEFINE r == [op |-> "detailed", blocks |-> blocks, interval |-> None,
                   timestamp |-> t]
  <2>1. r \in Request /\ r.interval = None BY DEF Request
  <2> HIDE DEF r
  <2>2. \/ req' = [req EXCEPT ![c] = r] /\ pc' = [pc EXCEPT ![c] = "start"]
        \/ UNCHANGED <<req, pc>>
    BY <1>4 DEF MineDetailedAt, r
  <2>3. req' \in [Clients -> Request]
    <3>1. req \in [Clients -> Request] OBVIOUS
    <3> HIDE DEF TypeOK, ControlInv
    <3> QED BY <2>1, <2>2, <3>1
  <2>4. next_exact_timestamp' \in Exacts \cup {None} BY <1>4 DEF MineDetailedAt
  <2>5. ControlInv'
    <3>1. UNCHANGED left BY <1>4 DEF MineDetailedAt
    <3>2. CASE UNCHANGED <<req, pc>> BY <3>1, <3>2
    <3>3. CASE req' = [req EXCEPT ![c] = r] /\ pc' = [pc EXCEPT ![c] = "start"]
      <4> HIDE DEF TypeOK, ControlInv
      <4> QED BY <2>1, <3>1, <3>3, CallControl
    <3> QED BY <2>2, <3>2, <3>3
  <2>6. pc' \in [Clients -> Labels]
    BY <2>2
  <2>7. calls' \in 0..MaxCalls BY <1>4 DEF MineDetailedAt
  <2>8. TypeOK' BY <1>4, <2>3, <2>4, <2>6, <2>7 DEF MineDetailedAt
  <2> QED BY <2>5, <2>8
<1>5. CASE MinePanics(c) BY <1>5 DEF MinePanics
<1> QED BY <1>1, <1>2, <1>3, <1>4, <1>5 DEF Call

LEMMA NoRequestFacts ==
    NoRequest \in Request /\ NoRequest.op = "mine" /\ NoRequest.interval = None
  BY MineRpcAssumption DEF NoRequest, Request

LEMMA HandlerType ==
    ASSUME TypeOK, ControlInv, NEW c \in Clients, Handler(c)
    PROVE  TypeOK' /\ ControlInv'
<1> USE MineRpcAssumption
    DEF TypeOK, Labels, ControlInv, CountdownInv, SettingInv, Goto, timeVars,
        minerVars, handlerVars
<1>r. /\ req[c].blocks \in 0..MaxRequest /\ req[c].op \in {"mine", "detailed"}
      /\ req[c].interval \in Intervals \cup {None, TooBig}
  BY DEF Request
<1>1. CASE SetInterval(c)
  BY <1>1, <1>r DEF SetInterval
<1>2. CASE Start(c)
  <2>1. best_block_number \in Nat BY DEF best_block_number
  <2>2. TypeOK' BY <1>2, <1>r, <2>1 DEF Start
  <2>3. ControlInv' BY <1>2, <1>r DEF Start
  <2> QED BY <2>2, <2>3
<1>3. CASE Trigger(c)
  <2>1. left[c] \in 0..MaxRequest /\ left[c] > 0 BY <1>3 DEF Trigger
  <2>2. TypeOK' BY <1>3, <2>1 DEF Trigger
  <2>3. ControlInv' BY <1>3, <2>1 DEF Trigger
  <2> QED BY <2>2, <2>3
<1>4. CASE Poll(c)
  <2>1. polls' \in [Clients -> 0..PollLimit]
    <3>1. CASE polls' = [polls EXCEPT ![c] = @ + 1] BY <1>4, <3>1 DEF Poll
    <3>2. CASE polls' = [polls EXCEPT ![c] = 0] BY <3>2, MineRpcAssumption
    <3> QED BY <1>4, <3>1, <3>2 DEF Poll, Mined
  <2>2. \/ UNCHANGED <<pc, left>>
        \/ pc' = [pc EXCEPT ![c] = "return"] /\ UNCHANGED left
        \/ /\ pc' = [pc EXCEPT ![c] = "fetch"] /\ req[c].op = "detailed"
           /\ left' = [left EXCEPT ![c] = req[c].blocks]
    BY <1>4 DEF Poll, Mined
  <2>3. pc' \in [Clients -> Labels] /\ left' \in [Clients -> 0..MaxRequest]
    BY <1>r, <2>2
  <2>4. TypeOK' BY <1>4, <2>1, <2>3 DEF Poll
  <2>5. ControlInv'
    <3>1. pc[c] = "wait" /\ UNCHANGED req BY <1>4 DEF Poll
    <3>2. /\ \A d \in Clients \ {c} : pc'[d] = pc[d] /\ left'[d] = left[d]
          /\ \/ pc'[c] \in {"wait", "return"}
             \/ pc'[c] = "fetch" /\ req[c].op = "detailed" /\ left'[c] = req[c].blocks
      BY <2>2, <3>1
    <3>3. req[c].blocks > 0 BY <3>1
    <3>4. CountdownInv' BY <3>1, <3>2, <3>3, <1>r
    <3>5. SettingInv' BY <3>1, <3>2
    <3> QED BY <3>4, <3>5
  <2> QED BY <2>4, <2>5
<1>5. CASE Timeout(c) \/ ReadFails(c)
  <2>1. failures' \in 0..MaxMishaps BY <1>5, MineRpcAssumption DEF Timeout, ReadFails, Mishap
  <2>3. GivesUp(c) BY <1>5 DEF Timeout, ReadFails
  <2>4. TypeOK' BY <2>1, <2>3 DEF GivesUp
  <2>5. req[c].interval # TooBig BY <1>5 DEF Timeout, ReadFails
  <2>2. ControlInv' BY <2>3, <2>5 DEF GivesUp
  <2> QED BY <2>4, <2>2
<1>6. CASE Return(c)
  <2>1. interval' \in Intervals \cup {None} BY <1>6 DEF Return
  <2> QED BY <1>6, <2>1, NoRequestFacts DEF Return, ForgetLocals
<1>7. CASE SetIntervalPanics(c)
  BY <1>7, NoRequestFacts DEF SetIntervalPanics, ForgetLocals
<1>8. CASE Fetch(c)
  <2>1. left[c] \in 0..MaxRequest /\ left[c] > 0 BY <1>8 DEF Fetch
  <2>2. left' \in [Clients -> 0..MaxRequest] BY <1>8, <2>1 DEF Fetch
  <2>3. CASE left[c] = 1
    <3>1. pc' = [pc EXCEPT ![c] = "idle"] /\ ForgetLocals(c)
          /\ UNCHANGED <<timeVars, minerVars, calls, gave_up, serial>>
          /\ \A d \in Clients \ {c} : left'[d] = left[d]
      BY <1>8, <2>3 DEF Fetch
    <3>2. TypeOK' BY <2>2, <3>1, NoRequestFacts DEF ForgetLocals
    <3>3. ControlInv' BY <3>1, NoRequestFacts DEF ForgetLocals
    <3> QED BY <3>2, <3>3
  <2>4. CASE left[c] # 1
    BY <1>8, <2>1, <2>2, <2>4 DEF Fetch
  <2> QED BY <2>3, <2>4
<1>9. CASE FetchFails(c)
  BY <1>9, NoRequestFacts DEF FetchFails, ForgetLocals
<1> QED BY <1>1, <1>2, <1>3, <1>4, <1>5, <1>6, <1>7, <1>8, <1>9 DEF Handler

LEMMA MinerType ==
    ASSUME TypeOK, ControlInv, Miner \/ OtherTrigger
    PROVE  TypeOK' /\ ControlInv'
<1> USE MineRpcAssumption
    DEF TypeOK, ControlInv, CountdownInv, SettingInv, timeVars, handlerVars
<1>1. CASE TakeTrigger
  <2>1. next_timestamp \in Stamps BY DEF next_timestamp, Stamps
  <2> QED BY <1>1, <2>1 DEF TakeTrigger
<1>2. CASE Commit
  BY <1>2 DEF Commit
<1>3. CASE Fail
  BY <1>3 DEF Fail, Mishap
<1>4. CASE OtherTrigger
  BY <1>4 DEF OtherTrigger, Mishap
<1> QED BY <1>1, <1>2, <1>3, <1>4 DEF Miner

LEMMA DroppedType ==
    ASSUME TypeOK, ControlInv, NEW c \in Clients, Dropped(c)
    PROVE  TypeOK' /\ ControlInv'
<1> USE MineRpcAssumption, NoRequestFacts
    DEF Dropped, ForgetLocals, Goto, timeVars, minerVars
<1>1. failures' \in 0..MaxMishaps BY DEF Mishap, TypeOK
<1>2. TypeOK' BY <1>1 DEF TypeOK, Labels
<1>3. ControlInv' BY DEF TypeOK, ControlInv, CountdownInv, SettingInv
<1> QED BY <1>2, <1>3

LEMMA NextType == TypeOK /\ ControlInv /\ [Next]_vars => (TypeOK /\ ControlInv)'
<1> SUFFICES ASSUME TypeOK, ControlInv, [Next]_vars PROVE TypeOK' /\ ControlInv'
  OBVIOUS
<1>1. CASE Miner \/ OtherTrigger BY <1>1, MinerType
<1>2. ASSUME NEW c \in Clients, Call(c) PROVE TypeOK' /\ ControlInv' BY <1>2, CallType
<1>3. ASSUME NEW c \in Clients, Handler(c) PROVE TypeOK' /\ ControlInv'
  BY <1>3, HandlerType
<1>4. CASE UNCHANGED vars
  BY <1>4 DEF vars, timeVars, minerVars, handlerVars, TypeOK, ControlInv, CountdownInv,
              SettingInv
<1>5. ASSUME NEW c \in Clients, Dropped(c) PROVE TypeOK' /\ ControlInv'
  BY <1>5, DroppedType
<1> QED BY <1>1, <1>2, <1>3, <1>4, <1>5 DEF Next

(* Requests, countdowns, polls and blocks keep their types: mine_blocks    *)
(* never triggers more often than it was asked to, and the wait never      *)
(* polls more often than its limit.                                        *)
THEOREM TypeCorrect == SafeSpec => [](TypeOK /\ ControlInv)
  BY InitType, NextType, PTL DEF SafeSpec

-----------------------------------------------------------------------------
(* The interval of anvil_mine *)

\* Between SetInterval and Return a call with an interval has replaced it.
Replaced(c) ==
    req[c].interval # None /\ pc[c] \in {"start", "trigger", "wait", "return"}

\* While calls run one after the other, at most one is in progress; while it has the
\* interval replaced, it holds the configured one.
SavedInv == serial = "yes" =>
    /\ \A c, d \in Clients : pc[c] # "idle" /\ pc[d] # "idle" => c = d
    /\ \A c \in Clients : pc[c] = "set_interval" \/ Replaced(c) =>
                              previous_interval[c] = configured
    /\ (\A c \in Clients : ~Replaced(c)) => interval = configured

\* A call that does not overlap begins when nothing is in progress.
LEMMA CallAlone ==
    ASSUME TypeOK, SavedInv, NEW c \in Clients, Call(c), serial' = "yes"
    PROVE  interval = configured /\ \A d \in Clients : pc[d] = "idle"
<1>1. NewCall(c)
  BY DEF Call, SetBlockTimestampInterval, Mine, MinePanics, MineDetailed, MineDetailedAt
<1>2. serial = "yes" /\ \A d \in Clients : pc[d] = "idle" BY <1>1 DEF NewCall
<1>3. \A d \in Clients : ~Replaced(d) BY <1>2 DEF Replaced
<1> QED BY <1>2, <1>3 DEF SavedInv

LEMMA CallSaved ==
    ASSUME TypeOK, ControlInv, SavedInv, NEW c \in Clients, Call(c)
    PROVE  SavedInv'
<1> SUFFICES ASSUME serial' = "yes" PROVE SavedInv'
  BY DEF SavedInv
<1> USE DEF TypeOK, Labels, NewCall, Goto, timeVars, minerVars, handlerVars
<1>i. interval = configured /\ \A d \in Clients : pc[d] = "idle" BY CallAlone
<1>1. ASSUME NEW i \in Intervals \cup {None}, SetBlockTimestampInterval(c, i)
      PROVE  SavedInv'
  BY <1>1, <1>i DEF SetBlockTimestampInterval, SavedInv, Replaced
<1>2. ASSUME NEW i \in Intervals \cup {None, TooBig}, NEW blocks \in 0..MaxRequest,
             Mine(c, blocks, i)
      PROVE  SavedInv'
  <2>1. (req[c].interval)' = i BY <1>2 DEF Mine
  <2> QED BY <1>2, <1>i, <2>1 DEF Mine, SavedInv, Replaced
<1>3. ASSUME NEW blocks \in 0..MaxRequest, MineDetailed(c, blocks) PROVE SavedInv'
  <2>1. (req[c].interval)' = None BY <1>3 DEF MineDetailed, NoRequest
  <2> QED BY <1>3, <1>i, <2>1 DEF MineDetailed, SavedInv, Replaced
<1>4. ASSUME NEW blocks \in 0..MaxRequest, NEW t \in Exacts, MineDetailedAt(c, blocks, t)
      PROVE  SavedInv'
  <2>1. (req[c].interval)' = None \/ pc'[c] = "idle" BY <1>4, <1>i DEF MineDetailedAt
  <2>2. pc'[c] \in {"idle", "start"} BY <1>4, <1>i DEF MineDetailedAt
  <2>3. \A d \in Clients \ {c} : pc'[d] = "idle" BY <1>4, <1>i DEF MineDetailedAt
  <2>4. UNCHANGED <<interval, configured>> BY <1>4 DEF MineDetailedAt
  <2> QED BY <1>i, <2>1, <2>2, <2>3, <2>4 DEF SavedInv, Replaced
<1>5. CASE MinePanics(c)
  BY <1>5, <1>i DEF MinePanics, SavedInv, Replaced
<1> QED BY <1>1, <1>2, <1>3, <1>4, <1>5 DEF Call

LEMMA HandlerSaved ==
    ASSUME TypeOK, ControlInv, SavedInv, NEW c \in Clients, Handler(c)
    PROVE  SavedInv'
<1> SUFFICES ASSUME serial' = "yes" PROVE SavedInv'
  BY DEF SavedInv
<1>o. serial = "yes" /\ pc[c] # "idle"
  BY DEF Handler, SetInterval, SetIntervalPanics, Start, Trigger, Poll, Timeout,
         ReadFails, GivesUp, Fetch, FetchFails, Return
<1>a. \A d \in Clients \ {c} : pc[d] = "idle" BY <1>o DEF SavedInv
<1>b. /\ pc[c] = "set_interval" \/ Replaced(c) => previous_interval[c] = configured
      /\ ~Replaced(c) => interval = configured
  BY <1>o, <1>a DEF SavedInv, Replaced
<1>t. /\ pc \in [Clients -> Labels] /\ req \in [Clients -> Request]
      /\ previous_interval \in [Clients -> Intervals \cup {None}]
  BY DEF TypeOK
<1>s. /\ pc[c] = "set_interval" => req[c].interval # None
      /\ pc[c] = "fetch" => req[c].interval = None
      /\ req[c].op = "detailed" => req[c].interval = None
  BY DEF ControlInv, SettingInv
\* What is left to show of a step: the other calls stay idle, and this one
\* still holds the configured interval, or has put it back.
<1>g. ASSUME UNCHANGED configured, \A d \in Clients \ {c} : pc'[d] = pc[d],
             pc'[c] = "set_interval" \/ Replaced(c)' => previous_interval'[c] = configured,
             ~Replaced(c)' => interval' = configured
      PROVE  SavedInv'
  <2>1. \A d \in Clients \ {c} : pc'[d] = "idle" /\ ~Replaced(d)'
    BY <1>a, <1>g DEF Replaced
  <2> QED BY <1>g, <2>1 DEF SavedInv
<1> USE <1>t DEF Goto, timeVars, Replaced
<1>1. CASE SetInterval(c)
  BY <1>1, <1>b, <1>g, <1>s DEF SetInterval
<1>2. CASE Start(c)
  BY <1>2, <1>b, <1>g DEF Start
<1>3. CASE Trigger(c)
  BY <1>3, <1>b, <1>g DEF Trigger
<1>4. CASE Poll(c)
  <2>1. /\ pc[c] = "wait" /\ UNCHANGED <<interval, configured, req, previous_interval>>
        /\ \A d \in Clients \ {c} : pc'[d] = pc[d]
        /\ \/ pc'[c] \in {"wait", "return"}
           \/ pc'[c] = "fetch" /\ req[c].interval = None
    BY <1>4, <1>s DEF Poll, Mined
  <2> QED BY <1>b, <1>g, <2>1
<1>5. CASE Timeout(c) \/ ReadFails(c)
  <2>1. GivesUp(c) /\ pc[c] \in {"wait", "start"} BY <1>5 DEF Timeout, ReadFails
  <2>2. /\ UNCHANGED <<interval, configured, req, previous_interval>>
        /\ pc'[c] = "return" /\ \A d \in Clients \ {c} : pc'[d] = pc[d]
    BY <2>1 DEF GivesUp
  <2> QED BY <1>b, <1>g, <2>1, <2>2
<1>6. CASE Return(c)
  BY <1>6, <1>b, <1>g DEF Return
<1>7. CASE SetIntervalPanics(c)
  BY <1>7, <1>b, <1>g DEF SetIntervalPanics
<1>8. CASE Fetch(c) \/ FetchFails(c)
  <2>1. /\ pc[c] = "fetch" /\ pc'[c] \in {"fetch", "idle"}
        /\ \A d \in Clients \ {c} : pc'[d] = pc[d]
        /\ UNCHANGED <<interval, configured>>
        /\ pc'[c] = "fetch" => UNCHANGED req
    BY <1>8 DEF Fetch, FetchFails
  <2> QED BY <1>b, <1>g, <1>s, <2>1
<1> QED BY <1>1, <1>2, <1>3, <1>4, <1>5, <1>6, <1>7, <1>8 DEF Handler

LEMMA NextSaved ==
    ASSUME TypeOK, ControlInv, SavedInv, [Next]_vars
    PROVE  SavedInv'
<1>1. ASSUME NEW c \in Clients, Call(c) PROVE SavedInv' BY <1>1, CallSaved
<1>2. ASSUME NEW c \in Clients, Handler(c) PROVE SavedInv' BY <1>2, HandlerSaved
<1>3. CASE UNCHANGED <<interval, configured, handlerVars>>
  BY <1>3 DEF handlerVars, SavedInv, Replaced
<1>4. ASSUME Miner \/ OtherTrigger PROVE UNCHANGED <<interval, configured, handlerVars>>
  BY <1>4 DEF Miner, TakeTrigger, Commit, Fail, OtherTrigger, timeVars
<1>5. ASSUME UNCHANGED vars PROVE UNCHANGED <<interval, configured, handlerVars>>
  BY <1>5 DEF vars, timeVars
<1>6. ASSUME NEW c \in Clients, Dropped(c) PROVE SavedInv'
  BY <1>6 DEF Dropped, SavedInv
<1> QED BY <1>1, <1>2, <1>3, <1>4, <1>5, <1>6 DEF Next

(* Until two calls overlap or one is dropped, anvil_mine leaves the block  *)
(* timestamp interval as it was configured: after a success, an error, a   *)
(* call for no blocks, with blocks failing and other tasks mining.         *)
THEOREM RestoreTheorem == SafeSpec => []IntervalRestored
<1>1. Init => SavedInv BY DEF Init, SavedInv, Replaced
<1>2. TypeOK /\ ControlInv /\ SavedInv /\ [Next]_vars => SavedInv' BY NextSaved
<1>3. SavedInv => IntervalRestored BY DEF SavedInv, IntervalRestored, Replaced
<1> QED BY <1>1, <1>2, <1>3, TypeCorrect, PTL DEF SafeSpec

-----------------------------------------------------------------------------
(* The blocks of anvil_mine_detailed *)

\* While a call fetches, its last block is on the chain, and it has no more
\* blocks left than it asked for.
FetchInv ==
    \A c \in Clients : pc[c] = "fetch" =>
        End(c) <= best_block_number /\ left[c] <= req[c].blocks

LEMMA FetchStep == TypeOK /\ ControlInv /\ FetchInv /\ [Next]_vars => FetchInv'
<1> SUFFICES ASSUME TypeOK, ControlInv, FetchInv, [Next]_vars PROVE FetchInv'
  OBVIOUS
<1>n. /\ best_block_number \in Nat
      /\ \A c \in Clients : /\ start[c] \in Nat /\ left[c] \in Nat
                            /\ req[c].blocks \in Nat
  BY MineRpcAssumption DEF best_block_number, TypeOK, Request
<1>1. ASSUME NEW c \in Clients, UNCHANGED chain,
             \A d \in Clients \ {c} : /\ pc'[d] = pc[d] /\ req'[d] = req[d]
                                      /\ start'[d] = start[d] /\ left'[d] = left[d],
             pc'[c] = "fetch" =>
                /\ (End(c) <= best_block_number)' /\ left'[c] <= (req[c].blocks)'
      PROVE  FetchInv'
  BY <1>1 DEF FetchInv, End, best_block_number
<1>2. ASSUME NEW c \in Clients, Call(c) PROVE FetchInv'
  <2>1. /\ pc'[c] # "fetch" /\ UNCHANGED <<chain, start, left>>
        /\ \A d \in Clients \ {c} : pc'[d] = pc[d] /\ req'[d] = req[d]
    BY <1>2 DEF Call, SetBlockTimestampInterval, Mine, MinePanics, MineDetailed,
                MineDetailedAt, NewCall, Goto, TypeOK, minerVars
  <2> QED BY <2>1, <1>1
<1>3. ASSUME NEW c \in Clients, Poll(c) PROVE FetchInv'
  <2>1. /\ pc[c] = "wait" /\ UNCHANGED <<chain, req, start>>
        /\ \A d \in Clients \ {c} : pc'[d] = pc[d] /\ left'[d] = left[d]
        /\ pc'[c] = "fetch" => End(c) <= best_block_number /\ left'[c] = req[c].blocks
    BY <1>3, <1>n DEF Poll, Mined, Goto, TypeOK, minerVars, End
  <2> QED BY <2>1, <1>1, <1>n DEF End, best_block_number
<1>4. ASSUME NEW c \in Clients, Fetch(c) PROVE FetchInv'
  <2>1. /\ pc[c] = "fetch" /\ UNCHANGED chain /\ left'[c] = left[c] - 1
        /\ \A d \in Clients \ {c} : /\ pc'[d] = pc[d] /\ req'[d] = req[d]
                                    /\ start'[d] = start[d] /\ left'[d] = left[d]
        /\ pc'[c] = "fetch" => UNCHANGED <<req, start>>
    BY <1>4 DEF Fetch, ForgetLocals, Goto, TypeOK, minerVars
  <2> QED BY <2>1, <1>1, <1>n DEF FetchInv, End, best_block_number
<1>5. ASSUME NEW c \in Clients, Handler(c), ~Poll(c), ~Fetch(c) PROVE FetchInv'
  <2>1. /\ pc'[c] # "fetch" /\ UNCHANGED chain
        /\ \A d \in Clients \ {c} : /\ pc'[d] = pc[d] /\ req'[d] = req[d]
                                    /\ start'[d] = start[d] /\ left'[d] = left[d]
    BY <1>5 DEF Handler, SetInterval, SetIntervalPanics, Start, Trigger, Timeout,
                ReadFails, GivesUp, FetchFails, Return, ForgetLocals, Goto, TypeOK,
                minerVars
  <2> QED BY <2>1, <1>1
<1>8. ASSUME NEW c \in Clients, Dropped(c) PROVE FetchInv'
  <2>1. /\ pc'[c] # "fetch" /\ UNCHANGED chain
        /\ \A d \in Clients \ {c} : /\ pc'[d] = pc[d] /\ req'[d] = req[d]
                                    /\ start'[d] = start[d] /\ left'[d] = left[d]
    BY <1>8 DEF Dropped, ForgetLocals, Goto, TypeOK
  <2> QED BY <2>1, <1>1
<1>6. ASSUME UNCHANGED <<pc, req, start, left>>,
             best_block_number' >= best_block_number, best_block_number' \in Nat
      PROVE  FetchInv'
  BY <1>6, <1>n DEF FetchInv, End
<1>7. CASE Miner \/ OtherTrigger \/ UNCHANGED vars
  <2>1. UNCHANGED <<pc, req, start, left>>
    BY <1>7 DEF Miner, TakeTrigger, Commit, Fail, OtherTrigger, vars, handlerVars
  <2>2. chain' = chain \/ (building \in Stamps /\ chain' = Append(chain, building))
    BY <1>7 DEF Miner, TakeTrigger, Commit, Fail, OtherTrigger, vars, minerVars, TypeOK
  <2>3. best_block_number' >= best_block_number /\ best_block_number' \in Nat
    BY <2>2 DEF best_block_number, TypeOK
  <2> QED BY <2>1, <2>3, <1>6
<1> QED BY <1>2, <1>3, <1>4, <1>5, <1>7, <1>8 DEF Next

(* anvil_mine_detailed never asks for a block the chain does not have,     *)
(* however many callers and tasks mine at the same time.                   *)
THEOREM FetchTheorem == SafeSpec => []FetchedExist
<1>1. Init => FetchInv BY DEF Init, FetchInv
<1>2. TypeOK /\ ControlInv /\ FetchInv => FetchedExist
  BY MineRpcAssumption
  DEF TypeOK, ControlInv, CountdownInv, FetchInv, FetchedExist, Wanted, End, Request,
      best_block_number
<1> QED BY <1>1, <1>2, FetchStep, TypeCorrect, PTL DEF SafeSpec

-----------------------------------------------------------------------------
(* The blocks of a call that is not disturbed *)

\* Blocks on the way, and those that a call has not yet triggered.
OnTheWay == triggers + (IF building = None THEN 0 ELSE 1)
Untriggered(c) == IF pc[c] = "trigger" THEN left[c] ELSE 0

\* While a call mines, the blocks it has, is going to get and will ask for are
\* no more than requested; they are fewer once a block has failed.
Mining(c) == pc[c] \in {"trigger", "wait"}
Expected(c) == best_block_number + OnTheWay + Untriggered(c)

\* Nothing is on the way when a call begins, and when it has its blocks they
\* are the last ones of the chain.
QuietInv == Undisturbed =>
    /\ (\A c \in Clients : ~Mining(c)) => triggers = 0 /\ building = None
    /\ \A c \in Clients : Mining(c) => start[c] <= best_block_number /\ Expected(c) <= End(c)
    /\ \A c \in Clients : pc[c] \in {"return", "fetch"} => best_block_number = End(c)

\* The blocks since the start of a call with an interval follow it, but for an
\* exact timestamp that was there before.
Follows(c) ==
    /\ interval = req[c].interval
    /\ \A k \in (start[c] + 1)..best_block_number :
          \/ chain[k] = req[c].interval
          \/ k = start[c] + 1 /\ chain[k] \in Exacts
    /\ building # None =>
          \/ building = req[c].interval
          \/ best_block_number = start[c] /\ building \in Exacts
    /\ next_exact_timestamp # None => best_block_number = start[c] /\ building = None
SpacingInv == Undisturbed =>
    \A c \in Clients : req[c].interval # None =>
        /\ pc[c] = "start" => interval = req[c].interval
        /\ Mining(c) \/ pc[c] = "return" => Follows(c)

\* An exact timestamp is waiting, in the first block, or lost with a block.
Stamped(c) ==
    LET t == req[c].timestamp
    IN  \/ best_block_number = start[c] /\ building = None /\ next_exact_timestamp = t
        \/ best_block_number = start[c] /\ building = t
        \/ best_block_number > start[c] /\ chain[start[c] + 1] = t
        \/ Expected(c) < End(c)
StampInv == Undisturbed =>
    \A c \in Clients : req[c].timestamp # None =>
        /\ pc[c] # "set_interval"
        /\ pc[c] = "start" => next_exact_timestamp = req[c].timestamp
        /\ Mining(c) => Stamped(c)
        /\ pc[c] = "fetch" => chain[start[c] + 1] = req[c].timestamp

BlocksInv == QuietInv /\ SpacingInv /\ StampInv

(* What the proofs need of the types of a call.                            *)
LEMMA CallFacts ==
    ASSUME TypeOK, NEW c \in Clients
    PROVE  /\ start[c] \in Nat /\ left[c] \in Nat /\ req[c].blocks \in Nat
           /\ best_block_number \in Nat /\ triggers \in Nat
           /\ OnTheWay \in Nat /\ Untriggered(c) \in Nat
  BY MineRpcAssumption
  DEF TypeOK, Request, best_block_number, OnTheWay, Untriggered

(* A call that is not disturbed begins when everything is quiet.           *)
LEMMA CallBlocks ==
    ASSUME TypeOK, ControlInv, SavedInv, BlocksInv, NEW c \in Clients, Call(c),
           Undisturbed'
    PROVE  BlocksInv'
<1>n. NewCall(c) /\ UNCHANGED <<triggers, building, chain, others, gave_up, start, left>>
  BY DEF Call, SetBlockTimestampInterval, Mine, MinePanics, MineDetailed, MineDetailedAt,
         minerVars
<1>i. Undisturbed /\ \A d \in Clients : pc[d] = "idle"
  BY <1>n DEF NewCall, Undisturbed
<1>q. triggers = 0 /\ building = None
  BY <1>i DEF BlocksInv, QuietInv, Mining
<1>1. /\ \A d \in Clients \ {c} : pc'[d] = "idle"
      /\ pc'[c] \in {"idle", "set_interval", "start"}
      /\ pc'[c] = "start" => (req[c].interval)' = None
      /\ pc'[c] = "set_interval" => (req[c].timestamp)' = None
      /\ pc'[c] = "start" /\ (req[c].timestamp)' # None =>
             next_exact_timestamp' = (req[c].timestamp)'
  <2> USE <1>i DEF TypeOK, Goto
  <2>1. ASSUME NEW i \in Intervals \cup {None}, SetBlockTimestampInterval(c, i)
        PROVE  UNCHANGED pc
    BY <2>1 DEF SetBlockTimestampInterval
  <2>2. ASSUME NEW i \in Intervals \cup {None, TooBig}, NEW blocks \in 0..MaxRequest,
               Mine(c, blocks, i)
        PROVE  /\ pc' = [pc EXCEPT ![c] = IF i = None THEN "start" ELSE "set_interval"]
               /\ (req[c].interval)' = i /\ (req[c].timestamp)' = None
    BY <2>2 DEF Mine
  <2>3. ASSUME NEW blocks \in 0..MaxRequest, MineDetailed(c, blocks)
        PROVE  /\ pc' = [pc EXCEPT ![c] = "start"]
               /\ (req[c].interval)' = None /\ (req[c].timestamp)' = None
    BY <2>3 DEF MineDetailed, NoRequest
  <2>4. ASSUME NEW blocks \in 0..MaxRequest, NEW t \in Exacts, MineDetailedAt(c, blocks, t)
        PROVE  \/ UNCHANGED pc
               \/ /\ pc' = [pc EXCEPT ![c] = "start"] /\ next_exact_timestamp' = t
                  /\ (req[c].interval)' = None /\ (req[c].timestamp)' = t
    BY <2>4 DEF MineDetailedAt
  <2>5. CASE MinePanics(c)
    BY <2>5 DEF MinePanics
  <2> QED
    BY <2>1, <2>2, <2>3, <2>4, <2>5 DEF Call
<1>2. QuietInv'
  BY <1>n, <1>q, <1>1 DEF QuietInv, Mining
<1>3. SpacingInv'
  BY <1>1 DEF SpacingInv, Mining
<1>4. StampInv'
  BY <1>1 DEF StampInv, Mining
<1> QED
  BY <1>2, <1>3, <1>4 DEF BlocksInv

(* The handler's own steps; the other calls are idle.                      *)
LEMMA HandlerBlocks ==
    ASSUME TypeOK, ControlInv, SavedInv, BlocksInv, NEW c \in Clients, Handler(c),
           Undisturbed'
    PROVE  BlocksInv'
<1>o. /\ UNCHANGED <<building, chain, others, serial, next_exact_timestamp>>
      /\ pc[c] # "idle" /\ ~GivesUp(c)
      /\ \A d \in Clients \ {c} : pc'[d] = pc[d]
  BY DEF Handler, SetInterval, SetIntervalPanics, Start, Trigger, Poll, Timeout, ReadFails,
         GivesUp, Fetch, FetchFails, Return, Mined, Goto, TypeOK, Undisturbed, timeVars,
         minerVars
<1>u. Undisturbed
  BY <1>o DEF Handler, SetInterval, SetIntervalPanics, Start, Trigger, Poll, Timeout,
              ReadFails, Fetch, FetchFails, Return, Undisturbed
<1>a. \A d \in Clients \ {c} : pc[d] = "idle" /\ pc'[d] = "idle"
  BY <1>o, <1>u DEF SavedInv, Undisturbed
<1>f. /\ start[c] \in Nat /\ left[c] \in Nat /\ req[c].blocks \in Nat
      /\ best_block_number \in Nat /\ triggers \in Nat
  BY CallFacts
<1>b. best_block_number' = best_block_number
  BY <1>o DEF best_block_number
\* With the other calls idle, only this one has to be looked at.
<1>s. ASSUME /\ ~Mining(c)' => triggers' = 0 /\ building' = None
             /\ Mining(c)' => (start[c] <= best_block_number /\ Expected(c) <= End(c))'
             /\ pc'[c] \in {"return", "fetch"} => (best_block_number = End(c))',
             (req[c].interval)' # None =>
                /\ pc'[c] = "start" => interval' = (req[c].interval)'
                /\ Mining(c)' \/ pc'[c] = "return" => Follows(c)',
             (req[c].timestamp)' # None =>
                /\ pc'[c] # "set_interval"
                /\ pc'[c] = "start" => next_exact_timestamp' = (req[c].timestamp)'
                /\ Mining(c)' => Stamped(c)'
                /\ pc'[c] = "fetch" => (chain[start[c] + 1] = req[c].timestamp)'
      PROVE  BlocksInv'
  <2>1. \A d \in Clients \ {c} : ~Mining(d)'
    BY <1>a DEF Mining
  <2>2. QuietInv'
    BY <1>s, <1>a, <2>1 DEF QuietInv
  <2>3. SpacingInv'
    BY <1>s, <1>a, <2>1 DEF SpacingInv
  <2>4. StampInv'
    BY <1>s, <1>a, <2>1 DEF StampInv
  <2> QED
    BY <2>2, <2>3, <2>4 DEF BlocksInv
<1>q. ~Mining(c) => triggers = 0 /\ building = None
  BY <1>a, <1>u DEF BlocksInv, QuietInv, Mining
\* Steps to the end of the call: nothing is left to say.
<1>e. ASSUME pc'[c] = "idle", ~Mining(c), UNCHANGED triggers PROVE BlocksInv'
  BY <1>e, <1>q, <1>o, <1>s DEF Mining
<1>1. CASE SetInterval(c)
  <2>1. /\ pc[c] = "set_interval" /\ pc'[c] = "start" /\ interval' = req[c].interval
        /\ UNCHANGED <<triggers, req>>
    BY <1>1 DEF SetInterval, Goto, TypeOK, minerVars
  <2>2. req[c].timestamp = None
    BY <1>u, <2>1 DEF BlocksInv, StampInv
  <2> QED
    BY <1>o, <1>q, <1>s, <2>1, <2>2 DEF Mining
<1>2. CASE SetIntervalPanics(c) \/ FetchFails(c) \/ Return(c)
  <2>1. pc'[c] = "idle" /\ ~Mining(c) /\ UNCHANGED triggers
    BY <1>2 DEF SetIntervalPanics, FetchFails, Return, Mining, Goto, TypeOK, minerVars
  <2> QED
    BY <1>e, <2>1
<1>3. CASE Start(c)
  <2>1. /\ pc[c] = "start" /\ start'[c] = best_block_number
        /\ left'[c] = req[c].blocks
        /\ pc'[c] = IF req[c].blocks = 0 THEN "return" ELSE "trigger"
        /\ UNCHANGED <<triggers, req, interval>>
    BY <1>3 DEF Start, Goto, TypeOK, minerVars, timeVars
  <2>2. triggers = 0 /\ building = None
    BY <1>q, <2>1 DEF Mining
  <2>3. OnTheWay' = 0
    BY <1>o, <2>1, <2>2 DEF OnTheWay
  <2>4. End(c)' = best_block_number + req[c].blocks
    BY <2>1 DEF End
  <2>5. Mining(c)' => (start[c] <= best_block_number /\ Expected(c) <= End(c))'
    BY <1>b, <1>f, <2>1, <2>3, <2>4 DEF Mining, Expected, Untriggered
  <2>6. pc'[c] \in {"return", "fetch"} => (best_block_number = End(c))'
    BY <1>b, <1>f, <2>1, <2>4
  <2>7. req[c].interval # None => Follows(c)'
    BY <1>b, <1>f, <1>o, <1>u, <2>1, <2>2 DEF BlocksInv, SpacingInv, Follows
  <2>8. req[c].timestamp # None => Stamped(c)'
    BY <1>b, <1>o, <1>u, <2>1, <2>2 DEF BlocksInv, StampInv, Stamped
  <2> QED
    BY <1>o, <1>s, <2>1, <2>2, <2>5, <2>6, <2>7, <2>8
<1>4. CASE Trigger(c)
  <2>1. /\ pc[c] = "trigger" /\ triggers' = triggers + 1 /\ left'[c] = left[c] - 1
        /\ pc'[c] = IF left[c] = 1 THEN "wait" ELSE "trigger"
        /\ UNCHANGED <<req, start, interval>>
    BY <1>4 DEF Trigger, Goto, TypeOK, timeVars
  <2>2. left[c] > 0 /\ Mining(c) /\ Mining(c)'
    BY <2>1 DEF ControlInv, CountdownInv, Mining
  <2>3. OnTheWay' = OnTheWay + 1 /\ OnTheWay \in Nat
    BY <1>f, <1>o, <2>1 DEF OnTheWay
  <2>4. Untriggered(c)' = Untriggered(c) - 1 /\ Untriggered(c) \in Nat
    BY <1>f, <2>1, <2>2 DEF Untriggered
  <2>5. Expected(c)' = Expected(c) /\ End(c)' = End(c)
    BY <1>b, <1>f, <2>1, <2>3, <2>4 DEF Expected, End
  <2>6. (start[c] <= best_block_number /\ Expected(c) <= End(c))'
    BY <1>b, <1>u, <2>1, <2>2, <2>5 DEF BlocksInv, QuietInv
  <2>7. req[c].interval # None => Follows(c)'
    BY <1>b, <1>o, <1>u, <2>1, <2>2 DEF BlocksInv, SpacingInv, Follows
  <2>8. req[c].timestamp # None => Stamped(c)'
    BY <1>b, <1>o, <1>u, <2>1, <2>2, <2>5 DEF BlocksInv, StampInv, Stamped
  <2> QED
    BY <1>s, <2>1, <2>2, <2>6, <2>7, <2>8
<1>5. CASE Poll(c)
  <2>1. pc[c] = "wait" /\ UNCHANGED <<triggers, req, start, interval>>
    BY <1>5 DEF Poll, minerVars, timeVars
  <2>2. /\ start[c] <= best_block_number /\ Expected(c) <= End(c)
        /\ req[c].interval # None => Follows(c)
        /\ req[c].timestamp # None => Stamped(c)
    BY <1>u, <2>1 DEF BlocksInv, QuietInv, SpacingInv, StampInv, Mining
  <2>3. Untriggered(c) = 0 /\ OnTheWay \in Nat /\ UNCHANGED OnTheWay
    BY <1>f, <1>o, <2>1 DEF Untriggered, OnTheWay
  <2>4. End(c) \in Nat /\ End(c)' = End(c) /\ Expected(c) = best_block_number + OnTheWay
    BY <1>f, <2>1, <2>3 DEF End, Expected
  <2>5. UNCHANGED <<building, next_exact_timestamp, chain, interval>>
    BY <1>o, <2>1
  <2>6. CASE best_block_number < End(c)
    <3>1. pc'[c] = "wait"
      BY <1>5, <1>f, <2>1, <2>4, <2>6 DEF Poll
    <3>2. Expected(c)' = Expected(c)
      BY <1>b, <2>3, <2>4, <3>1 DEF Expected, Untriggered
    <3>3. req[c].interval # None => Follows(c)'
      BY <1>b, <2>1, <2>2, <2>5 DEF Follows
    <3>4. req[c].timestamp # None => Stamped(c)'
      BY <1>b, <2>1, <2>2, <2>4, <2>5, <3>2 DEF Stamped
    <3> QED
      BY <1>b, <1>s, <2>1, <2>2, <2>4, <3>1, <3>2, <3>3, <3>4 DEF Mining
  <2>7. CASE best_block_number >= End(c)
    <3>1. pc'[c] \in {"return", "fetch"}
      BY <1>5, <2>7 DEF Poll, Mined, Goto, TypeOK
    <3>2. best_block_number = End(c) /\ OnTheWay = 0
      BY <1>f, <2>2, <2>3, <2>4, <2>7
    <3>3. triggers = 0 /\ building = None
      BY <1>f, <3>2 DEF OnTheWay
    <3>4. req[c].interval # None => Follows(c)'
      BY <1>b, <2>1, <2>2, <2>5 DEF Follows
    <3>5. best_block_number > start[c]
      BY <1>f, <2>1, <3>2 DEF ControlInv, SettingInv, End
    <3>6. req[c].timestamp # None => (chain[start[c] + 1] = req[c].timestamp)'
      BY <1>f, <2>1, <2>2, <2>3, <2>4, <2>5, <3>2, <3>5 DEF Stamped
    <3> QED
      BY <1>b, <1>o, <1>s, <2>1, <2>4, <3>1, <3>2, <3>3, <3>4, <3>6 DEF Mining
  <2> QED
    BY <1>f, <2>4, <2>6, <2>7
<1>6. CASE Fetch(c)
  <2>1. pc[c] = "fetch" /\ UNCHANGED triggers /\ ~Mining(c)
    BY <1>6 DEF Fetch, minerVars, Mining
  <2>2. CASE left[c] = 1
    BY <1>6, <1>e, <2>1, <2>2 DEF Fetch, Goto, TypeOK
  <2>3. CASE left[c] # 1
    <3>1. UNCHANGED <<pc, req, start>>
      BY <1>6, <2>3 DEF Fetch
    <3>2. End(c)' = End(c)
      BY <3>1 DEF End
    <3> QED
      BY <1>b, <1>o, <1>q, <1>s, <1>u, <2>1, <3>1, <3>2
      DEF BlocksInv, QuietInv, StampInv, Mining
  <2> QED
    BY <2>2, <2>3
<1>7. ~Timeout(c) /\ ~ReadFails(c)
  BY <1>o DEF Timeout, ReadFails
<1> QED
  BY <1>1, <1>2, <1>3, <1>4, <1>5, <1>6, <1>7 DEF Handler

(* The miner's steps: something is on the way only for a call that mines.  *)
LEMMA MinerBlocks ==
    ASSUME TypeOK, ControlInv, SavedInv, BlocksInv, Miner, Undisturbed'
    PROVE  BlocksInv'
<1>o. UNCHANGED <<interval, pc, req, start, left>> /\ Undisturbed
  BY DEF Miner, TakeTrigger, Commit, Fail, Undisturbed, timeVars, handlerVars
<1>w. triggers > 0 \/ building # None
  BY DEF Miner, TakeTrigger, Commit, Fail
<1>m. PICK c \in Clients : Mining(c)
  <2>1. triggers \in Nat
    BY DEF TypeOK
  <2> QED
    BY <1>o, <1>w, <2>1 DEF BlocksInv, QuietInv
<1>a. \A d \in Clients \ {c} : pc[d] = "idle"
  BY <1>o, <1>m DEF SavedInv, Undisturbed, Mining
<1>f. /\ start[c] \in Nat /\ req[c].blocks \in Nat /\ best_block_number \in Nat
      /\ triggers \in Nat /\ OnTheWay \in Nat /\ Untriggered(c) \in Nat /\ End(c) \in Nat
      /\ UNCHANGED <<End(c), Untriggered(c)>>
  BY <1>o, CallFacts DEF End, Untriggered
<1>k. /\ start[c] <= best_block_number /\ Expected(c) <= End(c)
      /\ req[c].interval # None => Follows(c)
      /\ req[c].timestamp # None => Stamped(c)
  BY <1>o, <1>m DEF BlocksInv, QuietInv, SpacingInv, StampInv
<1>s. ASSUME (start[c] <= best_block_number /\ Expected(c) <= End(c))',
             req[c].interval # None => Follows(c)', req[c].timestamp # None => Stamped(c)'
      PROVE  BlocksInv'
  <2>1. /\ Mining(c)' /\ pc'[c] \in {"trigger", "wait"}
        /\ \A d \in Clients \ {c} : pc'[d] = "idle" /\ ~Mining(d)'
    BY <1>o, <1>m, <1>a DEF Mining
  <2>2. QuietInv'
    BY <1>s, <2>1 DEF QuietInv
  <2>3. SpacingInv'
    BY <1>o, <1>s, <2>1 DEF SpacingInv
  <2>4. StampInv'
    BY <1>o, <1>s, <2>1 DEF StampInv
  <2> QED
    BY <2>2, <2>3, <2>4 DEF BlocksInv
<1>1. CASE TakeTrigger
  <2>1. /\ building = None /\ triggers > 0 /\ triggers' = triggers - 1
        /\ building' = next_timestamp /\ next_exact_timestamp' = None /\ UNCHANGED chain
    BY <1>1 DEF TakeTrigger
  <2>2. /\ next_timestamp # None
        /\ next_exact_timestamp # None =>
              next_timestamp = next_exact_timestamp /\ next_timestamp \in Exacts
        /\ next_exact_timestamp = None /\ interval # None => next_timestamp = interval
    BY MineRpcAssumption DEF next_timestamp, TypeOK
  <2>3. UNCHANGED <<best_block_number, OnTheWay>>
    BY <1>f, <2>1, <2>2 DEF best_block_number, OnTheWay
  <2>4. Expected(c)' = Expected(c)
    BY <1>f, <2>3 DEF Expected
  <2>5. req[c].interval # None => Follows(c)'
    BY <1>o, <1>k, <2>1, <2>2, <2>3 DEF Follows
  <2>6. req[c].timestamp # None => Stamped(c)'
    BY <1>o, <1>f, <1>k, <2>1, <2>2, <2>3, <2>4 DEF Stamped
  <2> QED
    BY <1>o, <1>f, <1>k, <1>s, <2>3, <2>4, <2>5, <2>6
<1>2. CASE Commit
  <2>1. /\ building # None /\ chain' = Append(chain, building) /\ building' = None
        /\ UNCHANGED <<triggers, next_exact_timestamp>>
    BY <1>2 DEF Commit, timeVars
  <2>2. /\ best_block_number' = best_block_number + 1
        /\ \A k \in 1..best_block_number : chain'[k] = chain[k]
        /\ chain'[best_block_number + 1] = building
    BY <2>1 DEF best_block_number, TypeOK
  <2>3. OnTheWay' = OnTheWay - 1
    BY <1>f, <2>1 DEF OnTheWay
  <2>4. Expected(c)' = Expected(c)
    BY <1>f, <2>2, <2>3 DEF Expected
  <2>5. ASSUME req[c].interval # None PROVE Follows(c)'
    <3>1. next_exact_timestamp = None
      BY <1>k, <2>1, <2>5 DEF Follows
    <3>2. ASSUME NEW k \in (start[c] + 1)..(best_block_number + 1)
          PROVE  \/ chain'[k] = req[c].interval
                 \/ k = start[c] + 1 /\ chain'[k] \in Exacts
      <4>1. CASE k = best_block_number + 1
        BY <1>k, <2>1, <2>2, <2>5, <4>1 DEF Follows
      <4>2. CASE k # best_block_number + 1
        <5>1. k \in 1..best_block_number /\ k \in (start[c] + 1)..best_block_number
          BY <1>f, <3>2, <4>2
        <5> QED
          BY <1>k, <2>2, <2>5, <5>1 DEF Follows
      <4> QED
        BY <4>1, <4>2
    <3> QED
      BY <1>o, <1>k, <2>1, <2>2, <2>5, <3>1, <3>2 DEF Follows
  <2>6. ASSUME req[c].timestamp # None PROVE Stamped(c)'
    <3>1. CASE best_block_number = start[c] /\ building = req[c].timestamp
      BY <1>o, <1>f, <2>2, <3>1 DEF Stamped
    <3>2. CASE best_block_number > start[c] /\ chain[start[c] + 1] = req[c].timestamp
      <4>1. start[c] + 1 \in 1..best_block_number
        BY <1>f, <3>2
      <4> QED
        BY <1>o, <1>f, <2>2, <3>2, <4>1 DEF Stamped
    <3>3. CASE Expected(c) < End(c)
      BY <1>f, <2>4, <3>3 DEF Stamped
    <3> QED
      BY <1>k, <2>1, <2>6, <3>1, <3>2, <3>3 DEF Stamped
  <2> QED
    BY <1>o, <1>f, <1>k, <1>s, <2>2, <2>4, <2>5, <2>6
<1>3. CASE Fail
  <2>1. /\ building # None /\ building' = None
        /\ UNCHANGED <<triggers, chain, next_exact_timestamp>>
    BY <1>3 DEF Fail, timeVars
  <2>2. UNCHANGED best_block_number /\ OnTheWay' = OnTheWay - 1
    BY <1>f, <2>1 DEF best_block_number, OnTheWay
  <2>3. Expected(c)' = Expected(c) - 1 /\ Expected(c) \in Nat
    BY <1>f, <2>2 DEF Expected
  <2>4. req[c].interval # None => Follows(c)'
    BY <1>o, <1>k, <2>1, <2>2 DEF Follows
  <2>5. Stamped(c)'
    BY <1>f, <1>k, <2>3 DEF Stamped
  <2>6. (start[c] <= best_block_number /\ Expected(c) <= End(c))'
    BY <1>o, <1>f, <1>k, <2>2, <2>3
  <2> QED
    BY <1>s, <2>4, <2>5, <2>6
<1> QED
  BY <1>1, <1>2, <1>3 DEF Miner

\* Every step keeps the count of blocks and what is known of their timestamps.
LEMMA BlocksStep ==
    TypeOK /\ ControlInv /\ SavedInv /\ BlocksInv /\ [Next]_vars => BlocksInv'
<1> SUFFICES ASSUME TypeOK, ControlInv, SavedInv, BlocksInv, [Next]_vars PROVE BlocksInv'
  OBVIOUS
<1>1. CASE ~Undisturbed'
  BY <1>1 DEF BlocksInv, QuietInv, SpacingInv, StampInv
<1>2. CASE Undisturbed'
  <2>1. ~OtherTrigger /\ \A c \in Clients : ~Dropped(c)
    BY <1>2 DEF OtherTrigger, Dropped, Undisturbed, TypeOK
  <2>2. CASE UNCHANGED vars
    BY <2>2 DEF vars, timeVars, minerVars, handlerVars, BlocksInv, QuietInv, SpacingInv,
                StampInv, Undisturbed, Mining, Follows, Stamped, Expected, OnTheWay,
                Untriggered, End, best_block_number
  <2> QED
    BY <1>2, <2>1, <2>2, CallBlocks, HandlerBlocks, MinerBlocks DEF Next
<1> QED
  BY <1>1, <1>2

\* The three parts of BlocksInv are inductive together.
LEMMA BlocksAlways == SafeSpec => [](TypeOK /\ ControlInv /\ SavedInv /\ BlocksInv)
<1>1. Init => SavedInv BY DEF Init, SavedInv, Replaced
<1>2. Init => BlocksInv
  BY DEF Init, BlocksInv, QuietInv, SpacingInv, StampInv, Mining, NoRequest
<1>3. TypeOK /\ ControlInv /\ SavedInv /\ [Next]_vars => SavedInv' BY NextSaved
<1> QED BY <1>1, <1>2, <1>3, BlocksStep, TypeCorrect, PTL DEF SafeSpec

(* The blocks of an anvil_mine that succeeds are the requested interval    *)
(* apart, for any number of blocks and with blocks that fail, while calls  *)
(* come one at a time, nobody else mines and no call has given up.         *)
THEOREM SpacingTheorem == SafeSpec => []SpacingKept
<1>1. BlocksInv => SpacingKept
  BY DEF BlocksInv, QuietInv, SpacingInv, SpacingKept, Succeeds, Follows
<1> QED BY <1>1, BlocksAlways, PTL

(* anvil_mine_detailed with a timestamp answers with a first block of that *)
(* timestamp, under the same conditions: if the block that was to carry it *)
(* failed, the call does not come to fetch its blocks.                     *)
THEOREM StampTheorem == SafeSpec => []DetailedTimestamp
<1>1. TypeOK /\ BlocksInv => DetailedTimestamp
  <2> SUFFICES ASSUME TypeOK, BlocksInv, NEW c \in Clients, Undisturbed, pc[c] = "fetch",
                      left[c] = req[c].blocks, req[c].timestamp # None
               PROVE  chain[Wanted(c)] = req[c].timestamp
    BY DEF DetailedTimestamp
  <2>1. Wanted(c) = start[c] + 1
    BY CallFacts DEF Wanted, End
  <2> QED
    BY <2>1 DEF BlocksInv, StampInv
<1> QED BY <1>1, BlocksAlways, PTL

-----------------------------------------------------------------------------
(* Every call is finite *)

\* A bound on the steps a call still takes before it is answered.
Remaining(c) ==
    CASE pc[c] = "idle" -> 0
      [] pc[c] = "return" -> 1
      [] pc[c] = "fetch" -> 1 + left[c]
      [] pc[c] = "wait" -> 2 + req[c].blocks + (PollLimit - polls[c])
      [] pc[c] = "trigger" -> 3 + req[c].blocks + PollLimit + left[c]
      [] pc[c] = "start" -> 4 + 2 * req[c].blocks + PollLimit
      [] pc[c] = "set_interval" -> 5 + 2 * req[c].blocks + PollLimit

\* The longest call: an interval to set, all blocks triggered, all polls used,
\* all blocks fetched.
LongestCall == 5 + 2 * MaxRequest + PollLimit

\* What a call has left to do, while it is in progress.
LEMMA RemainingFacts ==
    ASSUME TypeOK, NEW c \in Clients
    PROVE  /\ Remaining(c) \in 0..LongestCall
           /\ Remaining(c) = 0 <=> pc[c] = "idle"
<1>1. /\ pc[c] \in Labels /\ left[c] \in 0..MaxRequest
      /\ req[c].blocks \in 0..MaxRequest /\ polls[c] \in 0..PollLimit
  BY DEF TypeOK, Request
<1>2. PollLimit \in Nat /\ MaxRequest \in Nat BY MineRpcAssumption
<1>3. CASE pc[c] = "idle" BY <1>2, <1>3 DEF Remaining, LongestCall
<1>8. CASE pc[c] = "return" BY <1>2, <1>8 DEF Remaining, LongestCall
<1>9. CASE pc[c] = "fetch" BY <1>1, <1>2, <1>9 DEF Remaining, LongestCall
<1>4. CASE pc[c] = "wait" BY <1>1, <1>2, <1>4 DEF Remaining, LongestCall
<1>5. CASE pc[c] = "trigger" BY <1>1, <1>2, <1>5 DEF Remaining, LongestCall
<1>6. CASE pc[c] = "start" BY <1>1, <1>2, <1>6 DEF Remaining, LongestCall
<1>7. CASE pc[c] = "set_interval" BY <1>1, <1>2, <1>7 DEF Remaining, LongestCall
<1> QED BY <1>1, <1>3, <1>4, <1>5, <1>6, <1>7, <1>8, <1>9 DEF Labels

\* A step of the handler brings the call nearer to its end.
LEMMA HandlerAdvances ==
    ASSUME TypeOK, ControlInv, NEW c \in Clients, Handler(c)
    PROVE  Remaining(c)' < Remaining(c)
<1>1. /\ pc[c] \in Labels /\ left[c] \in 0..MaxRequest
      /\ req[c].blocks \in 0..MaxRequest /\ polls[c] \in 0..PollLimit
      /\ PollLimit \in Nat /\ MaxRequest \in Nat
  BY MineRpcAssumption DEF TypeOK, Request
<1>2. pc[c] \in {"trigger", "fetch"} => left[c] > 0
  BY DEF ControlInv, CountdownInv
<1>3. ASSUME NEW l, Goto(c, l) PROVE pc'[c] = l
  BY <1>3 DEF Goto, TypeOK
<1>4. ASSUME pc'[c] = "idle" PROVE Remaining(c)' = 0
  BY <1>4 DEF Remaining
<1>5. ASSUME pc'[c] = "return" PROVE Remaining(c)' = 1
  BY <1>5 DEF Remaining
<1>6. pc[c] = "set_interval" => Remaining(c) = 5 + 2 * req[c].blocks + PollLimit
  BY DEF Remaining
<1>7. pc[c] = "start" => Remaining(c) = 4 + 2 * req[c].blocks + PollLimit
  BY DEF Remaining
<1>8. pc[c] = "trigger" => Remaining(c) = 3 + req[c].blocks + PollLimit + left[c]
  BY DEF Remaining
<1>9. pc[c] = "wait" => Remaining(c) = 2 + req[c].blocks + (PollLimit - polls[c])
  BY DEF Remaining
<1>10. pc[c] = "fetch" => Remaining(c) = 1 + left[c]
  BY DEF Remaining
<1>11. pc[c] = "return" => Remaining(c) = 1
  BY DEF Remaining
<1>21. CASE SetInterval(c)
  <2>1. pc'[c] = "start" /\ req'[c] = req[c] BY <1>3, <1>21 DEF SetInterval
  <2>2. Remaining(c)' = 4 + 2 * req[c].blocks + PollLimit BY <2>1 DEF Remaining
  <2> QED BY <1>1, <1>6, <1>21, <2>2 DEF SetInterval
<1>22. CASE SetIntervalPanics(c)
  BY <1>1, <1>3, <1>4, <1>6, <1>22 DEF SetIntervalPanics
<1>23. CASE Start(c)
  <2>1. CASE req[c].blocks = 0
    BY <1>1, <1>3, <1>5, <1>7, <1>23, <2>1 DEF Start
  <2>2. CASE req[c].blocks # 0
    <3>1. pc'[c] = "trigger" /\ req'[c] = req[c] /\ left'[c] = req[c].blocks
      BY <1>3, <1>23, <2>2 DEF Start, TypeOK
    <3>2. Remaining(c)' = 3 + req[c].blocks + PollLimit + req[c].blocks
      BY <3>1 DEF Remaining
    <3> QED BY <1>1, <1>7, <1>23, <3>2 DEF Start
  <2> QED BY <2>1, <2>2
<1>24. CASE Trigger(c)
  <2>1. req'[c] = req[c] /\ polls'[c] = polls[c] /\ left'[c] = left[c] - 1
    BY <1>24 DEF Trigger, TypeOK
  <2>2. CASE left[c] = 1
    <3>1. pc'[c] = "wait" BY <1>3, <1>24, <2>2 DEF Trigger
    <3>2. Remaining(c)' = 2 + req[c].blocks + (PollLimit - polls[c])
      BY <2>1, <3>1 DEF Remaining
    <3> QED BY <1>1, <1>2, <1>8, <1>24, <3>2 DEF Trigger
  <2>3. CASE left[c] # 1
    <3>1. pc'[c] = "trigger" BY <1>3, <1>24, <2>3 DEF Trigger
    <3>2. Remaining(c)' = 3 + req[c].blocks + PollLimit + (left[c] - 1)
      BY <2>1, <3>1 DEF Remaining
    <3> QED BY <1>1, <1>2, <1>8, <1>24, <3>2 DEF Trigger
  <2> QED BY <2>2, <2>3
<1>25. CASE Poll(c)
  <2>1. req'[c] = req[c] BY <1>25 DEF Poll
  <2>2. CASE Mined(c)
    <3>1. CASE req[c].op = "detailed"
      <4>1. pc'[c] = "fetch" /\ left'[c] = req[c].blocks
        BY <1>3, <2>2, <3>1 DEF Mined, TypeOK
      <4>2. Remaining(c)' = 1 + req[c].blocks BY <4>1 DEF Remaining
      <4> QED BY <1>1, <1>9, <1>25, <4>2 DEF Poll
    <3>2. CASE req[c].op # "detailed"
      BY <1>1, <1>3, <1>5, <1>9, <1>25, <2>2, <3>2 DEF Mined, Poll
    <3> QED BY <3>1, <3>2
  <2>3. CASE UNCHANGED <<pc, left>> /\ polls' = [polls EXCEPT ![c] = @ + 1]
    <3>1. pc'[c] = "wait" /\ polls'[c] = polls[c] + 1 BY <1>25, <2>3 DEF Poll, TypeOK
    <3>2. Remaining(c)' = 2 + req[c].blocks + (PollLimit - (polls[c] + 1))
      BY <2>1, <3>1 DEF Remaining
    <3> QED BY <1>1, <1>9, <1>25, <3>2 DEF Poll
  <2> QED BY <1>25, <2>2, <2>3 DEF Poll
<1>26. CASE Timeout(c) \/ ReadFails(c)
  <2>1. Remaining(c)' = 1 BY <1>3, <1>5, <1>26 DEF Timeout, ReadFails, GivesUp
  <2>2. pc[c] = "wait" \/ pc[c] = "start" BY <1>26 DEF Timeout, ReadFails
  <2> QED BY <1>1, <1>7, <1>9, <2>1, <2>2
<1>27. CASE Fetch(c)
  <2>1. CASE left[c] = 1 BY <1>1, <1>3, <1>4, <1>10, <1>27, <2>1 DEF Fetch
  <2>2. CASE left[c] # 1
    <3>1. pc'[c] = "fetch" /\ left'[c] = left[c] - 1 BY <1>27, <2>2 DEF Fetch, TypeOK
    <3>2. Remaining(c)' = 1 + (left[c] - 1) BY <3>1 DEF Remaining
    <3> QED BY <1>1, <1>10, <1>27, <3>2 DEF Fetch
  <2> QED BY <2>1, <2>2
<1>28. CASE FetchFails(c)
  BY <1>1, <1>3, <1>4, <1>10, <1>28 DEF FetchFails
<1>29. CASE Return(c)
  BY <1>1, <1>3, <1>4, <1>11, <1>29 DEF Return
<1> QED
  BY <1>21, <1>22, <1>23, <1>24, <1>25, <1>26, <1>27, <1>28, <1>29 DEF Handler

\* Nobody else changes what a call in progress has left to do.
LEMMA OthersDoNotDelay ==
    ASSUME TypeOK, NEW c \in Clients, pc[c] # "idle",
           \/ Miner \/ OtherTrigger \/ UNCHANGED vars
           \/ \E d \in Clients : Call(d) \/ (d # c /\ (Handler(d) \/ Dropped(d)))
    PROVE  Remaining(c)' = Remaining(c)
<1> SUFFICES /\ pc'[c] = pc[c] /\ left'[c] = left[c]
             /\ req'[c] = req[c] /\ polls'[c] = polls[c]
  BY DEF Remaining
<1>1. CASE Miner \/ OtherTrigger \/ UNCHANGED vars
  BY <1>1 DEF Miner, TakeTrigger, Commit, Fail, OtherTrigger, vars, handlerVars
<1>2. ASSUME NEW d \in Clients, Call(d)
      PROVE  /\ pc'[c] = pc[c] /\ left'[c] = left[c]
             /\ req'[c] = req[c] /\ polls'[c] = polls[c]
  <2>1. d # c BY <1>2 DEF Call, SetBlockTimestampInterval, Mine, MinePanics, MineDetailed,
                         MineDetailedAt, NewCall
  <2>2. UNCHANGED <<left, polls>>
    BY <1>2 DEF Call, SetBlockTimestampInterval, Mine, MinePanics, MineDetailed,
                MineDetailedAt
  <2>3. \/ UNCHANGED <<pc, req>>
        \/ \E l, r : pc' = [pc EXCEPT ![d] = l] /\ req' = [req EXCEPT ![d] = r]
    BY <1>2 DEF Call, SetBlockTimestampInterval, Mine, MinePanics, MineDetailed,
                MineDetailedAt, Goto
  <2> QED BY <2>1, <2>2, <2>3 DEF TypeOK
<1>3. ASSUME NEW d \in Clients, d # c, Handler(d) \/ Dropped(d)
      PROVE  /\ pc'[c] = pc[c] /\ left'[c] = left[c]
             /\ req'[c] = req[c] /\ polls'[c] = polls[c]
  BY <1>3 DEF Handler, SetInterval, SetIntervalPanics, Start, Trigger, Poll, Mined, Timeout,
              ReadFails, GivesUp, Fetch, FetchFails, Return, Dropped, ForgetLocals, Goto,
              TypeOK
<1> QED BY <1>1, <1>2, <1>3

\* The number of steps left is bounded, and 0 exactly when the call was answered.
CallsBounded ==
    \A c \in Clients : /\ Remaining(c) \in 0..LongestCall
                       /\ Remaining(c) = 0 <=> pc[c] = "idle"

\* Only the call's own steps change it, and each of them lowers it.
CallsAdvance ==
    \A c \in Clients : pc[c] # "idle" =>
        \/ (Handler(c) \/ Dropped(c)) /\ Remaining(c)' < Remaining(c)
        \/ ~Handler(c) /\ Remaining(c)' = Remaining(c)

(* Every call that mines is finite, whatever the miner and the other       *)
(* callers do: each step of its handler strictly lowers a number of steps  *)
(* that is never above LongestCall, is 0 exactly when the call was         *)
(* answered, and that nobody else changes.  The handler's loops, over the  *)
(* blocks to trigger, the polls and the blocks to fetch, all end; only     *)
(* that the runtime goes on polling the handler is left to assume.         *)
THEOREM FiniteTheorem == SafeSpec => []CallsBounded /\ [][CallsAdvance]_vars
<1>1. TypeOK => CallsBounded
  BY RemainingFacts DEF CallsBounded
<1>2. TypeOK /\ ControlInv /\ [Next]_vars => [CallsAdvance]_vars
  <2> SUFFICES ASSUME TypeOK, ControlInv, [Next]_vars, NEW c \in Clients, pc[c] # "idle"
               PROVE  \/ (Handler(c) \/ Dropped(c)) /\ Remaining(c)' < Remaining(c)
                      \/ ~Handler(c) /\ Remaining(c)' = Remaining(c)
    BY DEF CallsAdvance
  <2>1. CASE Handler(c) BY <2>1, HandlerAdvances
  <2>2. CASE Dropped(c)
    <3>1. pc'[c] = "idle" BY <2>2 DEF Dropped, Goto, TypeOK
    <3>2. Remaining(c)' = 0 BY <3>1 DEF Remaining
    <3>3. Remaining(c) \in Nat /\ Remaining(c) # 0
      BY RemainingFacts, MineRpcAssumption DEF LongestCall
    <3> QED BY <2>2, <3>2, <3>3
  <2>3. CASE ~Handler(c) /\ ~Dropped(c) BY <2>3, OthersDoNotDelay DEF Next
  <2> QED BY <2>1, <2>2, <2>3
<1> QED BY <1>1, <1>2, TypeCorrect, PTL DEF SafeSpec

-----------------------------------------------------------------------------
(* The trigger queue *)

Counter == INSTANCE TriggerCounter WITH pending <- triggers

(* mine_blocks triggers one block at a time, and the miner takes a trigger *)
(* that is there: MineRpc uses the queue as MiningTriggers offers it.      *)
THEOREM CounterUse == SafeSpec => Counter!SafeSpec
<1>1. Init => Counter!Init
  BY DEF Init, Counter!Init
<1>2. [Next]_vars => [Counter!Next]_triggers
  <2> SUFFICES ASSUME [Next]_vars PROVE [Counter!Next]_triggers
    OBVIOUS
  <2> USE DEF Counter!Next, Counter!Trigger, Counter!Take, minerVars
  <2>1. ASSUME NEW c \in Clients, Call(c) PROVE [Counter!Next]_triggers
    BY <2>1 DEF Call, SetBlockTimestampInterval, Mine, MinePanics, MineDetailed,
                MineDetailedAt
  <2>2. ASSUME NEW c \in Clients, Handler(c) PROVE [Counter!Next]_triggers
    BY <2>2 DEF Handler, SetInterval, SetIntervalPanics, Start, Trigger, Poll, Timeout,
                ReadFails, GivesUp, Fetch, FetchFails, Return
  <2>4. ASSUME NEW c \in Clients, Dropped(c) PROVE [Counter!Next]_triggers
    BY <2>4 DEF Dropped
  <2>3. CASE Miner \/ OtherTrigger \/ UNCHANGED vars
    BY <2>3 DEF Miner, TakeTrigger, Commit, Fail, OtherTrigger, vars
  <2> QED
    BY <2>1, <2>2, <2>3, <2>4 DEF Next
<1> QED
  BY <1>1, <1>2, PTL DEF SafeSpec, Counter!SafeSpec
=============================================================================
