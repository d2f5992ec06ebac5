------------------------------- MODULE MineRpc -------------------------------
(***************************************************************************)
(* The RPC calls that mine: anvil_mine, anvil_mine_detailed and the        *)
(* mine_blocks and wait_for_block_number they share (src/anvil_api.rs),    *)
(* with the interval and the exact timestamp of the TimeManager that they  *)
(* set (src/time.rs).                                                      *)
(*                                                                         *)
(* The trigger stream appears as TriggerCounter, the specification that    *)
(* TriggerStream implements: a number of pending triggers.  The miner      *)
(* takes one, asks payload_attributes_hook for the timestamp, and commits  *)
(* a block some time later, or fails.                                      *)
(*                                                                         *)
(* A block is recorded as the rule that gave its timestamp: the token of   *)
(* an exact timestamp, the interval since its predecessor, or Clock.       *)
(***************************************************************************)
EXTENDS Naturals, Sequences

CONSTANTS
    Clients,                \* concurrent RPC callers
    Intervals,              \* block timestamp intervals
    Exacts,                 \* exact timestamps
    Clock, None,
    TooBig,                 \* a U256 above u64::MAX
    PollLimit,              \* polls before the timeout; 200 in the code
    \* Bounds on requested blocks, on RPC calls, and on the other triggers,
    \* failing blocks, failing reads and dropped calls together.
    MaxRequest, MaxCalls, MaxMishaps

ASSUME MineRpcAssumption ==
    /\ PollLimit \in Nat \ {0}
    /\ MaxRequest \in Nat /\ MaxCalls \in Nat /\ MaxMishaps \in Nat
    /\ {Clock, None, TooBig} \cap (Intervals \cup Exacts) = {}
    /\ Clock # None /\ None # TooBig

VARIABLES
    interval, next_exact_timestamp,                         \* TimeManager
    triggers, building, chain,                              \* miner and chain
    pc, req, previous_interval, start, left, polls, result, \* handlers
    calls, others, failures,
    configured,     \* the interval last set by its own RPC (history)
    gave_up,        \* has mine_blocks ended in an error? (history)
    serial          \* did every call come to its end before the next began? (history)

timeVars == <<interval, next_exact_timestamp, configured>>
minerVars == <<triggers, building, chain, others, failures>>
handlerVars == <<pc, req, previous_interval, start, left, polls, result, calls, gave_up,
                 serial>>
vars == <<timeVars, minerVars, handlerVars>>

Stamps == Intervals \cup Exacts \cup {Clock}
Request == [op : {"mine", "detailed"}, blocks : 0..MaxRequest,
            interval : Intervals \cup {None, TooBig}, timestamp : Exacts \cup {None}]
Labels == {"idle", "set_interval", "start", "trigger", "wait", "fetch", "return"}
NoRequest == [op |-> "mine", blocks |-> 0, interval |-> None, timestamp |-> None]

best_block_number == Len(chain)
End(c) == start[c] + req[c].blocks

Init ==
    /\ interval = None /\ next_exact_timestamp = None /\ configured = None
    /\ triggers = 0 /\ building = None /\ chain = <<>>
    /\ others = 0 /\ failures = 0
    /\ pc = [c \in Clients |-> "idle"]
    /\ req = [c \in Clients |-> NoRequest]
    /\ previous_interval = [c \in Clients |-> None]
    /\ start = [c \in Clients |-> 0]
    /\ left = [c \in Clients |-> 0]
    /\ polls = [c \in Clients |-> 0]
    /\ result = [c \in Clients |-> "ok"]
    /\ calls = 0 /\ gave_up = "no" /\ serial = "yes"

-----------------------------------------------------------------------------
(* RPC handlers *)

\* There is still room for another trigger, a failure or a dropped call.
Mishap == others + failures < MaxMishaps

Goto(c, label) == pc' = [pc EXCEPT ![c] = label]

\* A handler's locals end with it.
ForgetLocals(c) ==
    /\ req' = [req EXCEPT ![c] = NoRequest]
    /\ previous_interval' = [previous_interval EXCEPT ![c] = None]
    /\ start' = [start EXCEPT ![c] = 0]
    /\ polls' = [polls EXCEPT ![c] = 0]
    /\ result' = [result EXCEPT ![c] = "ok"]

NewCall(c) ==
    /\ pc[c] = "idle"
    /\ calls < MaxCalls
    /\ calls' = calls + 1
    /\ serial' = IF \E d \in Clients : pc[d] # "idle" THEN "no" ELSE serial

\* anvil_set_block_timestamp_interval; None is anvil_remove_....
SetBlockTimestampInterval(c, i) ==
    /\ NewCall(c)
    /\ interval' = i /\ configured' = i
    /\ UNCHANGED <<next_exact_timestamp, minerVars, pc, req, previous_interval, start,
                   left, polls, result, gave_up>>

\* anvil_mine panics on a number of blocks above u64::MAX.  A panic ends the
\* call; in release builds, which abort on it, it ends the node, and with it all
\* that is modelled here.
MinePanics(c) ==
    /\ NewCall(c)
    /\ UNCHANGED <<timeVars, minerVars, pc, req, previous_interval, start, left, polls,
                   result, gave_up>>

\* anvil_mine.  With an interval it begins by reading the one in force.
Mine(c, blocks, i) ==
    /\ NewCall(c)
    /\ req' = [req EXCEPT ![c] =
                  [op |-> "mine", blocks |-> blocks, interval |-> i, timestamp |-> None]]
    /\ previous_interval' = IF i = None THEN previous_interval
                            ELSE [previous_interval EXCEPT ![c] = interval]
    /\ Goto(c, IF i = None THEN "start" ELSE "set_interval")
    /\ UNCHANGED <<timeVars, minerVars, start, left, polls, result, gave_up>>

SetInterval(c) ==
    /\ pc[c] = "set_interval" /\ req[c].interval # TooBig
    /\ interval' = req[c].interval
    /\ Goto(c, "start")
    /\ UNCHANGED <<next_exact_timestamp, configured, minerVars, req, previous_interval,
                   start, left, polls, result, calls, gave_up, serial>>

\* An interval above u64::MAX: the panic comes before the call that sets it.
SetIntervalPanics(c) ==
    /\ pc[c] = "set_interval" /\ req[c].interval = TooBig
    /\ Goto(c, "idle") /\ ForgetLocals(c)
    /\ UNCHANGED <<timeVars, minerVars, left, calls, gave_up, serial>>

\* anvil_mine_detailed without a timestamp goes straight to mine_blocks.
MineDetailed(c, blocks) ==
    /\ NewCall(c)
    /\ req' = [req EXCEPT ![c] = [NoRequest EXCEPT !.op = "detailed",
                                                       !.blocks = blocks]]
    /\ Goto(c, "start")
    /\ UNCHANGED <<timeVars, minerVars, previous_interval, start, left, polls, result,
                   gave_up>>

\* anvil_mine_detailed sets its timestamp first; a refusal ends the call.
MineDetailedAt(c, blocks, t) ==
    /\ NewCall(c)
    /\ \/ /\ next_exact_timestamp' = t
          /\ req' = [req EXCEPT ![c] = [op |-> "detailed", blocks |-> blocks,
                                        interval |-> None, timestamp |-> t]]
          /\ Goto(c, "start")
       \/ UNCHANGED <<next_exact_timestamp, req, pc>>
    /\ UNCHANGED <<interval, configured, minerVars, previous_interval, start, left, polls,
                   result, gave_up>>

\* mine_blocks reads the block number, unless there is nothing to mine.
Start(c) ==
    /\ pc[c] = "start"
    /\ start' = [start EXCEPT ![c] = best_block_number]
    /\ left' = [left EXCEPT ![c] = req[c].blocks]
    /\ Goto(c, IF req[c].blocks = 0 THEN "return" ELSE "trigger")
    /\ UNCHANGED <<timeVars, minerVars, req, previous_interval, polls, result, calls,
                   gave_up, serial>>

\* Mutant: `0..=blocks`.
TriggerInclusive(c) ==
    /\ pc[c] = "trigger"
    /\ triggers' = triggers + 1
    /\ left' = [left EXCEPT ![c] = @ - 1]
    /\ Goto(c, IF left[c] = 0 THEN "wait" ELSE "trigger")
    /\ UNCHANGED <<timeVars, building, chain, others, failures, req, previous_interval,
                   start, polls, result, calls, gave_up, serial>>

\* Triggers once per requested block.
Trigger(c) ==
    /\ pc[c] = "trigger"
    /\ triggers' = triggers + 1
    /\ left' = [left EXCEPT ![c] = @ - 1]
    /\ Goto(c, IF left[c] = 1 THEN "wait" ELSE "trigger")
    /\ UNCHANGED <<timeVars, building, chain, others, failures, req, previous_interval,
                   start, polls, result, calls, gave_up, serial>>

\* The blocks are there and the wait ends; anvil_mine_detailed goes on to fetch them.
Mined(c) ==
    /\ polls' = [polls EXCEPT ![c] = 0]
    /\ IF req[c].op = "detailed"
       THEN Goto(c, "fetch") /\ left' = [left EXCEPT ![c] = req[c].blocks]
       ELSE Goto(c, "return") /\ UNCHANGED left

\* Mutant: the wait ends one block early.
PollEarly(c) ==
    /\ pc[c] = "wait" /\ polls[c] < PollLimit
    /\ IF best_block_number + 1 >= End(c)
       THEN Mined(c)
       ELSE UNCHANGED <<pc, left>> /\ polls' = [polls EXCEPT ![c] = @ + 1]
    /\ UNCHANGED <<timeVars, minerVars, req, previous_interval, start, result, calls,
                   gave_up, serial>>

\* One round of wait_for_block_number.
Poll(c) ==
    /\ pc[c] = "wait" /\ polls[c] < PollLimit
    /\ IF best_block_number >= End(c)
       THEN Mined(c)
       ELSE UNCHANGED <<pc, left>> /\ polls' = [polls EXCEPT ![c] = @ + 1]
    /\ UNCHANGED <<timeVars, minerVars, req, previous_interval, start, result, calls,
                   gave_up, serial>>

\* The number of the block that is fetched next.
Wanted(c) == End(c) - left[c] + 1

\* block_by_number_full; after the last block the call is answered.
Fetch(c) ==
    /\ pc[c] = "fetch"
    /\ left' = [left EXCEPT ![c] = @ - 1]
    /\ IF left[c] = 1 THEN Goto(c, "idle") /\ ForgetLocals(c)
       ELSE UNCHANGED <<pc, req, previous_interval, start, polls, result>>
    /\ UNCHANGED <<timeVars, minerVars, calls, gave_up, serial>>

\* ... or an error ends the call, or its client is gone.
FetchFails(c) ==
    /\ pc[c] = "fetch"
    /\ Goto(c, "idle") /\ ForgetLocals(c) /\ left' = [left EXCEPT ![c] = 0]
    /\ UNCHANGED <<timeVars, minerVars, calls, gave_up, serial>>

\* Mutant: an error is returned before the interval is restored.
TimeoutReturns(c) ==
    /\ pc[c] = "wait" /\ polls[c] = PollLimit
    /\ gave_up' = "yes"
    /\ Goto(c, "idle") /\ ForgetLocals(c)
    /\ UNCHANGED <<timeVars, minerVars, left, calls, serial>>

\* Mutant: it polls for ever.
TimeoutNever(c) ==
    /\ pc[c] = "wait" /\ polls[c] = PollLimit
    /\ polls' = [polls EXCEPT ![c] = 0]
    /\ UNCHANGED <<timeVars, minerVars, pc, req, previous_interval, start, left, result,
                   calls, gave_up, serial>>

\* mine_blocks ends in an error; its triggers stay.
GivesUp(c) ==
    /\ result' = [result EXCEPT ![c] = "error"]
    /\ gave_up' = "yes"
    /\ polls' = [polls EXCEPT ![c] = 0]
    /\ Goto(c, "return")
    /\ UNCHANGED <<timeVars, triggers, building, chain, others, req, previous_interval,
                   start, left, calls, serial>>

\* After the last round the block number is not read again.
Timeout(c) ==
    /\ pc[c] = "wait" /\ polls[c] = PollLimit
    /\ GivesUp(c) /\ UNCHANGED failures

\* The provider fails to read the block number.
ReadFails(c) ==
    /\ \/ pc[c] = "wait" /\ polls[c] < PollLimit
       \/ pc[c] = "start" /\ req[c].blocks > 0
    /\ Mishap /\ failures' = failures + 1
    /\ GivesUp(c)

\* mine_blocks is back: anvil_mine restores the interval, whatever the result.
Return(c) ==
    /\ pc[c] = "return"
    /\ interval' = IF req[c].interval = None THEN interval ELSE previous_interval[c]
    /\ Goto(c, "idle") /\ ForgetLocals(c)
    /\ UNCHANGED <<next_exact_timestamp, configured, minerVars, left, calls, gave_up,
                   serial>>

\* External: the server drops a call whose client has gone, at the await of a
\* poll; nothing after it is run, and its triggers stay.
Dropped(c) ==
    /\ pc[c] = "wait" /\ polls[c] > 0
    /\ Mishap /\ failures' = failures + 1
    /\ serial' = "no"
    /\ Goto(c, "idle") /\ ForgetLocals(c)
    /\ UNCHANGED <<timeVars, triggers, building, chain, others, left, calls, gave_up>>

-----------------------------------------------------------------------------
(* The miner (external, but for next_timestamp) and the other triggers *)

\* next_timestamp: exact before interval before clock.
next_timestamp ==
    IF next_exact_timestamp # None THEN next_exact_timestamp
    ELSE IF interval # None THEN interval ELSE Clock

\* Mutant: the interval goes before the exact timestamp.
TakeTriggerIntervalFirst ==
    /\ building = None /\ triggers > 0
    /\ triggers' = triggers - 1
    /\ building' = IF interval # None THEN interval ELSE next_timestamp
    /\ next_exact_timestamp' = IF interval # None THEN next_exact_timestamp ELSE None
    /\ UNCHANGED <<interval, configured, chain, others, failures, handlerVars>>

\* Mutant: the exact timestamp is used again.
TakeTriggerKeeps ==
    /\ building = None /\ triggers > 0
    /\ triggers' = triggers - 1
    /\ building' = next_timestamp
    /\ UNCHANGED <<timeVars, chain, others, failures, handlerVars>>

TakeTrigger ==
    /\ building = None /\ triggers > 0
    /\ triggers' = triggers - 1
    /\ building' = next_timestamp
    /\ next_exact_timestamp' = None
    /\ UNCHANGED <<interval, configured, chain, others, failures, handlerVars>>

Commit ==
    /\ building # None
    /\ chain' = Append(chain, building)
    /\ building' = None
    /\ UNCHANGED <<timeVars, triggers, others, failures, handlerVars>>

Fail ==
    /\ building # None /\ Mishap
    /\ building' = None
    /\ failures' = failures + 1
    /\ UNCHANGED <<timeVars, triggers, chain, others, handlerVars>>

\* The automine and interval tasks and anvil_set_automine trigger as well.
OtherTrigger ==
    /\ Mishap
    /\ others' = others + 1
    /\ triggers' = triggers + 1
    /\ UNCHANGED <<timeVars, building, chain, failures, handlerVars>>

-----------------------------------------------------------------------------
Call(c) ==
    \/ \E i \in Intervals \cup {None} :
          \/ SetBlockTimestampInterval(c, i)
          \/ \E blocks \in 0..MaxRequest : Mine(c, blocks, i)
    \/ MinePanics(c) \/ \E blocks \in 0..MaxRequest : Mine(c, blocks, TooBig)
    \/ \E blocks \in 0..MaxRequest :
          \/ MineDetailed(c, blocks)
          \/ \E t \in Exacts : MineDetailedAt(c, blocks, t)

Handler(c) ==
    \/ SetInterval(c) \/ SetIntervalPanics(c) \/ Start(c) \/ Trigger(c) \/ Poll(c)
    \/ Timeout(c) \/ ReadFails(c) \/ Fetch(c) \/ FetchFails(c) \/ Return(c)

Miner == TakeTrigger \/ Commit \/ Fail

Next == Miner \/ OtherTrigger \/ \E c \in Clients : Call(c) \/ Handler(c) \/ Dropped(c)

SafeSpec == Init /\ [][Next]_vars

\* Handlers are polled by the runtime; nothing is assumed of the miner.
Spec == SafeSpec /\ \A c \in Clients : WF_vars(Handler(c))

-----------------------------------------------------------------------------
TypeOK ==
    /\ interval \in Intervals \cup {None} /\ configured \in Intervals \cup {None}
    /\ next_exact_timestamp \in Exacts \cup {None}
    /\ triggers \in Nat /\ building \in Stamps \cup {None} /\ chain \in Seq(Stamps)
    /\ pc \in [Clients -> Labels]
    /\ req \in [Clients -> Request]
    /\ previous_interval \in [Clients -> Intervals \cup {None}]
    /\ start \in [Clients -> Nat] /\ left \in [Clients -> 0..MaxRequest]
    /\ polls \in [Clients -> 0..PollLimit]
    /\ result \in [Clients -> {"ok", "error"}]
    /\ calls \in 0..MaxCalls /\ gave_up \in {"no", "yes"}
    /\ serial \in {"no", "yes"}
    /\ others \in 0..MaxMishaps /\ failures \in 0..MaxMishaps

\* A call that came to mine_blocks and was told it succeeded.
Succeeds(c) == pc[c] = "return" /\ result[c] = "ok"

\* Calls ran one at a time, nobody else mined, and no call gave up and left its
\* triggers to the next one.
Undisturbed == serial = "yes" /\ others = 0 /\ gave_up = "no"

(* anvil_mine leaves the block timestamp interval as it found it, also     *)
(* when it times out, mines nothing or panics on its arguments (and the    *)
(* build unwinds): with no call in progress, the interval is the one that  *)
(* was configured.  Until two calls overlap, or one is dropped while it    *)
(* waits: its interval then stays in force.                                *)
IntervalRestored ==
    serial = "yes" /\ (\A c \in Clients : pc[c] = "idle") => interval = configured

(* The blocks of anvil_mine(n, interval) are that interval apart; only an  *)
(* exact timestamp left by an earlier call may come before it, for the     *)
(* first.                                                                  *)
SpacingKept ==
    \A c \in Clients :
        Undisturbed /\ Succeeds(c) /\ req[c].interval # None =>
            \A k \in (start[c] + 1)..End(c) :
                \/ chain[k] = req[c].interval
                \/ k = start[c] + 1 /\ chain[k] \in Exacts

(* anvil_mine_detailed(timestamp) answers with a block of that timestamp   *)
(* first; "assert_eq!(blocks[0].header.timestamp, requested_timestamp)"    *)
(* (src/main.rs:572).                                                      *)
DetailedTimestamp ==
    \A c \in Clients :
        Undisturbed /\ pc[c] = "fetch" /\ left[c] = req[c].blocks
                    /\ req[c].timestamp # None =>
            chain[Wanted(c)] = req[c].timestamp

(* anvil_mine_detailed asks only for blocks that are on the chain: once    *)
(* the wait is over, "missing mined block" is not its own doing, whoever   *)
(* else mines.                                                             *)
FetchedExist ==
    \A c \in Clients : pc[c] = "fetch" => Wanted(c) \in 1..best_block_number

(* Every call that mines is answered, with blocks or with an error, even   *)
(* if the miner never produces one, unless its client has gone.            *)
EveryCallReturns == \A c \in Clients : pc[c] # "idle" ~> pc[c] = "idle"
=============================================================================
