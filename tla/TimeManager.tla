---------------------------- MODULE TimeManager ----------------------------
(***************************************************************************)
(* Block timestamps: TimeManager (src/time.rs) and the RPC handlers that   *)
(* drive it (src/anvil_api.rs).  Its four fields are behind four locks, so *)
(* next_timestamp, reset and set_next_block_timestamp are sequences of     *)
(* steps that interleave; one step is one lock acquisition or one reading  *)
(* of the system clock.  Edition 2021 keeps the guard of the `if let` at   *)
(* line 91 to the end of the statement: next_exact_timestamp cannot be     *)
(* written while the interval and the offset are read.                     *)
(*                                                                         *)
(* The miner is reth's: it calls next_timestamp for every block it builds, *)
(* and the block becomes the head or is lost.                              *)
(***************************************************************************)
EXTENDS Integers

CONSTANTS
    Clients,        \* concurrent RPC callers
    MaxU64,         \* u64::MAX
    MsThreshold,    \* 1_000_000_000_000: larger timestamps are milliseconds
    MsFactor,       \* 1000
    Genesis,        \* timestamp of the genesis block
    Clock0,         \* system time when the node starts
    SetTimes, ExactTimes, Increments, Intervals,    \* arguments of the RPCs
    MaxLag,         \* bound: seconds that pass while next_timestamp runs
    MaxClock,       \* bound: system time
    MaxCalls,       \* bound: RPC calls
    MaxBlocks       \* bound: blocks the miner starts

U64 == 0..MaxU64

ASSUME TimeAssumption ==
    /\ MaxU64 \in Nat \ {0} /\ MsThreshold \in Nat /\ MsFactor \in Nat \ {0}
    /\ Genesis \in U64 /\ Clock0 \in U64
    /\ SetTimes \subseteq U64 /\ ExactTimes \subseteq U64
    /\ Increments \subseteq U64 /\ Intervals \subseteq U64
    /\ MaxLag \in Nat /\ MaxClock \in Nat /\ MaxCalls \in Nat /\ MaxBlocks \in Nat

VARIABLES
    clock,                                              \* system time
    offset, last_timestamp, next_exact_timestamp, interval,     \* TimeManager
    pc, arg, current,       \* handlers in progress: step, argument, clock read
    calls,
    mpc, mcurrent, mlast, mexact, next_timestamp,       \* next_timestamp()
    head,                   \* timestamp of the latest block
    blocks,
    rewound,                \* history: has set_time moved last_timestamp back?
    accepted, used          \* history: exact timestamps accepted, and used

fields == <<offset, last_timestamp, next_exact_timestamp, interval>>
rpcVars == <<pc, arg, current, calls>>
minerVars == <<mpc, mcurrent, mlast, mexact, next_timestamp, head, blocks>>
history == <<rewound, accepted, used>>
vars == <<clock, fields, rpcVars, minerVars, history>>

None == -1          \* Option::None of an Option<u64>
Opt64 == U64 \cup {None}

SaturatingAdd(a, b) == IF a + b > MaxU64 THEN MaxU64 ELSE a + b

\* Mutant: the sum is used without the cast.
AsU64NoCast(i) == i

\* `as u64` on an i128: the low 64 bits.
AsU64(i) == i % (MaxU64 + 1)

normalize_timestamp_input(t) ==
    IF t > MsThreshold THEN t \div MsFactor ELSE t

\* TimeManager::new(genesis timestamp), before anything else runs.
Init ==
    /\ clock = Clock0
    /\ offset = Genesis - Clock0
    /\ last_timestamp = Genesis
    /\ next_exact_timestamp = None
    /\ interval = None
    /\ pc = [c \in Clients |-> "idle"]
    /\ arg = [c \in Clients |-> 0]
    /\ current = [c \in Clients |-> 0]
    /\ calls = 0
    /\ mpc = "idle" /\ mcurrent = 0 /\ mlast = 0 /\ mexact = None
    /\ next_timestamp = 0
    /\ head = Genesis
    /\ blocks = 0
    /\ rewound = "no" /\ accepted = 0 /\ used = 0

\* Is the read guard of next_exact_timestamp held by compute_next_timestamp?
ExactLocked == mpc \in {"interval", "offset"}

\* The system clock advances.
Tick ==
    /\ clock < MaxClock
    /\ mpc \in {"last", "exact", "interval", "offset"} => clock - mcurrent < MaxLag
    /\ clock' = clock + 1
    /\ UNCHANGED <<fields, rpcVars, minerVars, history>>

-----------------------------------------------------------------------------
(* RPC handlers *)

NewCall(c) ==
    /\ pc[c] = "idle"
    /\ calls < MaxCalls
    /\ calls' = calls + 1

\* anvil_set_time normalises its argument; reset reads the clock.
SetTime(c, t) ==
    /\ NewCall(c)
    /\ arg' = [arg EXCEPT ![c] = normalize_timestamp_input(t)]
    /\ current' = [current EXCEPT ![c] = clock]
    /\ pc' = [pc EXCEPT ![c] = "reset_last"]
    /\ UNCHANGED <<clock, fields, minerVars, history>>

ResetLast(c) ==
    /\ pc[c] = "reset_last"
    /\ last_timestamp' = arg[c]
    /\ rewound' = IF arg[c] < last_timestamp THEN "yes" ELSE rewound
    /\ pc' = [pc EXCEPT ![c] = "reset_offset"]
    /\ UNCHANGED <<clock, offset, next_exact_timestamp, interval, arg, current,
                   calls, minerVars, accepted, used>>

\* Mutant: the requested time is left out of the offset.
ResetOffsetNoClock(c) ==
    /\ pc[c] = "reset_offset"
    /\ offset' = 0 - current[c]
    /\ pc' = [pc EXCEPT ![c] = "reset_exact"]
    /\ UNCHANGED <<clock, last_timestamp, next_exact_timestamp, interval, arg,
                   current, calls, minerVars, history>>

ResetOffset(c) ==
    /\ pc[c] = "reset_offset"
    /\ offset' = arg[c] - current[c]
    /\ pc' = [pc EXCEPT ![c] = "reset_exact"]
    /\ UNCHANGED <<clock, last_timestamp, next_exact_timestamp, interval, arg,
                   current, calls, minerVars, history>>

ResetExact(c) ==
    /\ pc[c] = "reset_exact"
    /\ ~ExactLocked
    /\ next_exact_timestamp' = None
    /\ pc' = [pc EXCEPT ![c] = "idle"]
    /\ UNCHANGED <<clock, offset, last_timestamp, interval, arg, current, calls,
                   minerVars, history>>

\* Mutant: the argument is not compared.
SetNextCheckAny(c, t) ==
    /\ NewCall(c)
    /\ arg' = [arg EXCEPT ![c] = t]
    /\ pc' = [pc EXCEPT ![c] = "set_next"]
    /\ UNCHANGED <<clock, fields, current, minerVars, history>>

\* set_next_block_timestamp compares with last_timestamp.  A timestamp below
\* it is an error and the call ends.
SetNextCheck(c, t) ==
    /\ NewCall(c)
    /\ arg' = [arg EXCEPT ![c] = t]
    /\ pc' = [pc EXCEPT ![c] = IF t < last_timestamp THEN "idle" ELSE "set_next"]
    /\ UNCHANGED <<clock, fields, current, minerVars, history>>

SetNextWrite(c) ==
    /\ pc[c] = "set_next"
    /\ ~ExactLocked
    /\ next_exact_timestamp' = arg[c]
    /\ accepted' = accepted + 1
    /\ pc' = [pc EXCEPT ![c] = "idle"]
    /\ UNCHANGED <<clock, offset, last_timestamp, interval, arg, current, calls,
                   minerVars, rewound, used>>

\* anvil_increase_time.  (The i128 sum of u64 values does not saturate.)
IncreaseTime(c, seconds) ==
    /\ NewCall(c)
    /\ offset' = offset + seconds
    /\ UNCHANGED <<clock, last_timestamp, next_exact_timestamp, interval, pc, arg,
                   current, minerVars, history>>

\* anvil_set_block_timestamp_interval; None is anvil_remove_....
SetInterval(c, seconds) ==
    /\ NewCall(c)
    /\ mpc # "offset"           \* the guard of line 93
    /\ interval' = seconds
    /\ UNCHANGED <<clock, offset, last_timestamp, next_exact_timestamp, pc, arg,
                   current, minerVars, history>>

-----------------------------------------------------------------------------
(* next_timestamp, called by the miner through payload_attributes_hook *)

MinerClock ==
    /\ mpc = "idle"
    /\ blocks < MaxBlocks
    /\ blocks' = blocks + 1
    /\ mcurrent' = clock
    /\ mpc' = "last"
    /\ UNCHANGED <<clock, fields, rpcVars, mlast, mexact, next_timestamp, head,
                   history>>

MinerReadLast ==
    /\ mpc = "last"
    /\ mlast' = last_timestamp
    /\ mpc' = "exact"
    /\ UNCHANGED <<clock, fields, rpcVars, mcurrent, mexact, next_timestamp, head,
                   blocks, history>>

\* An exact timestamp may repeat the last one; an older one gives way.
ExactOrLater(t) == IF t < mlast THEN SaturatingAdd(mlast, 1) ELSE t

\* Mutant: `<` for `<=`.
LaterThanLastOffByOne(t) == IF t < mlast THEN SaturatingAdd(mlast, 1) ELSE t

\* Any other timestamp must be later than the last one.
LaterThanLast(t) == IF t <= mlast THEN SaturatingAdd(mlast, 1) ELSE t

MinerReadExact ==
    /\ mpc = "exact"
    /\ mexact' = next_exact_timestamp
    /\ IF next_exact_timestamp = None
       THEN mpc' = "interval" /\ UNCHANGED <<next_timestamp, used>>
       ELSE /\ next_timestamp' = ExactOrLater(next_exact_timestamp)
            /\ used' = used + 1
            /\ mpc' = "take"
    /\ UNCHANGED <<clock, fields, rpcVars, mcurrent, mlast, head, blocks, rewound,
                   accepted>>

MinerReadInterval ==
    /\ mpc = "interval"
    /\ IF interval = None
       THEN mpc' = "offset" /\ UNCHANGED next_timestamp
       ELSE /\ next_timestamp' = LaterThanLast(SaturatingAdd(mlast, interval))
            /\ mpc' = "take"
    /\ UNCHANGED <<clock, fields, rpcVars, mcurrent, mlast, mexact, head, blocks,
                   history>>

MinerReadOffset ==
    /\ mpc = "offset"
    /\ next_timestamp' = LaterThanLast(AsU64(mcurrent + offset))
    /\ mpc' = "take"
    /\ UNCHANGED <<clock, fields, rpcVars, mcurrent, mlast, mexact, head, blocks,
                   history>>

\* Mutant: the exact timestamp is left in place.
MinerTakeKeeps ==
    /\ mpc = "take"
    /\ mpc' = IF mexact = None THEN "write_last" ELSE "write_offset"
    /\ UNCHANGED <<clock, fields, rpcVars, mcurrent, mlast, mexact,
                   next_timestamp, head, blocks, history>>

MinerTake ==
    /\ mpc = "take"
    /\ next_exact_timestamp' = None
    /\ mpc' = IF mexact = None THEN "write_last" ELSE "write_offset"
    /\ UNCHANGED <<clock, offset, last_timestamp, interval, rpcVars, mcurrent,
                   mlast, mexact, next_timestamp, head, blocks, history>>

MinerWriteOffset ==
    /\ mpc = "write_offset"
    /\ offset' = next_timestamp - mcurrent
    /\ mpc' = "write_last"
    /\ UNCHANGED <<clock, last_timestamp, next_exact_timestamp, interval, rpcVars,
                   mcurrent, mlast, mexact, next_timestamp, head, blocks, history>>

MinerWriteLast ==
    /\ mpc = "write_last"
    /\ last_timestamp' = next_timestamp
    /\ mpc' = "build"
    /\ UNCHANGED <<clock, offset, next_exact_timestamp, interval, rpcVars,
                   mcurrent, mlast, mexact, next_timestamp, head, blocks, history>>

\* External: the block with this timestamp becomes the head, or is not built.
MinerDone ==
    /\ mpc = "build"
    /\ mpc' = "idle"
    /\ head' \in {next_timestamp, head}
    /\ UNCHANGED <<clock, fields, rpcVars, mcurrent, mlast, mexact,
                   next_timestamp, blocks, history>>

-----------------------------------------------------------------------------
Client(c) ==
    \/ \E t \in SetTimes : SetTime(c, t)
    \/ ResetLast(c) \/ ResetOffset(c) \/ ResetExact(c)
    \/ \E t \in ExactTimes : SetNextCheck(c, t)
    \/ SetNextWrite(c)
    \/ \E s \in Increments : IncreaseTime(c, s)
    \/ \E s \in Intervals \cup {None} : SetInterval(c, s)

Miner ==
    \/ MinerClock \/ MinerReadLast \/ MinerReadExact \/ MinerReadInterval
    \/ MinerReadOffset \/ MinerTake \/ MinerWriteOffset \/ MinerWriteLast
    \/ MinerDone

Next == Tick \/ Miner \/ \E c \in Clients : Client(c)

Spec == Init /\ [][Next]_vars

-----------------------------------------------------------------------------
(* Types: every timestamp fits a u64, whatever the offset grew to.         *)
TypeOK ==
    /\ clock \in Nat /\ offset \in Int
    /\ last_timestamp \in U64 /\ next_exact_timestamp \in Opt64 /\ interval \in Opt64
    /\ pc \in [Clients -> {"idle", "reset_last", "reset_offset", "reset_exact",
                           "set_next"}]
    /\ arg \in [Clients -> U64] /\ current \in [Clients -> Nat]
    /\ calls \in 0..MaxCalls
    /\ mpc \in {"idle", "last", "exact", "interval", "offset", "take",
                "write_offset", "write_last", "build"}
    /\ mcurrent \in Nat /\ mlast \in U64 /\ mexact \in Opt64 /\ next_timestamp \in U64
    /\ head \in U64 /\ blocks \in 0..MaxBlocks
    /\ rewound \in {"no", "yes"} /\ accepted \in Nat /\ used \in Nat

(* The timestamp given to the miner never lies before the latest block,    *)
(* and lies after it unless an exact timestamp asked for the same one or   *)
(* u64 is exhausted: whatever set_time, set_next_block_timestamp,          *)
(* increase_time and the interval calls do while next_timestamp runs, as   *)
(* long as no set_time moved last_timestamp back.                          *)
NeverBehindHead ==
    mpc = "build" /\ rewound = "no" =>
        /\ next_timestamp >= head
        /\ mexact = None => next_timestamp > head \/ next_timestamp = MaxU64

(* An accepted exact timestamp is used by at most one block, although it   *)
(* is read under one lock and taken under another.                         *)
ExactAtMostOnce == used <= accepted

(* The cast of line 96 never wraps a time before the epoch around to the   *)
(* far future.  It rests on every set_time argument being at least as      *)
(* large as the seconds that can pass inside compute_next_timestamp: the   *)
(* clock there may be older than the one the offset was computed with.     *)
CastSafe == mpc = "offset" => mcurrent + offset >= 0

(* "Sets the exact timestamp to use in the next block." (src/time.rs:60)   *)
(* next_timestamp discards no exact timestamp other than the one it used.  *)
ExactNotLost ==
    [][MinerTake => next_exact_timestamp \in {None, mexact}]_vars

(* "is lower than previous block's timestamp" (src/time.rs:64): no exact   *)
(* timestamp lower than the latest block's passes the check, although it   *)
(* compares with last_timestamp and blocks are built meanwhile, as long as *)
(* no set_time moved last_timestamp back.                                  *)
AcceptedNotBelowHead ==
    [][\A c \in Clients : \A t \in ExactTimes :
          rewound = "no" /\ SetNextCheck(c, t) /\ pc'[c] = "set_next" => t >= head]_vars
=============================================================================
