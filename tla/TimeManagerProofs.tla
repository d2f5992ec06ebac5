------------------------- MODULE TimeManagerProofs -------------------------
(***************************************************************************)
(* Proofs about TimeManager, for any number of callers, any arguments and  *)
(* any width of u64.                                                       *)
(***************************************************************************)
EXTENDS TimeManager, TLAPS

(* A saturated sum is a u64 and not below its first argument; it is above  *)
(* it when it adds one, unless u64 is exhausted.                           *)
LEMMA SaturatingAddFacts ==
    ASSUME NEW a \in U64, NEW b \in U64
    PROVE  /\ SaturatingAdd(a, b) \in U64
           /\ SaturatingAdd(a, b) >= a
  BY TimeAssumption DEF SaturatingAdd, U64

(* `as u64` yields a u64.                                                  *)
LEMMA CastFacts == ASSUME NEW i \in Int PROVE AsU64(i) \in U64
  BY TimeAssumption DEF AsU64, U64

(* The choice of compute_next_timestamp is a u64 after the last timestamp. *)
LEMMA LaterFacts ==
    ASSUME NEW t \in U64, mlast \in U64
    PROVE  /\ LaterThanLast(t) \in U64
           /\ LaterThanLast(t) >= mlast
           /\ LaterThanLast(t) > mlast \/ LaterThanLast(t) = MaxU64
  BY TimeAssumption DEF LaterThanLast, SaturatingAdd, U64

(* The same for an exact timestamp, which may repeat the last one.         *)
LEMMA ExactFacts ==
    ASSUME NEW t \in U64, mlast \in U64
    PROVE  /\ ExactOrLater(t) \in U64
           /\ ExactOrLater(t) >= mlast
  BY TimeAssumption DEF ExactOrLater, SaturatingAdd, U64

(* Milliseconds become seconds: the result is still a u64.                 *)
LEMMA NormalizeFacts ==
    ASSUME NEW t \in U64 PROVE normalize_timestamp_input(t) \in U64
<1>1. t \div MsFactor \in Int /\ t \div MsFactor >= 0 /\ t \div MsFactor <= t
  BY TimeAssumption DEF U64
<1> QED
  BY <1>1, TimeAssumption DEF normalize_timestamp_input, U64

-----------------------------------------------------------------------------
(* Next preserves the type invariant.                                      *)
LEMMA TypeStep == TypeOK /\ [Next]_vars => TypeOK'
<1> SUFFICES ASSUME TypeOK, [Next]_vars PROVE TypeOK'
  OBVIOUS
<1> USE TimeAssumption DEF TypeOK, fields, rpcVars, minerVars, history
<1>1. CASE Tick
  BY <1>1 DEF Tick
<1>2. ASSUME NEW c \in Clients, NEW t \in SetTimes, SetTime(c, t) PROVE TypeOK'
  <2>1. normalize_timestamp_input(t) \in U64
    BY NormalizeFacts
  <2> QED
    BY <1>2, <2>1 DEF SetTime, NewCall
<1>3. ASSUME NEW c \in Clients, ResetLast(c) PROVE TypeOK'
  BY <1>3 DEF ResetLast
<1>4. ASSUME NEW c \in Clients, ResetOffset(c) PROVE TypeOK'
  BY <1>4 DEF ResetOffset, U64
<1>5. ASSUME NEW c \in Clients, ResetExact(c) PROVE TypeOK'
  BY <1>5 DEF ResetExact, Opt64
<1>6. ASSUME NEW c \in Clients, NEW t \in ExactTimes, SetNextCheck(c, t)
      PROVE TypeOK'
  BY <1>6 DEF SetNextCheck, NewCall
<1>7. ASSUME NEW c \in Clients, SetNextWrite(c) PROVE TypeOK'
  BY <1>7 DEF SetNextWrite, Opt64
<1>8. ASSUME NEW c \in Clients, NEW s \in Increments, IncreaseTime(c, s)
      PROVE TypeOK'
  BY <1>8 DEF IncreaseTime, NewCall, U64
<1>9. ASSUME NEW c \in Clients, NEW s \in Intervals \cup {None}, SetInterval(c, s)
      PROVE TypeOK'
  BY <1>9 DEF SetInterval, NewCall, Opt64
<1>10. CASE MinerClock \/ MinerReadLast
  BY <1>10 DEF MinerClock, MinerReadLast
<1>11. CASE MinerReadExact
  <2>1. next_exact_timestamp # None => ExactOrLater(next_exact_timestamp) \in U64
    BY ExactFacts DEF Opt64
  <2> QED
    BY <1>11, <2>1 DEF MinerReadExact
<1>12. CASE MinerReadInterval
  <2>1. interval # None => LaterThanLast(SaturatingAdd(mlast, interval)) \in U64
    BY LaterFacts, SaturatingAddFacts DEF Opt64
  <2> QED
    BY <1>12, <2>1 DEF MinerReadInterval
<1>13. CASE MinerReadOffset
  <2>1. mcurrent + offset \in Int
    OBVIOUS
  <2>2. LaterThanLast(AsU64(mcurrent + offset)) \in U64
    BY <2>1, LaterFacts, CastFacts
  <2> QED
    BY <1>13, <2>2 DEF MinerReadOffset
<1>14. CASE MinerTake \/ MinerWriteLast \/ MinerDone
  BY <1>14 DEF MinerTake, MinerWriteLast, MinerDone, Opt64
<1>15. CASE MinerWriteOffset
  BY <1>15 DEF MinerWriteOffset, U64
<1>16. CASE UNCHANGED vars
  BY <1>16 DEF vars
<1> QED
  BY <1>1, <1>2, <1>3, <1>4, <1>5, <1>6, <1>7, <1>8, <1>9, <1>10, <1>11, <1>12,
     <1>13, <1>14, <1>15, <1>16 DEF Next, Miner, Client

(* Type correctness: timestamps stay u64 through casts and saturation.     *)
THEOREM TypeCorrect == Spec => []TypeOK
<1>1. Init => TypeOK
  BY TimeAssumption DEF Init, TypeOK, U64, Opt64, None
<1> QED
  BY <1>1, TypeStep, PTL DEF Spec

-----------------------------------------------------------------------------
(* Monotone time.  While nobody moved last_timestamp back, it bounds the   *)
(* head, and so does every intermediate value of next_timestamp.           *)
Chosen == {"take", "write_offset", "write_last", "build"}

HeadInv ==
    rewound = "no" =>
        /\ head <= last_timestamp
        /\ mpc \in {"exact", "interval", "offset"} => head <= mlast
        /\ mpc \in {"interval", "offset"} => mexact = None
        /\ mpc \in Chosen =>
              /\ next_timestamp >= head
              /\ mexact = None => next_timestamp > head \/ next_timestamp = MaxU64
        /\ mpc = "build" => next_timestamp <= last_timestamp

(* Next preserves HeadInv.                                                 *)
LEMMA HeadStep == TypeOK /\ HeadInv /\ [Next]_vars => HeadInv'
<1> SUFFICES ASSUME TypeOK, HeadInv, [Next]_vars, rewound' = "no"
             PROVE HeadInv'
  BY DEF HeadInv
<1> USE TimeAssumption DEF HeadInv, Chosen, U64, fields, rpcVars, minerVars, history
<1>1. CASE Tick
  BY <1>1 DEF Tick
<1>2. ASSUME NEW c \in Clients, ResetLast(c) PROVE HeadInv'
  BY <1>2 DEF ResetLast, TypeOK
<1>3. ASSUME NEW c \in Clients, Client(c), ~ResetLast(c) PROVE HeadInv'
  BY <1>3 DEF Client, SetTime, ResetOffset, ResetExact, SetNextCheck, SetNextWrite,
              IncreaseTime, SetInterval
<1>4. CASE MinerClock \/ MinerReadLast
  BY <1>4 DEF MinerClock, MinerReadLast
<1>5. CASE MinerReadExact
  <2>1. next_exact_timestamp # None =>
           /\ ExactOrLater(next_exact_timestamp) \in Int
           /\ ExactOrLater(next_exact_timestamp) >= mlast
    BY ExactFacts DEF Opt64, TypeOK
  <2> QED
    BY <1>5, <2>1 DEF MinerReadExact, TypeOK
<1>6. CASE MinerReadInterval
  <2> DEFINE n == LaterThanLast(SaturatingAdd(mlast, interval))
  <2>1. interval # None => n \in Int /\ n >= mlast /\ (n > mlast \/ n = MaxU64)
    BY LaterFacts, SaturatingAddFacts DEF Opt64, TypeOK
  <2> HIDE DEF n
  <2> QED
    BY <1>6, <2>1 DEF MinerReadInterval, TypeOK, n
<1>7. CASE MinerReadOffset
  <2> DEFINE n == LaterThanLast(AsU64(mcurrent + offset))
  <2>1. AsU64(mcurrent + offset) \in U64
    BY CastFacts DEF TypeOK
  <2>2. n \in Int /\ n >= mlast /\ (n > mlast \/ n = MaxU64)
    BY <2>1, LaterFacts DEF TypeOK
  <2>3. next_timestamp' = n /\ mpc = "offset" /\ mpc' = "take"
        /\ UNCHANGED <<head, last_timestamp, mexact, rewound>>
    BY <1>7 DEF MinerReadOffset
  <2> HIDE DEF n
  <2> QED
    BY <2>2, <2>3 DEF TypeOK
<1>8. CASE MinerTake \/ MinerWriteOffset \/ MinerWriteLast \/ MinerDone
  BY <1>8 DEF MinerTake, MinerWriteOffset, MinerWriteLast, MinerDone, TypeOK
<1>9. CASE UNCHANGED vars
  BY <1>9 DEF vars
<1> QED
  BY <1>1, <1>2, <1>3, <1>4, <1>5, <1>6, <1>7, <1>8, <1>9 DEF Next, Miner

(* However the time RPCs interleave with next_timestamp, the miner is      *)
(* never given a timestamp before the head unless a set_time moved         *)
(* last_timestamp back.                                                    *)
THEOREM HeadTheorem == Spec => []NeverBehindHead
<1>1. Init => HeadInv
  BY TimeAssumption DEF Init, HeadInv, U64, Chosen
<1>2. HeadInv => NeverBehindHead
  BY DEF HeadInv, NeverBehindHead, Chosen
<1> QED
  BY <1>1, <1>2, HeadStep, TypeCorrect, PTL DEF Spec

(* While no set_time moved last_timestamp back, set_next_block_timestamp   *)
(* refuses every timestamp below the head's.                               *)
THEOREM AcceptedTheorem == Spec => AcceptedNotBelowHead
<1>1. Init => HeadInv
  BY TimeAssumption DEF Init, HeadInv, U64, Chosen
<1>2. TypeOK /\ HeadInv =>
         \A c \in Clients : \A t \in ExactTimes :
            rewound = "no" /\ SetNextCheck(c, t) /\ pc'[c] = "set_next" => t >= head
  BY TimeAssumption DEF TypeOK, HeadInv, SetNextCheck, NewCall, U64
<1> QED
  BY <1>1, <1>2, HeadStep, TypeCorrect, PTL DEF Spec, AcceptedNotBelowHead

-----------------------------------------------------------------------------
(* An exact timestamp that still waits is one that was accepted and not    *)
(* used yet, unless next_timestamp is between reading and taking it.       *)
ExactInv ==
    /\ used <= accepted
    /\ next_exact_timestamp # None /\ ~(mpc = "take" /\ mexact # None) =>
          used < accepted

(* Next preserves ExactInv.                                                *)
LEMMA ExactStep == TypeOK /\ ExactInv /\ [Next]_vars => ExactInv'
<1> SUFFICES ASSUME TypeOK, ExactInv, [Next]_vars PROVE ExactInv'
  OBVIOUS
<1> USE DEF ExactInv, fields, rpcVars, minerVars, history
<1>1. CASE Tick
  BY <1>1 DEF Tick
<1>2. ASSUME NEW c \in Clients, Client(c) PROVE ExactInv'
  BY <1>2 DEF Client, SetTime, ResetLast, ResetOffset, ResetExact, SetNextCheck,
              SetNextWrite, IncreaseTime, SetInterval, TypeOK
<1>3. CASE MinerReadExact
  BY <1>3 DEF MinerReadExact, TypeOK
<1>4. CASE MinerTake
  BY <1>4 DEF MinerTake
<1>5. CASE \/ MinerClock \/ MinerReadLast \/ MinerReadInterval \/ MinerReadOffset
           \/ MinerWriteOffset \/ MinerWriteLast \/ MinerDone
  BY <1>5 DEF MinerClock, MinerReadLast, MinerReadInterval, MinerReadOffset,
              MinerWriteOffset, MinerWriteLast, MinerDone
<1>6. CASE UNCHANGED vars
  BY <1>6 DEF vars
<1> QED
  BY <1>1, <1>2, <1>3, <1>4, <1>5, <1>6 DEF Next, Miner

(* No exact timestamp is used for two blocks.                              *)
THEOREM ExactTheorem == Spec => []ExactAtMostOnce
<1>1. Init => ExactInv
  BY DEF Init, ExactInv
<1>2. ExactInv => ExactAtMostOnce
  BY DEF ExactInv, ExactAtMostOnce
<1> QED
  BY <1>1, <1>2, ExactStep, TypeCorrect, PTL DEF Spec

-----------------------------------------------------------------------------
(* What CastSafe asks of the arguments: no timestamp set by hand, nor the  *)
(* genesis block's, is smaller than the lag.                               *)
LateEnough ==
    /\ Genesis >= MaxLag
    /\ \A t \in SetTimes : normalize_timestamp_input(t) >= MaxLag

(* Every timestamp is at least the lag, every clock value read is not in   *)
(* the future, and the miner's is at most the lag old; hence the offset    *)
(* never reaches further back than to the lag.                             *)
CastInv ==
    /\ last_timestamp >= MaxLag
    /\ offset + clock >= MaxLag
    /\ \A c \in Clients :
          /\ pc[c] \in {"reset_last", "reset_offset"} => arg[c] >= MaxLag
          /\ current[c] <= clock
    /\ mcurrent <= clock
    /\ mpc \in {"last", "exact", "interval", "offset"} => clock - mcurrent <= MaxLag
    /\ mpc \in {"exact", "interval", "offset"} => mlast >= MaxLag
    /\ mpc \in Chosen => next_timestamp >= MaxLag

(* Next preserves CastInv.                                                 *)
LEMMA CastStep ==
    LateEnough /\ TypeOK /\ CastInv /\ [Next]_vars => CastInv'
<1> SUFFICES ASSUME LateEnough, TypeOK, CastInv, [Next]_vars PROVE CastInv'
  OBVIOUS
<1> USE TimeAssumption DEF CastInv, Chosen, U64, fields, rpcVars, minerVars, history
<1>1. CASE Tick
  BY <1>1 DEF Tick, TypeOK
<1>2. ASSUME NEW c \in Clients, NEW t \in SetTimes, SetTime(c, t) PROVE CastInv'
  <2>1. normalize_timestamp_input(t) >= MaxLag
    BY DEF LateEnough
  <2> QED
    BY <1>2, <2>1 DEF SetTime, TypeOK
<1>3. ASSUME NEW c \in Clients, ResetLast(c) PROVE CastInv'
  BY <1>3 DEF ResetLast, TypeOK
<1>4. ASSUME NEW c \in Clients, ResetOffset(c) PROVE CastInv'
  <2>1. arg[c] >= MaxLag /\ current[c] <= clock /\ arg[c] \in Int
        /\ current[c] \in Int
    BY <1>4 DEF ResetOffset, TypeOK
  <2>2. offset' + clock' >= MaxLag
    BY <1>4, <2>1 DEF ResetOffset, TypeOK
  <2> QED
    BY <1>4, <2>2 DEF ResetOffset, TypeOK
<1>5. ASSUME NEW c \in Clients, ResetExact(c) \/ SetNextWrite(c) PROVE CastInv'
  BY <1>5 DEF ResetExact, SetNextWrite, TypeOK
<1>6. ASSUME NEW c \in Clients, NEW t \in ExactTimes, SetNextCheck(c, t)
      PROVE CastInv'
  BY <1>6 DEF SetNextCheck, NewCall, TypeOK
<1>7. ASSUME NEW c \in Clients, NEW s \in Increments, IncreaseTime(c, s)
      PROVE CastInv'
  BY <1>7 DEF IncreaseTime, TypeOK
<1>8. ASSUME NEW c \in Clients, NEW s \in Intervals \cup {None}, SetInterval(c, s)
      PROVE CastInv'
  BY <1>8 DEF SetInterval
<1>9. CASE MinerClock \/ MinerReadLast
  BY <1>9 DEF MinerClock, MinerReadLast, TypeOK
<1>10. CASE MinerReadExact
  <2>1. next_exact_timestamp # None =>
           /\ ExactOrLater(next_exact_timestamp) \in Int
           /\ ExactOrLater(next_exact_timestamp) >= mlast
    BY ExactFacts DEF Opt64, TypeOK
  <2> QED
    BY <1>10, <2>1 DEF MinerReadExact, TypeOK
<1>11. CASE MinerReadInterval
  <2> DEFINE n == LaterThanLast(SaturatingAdd(mlast, interval))
  <2>1. interval # None => n \in Int /\ n >= mlast
    BY LaterFacts, SaturatingAddFacts DEF Opt64, TypeOK
  <2>2. /\ mpc = "interval" /\ mpc' \in {"offset", "take"}
        /\ mpc' = "take" => interval # None /\ next_timestamp' = n
        /\ UNCHANGED <<clock, offset, last_timestamp, pc, arg, current, mcurrent, mlast>>
    BY <1>11 DEF MinerReadInterval
  <2> HIDE DEF n
  <2> QED
    BY <2>1, <2>2 DEF TypeOK
<1>12. CASE MinerReadOffset
  <2> DEFINE n == LaterThanLast(AsU64(mcurrent + offset))
  <2>1. AsU64(mcurrent + offset) \in U64
    BY CastFacts DEF TypeOK
  <2>2. n \in Int /\ n >= mlast
    BY <2>1, LaterFacts DEF TypeOK
  <2>3. /\ mpc = "offset" /\ mpc' = "take" /\ next_timestamp' = n
        /\ UNCHANGED <<clock, offset, last_timestamp, pc, arg, current, mcurrent, mlast>>
    BY <1>12 DEF MinerReadOffset
  <2> HIDE DEF n
  <2> QED
    BY <2>2, <2>3 DEF TypeOK
<1>13. CASE MinerTake \/ MinerWriteLast \/ MinerDone
  BY <1>13 DEF MinerTake, MinerWriteLast, MinerDone, TypeOK
<1>14. CASE MinerWriteOffset
  BY <1>14 DEF MinerWriteOffset, TypeOK
<1>15. CASE UNCHANGED vars
  BY <1>15 DEF vars
<1> QED
  BY <1>1, <1>2, <1>3, <1>4, <1>5, <1>6, <1>7, <1>8, <1>9, <1>10, <1>11, <1>12,
     <1>13, <1>14, <1>15 DEF Next, Miner, Client

(* If nobody sets the time to within the lag of the epoch, the cast never  *)
(* sees a negative time, although clock and offset are read at different   *)
(* moments.                                                                *)
THEOREM CastTheorem == ASSUME LateEnough PROVE Spec => []CastSafe
<1>1. Init => CastInv
  BY LateEnough, TimeAssumption DEF Init, CastInv, LateEnough, U64, Chosen
<1>2. TypeOK /\ CastInv => CastSafe
  BY TimeAssumption DEF CastInv, CastSafe, TypeOK, U64
<1>3. TypeOK /\ CastInv /\ [Next]_vars => CastInv'
  BY LateEnough, CastStep
<1> QED
  BY <1>1, <1>2, <1>3, TypeCorrect, PTL DEF Spec

-----------------------------------------------------------------------------
(* When an exact timestamp is lost *)

\* next_timestamp is about to discard an exact timestamp it did not use.
Endangered == mpc = "take" /\ next_exact_timestamp \notin {None, mexact}

\* While compute_next_timestamp holds the read guard there is no exact timestamp.
GuardInv == ExactLocked => next_exact_timestamp = None

(* Next preserves GuardInv.                                                *)
LEMMA GuardStep == GuardInv /\ [Next]_vars => GuardInv'
<1> SUFFICES ASSUME GuardInv, [Next]_vars PROVE GuardInv'
  OBVIOUS
<1> USE DEF GuardInv, ExactLocked, fields, rpcVars, minerVars
<1>1. ASSUME NEW c \in Clients, Client(c) PROVE GuardInv'
  BY <1>1 DEF Client, SetTime, ResetLast, ResetOffset, ResetExact, SetNextCheck,
              SetNextWrite, IncreaseTime, SetInterval
<1>2. CASE Miner
  BY <1>2 DEF Miner, MinerClock, MinerReadLast, MinerReadExact, MinerReadInterval,
              MinerReadOffset, MinerTake, MinerWriteOffset, MinerWriteLast, MinerDone
<1>3. CASE Tick \/ UNCHANGED vars
  BY <1>3 DEF Tick, vars
<1> QED
  BY <1>1, <1>2, <1>3 DEF Next

\* Only set_next_block_timestamp, in the window between the read of
\* next_exact_timestamp and its take(), puts a timestamp in danger.
OnlyInWindow ==
    ~Endangered /\ Endangered' => mpc = "take" /\ \E c \in Clients : SetNextWrite(c)

(* ExactNotLost is violated in one way only: next_timestamp discards an    *)
(* exact timestamp it did not use only if set_next_block_timestamp wrote   *)
(* it between line 91, which reads next_exact_timestamp, and line 114,     *)
(* which takes it.  What was accepted before the read is used, and the     *)
(* read guard keeps the other steps of compute_next_timestamp free of new  *)
(* ones.                                                                   *)
THEOREM WindowTheorem == Spec => []GuardInv /\ [][OnlyInWindow]_vars
<1>1. Init => GuardInv
  BY DEF Init, GuardInv, ExactLocked
<1>2. GuardInv /\ [Next]_vars => [OnlyInWindow]_vars
  <2> SUFFICES ASSUME GuardInv, Next, ~Endangered, Endangered'
               PROVE  mpc = "take" /\ \E c \in Clients : SetNextWrite(c)
    BY DEF OnlyInWindow
  <2> USE DEF Endangered, fields, rpcVars, minerVars
  <2>1. ASSUME NEW c \in Clients, Client(c) PROVE mpc = "take" /\ SetNextWrite(c)
    BY <2>1 DEF Client, SetTime, ResetLast, ResetOffset, ResetExact, SetNextCheck,
                SetNextWrite, IncreaseTime, SetInterval
  <2>2. CASE Miner
    BY <2>2 DEF Miner, MinerClock, MinerReadLast, MinerReadExact, MinerReadInterval,
                MinerReadOffset, MinerTake, MinerWriteOffset, MinerWriteLast, MinerDone,
                GuardInv, ExactLocked
  <2>3. CASE Tick
    BY <2>3 DEF Tick
  <2> QED
    BY <2>1, <2>2, <2>3 DEF Next
<1> QED
  BY <1>1, <1>2, GuardStep, PTL DEF Spec
=============================================================================
