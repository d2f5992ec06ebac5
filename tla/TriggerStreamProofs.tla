------------------------- MODULE TriggerStreamProofs -------------------------
(***************************************************************************)
(* For any set of producers and any number of triggers: no lost wakeup, no *)
(* lost or duplicated request, and the safety half of the refinement of    *)
(* TriggerCounter.                                                         *)
(***************************************************************************)
EXTENDS TriggerStream, TLAPS

StreamInv == TypeOK /\ WakeupInv /\ Conservation

LEMMA InitEstablishesInv == Init => StreamInv
  BY ConstantsAssumption
  DEF Init, StreamInv, TypeOK, WakeupInv, Conservation, NotifiedStates,
      ConsumerStates

LEMMA StepKeepsInv == StreamInv /\ [Next]_vars => StreamInv'
<1> SUFFICES ASSUME StreamInv, [Next]_vars
             PROVE  StreamInv'
  OBVIOUS
<1> USE ConstantsAssumption
    DEF StreamInv, TypeOK, WakeupInv, Conservation, Notifying,
        NotifiedStates, ConsumerStates
<1>1. ASSUME NEW p \in Producers, FetchAdd(p)
      PROVE  StreamInv'
  BY <1>1 DEF FetchAdd
<1>2. ASSUME NEW p \in Producers, NotifyOne(p)
      PROVE  StreamInv'
  BY <1>2 DEF NotifyOne
<1>3. CASE PollNext
  BY <1>3 DEF PollNext
<1>4. CASE Wake
  BY <1>4 DEF Wake
<1>5. CASE SpuriousPoll
  BY <1>5 DEF SpuriousPoll
<1>6. CASE Load
  BY <1>6 DEF Load
<1>7. CASE CompareExchange
  BY <1>7 DEF CompareExchange
<1>8. CASE PollNotified
  BY <1>8 DEF PollNotified
<1>9. CASE UNCHANGED vars
  BY <1>9 DEF vars
<1> QED
  BY <1>1, <1>2, <1>3, <1>4, <1>5, <1>6, <1>7, <1>8, <1>9
  DEF Next, Trigger, Stream

LEMMA InvHolds == SafeSpec => []StreamInv
  BY InitEstablishesInv, StepKeepsInv, PTL DEF SafeSpec

\* Type correctness of the counter, the Notify and both program counters.
THEOREM TypeCorrect == SafeSpec => []TypeOK
  BY InvHolds, PTL DEF StreamInv

\* The miner's task never sleeps unwoken on a request that was announced.
THEOREM WakeupTheorem == SafeSpec => []NoLostWakeup
<1>1. StreamInv => NoLostWakeup
  BY DEF StreamInv, WakeupInv, NoLostWakeup, TypeOK, NotifiedStates
<1> QED
  BY <1>1, InvHolds, PTL

\* A request nobody is about to announce is found by the next load, or a permit
\* or a notification is left for it.
THEOREM WakeupInvTheorem == SafeSpec => []WakeupInv
  BY InvHolds, PTL DEF StreamInv

\* poll_next hands out each request once and drops none.
THEOREM ConservationTheorem == SafeSpec => []Conservation
  BY InvHolds, PTL DEF StreamInv

\* Each atomic step of trigger() and poll_next is a step of the counter or
\* leaves it alone.
THEOREM CounterRefinement == SafeSpec => Counter!SafeSpec
<1>1. Init => Counter!Init
  BY DEF Init, Counter!Init
<1>2. StreamInv /\ [Next]_vars => [Counter!Next]_pending
  <2> SUFFICES ASSUME StreamInv, [Next]_vars
               PROVE  [Counter!Next]_pending
    OBVIOUS
  <2> USE DEF Counter!Next, Counter!Trigger, Counter!Take
  <2>1. CASE \E p \in Producers : FetchAdd(p)
    BY <2>1 DEF FetchAdd
  <2>2. CASE CompareExchange
    BY <2>2 DEF CompareExchange, StreamInv, WakeupInv
  <2>3. CASE \/ \E p \in Producers : NotifyOne(p)
             \/ PollNext \/ Wake \/ SpuriousPoll \/ Load \/ PollNotified
             \/ UNCHANGED vars
    BY <2>3 DEF NotifyOne, PollNext, Wake, SpuriousPoll, Load, PollNotified, vars
  <2> QED
    BY <2>1, <2>2, <2>3 DEF Next, Trigger, Stream
<1> QED
  BY <1>1, <1>2, InvHolds, PTL DEF SafeSpec, Counter!SafeSpec
=============================================================================
