---------------------------- MODULE TriggerStream ----------------------------
(***************************************************************************)
(* MiningTriggers and MiningTriggerStream of src/mining.rs at the grain of *)
(* their atomic operations.                                                *)
(*                                                                         *)
(* Producers are the threads that call MiningController::trigger(): RPC    *)
(* handlers, the automine task and the interval task.  trigger() is two    *)
(* atomic operations, an increment of the shared counter and a call of     *)
(* Notify::notify_one(), and any thread may run between them.              *)
(*                                                                         *)
(* The one consumer is the local miner, which polls the stream.  poll_next *)
(* loads the counter, tries to decrement it with a compare-and-exchange,   *)
(* and when it finds zero polls a Notified future it keeps across calls.   *)
(*                                                                         *)
(* tokio's Notify is external.  It is modelled by its contract: one stored *)
(* permit when nobody waits, otherwise the registered waiter is marked     *)
(* notified and its task is woken.                                         *)
(***************************************************************************)
EXTENDS Naturals, FiniteSets

CONSTANTS
    Producers,      \* threads that call trigger()
    MaxTriggers     \* bound: how many times trigger() is called in all

ASSUME ConstantsAssumption == MaxTriggers \in Nat

VARIABLES
    pending,        \* MiningTriggers.pending: AtomicUsize
    permits,        \* Notify: stored notifications, at most one
    notified,       \* MiningTriggerStream.notified: the future it keeps
    producer,       \* where each producer is inside trigger()
    consumer,       \* where the consumer is inside poll_next
    seen,           \* poll_next's local `pending`
    issued,         \* history: increments performed
    yielded         \* history: items handed out

vars == <<pending, permits, notified, producer, consumer, seen, issued, yielded>>

(* The future is absent, registered with the Notify, or registered and    *)
(* already notified.  Creation and first poll are one step of poll_next,   *)
(* so a future that exists and was never polled is not observable.         *)
NotifiedStates == {"none", "waiting", "notified"}

(* "away": the consumer is not inside poll_next and will call it by        *)
(* itself; "asleep": poll_next returned Pending and the task waits for its *)
(* waker.                                                                  *)
ConsumerStates == {"away", "load", "exchange", "park", "asleep"}

Init ==
    /\ pending = 0
    /\ permits = 0
    /\ notified = "none"
    /\ producer = [p \in Producers |-> "idle"]
    /\ consumer = "away"
    /\ seen = 0
    /\ issued = 0
    /\ yielded = 0

-----------------------------------------------------------------------------
(* MiningTriggers::trigger *)

\* self.pending.fetch_add(1, AcqRel)
FetchAdd(p) ==
    /\ producer[p] = "idle"
    /\ issued < MaxTriggers
    /\ pending' = pending + 1
    /\ issued' = issued + 1
    /\ producer' = [producer EXCEPT ![p] = "notify"]
    /\ UNCHANGED <<permits, notified, consumer, seen, yielded>>

\* Mutant: the notification is dropped when nobody is registered yet.
NotifyOneNoPermit(p) ==
    /\ producer[p] = "notify"
    /\ producer' = [producer EXCEPT ![p] = "idle"]
    /\ notified' = IF notified = "waiting" THEN "notified" ELSE notified
    /\ UNCHANGED <<pending, permits, consumer, seen, issued, yielded>>

\* self.notify.notify_one(): wakes the registered waiter, else stores a permit.
NotifyOne(p) ==
    /\ producer[p] = "notify"
    /\ producer' = [producer EXCEPT ![p] = "idle"]
    /\ IF notified = "waiting"
       THEN notified' = "notified" /\ permits' = permits
       ELSE permits' = 1 /\ notified' = notified
    /\ UNCHANGED <<pending, consumer, seen, issued, yielded>>

-----------------------------------------------------------------------------
(* MiningTriggerStream::poll_next *)

\* The miner asks for the next item.
PollNext ==
    /\ consumer = "away"
    /\ consumer' = "load"
    /\ UNCHANGED <<pending, permits, notified, producer, seen, issued, yielded>>

\* The runtime polls the task again because its waker was called.
Wake ==
    /\ consumer = "asleep"
    /\ notified = "notified"
    /\ consumer' = "load"
    /\ UNCHANGED <<pending, permits, notified, producer, seen, issued, yielded>>

\* The task is polled for another reason: the stream is one branch of a
\* larger future.  Nothing may rely on this happening.
SpuriousPoll ==
    /\ consumer = "asleep"
    /\ consumer' = "load"
    /\ UNCHANGED <<pending, permits, notified, producer, seen, issued, yielded>>

\* let pending = self.pending.load(Acquire)
Load ==
    /\ consumer = "load"
    /\ seen' = pending
    /\ consumer' = IF pending > 0 THEN "exchange" ELSE "park"
    /\ UNCHANGED <<pending, permits, notified, producer, issued, yielded>>

\* Mutant: a plain store of pending - 1, whatever happened since the load.
BlindStore ==
    /\ consumer = "exchange"
    /\ pending' = seen - 1
    /\ yielded' = yielded + 1
    /\ consumer' = "away"
    /\ UNCHANGED <<permits, notified, producer, seen, issued>>

\* compare_exchange(pending, pending - 1): an item, or back to the load.
CompareExchange ==
    /\ consumer = "exchange"
    /\ \/ /\ pending = seen
          /\ pending' = seen - 1
          /\ yielded' = yielded + 1
          /\ consumer' = "away"
       \/ /\ pending # seen
          /\ consumer' = "load"
          /\ UNCHANGED <<pending, yielded>>
    /\ UNCHANGED <<permits, notified, producer, seen, issued>>

\* Create the Notified future if there is none and poll it.  Ready (a stored
\* permit on its first poll, or a notification since) drops it and starts
\* over; otherwise the waiter is registered and poll_next returns Pending.
PollNotified ==
    /\ consumer = "park"
    /\ \/ /\ notified = "notified" \/ (notified = "none" /\ permits = 1)
          /\ permits' = IF notified = "notified" THEN permits ELSE 0
          /\ notified' = "none"
          /\ consumer' = "load"
       \/ /\ notified = "waiting" \/ (notified = "none" /\ permits = 0)
          /\ notified' = "waiting"
          /\ consumer' = "asleep"
          /\ UNCHANGED permits
    /\ UNCHANGED <<pending, producer, seen, issued, yielded>>

-----------------------------------------------------------------------------
Trigger(p) == FetchAdd(p) \/ NotifyOne(p)

Stream == PollNext \/ Wake \/ Load \/ CompareExchange \/ PollNotified

Next ==
    \/ \E p \in Producers : Trigger(p)
    \/ Stream
    \/ SpuriousPoll

SafeSpec == Init /\ [][Next]_vars

(* A thread inside trigger() leaves it, and the miner's task runs whenever *)
(* it is runnable: both are tokio tasks on a multi-threaded runtime and    *)
(* neither blocks.  No fairness for starting a trigger or for spurious     *)
(* polls.                                                                  *)
Fairness ==
    /\ \A p \in Producers : WF_vars(NotifyOne(p))
    /\ WF_vars(Stream)

Spec == SafeSpec /\ Fairness

-----------------------------------------------------------------------------
TypeOK ==
    /\ pending \in Nat
    /\ permits \in {0, 1}
    /\ notified \in NotifiedStates
    /\ producer \in [Producers -> {"idle", "notify"}]
    /\ consumer \in ConsumerStates
    /\ seen \in Nat
    /\ issued \in 0..MaxTriggers
    /\ yielded \in Nat

\* Some thread has incremented the counter and has not yet notified.
Notifying == \E p \in Producers : producer[p] = "notify"

(* No lost wakeup: the miner's task never sleeps unwoken on a request      *)
(* unless the thread that made it is still about to notify.  This is about *)
(* the order increment, then notify in trigger() against load, then poll   *)
(* of the Notified future in poll_next.                                    *)
NoLostWakeup ==
    pending > 0 /\ consumer = "asleep" => notified = "notified" \/ Notifying

(* The strengthening that makes NoLostWakeup inductive: a request nobody   *)
(* is about to announce is either going to be loaded by poll_next, or a    *)
(* permit or a notification is left for its next poll of the future; and a *)
(* permit is stored only while no waiter is registered.                    *)
WakeupInv ==
    /\ pending > 0 /\ consumer \in {"park", "asleep"} =>
           permits = 1 \/ notified = "notified" \/ Notifying
    /\ consumer = "asleep" => notified # "none"
    /\ notified = "waiting" => permits = 0
    /\ consumer = "exchange" => seen > 0

(* Every increment is handed out at most once and none is dropped by the   *)
(* compare-and-exchange loop of poll_next.                                 *)
Conservation == issued = pending + yielded

(* Every call of trigger() becomes an item of the stream: the n-th request *)
(* leads to the n-th item, although notifications coalesce into a single   *)
(* permit.                                                                 *)
EveryTriggerYields ==
    \A n \in 1..MaxTriggers : issued >= n ~> yielded >= n

(* The atomic operations implement the counter the node relies on: each    *)
(* step of trigger() and poll_next is an increment, a decrement by one of  *)
(* a positive counter, or invisible, and a request does not stay for ever. *)
Counter == INSTANCE TriggerCounter WITH pending <- pending
ImplementsCounter == Counter!Spec
=============================================================================
