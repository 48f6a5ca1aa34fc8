----------------------------- MODULE FrameQueue -----------------------------
(***************************************************************************)
(* hihopesdk/base/core/src/queue/framequeue*.cpp: a queue of preallocated  *)
(* frames.  A FrameQueueProducer dequeues a free slot, asks for the Frame  *)
(* behind it, fills the Frame outside the lock and queues the slot.  A     *)
(* FrameQueueConsumer acquires the slot at the front, reads the Frame      *)
(* outside the lock and releases the slot.                                 *)
(*                                                                         *)
(* All state is under FrameQueue::mMutex, so one action is one stretch of  *)
(* a call between taking the mutex (or waking in wait) and returning (or   *)
(* waiting).  The two condition variables are the sets of threads that     *)
(* wait on them; notify_all moves every waiter to "retry".                 *)
(*                                                                         *)
(* The program builds one such queue with its two ends                     *)
(* (facedetectservice.cpp:10-12) and no thread of it calls them: what is   *)
(* shown here is what the library promises to whoever will.                *)
(***************************************************************************)
EXTENDS Naturals, Sequences, FiniteSets

CONSTANTS Producers,              \* threads that call the producer side
          Consumers,              \* threads that call the consumer side
          MaxAcquired,            \* mMaxAcquiredBufferCount (2 by default)
          MaxDequeued,            \* mMaxDequeuedBufferCount (1 by default)
          FrameIds                \* bound: frames are numbered 1 .. FrameIds, round and round

\* The constructor's parameters: positive, and mSlots has room for the slots
\* they ask for (NUM_BUFFER_SLOTS; the constructor does not check it).
ASSUME CountsAssumption == /\ MaxAcquired \in Nat \ {0}
                           /\ MaxDequeued \in Nat \ {0}
                           /\ MaxAcquired + MaxDequeued <= 64

ASSUME FrameIdsAssumption == FrameIds \in Nat \ {0}

ASSUME ThreadsAssumption == Producers \cap Consumers = {}

MaxBufferCount == MaxAcquired + MaxDequeued

\* The slots the constructor puts on the free list; no other ever gets there.
Slots == 0 .. MaxBufferCount - 1

Status == {"Unused", "Free", "Dequeue", "Queue", "Accquire"}

Threads == Producers \cup Consumers

VARIABLES mStatus,       \* mSlots[s].mStatus
          mFrame,        \* mSlots[s].mFrame, as the number of the frame in it, 0 for none
          mQueue,        \* the queued slots, oldest first
          mActiveSlots,
          mFreeSlots,
          pc,            \* where a thread is: outside, waiting, or just woken
          lent,          \* producer -> slots dequeueFrame gave it, not yet queued
          filled,        \* the lent slots whose Frame the producer has written
          held,          \* consumer -> slots accquire gave it, not yet released
          writes         \* the number of the last frame written

queueVars == <<mStatus, mQueue, mActiveSlots, mFreeSlots>>
vars == <<mStatus, mFrame, mQueue, mActiveSlots, mFreeSlots, pc, lent, filled, held, writes>>

Count(status) == Cardinality({s \in mActiveSlots : mStatus[s] = status})

\* Mutants: a constructor that puts one slot too many on the free list (s <= numStartingBuffers);
\* no notification; notify_one; dequeueFrame that does not count again once woken;
\* getFreeSlotLocked without pop_front; queueFrame that pushes in front.
StartSlots_OneMore == [i \in 1 .. MaxBufferCount + 1 |-> MaxBufferCount + 1 - i]
NotifyNone(cond) == pc
NotifyOne(cond) ==
    IF \E t \in Threads : pc[t] = cond
    THEN [pc EXCEPT ![CHOOSE t \in Threads : pc[t] = cond] = "retry"]
    ELSE pc
MayDequeue_NoRecount(p) == pc[p] = "retry" \/ Count("Dequeue") < MaxDequeued
PopFree_Peek == mFreeSlots
PushQueue_Front(slot) == <<slot>> \o mQueue

\* mDequeueCond.notify_all() and mAccquireCond.notify_all()
NotifyAll(cond) == [t \in Threads |-> IF pc[t] = cond THEN "retry" ELSE pc[t]]

\* The count at the top of waitForFreeSlotThenRelock's loop.
MayDequeue(p) == Count("Dequeue") < MaxDequeued

\* mFreeSlots after getFreeSlotLocked, mQueue after queueFrame
PopFree == Tail(mFreeSlots)
PushQueue(slot) == Append(mQueue, slot)

\* mFreeSlots as the constructor's push_front loop leaves it
StartSlots == [i \in 1 .. MaxBufferCount |-> MaxBufferCount - i]

Init == /\ mStatus = [s \in Slots |-> "Unused"]
        /\ mFrame = [s \in Slots |-> 0]
        /\ mQueue = <<>>
        /\ mActiveSlots = {}
        /\ mFreeSlots = StartSlots
        /\ pc = [t \in Threads |-> "out"]
        /\ lent = [p \in Producers |-> {}]
        /\ filled = {}
        /\ held = [c \in Consumers |-> {}]
        /\ writes = 0

Running(t) == pc[t] \in {"out", "retry"}

-----------------------------------------------------------------------------
(* FrameQueueProducer *)

tooManyBuffers == Len(mQueue) > MaxBufferCount

\* waitForFreeSlotThenRelock returns INVALID_OPERATION: dequeueFrame fails.
DequeueRefused(p) ==
    /\ Running(p)
    /\ ~MayDequeue(p)
    /\ pc' = [pc EXCEPT ![p] = "out"]
    /\ UNCHANGED <<queueVars, mFrame, lent, filled, held, writes>>

\* No free slot: wait on mDequeueCond, and count again once woken.
DequeueWaits(p) ==
    /\ Running(p)
    /\ MayDequeue(p)
    /\ tooManyBuffers \/ mFreeSlots = <<>>
    /\ pc' = [pc EXCEPT ![p] = "waitDequeue"]
    /\ UNCHANGED <<queueVars, mFrame, lent, filled, held, writes>>

DequeueFrame(p) ==
    /\ Running(p)
    /\ MayDequeue(p)
    /\ ~tooManyBuffers
    /\ mFreeSlots # <<>>
    /\ LET slot == Head(mFreeSlots)
       IN  /\ mStatus' = [mStatus EXCEPT ![slot] = "Dequeue"]
           /\ mActiveSlots' = mActiveSlots \cup {slot}
           /\ lent' = [lent EXCEPT ![p] = @ \cup {slot}]
    /\ mFreeSlots' = PopFree
    /\ pc' = [pc EXCEPT ![p] = "out"]
    /\ UNCHANGED <<mFrame, mQueue, filled, held, writes>>

\* requestFrame, and the write through the pointer it returns: the write is
\* outside the mutex, nothing but the status protects the Frame.
FillFrame(p, slot) ==
    /\ pc[p] = "out"
    /\ slot \in lent[p] \ filled
    /\ mStatus[slot] = "Dequeue"
    /\ writes' = (writes % FrameIds) + 1
    /\ mFrame' = [mFrame EXCEPT ![slot] = writes']
    /\ filled' = filled \cup {slot}
    /\ UNCHANGED <<queueVars, pc, lent, held>>

QueueFrame(p, slot) ==
    /\ pc[p] = "out"
    /\ slot \in lent[p] \cap filled
    /\ mStatus[slot] = "Dequeue"
    /\ mStatus' = [mStatus EXCEPT ![slot] = "Queue"]
    /\ mQueue' = PushQueue(slot)
    /\ pc' = NotifyAll("waitAccquire")
    /\ lent' = [lent EXCEPT ![p] = @ \ {slot}]
    /\ filled' = filled \ {slot}
    /\ UNCHANGED <<mFrame, mActiveSlots, mFreeSlots, held, writes>>
-----------------------------------------------------------------------------
(* FrameQueueConsumer *)

\* waitForQueueSlotThenRelock returns INVALID_OPERATION: accquire fails.
AccquireRefused(c) ==
    /\ Running(c)
    /\ Count("Accquire") >= MaxAcquired
    /\ pc' = [pc EXCEPT ![c] = "out"]
    /\ UNCHANGED <<queueVars, mFrame, lent, filled, held, writes>>

AccquireWaits(c) ==
    /\ Running(c)
    /\ Count("Accquire") < MaxAcquired
    /\ mQueue = <<>>
    /\ pc' = [pc EXCEPT ![c] = "waitAccquire"]
    /\ UNCHANGED <<queueVars, mFrame, lent, filled, held, writes>>

Accquire(c) ==
    /\ Running(c)
    /\ Count("Accquire") < MaxAcquired
    /\ mQueue # <<>>
    /\ LET slot == Head(mQueue)
       IN  /\ mStatus' = [mStatus EXCEPT ![slot] = "Accquire"]
           /\ held' = [held EXCEPT ![c] = @ \cup {slot}]
    /\ mQueue' = Tail(mQueue)
    /\ pc' = [NotifyAll("waitDequeue") EXCEPT ![c] = "out"]
    /\ UNCHANGED <<mFrame, mActiveSlots, mFreeSlots, lent, filled, writes>>

Release(c, slot) ==
    /\ pc[c] = "out"
    /\ slot \in held[c]
    /\ mStatus[slot] = "Accquire"
    /\ mStatus' = [mStatus EXCEPT ![slot] = "Free"]
    /\ mActiveSlots' = mActiveSlots \ {slot}
    /\ mFreeSlots' = Append(mFreeSlots, slot)
    /\ held' = [held EXCEPT ![c] = @ \ {slot}]
    /\ pc' = NotifyAll("waitDequeue")
    /\ UNCHANGED <<mFrame, mQueue, lent, filled, writes>>
-----------------------------------------------------------------------------
Produce(p) ==
    \/ DequeueRefused(p) \/ DequeueWaits(p) \/ DequeueFrame(p)
    \/ \E slot \in Slots : FillFrame(p, slot) \/ QueueFrame(p, slot)

Consume(c) ==
    \/ AccquireRefused(c) \/ AccquireWaits(c) \/ Accquire(c)
    \/ \E slot \in Slots : Release(c, slot)

Next == \/ \E p \in Producers : Produce(p)
        \/ \E c \in Consumers : Consume(c)

Spec == Init /\ [][Next]_vars

\* A client is a loop: a producer that can do something does, a consumer either
\* acquires or, at its limit, gives back.
FairSpec == Spec /\ \A p \in Producers : WF_vars(Produce(p))
                 /\ \A c \in Consumers : WF_vars(Consume(c))
-----------------------------------------------------------------------------
(* Properties *)

\* Every variable keeps its type: the lists hold slots the constructor counted out, the
\* statuses are those of FrameSlot.
TypeOK == /\ mStatus \in [Slots -> Status]
          /\ mFrame \in [Slots -> 0 .. FrameIds]
          /\ mQueue \in Seq(Slots)
          /\ mActiveSlots \in SUBSET Slots
          /\ mFreeSlots \in Seq(Slots)
          /\ pc \in [Threads -> {"out", "retry", "waitDequeue", "waitAccquire"}]
          /\ lent \in [Producers -> SUBSET Slots]
          /\ filled \in SUBSET Slots
          /\ held \in [Consumers -> SUBSET Slots]
          /\ writes \in 0 .. FrameIds

LentSlots == UNION {lent[p] : p \in Producers}
HeldSlots == UNION {held[c] : c \in Consumers}

\* Every slot is in exactly one place, the one its status says: on the free list,
\* with one producer, in the queue once, or with one consumer.  The active set, the
\* two lists, the status array and what the clients hold are updated by different
\* calls and must agree after each.
FreeIsFree ==
    /\ \A i, j \in DOMAIN mFreeSlots : mFreeSlots[i] = mFreeSlots[j] => i = j
    /\ \A s \in Slots : s \notin mActiveSlots <=> \E i \in DOMAIN mFreeSlots : mFreeSlots[i] = s
QueueIsQueue ==
    /\ \A i, j \in DOMAIN mQueue : mQueue[i] = mQueue[j] => i = j
    /\ \A s \in Slots : s \in mActiveSlots /\ mStatus[s] = "Queue"
                          <=> \E i \in DOMAIN mQueue : mQueue[i] = s
LentIsDequeue ==
    /\ \A s \in Slots : s \in mActiveSlots /\ mStatus[s] = "Dequeue" <=> s \in LentSlots
    /\ \A p, q \in Producers : p # q => lent[p] \cap lent[q] = {}
    /\ filled \subseteq LentSlots
HeldIsAccquire ==
    /\ \A s \in Slots : s \in mActiveSlots /\ mStatus[s] = "Accquire" <=> s \in HeldSlots
    /\ \A c, d \in Consumers : c # d => held[c] \cap held[d] = {}
ActiveStatus == \A s \in mActiveSlots : mStatus[s] \in {"Dequeue", "Queue", "Accquire"}

SlotsPartitioned == /\ FreeIsFree /\ QueueIsQueue /\ LentIsDequeue /\ HeldIsAccquire
                    /\ ActiveStatus

\* dequeueFrame and accquire never let more frames out than the constructor was
\* told, also when several threads wait and are woken together by notify_all.
LimitsHold == /\ Cardinality(LentSlots) <= MaxDequeued
              /\ Cardinality(HeldSlots) <= MaxAcquired

\* The bookkeeping of the slots, whoever takes and returns them: each slot in one place,
\* and no more of them out than the constructor was told.
SlotsAccounted == SlotsPartitioned /\ LimitsHold

\* No wakeup is lost: a thread waits on mDequeueCond only while no slot is free and on
\* mAccquireCond only while nothing is queued, so whatever ends the condition wakes it.
NoLostWakeup ==
    /\ \A p \in Producers : pc[p] = "waitDequeue" => mFreeSlots = <<>>
    /\ \A c \in Consumers : pc[c] = "waitAccquire" => mQueue = <<>>

\* A thread waits only if its side was below its limit, and it stays so: to reach the
\* limit someone must find a slot, and then every waiter has been woken.
WaitersBelowLimit ==
    /\ \A p \in Producers : /\ pc[p] # "waitAccquire"
                            /\ pc[p] = "waitDequeue" => Count("Dequeue") < MaxDequeued
    /\ \A c \in Consumers : /\ pc[c] # "waitDequeue"
                            /\ pc[c] = "waitAccquire" => Count("Accquire") < MaxAcquired

\* The two sides never wait for each other: with MaxAcquired + MaxDequeued slots,
\* a thread that finds no free slot leaves the consumers something to acquire.
NoStandoff == ~ \E p \in Producers, c \in Consumers :
                  pc[p] = "waitDequeue" /\ pc[c] = "waitAccquire"

\* A thread that sleeps has a reason to, and someone awake who will end it.
SleepersJustified == NoLostWakeup /\ NoStandoff

\* What a consumer reads through the pointer of FrameItem, after accquire has
\* unlocked, is not overwritten before it releases, and neither is what waits in
\* mQueue: the two sides share the Frames with no lock but the slot's status.
FrameStable ==
    [][\A s \in Slots : mFrame'[s] # mFrame[s] =>
         /\ s \notin HeldSlots
         /\ \A i \in DOMAIN mQueue : mQueue[i] # s]_vars

\* A producer that waits in dequeueFrame is woken, however the other threads are
\* scheduled, as long as the clients' loops go on.
ProducerWoken == \A p \in Producers : pc[p] = "waitDequeue" ~> pc[p] # "waitDequeue"

\* A queued frame is acquired: FIFO order and the release obligation leave nothing
\* behind in mQueue.
QueuedIsAcquired == \A s \in Slots : mStatus[s] = "Queue" ~> mStatus[s] = "Accquire"

\* The clients of the queue see a LoanFifo: frames in order, none lost, none twice,
\* each unchanged from queueFrame to release.
Load(s) == [blank |-> s, frame |-> mFrame[s]]
Loan == INSTANCE LoanFifo WITH
          Blanks <- Slots, Frames <- 0 .. FrameIds,
          MaxLent <- MaxDequeued, MaxHeld <- MaxAcquired,
          lent <- lent,
          fifo <- [i \in DOMAIN mQueue |-> Load(mQueue[i])],
          held <- [c \in Consumers |-> {Load(s) : s \in held[c]}]
LoanSpec == Loan!Spec
=============================================================================
