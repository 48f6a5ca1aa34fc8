-------------------------- MODULE FrameQueueProofs --------------------------
(***************************************************************************)
(* What FrameQueue guarantees for every number of threads and every pair   *)
(* of limits.  The inductive invariant is the conjunction of the type, the *)
(* partition of the slots, the two limits and what is known of waiters.    *)
(***************************************************************************)
EXTENDS FrameQueue, FiniteSetTheorems, SequenceTheorems, TLAPS

IInv == /\ TypeOK
        /\ SlotsPartitioned
        /\ LimitsHold
        /\ NoLostWakeup
        /\ WaitersBelowLimit

\* The slots are the finite interval the constructor numbers, so every set of slots
\* has a cardinality.
LEMMA SlotsFinite ==
    /\ MaxBufferCount \in Nat \ {0}
    /\ IsFiniteSet(Slots)
    /\ Cardinality(Slots) = MaxAcquired + MaxDequeued
    /\ \A T \in SUBSET Slots : IsFiniteSet(T) /\ Cardinality(T) \in Nat
<1>1. MaxBufferCount \in Nat \ {0}
  BY CountsAssumption DEF MaxBufferCount
<1>2. IsFiniteSet(Slots) /\ Cardinality(Slots) = MaxAcquired + MaxDequeued
  BY <1>1, CountsAssumption, FS_Interval DEF Slots, MaxBufferCount
<1>3. \A T \in SUBSET Slots : IsFiniteSet(T) /\ Cardinality(T) \in Nat
  BY <1>2, FS_Subset, FS_CardinalityType
<1> QED BY <1>1, <1>2, <1>3

\* Adding a slot raises a count by one at most, dropping slots never raises it.
LEMMA CountGrows ==
    ASSUME NEW T \in SUBSET Slots, NEW s \in Slots
    PROVE  Cardinality(T \cup {s}) <= Cardinality(T) + 1
<1>1. IsFiniteSet(T) /\ Cardinality(T) \in Nat
  BY SlotsFinite
<1> QED BY <1>1, FS_AddElement

LEMMA CountShrinks ==
    ASSUME NEW T \in SUBSET Slots, NEW U \in SUBSET T
    PROVE  Cardinality(U) <= Cardinality(T)
BY SlotsFinite, FS_Subset

\* What waitForFreeSlotThenRelock and waitForQueueSlotThenRelock count is what the
\* clients have out.
LEMMA CountsAreLoans ==
    ASSUME TypeOK, SlotsPartitioned
    PROVE  /\ Count("Dequeue") = Cardinality(LentSlots)
           /\ Count("Accquire") = Cardinality(HeldSlots)
           /\ LentSlots \in SUBSET Slots
           /\ HeldSlots \in SUBSET Slots
<1>1. LentSlots \in SUBSET Slots /\ HeldSlots \in SUBSET Slots
  BY DEF TypeOK, LentSlots, HeldSlots
<1>2. {s \in mActiveSlots : mStatus[s] = "Dequeue"} = LentSlots
  BY <1>1 DEF TypeOK, SlotsPartitioned, LentIsDequeue
<1>3. {s \in mActiveSlots : mStatus[s] = "Accquire"} = HeldSlots
  BY <1>1 DEF TypeOK, SlotsPartitioned, HeldIsAccquire
<1> QED BY <1>1, <1>2, <1>3 DEF Count

\* The same in the next state.
LEMMA CountsAreLoansNext ==
    ASSUME TypeOK', SlotsPartitioned'
    PROVE  /\ Count("Dequeue")' = Cardinality(LentSlots')
           /\ Count("Accquire")' = Cardinality(HeldSlots')
<1>1. LentSlots' \in SUBSET Slots /\ HeldSlots' \in SUBSET Slots
  BY DEF TypeOK, LentSlots, HeldSlots
<1>2. {s \in mActiveSlots' : mStatus'[s] = "Dequeue"} = LentSlots'
  BY <1>1 DEF TypeOK, SlotsPartitioned, LentIsDequeue
<1>3. {s \in mActiveSlots' : mStatus'[s] = "Accquire"} = HeldSlots'
  BY <1>1 DEF TypeOK, SlotsPartitioned, HeldIsAccquire
<1> QED BY <1>2, <1>3 DEF Count

LEMMA InitIInv == Init => IInv
<1> SUFFICES ASSUME Init PROVE IInv
  OBVIOUS
<1> USE SlotsFinite
<1>1. TypeOK
  <2>1. mFreeSlots \in Seq(Slots)
    BY DEF Init, StartSlots, Slots
  <2> QED BY <2>1, FrameIdsAssumption DEF Init, StartSlots, TypeOK, Status
<1>2. LentSlots = {} /\ HeldSlots = {}
  BY DEF Init, StartSlots, LentSlots, HeldSlots
<1>3. SlotsPartitioned
  <2>1. FreeIsFree
    <3>1. \A i, j \in DOMAIN mFreeSlots : mFreeSlots[i] = mFreeSlots[j] => i = j
      BY DEF Init, StartSlots
    <3>2. \A s \in Slots : \E i \in DOMAIN mFreeSlots : mFreeSlots[i] = s
      <4> TAKE s \in Slots
      <4>1. MaxBufferCount - s \in 1 .. MaxBufferCount
        BY DEF Slots
      <4> QED BY <4>1 DEF Init, StartSlots, Slots
    <3> QED BY <3>1, <3>2 DEF Init, StartSlots, FreeIsFree
  <2>2. QueueIsQueue /\ LentIsDequeue /\ HeldIsAccquire /\ ActiveStatus
    BY <1>2 DEF Init, StartSlots, QueueIsQueue, LentIsDequeue, HeldIsAccquire, ActiveStatus
  <2> QED BY <2>1, <2>2 DEF SlotsPartitioned
<1>4. LimitsHold
  BY <1>2, FS_EmptySet, CountsAssumption DEF LimitsHold
<1>5. NoLostWakeup /\ WaitersBelowLimit
  BY DEF Init, StartSlots, NoLostWakeup, WaitersBelowLimit, Threads
<1> QED BY <1>1, <1>3, <1>4, <1>5 DEF IInv

-----------------------------------------------------------------------------
\* Calls that only move a thread between running and waiting: no slot changes.
LEMMA WaitingKeepsSlots ==
    ASSUME IInv, UNCHANGED <<queueVars, mFrame, lent, filled, held, writes>>
    PROVE  SlotsPartitioned' /\ LimitsHold' /\ Count("Dequeue")' = Count("Dequeue")
           /\ Count("Accquire")' = Count("Accquire")
<1> USE DEF IInv, queueVars
<1>1. LentSlots' = LentSlots /\ HeldSlots' = HeldSlots
  BY DEF LentSlots, HeldSlots
<1>2. FreeIsFree' /\ QueueIsQueue' /\ ActiveStatus'
  BY DEF SlotsPartitioned, FreeIsFree, QueueIsQueue, ActiveStatus
<1>3. LentIsDequeue' /\ HeldIsAccquire'
  BY <1>1 DEF SlotsPartitioned, LentIsDequeue, HeldIsAccquire
<1>4. Count("Dequeue")' = Count("Dequeue") /\ Count("Accquire")' = Count("Accquire")
  BY DEF Count
<1> QED BY <1>1, <1>2, <1>3, <1>4 DEF SlotsPartitioned, LimitsHold

LEMMA StutterIInv == ASSUME IInv, UNCHANGED vars PROVE IInv'
<1> USE DEF IInv, vars
<1>1. SlotsPartitioned' /\ LimitsHold' /\ Count("Dequeue")' = Count("Dequeue")
      /\ Count("Accquire")' = Count("Accquire")
  BY WaitingKeepsSlots DEF queueVars
<1>2. TypeOK'
  BY DEF TypeOK
<1>3. NoLostWakeup' /\ WaitersBelowLimit'
  BY <1>1 DEF NoLostWakeup, WaitersBelowLimit
<1> QED BY <1>1, <1>2, <1>3

LEMMA DequeueRefusedIInv == ASSUME IInv, NEW p \in Producers, DequeueRefused(p) PROVE IInv'
<1> USE DEF IInv, DequeueRefused, queueVars
<1>1. SlotsPartitioned' /\ LimitsHold' /\ Count("Dequeue")' = Count("Dequeue")
      /\ Count("Accquire")' = Count("Accquire")
  BY WaitingKeepsSlots
<1>2. TypeOK'
  BY DEF TypeOK
<1>3. NoLostWakeup' /\ WaitersBelowLimit'
  BY <1>1 DEF NoLostWakeup, WaitersBelowLimit, TypeOK, Threads
<1> QED BY <1>1, <1>2, <1>3

LEMMA AccquireRefusedIInv == ASSUME IInv, NEW c \in Consumers, AccquireRefused(c) PROVE IInv'
<1> USE DEF IInv, AccquireRefused, queueVars
<1>1. SlotsPartitioned' /\ LimitsHold' /\ Count("Dequeue")' = Count("Dequeue")
      /\ Count("Accquire")' = Count("Accquire")
  BY WaitingKeepsSlots
<1>2. TypeOK'
  BY DEF TypeOK
<1>3. NoLostWakeup' /\ WaitersBelowLimit'
  BY <1>1 DEF NoLostWakeup, WaitersBelowLimit, TypeOK, Threads
<1> QED BY <1>1, <1>2, <1>3

\* A queue never holds more than the slots there are, so tooManyBuffers is never the
\* reason to wait.
LEMMA NeverTooMany == ASSUME IInv PROVE ~tooManyBuffers
<1> USE DEF IInv
<1>1. mQueue \in [1 .. Len(mQueue) -> Slots] /\ Len(mQueue) \in Nat
  BY DEF TypeOK
<1>2. mQueue \in Injection(1 .. Len(mQueue), Slots)
  BY <1>1 DEF SlotsPartitioned, QueueIsQueue, Injection, IsInjective
<1>3. IsFiniteSet(1 .. Len(mQueue)) /\ Cardinality(1 .. Len(mQueue)) = Len(mQueue)
  <2>1. \A n \in Nat : IsFiniteSet(1 .. n) /\ Cardinality(1 .. n) = n
    BY FS_Interval
  <2> QED BY <1>1, <2>1
<1>4. Len(mQueue) <= Cardinality(Slots)
  BY <1>2, <1>3, SlotsFinite, FS_Injection
<1> QED BY <1>1, <1>4, SlotsFinite, CountsAssumption DEF tooManyBuffers, MaxBufferCount

LEMMA DequeueWaitsIInv == ASSUME IInv, NEW p \in Producers, DequeueWaits(p) PROVE IInv'
<1> USE DEF IInv, DequeueWaits, queueVars
<1>1. SlotsPartitioned' /\ LimitsHold' /\ Count("Dequeue")' = Count("Dequeue")
      /\ Count("Accquire")' = Count("Accquire")
  BY WaitingKeepsSlots
<1>2. TypeOK'
  BY DEF TypeOK
<1>3. mFreeSlots = <<>> /\ Count("Dequeue") < MaxDequeued
  BY NeverTooMany DEF MayDequeue
<1>4. NoLostWakeup' /\ WaitersBelowLimit'
  BY <1>1, <1>3, ThreadsAssumption DEF NoLostWakeup, WaitersBelowLimit, TypeOK, Threads
<1> QED BY <1>1, <1>2, <1>4

LEMMA AccquireWaitsIInv == ASSUME IInv, NEW c \in Consumers, AccquireWaits(c) PROVE IInv'
<1> USE DEF IInv, AccquireWaits, queueVars
<1>1. SlotsPartitioned' /\ LimitsHold' /\ Count("Dequeue")' = Count("Dequeue")
      /\ Count("Accquire")' = Count("Accquire")
  BY WaitingKeepsSlots
<1>2. TypeOK'
  BY DEF TypeOK
<1>3. NoLostWakeup' /\ WaitersBelowLimit'
  BY <1>1, ThreadsAssumption DEF NoLostWakeup, WaitersBelowLimit, TypeOK, Threads
<1> QED BY <1>1, <1>2, <1>3

-----------------------------------------------------------------------------
\* Facts about the two lists, used by the actions that move a slot.
LEMMA PopFacts ==
    ASSUME NEW S, NEW q \in Seq(S), q # <<>>
    PROVE  /\ Head(q) = q[1] /\ Head(q) \in S
           /\ Tail(q) \in Seq(S)
           /\ 1 \in DOMAIN q
           /\ \A i \in DOMAIN Tail(q) : i + 1 \in DOMAIN q /\ Tail(q)[i] = q[i + 1]
           /\ \A i \in DOMAIN q : i # 1 => i - 1 \in DOMAIN Tail(q) /\ Tail(q)[i - 1] = q[i]
OBVIOUS

LEMMA PushFacts ==
    ASSUME NEW S, NEW q \in Seq(S), NEW e \in S
    PROVE  /\ Append(q, e) \in Seq(S)
           /\ Len(q) + 1 \in DOMAIN Append(q, e) /\ Append(q, e)[Len(q) + 1] = e
           /\ \A i \in DOMAIN q : i \in DOMAIN Append(q, e) /\ Append(q, e)[i] = q[i]
           /\ \A i \in DOMAIN Append(q, e) : i \in DOMAIN q \/ i = Len(q) + 1
           /\ Len(q) + 1 \notin DOMAIN q
OBVIOUS

\* Popping the front of a list without repetition removes one slot from its range;
\* pushing a slot it does not have keeps it without repetition.
LEMMA PopRange ==
    ASSUME NEW S, NEW q \in Seq(S), q # <<>>,
           \A i, j \in DOMAIN q : q[i] = q[j] => i = j
    PROVE  /\ \A i, j \in DOMAIN Tail(q) : Tail(q)[i] = Tail(q)[j] => i = j
           /\ \A s : (\E i \in DOMAIN Tail(q) : Tail(q)[i] = s)
                       <=> s # Head(q) /\ \E i \in DOMAIN q : q[i] = s
<1>1. \A i, j \in DOMAIN Tail(q) : Tail(q)[i] = Tail(q)[j] => i = j
  <2> TAKE i, j \in DOMAIN Tail(q)
  <2>1. i + 1 \in DOMAIN q /\ j + 1 \in DOMAIN q /\ i \in Nat /\ j \in Nat
    BY PopFacts
  <2>2. Tail(q)[i] = q[i + 1] /\ Tail(q)[j] = q[j + 1]
    BY PopFacts
  <2>3. Tail(q)[i] = Tail(q)[j] => i + 1 = j + 1
    BY <2>1, <2>2
  <2> QED BY <2>1, <2>3
<1>2. ASSUME NEW s, NEW i \in DOMAIN Tail(q), Tail(q)[i] = s
      PROVE  s # Head(q) /\ \E k \in DOMAIN q : q[k] = s
  <2>1. i + 1 \in DOMAIN q /\ q[i + 1] = s /\ i + 1 # 1 /\ 1 \in DOMAIN q /\ Head(q) = q[1]
    BY <1>2, PopFacts
  <2> QED BY <2>1
<1>3. ASSUME NEW s, s # Head(q), NEW i \in DOMAIN q, q[i] = s
      PROVE  \E k \in DOMAIN Tail(q) : Tail(q)[k] = s
  <2>1. i # 1
    BY <1>3, PopFacts
  <2>2. i - 1 \in DOMAIN Tail(q) /\ Tail(q)[i - 1] = s
    BY <1>3, <2>1, PopFacts
  <2> QED BY <2>2
<1> QED BY <1>1, <1>2, <1>3

LEMMA PushRange ==
    ASSUME NEW S, NEW q \in Seq(S), NEW e \in S,
           \A i, j \in DOMAIN q : q[i] = q[j] => i = j,
           \A i \in DOMAIN q : q[i] # e
    PROVE  /\ \A i, j \in DOMAIN Append(q, e) : Append(q, e)[i] = Append(q, e)[j] => i = j
           /\ \A s : (\E i \in DOMAIN Append(q, e) : Append(q, e)[i] = s)
                       <=> s = e \/ \E i \in DOMAIN q : q[i] = s
<1>1. \A i, j \in DOMAIN Append(q, e) : Append(q, e)[i] = Append(q, e)[j] => i = j
  <2> TAKE i, j \in DOMAIN Append(q, e)
  <2>1. CASE i \in DOMAIN q /\ j \in DOMAIN q
    BY <2>1, PushFacts
  <2>2. CASE i = Len(q) + 1 /\ j \in DOMAIN q
    BY <2>2, PushFacts
  <2>3. CASE i \in DOMAIN q /\ j = Len(q) + 1
    BY <2>3, PushFacts
  <2>4. CASE i = Len(q) + 1 /\ j = Len(q) + 1
    BY <2>4
  <2> QED BY <2>1, <2>2, <2>3, <2>4, PushFacts
<1>2. \A s : (\E i \in DOMAIN Append(q, e) : Append(q, e)[i] = s)
               => s = e \/ \E i \in DOMAIN q : q[i] = s
  BY PushFacts
<1>3. \A s : s = e \/ (\E i \in DOMAIN q : q[i] = s)
               => \E i \in DOMAIN Append(q, e) : Append(q, e)[i] = s
  BY PushFacts
<1> QED BY <1>1, <1>2, <1>3

-----------------------------------------------------------------------------
LEMMA DequeueFrameIInv == ASSUME IInv, NEW p \in Producers, DequeueFrame(p) PROVE IInv'
<1> DEFINE slot == Head(mFreeSlots)
<1> USE DEF IInv, SlotsPartitioned
<1>1. /\ slot \in Slots /\ slot \notin mActiveSlots
      /\ mFreeSlots' \in Seq(Slots)
      /\ slot \notin LentSlots /\ slot \notin HeldSlots
      /\ \A i \in DOMAIN mQueue : mQueue[i] # slot
  <2>1. slot \in Slots /\ mFreeSlots' \in Seq(Slots) /\ 1 \in DOMAIN mFreeSlots
        /\ slot = mFreeSlots[1]
    BY PopFacts DEF DequeueFrame, PopFree, TypeOK
  <2>2. slot \notin mActiveSlots
    BY <2>1 DEF FreeIsFree
  <2> QED BY <2>1, <2>2 DEF LentIsDequeue, HeldIsAccquire, QueueIsQueue
<1>2. TypeOK'
  BY <1>1 DEF DequeueFrame, TypeOK, Status, Threads
<1>3. LentSlots' = LentSlots \cup {slot} /\ HeldSlots' = HeldSlots
  <2>1. lent' = [lent EXCEPT ![p] = @ \cup {slot}] /\ held' = held
    BY DEF DequeueFrame
  <2>2. lent \in [Producers -> SUBSET Slots]
    BY DEF TypeOK
  <2> QED BY <2>1, <2>2 DEF LentSlots, HeldSlots
<1>4. SlotsPartitioned'
  <2>1. FreeIsFree'
    <3>1. \A s \in Slots : (\E i \in DOMAIN Tail(mFreeSlots) : Tail(mFreeSlots)[i] = s)
            <=> s # slot /\ \E i \in DOMAIN mFreeSlots : mFreeSlots[i] = s
      BY PopRange DEF DequeueFrame, TypeOK, FreeIsFree
    <3>2. \A i, j \in DOMAIN Tail(mFreeSlots) :
             Tail(mFreeSlots)[i] = Tail(mFreeSlots)[j] => i = j
      BY PopRange DEF DequeueFrame, TypeOK, FreeIsFree
    <3> QED BY <1>1, <3>1, <3>2 DEF DequeueFrame, PopFree, FreeIsFree
  <2>2. QueueIsQueue'
    BY <1>1 DEF DequeueFrame, QueueIsQueue, TypeOK
  <2>3. LentIsDequeue'
    <3>1. \A s \in Slots : (s \in mActiveSlots /\ mStatus[s] = "Dequeue")' <=> s \in LentSlots'
      BY <1>1, <1>3 DEF DequeueFrame, LentIsDequeue, TypeOK
    <3>2. \A q, r \in Producers : q # r => lent'[q] \cap lent'[r] = {}
      <4>1. \A q \in Producers : slot \notin lent[q]
        BY <1>1 DEF LentSlots
      <4>2. \A q \in Producers : lent'[q] = IF q = p THEN lent[p] \cup {slot} ELSE lent[q]
        BY DEF DequeueFrame, TypeOK
      <4> QED BY <4>1, <4>2 DEF LentIsDequeue
    <3>3. filled' \subseteq LentSlots'
      BY <1>3 DEF DequeueFrame, LentIsDequeue
    <3> QED BY <3>1, <3>2, <3>3 DEF LentIsDequeue
  <2>4. HeldIsAccquire' /\ ActiveStatus'
    BY <1>1, <1>3 DEF DequeueFrame, HeldIsAccquire, ActiveStatus, TypeOK
  <2> QED BY <2>1, <2>2, <2>3, <2>4
<1>5. LimitsHold'
  <2>1. Cardinality(LentSlots) < MaxDequeued /\ LentSlots \in SUBSET Slots
    BY CountsAreLoans DEF DequeueFrame, MayDequeue
  <2>2. Cardinality(LentSlots') <= Cardinality(LentSlots) + 1
    BY <1>1, <1>3, <2>1, CountGrows
  <2>3. Cardinality(LentSlots) \in Nat /\ Cardinality(LentSlots') \in Nat
    BY <1>1, <1>3, <2>1, SlotsFinite
  <2> QED BY <1>3, <2>1, <2>2, <2>3, CountsAssumption DEF LimitsHold
<1>6. NoLostWakeup' /\ WaitersBelowLimit'
  <2>1. \A q \in Producers : pc[q] # "waitDequeue"
    BY DEF DequeueFrame, NoLostWakeup
  <2>2. Count("Accquire")' = Count("Accquire")
    BY <1>2, <1>3, <1>4, CountsAreLoans, CountsAreLoansNext
  <2> QED BY <2>1, <2>2, ThreadsAssumption
          DEF DequeueFrame, NoLostWakeup, WaitersBelowLimit, TypeOK, Threads
<1> QED BY <1>2, <1>4, <1>5, <1>6

LEMMA FillFrameIInv ==
    ASSUME IInv, NEW p \in Producers, NEW slot \in Slots, FillFrame(p, slot)
    PROVE  IInv'
<1> USE DEF IInv, FillFrame, queueVars
<1>1. LentSlots' = LentSlots /\ HeldSlots' = HeldSlots /\ slot \in LentSlots
  BY DEF LentSlots, HeldSlots
<1>2. TypeOK'
  BY FrameIdsAssumption DEF TypeOK
<1>3. SlotsPartitioned'
  <2>1. FreeIsFree' /\ QueueIsQueue' /\ ActiveStatus'
    BY DEF SlotsPartitioned, FreeIsFree, QueueIsQueue, ActiveStatus
  <2>2. LentIsDequeue' /\ HeldIsAccquire'
    BY <1>1 DEF SlotsPartitioned, LentIsDequeue, HeldIsAccquire
  <2> QED BY <2>1, <2>2 DEF SlotsPartitioned
<1>4. LimitsHold' /\ NoLostWakeup' /\ WaitersBelowLimit'
  BY <1>1 DEF LimitsHold, NoLostWakeup, WaitersBelowLimit, Count
<1> QED BY <1>2, <1>3, <1>4

LEMMA QueueFrameIInv ==
    ASSUME IInv, NEW p \in Producers, NEW slot \in Slots, QueueFrame(p, slot)
    PROVE  IInv'
<1> USE DEF IInv, SlotsPartitioned
<1>1. /\ slot \in lent[p] /\ slot \in LentSlots
      /\ mStatus[slot] = "Dequeue" /\ slot \in mActiveSlots
      /\ slot \notin HeldSlots
      /\ \A i \in DOMAIN mQueue : mQueue[i] # slot
  BY DEF QueueFrame, LentSlots, LentIsDequeue, HeldIsAccquire, QueueIsQueue
<1>2. TypeOK'
  <2>1. mQueue' \in Seq(Slots)
    BY DEF QueueFrame, PushQueue, TypeOK
  <2>2. lent' \in [Producers -> SUBSET Slots] /\ filled' \in SUBSET Slots
    BY DEF QueueFrame, TypeOK
  <2> QED BY <2>1, <2>2 DEF QueueFrame, TypeOK, Status, NotifyAll
<1>3. LentSlots' = LentSlots \ {slot} /\ HeldSlots' = HeldSlots
  <2>1. \A q \in Producers : lent'[q] = lent[q] \ {slot}
    BY <1>1 DEF QueueFrame, TypeOK, LentIsDequeue
  <2> QED BY <2>1 DEF QueueFrame, LentSlots, HeldSlots
<1>4. SlotsPartitioned'
  <2>1. FreeIsFree'
    BY DEF QueueFrame, FreeIsFree
  <2>2. QueueIsQueue'
    <3>1. mQueue \in Seq(Slots) /\ mQueue' = Append(mQueue, slot)
          /\ \A i, j \in DOMAIN mQueue : mQueue[i] = mQueue[j] => i = j
      BY DEF QueueFrame, PushQueue, TypeOK, QueueIsQueue
    <3>2. /\ \A i, j \in DOMAIN mQueue' : mQueue'[i] = mQueue'[j] => i = j
          /\ \A s : (\E i \in DOMAIN mQueue' : mQueue'[i] = s)
                      <=> s = slot \/ \E i \in DOMAIN mQueue : mQueue[i] = s
      BY ONLY <1>1, <3>1, PushRange
    <3>3. \A s \in Slots : mStatus'[s] = IF s = slot THEN "Queue" ELSE mStatus[s]
      BY DEF QueueFrame, TypeOK
    <3>4. mActiveSlots' = mActiveSlots
      BY DEF QueueFrame
    <3> QED BY ONLY <1>1, <3>2, <3>3, <3>4, QueueIsQueue DEF QueueIsQueue
  <2>3. LentIsDequeue'
    <3>1. \A s \in Slots : (s \in mActiveSlots /\ mStatus[s] = "Dequeue")' <=> s \in LentSlots'
      BY <1>1, <1>3 DEF QueueFrame, LentIsDequeue, TypeOK
    <3>2. \A q, r \in Producers : q # r => lent'[q] \cap lent'[r] = {}
      BY DEF QueueFrame, LentIsDequeue, TypeOK
    <3>3. filled' \subseteq LentSlots'
      BY <1>3 DEF QueueFrame, LentIsDequeue
    <3> QED BY <3>1, <3>2, <3>3 DEF LentIsDequeue
  <2>4. HeldIsAccquire' /\ ActiveStatus'
    BY <1>1, <1>3 DEF QueueFrame, HeldIsAccquire, ActiveStatus, TypeOK
  <2> QED BY <2>1, <2>2, <2>3, <2>4
<1>5. LentSlots \in SUBSET Slots /\ Cardinality(LentSlots') <= Cardinality(LentSlots)
      /\ Cardinality(LentSlots) \in Nat /\ Cardinality(LentSlots') \in Nat
  BY <1>3, CountsAreLoans, CountShrinks, SlotsFinite
<1>6. LimitsHold'
  BY <1>3, <1>5, CountsAssumption DEF LimitsHold
<1>7. NoLostWakeup' /\ WaitersBelowLimit'
  <2>1. Count("Accquire")' = Count("Accquire") /\ Count("Dequeue")' <= Count("Dequeue")
        /\ Count("Dequeue") \in Nat /\ Count("Dequeue")' \in Nat
    BY <1>2, <1>3, <1>4, <1>5, CountsAreLoans, CountsAreLoansNext
  <2>2. \A t \in Threads : pc'[t] # "waitAccquire"
                            /\ (pc'[t] = "waitDequeue" => pc[t] = "waitDequeue")
    BY DEF QueueFrame, NotifyAll
  <2> QED BY <2>1, <2>2, CountsAssumption
          DEF QueueFrame, NoLostWakeup, WaitersBelowLimit, Threads
<1> QED BY <1>2, <1>4, <1>6, <1>7

LEMMA AccquireIInv == ASSUME IInv, NEW c \in Consumers, Accquire(c) PROVE IInv'
<1> DEFINE slot == Head(mQueue)
<1> USE DEF IInv, SlotsPartitioned
<1>1. /\ slot \in Slots /\ slot \in mActiveSlots /\ mStatus[slot] = "Queue"
      /\ slot \notin LentSlots /\ slot \notin HeldSlots
      /\ mQueue' \in Seq(Slots)
  <2>1. slot \in Slots /\ 1 \in DOMAIN mQueue /\ slot = mQueue[1] /\ mQueue' \in Seq(Slots)
    BY PopFacts DEF Accquire, TypeOK
  <2>2. slot \in mActiveSlots /\ mStatus[slot] = "Queue"
    BY <2>1 DEF QueueIsQueue
  <2> QED BY <2>1, <2>2 DEF LentIsDequeue, HeldIsAccquire
<1>2. TypeOK'
  BY <1>1 DEF Accquire, TypeOK, Status, NotifyAll, Threads
<1>3. LentSlots' = LentSlots /\ HeldSlots' = HeldSlots \cup {slot}
  <2>1. held' = [held EXCEPT ![c] = @ \cup {slot}] /\ lent' = lent
    BY DEF Accquire
  <2>2. held \in [Consumers -> SUBSET Slots]
    BY DEF TypeOK
  <2> QED BY <2>1, <2>2 DEF LentSlots, HeldSlots
<1>4. SlotsPartitioned'
  <2>1. FreeIsFree'
    BY DEF Accquire, FreeIsFree
  <2>2. QueueIsQueue'
    <3>1. mQueue \in Seq(Slots) /\ mQueue # <<>> /\ mQueue' = Tail(mQueue)
          /\ \A i, j \in DOMAIN mQueue : mQueue[i] = mQueue[j] => i = j
      BY DEF Accquire, TypeOK, QueueIsQueue
    <3>2. \A i, j \in DOMAIN Tail(mQueue) : Tail(mQueue)[i] = Tail(mQueue)[j] => i = j
      BY <3>1, PopRange
    <3>3. \A s \in Slots : (\E i \in DOMAIN Tail(mQueue) : Tail(mQueue)[i] = s)
                             <=> s # slot /\ \E i \in DOMAIN mQueue : mQueue[i] = s
      BY <3>1, PopRange
    <3> QED BY <1>1, <3>1, <3>2, <3>3 DEF Accquire, QueueIsQueue, TypeOK
  <2>3. LentIsDequeue'
    BY <1>1, <1>3 DEF Accquire, LentIsDequeue, TypeOK
  <2>4. HeldIsAccquire'
    <3>1. \A s \in Slots : (s \in mActiveSlots /\ mStatus[s] = "Accquire")' <=> s \in HeldSlots'
      BY <1>1, <1>3 DEF Accquire, HeldIsAccquire, TypeOK
    <3>2. \A d, e \in Consumers : d # e => held'[d] \cap held'[e] = {}
      <4>1. \A d \in Consumers : slot \notin held[d]
        BY <1>1 DEF HeldSlots
      <4>2. \A d \in Consumers : held'[d] = IF d = c THEN held[c] \cup {slot} ELSE held[d]
        BY DEF Accquire, TypeOK
      <4> QED BY <4>1, <4>2 DEF HeldIsAccquire
    <3> QED BY <3>1, <3>2 DEF HeldIsAccquire
  <2>5. ActiveStatus'
    BY <1>1 DEF Accquire, ActiveStatus, TypeOK
  <2> QED BY <2>1, <2>2, <2>3, <2>4, <2>5
<1>5. LimitsHold'
  <2>1. Cardinality(HeldSlots) < MaxAcquired /\ HeldSlots \in SUBSET Slots
    BY CountsAreLoans DEF Accquire
  <2>2. Cardinality(HeldSlots') <= Cardinality(HeldSlots) + 1
    BY <1>1, <1>3, <2>1, CountGrows
  <2>3. Cardinality(HeldSlots) \in Nat /\ Cardinality(HeldSlots') \in Nat
    BY <1>1, <1>3, <2>1, SlotsFinite
  <2> QED BY <1>3, <2>1, <2>2, <2>3, CountsAssumption DEF LimitsHold
<1>6. NoLostWakeup' /\ WaitersBelowLimit'
  <2>1. \A d \in Consumers : pc[d] # "waitAccquire"
    BY DEF Accquire, NoLostWakeup
  <2>2. \A t \in Threads : pc'[t] # "waitDequeue"
                            /\ (pc'[t] = "waitAccquire" => pc[t] = "waitAccquire")
    BY DEF Accquire, NotifyAll
  <2> QED BY <2>1, <2>2 DEF NoLostWakeup, WaitersBelowLimit, Threads
<1> QED BY <1>2, <1>4, <1>5, <1>6

LEMMA ReleaseIInv ==
    ASSUME IInv, NEW c \in Consumers, NEW slot \in Slots, Release(c, slot)
    PROVE  IInv'
<1> USE DEF IInv, SlotsPartitioned
<1>1. /\ slot \in held[c] /\ slot \in HeldSlots
      /\ mStatus[slot] = "Accquire" /\ slot \in mActiveSlots
      /\ slot \notin LentSlots
      /\ \A i \in DOMAIN mFreeSlots : mFreeSlots[i] # slot
  BY DEF Release, HeldSlots, LentIsDequeue, HeldIsAccquire, FreeIsFree
<1>2. TypeOK'
  <2>1. mFreeSlots' \in Seq(Slots) /\ held' \in [Consumers -> SUBSET Slots]
    BY DEF Release, TypeOK
  <2> QED BY <2>1 DEF Release, TypeOK, Status, NotifyAll
<1>3. HeldSlots' = HeldSlots \ {slot} /\ LentSlots' = LentSlots
  <2>1. \A d \in Consumers : held'[d] = held[d] \ {slot}
    BY <1>1 DEF Release, TypeOK, HeldIsAccquire
  <2> QED BY <2>1 DEF Release, LentSlots, HeldSlots
<1>4. SlotsPartitioned'
  <2>1. FreeIsFree'
    <3>1. mFreeSlots \in Seq(Slots) /\ mFreeSlots' = Append(mFreeSlots, slot)
          /\ \A i, j \in DOMAIN mFreeSlots : mFreeSlots[i] = mFreeSlots[j] => i = j
      BY DEF Release, TypeOK, FreeIsFree
    <3>2. /\ \A i, j \in DOMAIN mFreeSlots' : mFreeSlots'[i] = mFreeSlots'[j] => i = j
          /\ \A s : (\E i \in DOMAIN mFreeSlots' : mFreeSlots'[i] = s)
                      <=> s = slot \/ \E i \in DOMAIN mFreeSlots : mFreeSlots[i] = s
      BY ONLY <1>1, <3>1, PushRange
    <3> QED BY <1>1, <3>2 DEF Release, FreeIsFree
  <2>2. QueueIsQueue'
    BY <1>1 DEF Release, QueueIsQueue, TypeOK
  <2>3. LentIsDequeue'
    BY <1>1, <1>3 DEF Release, LentIsDequeue, TypeOK
  <2>4. HeldIsAccquire'
    <3>1. \A s \in Slots : (s \in mActiveSlots /\ mStatus[s] = "Accquire")' <=> s \in HeldSlots'
      BY <1>1, <1>3 DEF Release, HeldIsAccquire, TypeOK
    <3>2. \A d, e \in Consumers : d # e => held'[d] \cap held'[e] = {}
      BY DEF Release, HeldIsAccquire, TypeOK
    <3> QED BY <3>1, <3>2 DEF HeldIsAccquire
  <2>5. ActiveStatus'
    BY DEF Release, ActiveStatus, TypeOK
  <2> QED BY <2>1, <2>2, <2>3, <2>4, <2>5
<1>5. HeldSlots \in SUBSET Slots /\ Cardinality(HeldSlots') <= Cardinality(HeldSlots)
      /\ Cardinality(HeldSlots) \in Nat /\ Cardinality(HeldSlots') \in Nat
  BY <1>3, CountsAreLoans, CountShrinks, SlotsFinite
<1>6. LimitsHold'
  BY <1>3, <1>5, CountsAssumption DEF LimitsHold
<1>7. NoLostWakeup' /\ WaitersBelowLimit'
  <2>1. Count("Accquire")' <= Count("Accquire")
        /\ Count("Accquire") \in Nat /\ Count("Accquire")' \in Nat
    BY <1>2, <1>3, <1>4, <1>5, CountsAreLoans, CountsAreLoansNext
  <2>2. \A t \in Threads : pc'[t] # "waitDequeue"
                            /\ (pc'[t] = "waitAccquire" => pc[t] = "waitAccquire")
    BY DEF Release, NotifyAll
  <2> QED BY <2>1, <2>2, CountsAssumption DEF Release, NoLostWakeup, WaitersBelowLimit, Threads
<1> QED BY <1>2, <1>4, <1>6, <1>7

-----------------------------------------------------------------------------
\* Every call of a client keeps the invariant.
LEMMA NextIInv == ASSUME IInv, [Next]_vars PROVE IInv'
<1>1. CASE UNCHANGED vars
  BY <1>1, StutterIInv
<1>2. ASSUME NEW p \in Producers, Produce(p) PROVE IInv'
  BY <1>2, DequeueRefusedIInv, DequeueWaitsIInv, DequeueFrameIInv, FillFrameIInv,
     QueueFrameIInv DEF Produce
<1>3. ASSUME NEW c \in Consumers, Consume(c) PROVE IInv'
  BY <1>3, AccquireRefusedIInv, AccquireWaitsIInv, AccquireIInv, ReleaseIInv DEF Consume
<1> QED BY <1>1, <1>2, <1>3 DEF Next

\* The slot bookkeeping of framequeue*.cpp never goes wrong: for any number of
\* producer and consumer threads and any limits, the lists, the status array and what
\* the clients hold agree after every call.
THEOREM Invariant == Spec => []IInv
<1>1. Init => IInv
  BY InitIInv
<1>2. IInv /\ [Next]_vars => IInv'
  BY NextIInv
<1> QED BY <1>1, <1>2, PTL DEF Spec

\* Type correctness of the queue's state.
THEOREM TypeCorrect == Spec => []TypeOK
<1>1. IInv => TypeOK
  BY DEF IInv
<1> QED BY <1>1, Invariant, PTL

\* Each slot is in exactly one of free list, queue, producer's hands, consumer's hands.
THEOREM Partition == Spec => []SlotsPartitioned
<1>1. IInv => SlotsPartitioned
  BY DEF IInv
<1> QED BY <1>1, Invariant, PTL

\* mMaxDequeuedBufferCount and mMaxAcquiredBufferCount are never exceeded.
THEOREM Limits == Spec => []LimitsHold
<1>1. IInv => LimitsHold
  BY DEF IInv
<1> QED BY <1>1, Invariant, PTL

\* The bookkeeping of the slots: nobody else has a slot that a client has, and the
\* clients have no more than they may.
THEOREM Accounts == Spec => []SlotsAccounted
BY Partition, Limits, PTL DEF SlotsAccounted

\* No thread sleeps on a condition variable whose condition holds.
THEOREM Wakeups == Spec => []NoLostWakeup
<1>1. IInv => NoLostWakeup
  BY DEF IInv
<1> QED BY <1>1, Invariant, PTL

\* A set of slots with no producer's and no consumer's limit reached leaves one slot
\* over: a waiting producer and a waiting consumer would leave it nowhere to be.
LEMMA IInvNoStandoff == IInv => NoStandoff
<1> SUFFICES ASSUME IInv,
                    NEW p \in Producers, pc[p] = "waitDequeue",
                    NEW c \in Consumers, pc[c] = "waitAccquire"
             PROVE  FALSE
  BY DEF NoStandoff
<1> USE DEF IInv
<1>1. mFreeSlots = <<>> /\ mQueue = <<>>
  BY DEF NoLostWakeup
<1>2. LentSlots \in SUBSET Slots /\ HeldSlots \in SUBSET Slots
      /\ Cardinality(LentSlots) < MaxDequeued /\ Cardinality(HeldSlots) < MaxAcquired
  BY CountsAreLoans DEF WaitersBelowLimit
<1>3. Slots = LentSlots \cup HeldSlots
  <2>1. \A s \in Slots : s \in mActiveSlots
    BY <1>1 DEF SlotsPartitioned, FreeIsFree
  <2>2. \A s \in Slots : mStatus[s] # "Queue"
    BY <1>1, <2>1 DEF SlotsPartitioned, QueueIsQueue
  <2>3. \A s \in Slots : s \in LentSlots \/ s \in HeldSlots
    BY <2>1, <2>2 DEF SlotsPartitioned, ActiveStatus, LentIsDequeue, HeldIsAccquire
  <2> QED BY <1>2, <2>3
<1>4. Cardinality(LentSlots \cup HeldSlots)
        <= Cardinality(LentSlots) + Cardinality(HeldSlots)
  <2>1. IsFiniteSet(LentSlots) /\ IsFiniteSet(HeldSlots)
        /\ IsFiniteSet(LentSlots \cap HeldSlots)
    BY <1>2, SlotsFinite
  <2>2. Cardinality(LentSlots \cup HeldSlots)
          = Cardinality(LentSlots) + Cardinality(HeldSlots)
            - Cardinality(LentSlots \cap HeldSlots)
    BY <2>1, FS_Union
  <2> QED BY <2>1, <2>2, FS_CardinalityType
<1>5. Cardinality(LentSlots) \in Nat /\ Cardinality(HeldSlots) \in Nat
  BY <1>2, SlotsFinite
<1> QED BY <1>2, <1>3, <1>4, <1>5, SlotsFinite, CountsAssumption

\* Producers and consumers never wait for each other.
THEOREM Standoff == Spec => []NoStandoff
BY Invariant, IInvNoStandoff, PTL

\* A thread asleep in dequeueFrame or accquire has nothing to take, and not everyone is.
THEOREM Sleepers == Spec => []SleepersJustified
BY Wakeups, Standoff, PTL DEF SleepersJustified

\* No call writes a Frame that a consumer reads or that waits in the queue.
THEOREM Stable == Spec => FrameStable
<1>1. ASSUME IInv, [Next]_vars
      PROVE  [\A s \in Slots : mFrame'[s] # mFrame[s] =>
                /\ s \notin HeldSlots
                /\ \A i \in DOMAIN mQueue : mQueue[i] # s]_vars
  <2>1. ASSUME NEW s \in Slots, mFrame'[s] # mFrame[s], NEW p \in Producers,
               NEW slot \in Slots, FillFrame(p, slot)
        PROVE  s \notin HeldSlots /\ \A i \in DOMAIN mQueue : mQueue[i] # s
    <3>1. s = slot /\ mStatus[s] = "Dequeue"
      BY <1>1, <2>1 DEF FillFrame, IInv, TypeOK
    <3> QED BY <1>1, <3>1 DEF IInv, SlotsPartitioned, HeldIsAccquire, QueueIsQueue
  <2>2. ASSUME mFrame' # mFrame
        PROVE  \E p \in Producers, slot \in Slots : FillFrame(p, slot)
    BY <1>1, <2>2 DEF Next, Produce, Consume, DequeueRefused, DequeueWaits, DequeueFrame,
       QueueFrame, AccquireRefused, AccquireWaits, Accquire, Release, vars
  <2> QED BY <2>1, <2>2
<1> QED BY <1>1, Invariant, PTL DEF Spec, FrameStable
-----------------------------------------------------------------------------
(* The refinement *)

\* What the abstract queue's state is in a state of the code.
Fifo == [i \in DOMAIN mQueue |-> Load(mQueue[i])]
Holding == [c \in Consumers |-> {Load(s) : s \in held[c]}]

\* The list of loaded slots follows a push and a pop of the queue, as long as no Frame in
\* it is written.
LEMMA FifoPush ==
    ASSUME TypeOK, NEW slot \in Slots, mQueue' = Append(mQueue, slot), UNCHANGED mFrame
    PROVE  Fifo' = Append(Fifo, Load(slot))
<1>1. mQueue \in Seq(Slots) /\ Len(mQueue) \in Nat /\ DOMAIN mQueue = 1 .. Len(mQueue)
  BY DEF TypeOK
<1>2. \A s : Load(s)' = Load(s)
  BY DEF Load
<1>3. Fifo \in Seq({Load(s) : s \in Slots}) /\ Len(Fifo) = Len(mQueue)
  BY <1>1 DEF Fifo
<1>4. Fifo' \in Seq({Load(s) : s \in Slots}) /\ Len(Fifo') = Len(mQueue) + 1
      /\ \A i \in 1 .. Len(mQueue) + 1 : Fifo'[i] = Load(Append(mQueue, slot)[i])
  <2>1. Fifo' = [i \in 1 .. Len(mQueue) + 1 |-> Load(Append(mQueue, slot)[i])]
    BY <1>1, <1>2 DEF Fifo
  <2>2. \A i \in 1 .. Len(mQueue) + 1 : Append(mQueue, slot)[i] \in Slots
    BY <1>1
  <2> QED BY <1>1, <2>1, <2>2
<1>5. Append(Fifo, Load(slot)) \in Seq({Load(s) : s \in Slots})
      /\ Len(Append(Fifo, Load(slot))) = Len(mQueue) + 1
      /\ \A i \in 1 .. Len(mQueue) + 1 :
            Append(Fifo, Load(slot))[i] = Load(Append(mQueue, slot)[i])
  BY <1>1, <1>3 DEF Fifo
<1> QED BY ONLY <1>1, <1>4, <1>5, SeqEqual

LEMMA FifoPop ==
    ASSUME TypeOK, mQueue # <<>>, mQueue' = Tail(mQueue), UNCHANGED mFrame
    PROVE  Fifo # <<>> /\ Head(Fifo) = Load(Head(mQueue)) /\ Fifo' = Tail(Fifo)
<1>1. mQueue \in Seq(Slots) /\ Len(mQueue) \in Nat \ {0} /\ DOMAIN mQueue = 1 .. Len(mQueue)
  BY DEF TypeOK
<1>2. \A s : Load(s)' = Load(s)
  BY DEF Load
<1>3. Fifo \in Seq({Load(s) : s \in Slots}) /\ Len(Fifo) = Len(mQueue)
  BY <1>1 DEF Fifo
<1>4. Fifo # <<>> /\ Head(Fifo) = Load(Head(mQueue))
  BY <1>1, <1>3 DEF Fifo
<1>5. Fifo' = [i \in 1 .. Len(mQueue) - 1 |-> Load(mQueue[i + 1])]
  BY <1>1, <1>2 DEF Fifo
<1>6. Tail(Fifo) = [i \in 1 .. Len(mQueue) - 1 |-> Load(mQueue[i + 1])]
  BY <1>1, <1>3 DEF Fifo
<1> QED BY <1>4, <1>5, <1>6

\* The loaded slots that consumers hold are as many as the slots they hold.
LEMMA HoldingCount ==
    ASSUME IInv
    PROVE  /\ UNION {Holding[c] : c \in Consumers} = {Load(s) : s \in HeldSlots}
           /\ Cardinality({Load(s) : s \in HeldSlots}) <= Cardinality(HeldSlots)
           /\ Cardinality({Load(s) : s \in HeldSlots}) \in Nat
<1>1. UNION {Holding[c] : c \in Consumers} = {Load(s) : s \in HeldSlots}
  BY DEF Holding, HeldSlots
<1>2. IsFiniteSet(HeldSlots)
  BY CountsAreLoans, SlotsFinite DEF IInv
<1>3. [s \in HeldSlots |-> Load(s)] \in Surjection(HeldSlots, {Load(s) : s \in HeldSlots})
  BY DEF Surjection
<1>4. /\ IsFiniteSet({Load(s) : s \in HeldSlots})
      /\ Cardinality({Load(s) : s \in HeldSlots}) <= Cardinality(HeldSlots)
  BY <1>2, <1>3, FS_Surjection
<1> QED BY <1>1, <1>4, FS_CardinalityType

\* Nothing written is in the fifo or held: a step that keeps the queue and what is held
\* keeps what the clients see of them.
LEMMA SeenUnchanged ==
    ASSUME IInv, mQueue' = mQueue, held' = held, lent' = lent,
           \A s \in Slots : mFrame'[s] # mFrame[s] =>
              s \notin HeldSlots /\ \A i \in DOMAIN mQueue : mQueue[i] # s
    PROVE  UNCHANGED Loan!vars
<1>1. \A i \in DOMAIN mQueue : mQueue[i] \in Slots
  BY DEF IInv, TypeOK
<1>2. \A i \in DOMAIN mQueue : Load(mQueue[i])' = Load(mQueue[i])
  BY <1>1 DEF Load
<1>3. \A c \in Consumers : \A s \in held[c] : s \in HeldSlots /\ s \in Slots
  BY DEF IInv, TypeOK, HeldSlots
<1>4. \A c \in Consumers : \A s \in held[c] : Load(s)' = Load(s)
  BY <1>3 DEF Load
<1>5. Fifo' = Fifo
  BY <1>2 DEF Fifo
<1>6. \A c \in Consumers : {Load(s) : s \in held[c]}' = {Load(s) : s \in held[c]}
  BY <1>4
<1>7. Holding' = Holding
  BY <1>6 DEF Holding
<1> QED BY <1>5, <1>7 DEF Loan!vars, Fifo, Holding

\* The abstract queue counts as its implementation does.
LEMMA SameCount == ASSUME NEW S PROVE Loan!Cardinality(S) = Cardinality(S)
BY Zenon DEF Cardinality, Loan!Cardinality

LEMMA InitLoan == Init => Loan!Init
<1> SUFFICES ASSUME Init PROVE Loan!Init
  OBVIOUS
<1>1. [i \in DOMAIN mQueue |-> Load(mQueue[i])] = <<>>
  BY DEF Init
<1>2. [c \in Consumers |-> {Load(s) : s \in held[c]}] = [c \in Consumers |-> {}]
  BY DEF Init
<1> QED BY <1>1, <1>2 DEF Loan!Init, Init

LEMMA DequeueBorrows ==
    ASSUME IInv, NEW p \in Producers, DequeueFrame(p)
    PROVE  Loan!Next
<1> DEFINE slot == Head(mFreeSlots)
<1>1. slot \in Slots /\ slot \notin mActiveSlots
  <2>1. slot \in Slots /\ 1 \in DOMAIN mFreeSlots /\ slot = mFreeSlots[1]
    BY PopFacts DEF DequeueFrame, IInv, TypeOK
  <2> QED BY <2>1 DEF IInv, SlotsPartitioned, FreeIsFree
<1>2. slot \notin LentSlots /\ slot \notin HeldSlots /\ \A i \in DOMAIN mQueue : mQueue[i] # slot
  BY <1>1 DEF IInv, SlotsPartitioned, LentIsDequeue, HeldIsAccquire, QueueIsQueue
<1>3. ~Loan!InUse(slot)
  <2>1. \A i \in DOMAIN mQueue : Load(mQueue[i]).blank # slot
    BY <1>2 DEF Load
  <2>2. \A c \in Consumers : \A s \in held[c] : s # slot
    BY <1>2 DEF HeldSlots
  <2>3. \A l \in Loan!Held : l.blank # slot
    BY <2>2 DEF Loan!Held, Load
  <2> QED BY <1>2, <2>1, <2>3 DEF Loan!InUse, Loan!Lent, LentSlots
<1>4. Cardinality(Loan!Lent) < MaxDequeued
  BY CountsAreLoans DEF IInv, DequeueFrame, MayDequeue, Loan!Lent, LentSlots
<1>5. Loan!Borrow(p, slot)
  <2>1. lent' = [lent EXCEPT ![p] = @ \cup {slot}] /\ mQueue' = mQueue /\ mFrame' = mFrame
        /\ held' = held
    BY DEF DequeueFrame
  <2>2. \A s : Load(s)' = Load(s)
    BY <2>1 DEF Load
  <2> QED BY <1>3, <1>4, <2>1, <2>2, SameCount DEF Loan!Borrow
<1> QED BY <1>1, <1>5 DEF Loan!Next

LEMMA QueueHandsIn ==
    ASSUME IInv, NEW p \in Producers, NEW slot \in Slots, QueueFrame(p, slot)
    PROVE  Loan!Next
<1>1. lent' = [lent EXCEPT ![p] = @ \ {slot}] /\ slot \in lent[p]
      /\ mQueue' = Append(mQueue, slot) /\ mFrame' = mFrame /\ held' = held
  BY DEF QueueFrame, PushQueue
<1>2. \A s : Load(s)' = Load(s) /\ Load(s).blank = s
  BY <1>1 DEF Load
<1>3. Fifo' = Append(Fifo, Load(slot))
  BY <1>1, FifoPush DEF IInv
<1>4. Holding' = Holding
  BY <1>1, <1>2 DEF Holding
<1>5. PICK l \in Loan!Loaded : l = Load(slot)
  BY DEF Load, Loan!Loaded, IInv, TypeOK
<1>6. Loan!HandIn(p, l)
  BY <1>1, <1>2, <1>3, <1>4, <1>5 DEF Loan!HandIn, Fifo, Holding
<1> QED BY <1>6 DEF Loan!Next

LEMMA AccquireTakes ==
    ASSUME IInv, NEW c \in Consumers, Accquire(c)
    PROVE  Loan!Next
<1> DEFINE slot == Head(mQueue)
<1>1. held' = [held EXCEPT ![c] = @ \cup {slot}] /\ mQueue # <<>> /\ mQueue' = Tail(mQueue)
      /\ mFrame' = mFrame /\ lent' = lent
  BY DEF Accquire
<1>2. \A s : Load(s)' = Load(s)
  BY <1>1 DEF Load
<1>3. Fifo # <<>> /\ Head(Fifo) = Load(slot) /\ Fifo' = Tail(Fifo)
  BY <1>1, FifoPop DEF IInv
<1>4. Cardinality(Loan!Held) < MaxAcquired
  <2>1. Cardinality(HeldSlots) < MaxAcquired /\ Cardinality(HeldSlots) \in Nat
    BY CountsAreLoans, SlotsFinite DEF IInv, Accquire
  <2>2. Loan!Held = {Load(s) : s \in HeldSlots}
    BY HoldingCount DEF Loan!Held, Holding
  <2> QED BY <2>1, <2>2, HoldingCount, CountsAssumption
<1>5. Holding' = [Holding EXCEPT ![c] = @ \cup {Load(slot)}]
  <2>1. \A d \in Consumers : held'[d] = IF d = c THEN held[c] \cup {slot} ELSE held[d]
    BY <1>1 DEF IInv, TypeOK
  <2>2. \A d \in Consumers : {Load(s)' : s \in held'[d]}
                               = IF d = c THEN Holding[c] \cup {Load(slot)} ELSE Holding[d]
    BY <1>2, <2>1 DEF Holding
  <2> QED BY <2>2 DEF Holding
<1>6. Loan!Take(c)
  BY <1>1, <1>3, <1>4, <1>5, SameCount DEF Loan!Take, Fifo, Holding
<1> QED BY <1>6 DEF Loan!Next

LEMMA ReleaseGivesBack ==
    ASSUME IInv, NEW c \in Consumers, NEW slot \in Slots, Release(c, slot)
    PROVE  Loan!Next
<1>1. held' = [held EXCEPT ![c] = @ \ {slot}] /\ slot \in held[c] /\ mQueue' = mQueue
      /\ mFrame' = mFrame /\ lent' = lent
  BY DEF Release
<1>2. \A s : Load(s)' = Load(s) /\ Load(s).blank = s
  BY <1>1 DEF Load
<1>3. Holding' = [Holding EXCEPT ![c] = @ \ {Load(slot)}]
  <2>1. \A d \in Consumers : held'[d] = IF d = c THEN held[c] \ {slot} ELSE held[d]
    BY <1>1 DEF IInv, TypeOK
  <2>2. {Load(s) : s \in held[c] \ {slot}} = {Load(s) : s \in held[c]} \ {Load(slot)}
    BY <1>2
  <2>3. \A d \in Consumers : {Load(s)' : s \in held'[d]}
                               = IF d = c THEN Holding[c] \ {Load(slot)} ELSE Holding[d]
    BY <1>2, <2>1, <2>2 DEF Holding
  <2> QED BY <2>3 DEF Holding
<1>4. PICK l \in Loan!Loaded : l = Load(slot)
  BY DEF Load, Loan!Loaded, IInv, TypeOK
<1>5. l \in Holding[c]
  BY <1>1, <1>4 DEF Holding
<1>6. Fifo' = Fifo
  BY <1>1, <1>2 DEF Fifo
<1>7. Loan!GiveBack(c, l)
  BY <1>1, <1>3, <1>4, <1>5, <1>6 DEF Loan!GiveBack, Fifo, Holding
<1> QED BY <1>7 DEF Loan!Next

\* Every call is a step of the abstract queue, or one its clients do not see: waiting,
\* being refused, and writing a Frame that nobody reads.
LEMMA NextLoan == ASSUME IInv, [Next]_vars PROVE [Loan!Next]_(Loan!vars)
<1>1. CASE UNCHANGED vars
  BY <1>1, SeenUnchanged DEF vars
<1>2. ASSUME NEW p \in Producers, DequeueRefused(p) \/ DequeueWaits(p) PROVE UNCHANGED Loan!vars
  BY <1>2, SeenUnchanged DEF DequeueRefused, DequeueWaits, queueVars
<1>3. ASSUME NEW c \in Consumers, AccquireRefused(c) \/ AccquireWaits(c)
      PROVE  UNCHANGED Loan!vars
  BY <1>3, SeenUnchanged DEF AccquireRefused, AccquireWaits, queueVars
<1>4. ASSUME NEW p \in Producers, NEW slot \in Slots, FillFrame(p, slot)
      PROVE  UNCHANGED Loan!vars
  <2>1. slot \in LentSlots /\ mStatus[slot] = "Dequeue"
    BY <1>4 DEF FillFrame, LentSlots
  <2>2. slot \notin HeldSlots /\ \A i \in DOMAIN mQueue : mQueue[i] # slot
    BY <2>1 DEF IInv, SlotsPartitioned, HeldIsAccquire, QueueIsQueue
  <2>3. \A s \in Slots : mFrame'[s] # mFrame[s] => s = slot
    BY <1>4 DEF FillFrame, IInv, TypeOK
  <2> QED BY <1>4, <2>2, <2>3, SeenUnchanged DEF FillFrame, queueVars
<1> QED BY <1>1, <1>2, <1>3, <1>4, DequeueBorrows, QueueHandsIn, AccquireTakes, ReleaseGivesBack
        DEF Next, Produce, Consume

\* FrameQueue implements LoanFifo: seen by its clients, framequeue*.cpp is a queue that
\* loses, repeats, reorders and changes nothing.
THEOREM Implements == Spec => LoanSpec
<1>1. Init => Loan!Init
  BY InitLoan
<1>2. IInv /\ [Next]_vars => [Loan!Next]_(Loan!vars)
  BY NextLoan
<1> QED BY <1>1, <1>2, Invariant, PTL DEF Spec, LoanSpec, Loan!Spec
=============================================================================
