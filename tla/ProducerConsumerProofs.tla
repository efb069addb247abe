----------------------- MODULE ProducerConsumerProofs -----------------------
(***************************************************************************)
(* Proofs about ProducerConsumer, for any sets of producers and consumers, *)
(* any elements and any capacity.                                          *)
(***************************************************************************)
EXTENDS ProducerConsumer, FiniteSetTheorems, TLAPS

(* Where a thread holds tail_lock.  A producer keeps it while it sleeps.   *)
HoldsTail(t) ==
    \/ /\ t \in Producers
       /\ pc[t] \in {"lock_pusher", "test", "asleep", "woken", "store", "advance",
                     "signal", "unlock_pusher", "unlock_tail"}
    \/ /\ t \in Consumers
       /\ pc[t] \in {"test", "load", "advance", "signal", "unlock_tail"}

TailLockInv == \A t \in Threads : HoldsTail(t) <=> owner["tail_lock"] = t

SizeInv ==
    /\ pcq_tail = (pcq_head + pcq_current_size) % Capacity
    /\ \A p \in Producers :
         /\ pc[p] \in {"store", "advance"} => pcq_current_size < Capacity
         /\ pc[p] \in {"asleep", "woken"} => pcq_current_size = Capacity
    /\ \A c \in Consumers : pc[c] \in {"load", "advance"} => pcq_current_size > 0

SlotInv ==
    /\ \A i \in 0 .. pcq_current_size - 1 :
         pcq_buffer[(pcq_head + i) % Capacity] \in Elem
    /\ \A p \in Producers :
         /\ pc[p] # "out" => arg[p] \in Elem
         /\ pc[p] = "advance" => pcq_buffer[pcq_tail] = arg[p]
    /\ \A c \in Consumers :
         /\ pc[c] = "advance" => arg[c] = pcq_buffer[pcq_head]
         /\ pc[c] \in {"advance", "signal", "unlock_tail"} => arg[c] \in Elem

IInv == TypeOK /\ TailLockInv /\ SizeInv /\ SlotInv

-----------------------------------------------------------------------------
(* Positions in the ring never go round more than once, so % is at most    *)
(* one subtraction.                                                        *)
LEMMA WrapOnce ==
    ASSUME NEW x \in 0 .. 2 * Capacity - 1
    PROVE  x % Capacity = IF x < Capacity THEN x ELSE x - Capacity
  <1> USE QueueAssumption
  <1>1. CASE x < Capacity
    BY <1>1, SMT
  <1>2. CASE x >= Capacity
    <2>1. x - Capacity \in 0 .. Capacity - 1
      BY <1>2
    <2> QED
      BY <1>2, <2>1, SMT
  <1> QED BY <1>1, <1>2

LEMMA Next1Value ==
    ASSUME NEW i \in Slots
    PROVE  /\ Next1(i) \in Slots
           /\ Next1(i) = IF i = Capacity - 1 THEN 0 ELSE i + 1
  <1>1. i + 1 \in 0 .. 2 * Capacity - 1
    BY QueueAssumption DEF Slots
  <1> QED
    BY <1>1, WrapOnce, QueueAssumption DEF Next1, Slots

(* The i-th slot from h, for a ring that starts at h.                      *)
LEMMA RingArithmetic ==
    ASSUME NEW h \in Slots, NEW i \in 0 .. Capacity
    PROVE  /\ (h + i) % Capacity \in Slots
           /\ (h + i) % Capacity = IF h + i < Capacity THEN h + i ELSE h + i - Capacity
           /\ (h + 0) % Capacity = h
           /\ i < Capacity => /\ Next1((h + i) % Capacity) = (h + (i + 1)) % Capacity
                              /\ (Next1(h) + i) % Capacity = (h + (i + 1)) % Capacity
  <1> USE QueueAssumption DEF Slots
  <1>1. h + i \in 0 .. 2 * Capacity - 1 /\ h + 0 \in 0 .. 2 * Capacity - 1
    OBVIOUS
  <1>2. /\ (h + i) % Capacity = IF h + i < Capacity THEN h + i ELSE h + i - Capacity
        /\ (h + 0) % Capacity = h
    BY <1>1, WrapOnce
  <1>3. (h + i) % Capacity \in Slots
    BY <1>1, <1>2
  <1>4. ASSUME i < Capacity
        PROVE  /\ Next1((h + i) % Capacity) = (h + (i + 1)) % Capacity
               /\ (Next1(h) + i) % Capacity = (h + (i + 1)) % Capacity
    <2>1. h + (i + 1) \in 0 .. 2 * Capacity - 1
      BY <1>4
    <2>2. (h + (i + 1)) % Capacity = IF h + i + 1 < Capacity THEN h + i + 1
                                     ELSE h + i + 1 - Capacity
      BY <2>1, WrapOnce
    <2>3. Next1((h + i) % Capacity) = (h + (i + 1)) % Capacity
      <3> DEFINE k == (h + i) % Capacity
      <3>1. k \in Slots /\ k = IF h + i < Capacity THEN h + i ELSE h + i - Capacity
        BY <1>2, <1>3
      <3> HIDE DEF k
      <3>2. Next1(k) = IF k = Capacity - 1 THEN 0 ELSE k + 1
        BY <3>1, Next1Value
      <3>3. Next1(k) = (h + (i + 1)) % Capacity
        BY <3>1, <3>2, <2>2
      <3> QED
        BY <3>3 DEF k
    <2>4. (Next1(h) + i) % Capacity = (h + (i + 1)) % Capacity
      <3>1. Next1(h) = IF h = Capacity - 1 THEN 0 ELSE h + 1
        BY Next1Value
      <3>2. CASE h = Capacity - 1
        <4>1. Next1(h) + i = i /\ i \in 0 .. 2 * Capacity - 1
          BY <1>4, <3>1, <3>2
        <4>2. i % Capacity = i
          BY <1>4, <4>1, WrapOnce
        <4> QED
          BY <1>4, <2>2, <3>2, <4>1, <4>2
      <3>3. CASE h # Capacity - 1
        <4>1. Next1(h) + i = h + (i + 1)
          BY <3>1, <3>3
        <4> QED
          BY <4>1
      <3> QED
        BY <3>2, <3>3
    <2> QED
      BY <2>3, <2>4
  <1> QED
    BY <1>2, <1>3, <1>4

(* Fewer than Capacity steps apart, two positions are two slots.           *)
LEMMA DistinctSlots ==
    ASSUME NEW h \in Slots, NEW i \in 0 .. Capacity - 1, NEW j \in 0 .. Capacity - 1,
           (h + i) % Capacity = (h + j) % Capacity
    PROVE  i = j
  <1>1. i \in 0 .. Capacity /\ j \in 0 .. Capacity
    BY QueueAssumption
  <1>2. /\ (h + i) % Capacity = IF h + i < Capacity THEN h + i ELSE h + i - Capacity
        /\ (h + j) % Capacity = IF h + j < Capacity THEN h + j ELSE h + j - Capacity
    BY <1>1, RingArithmetic
  <1> QED
    BY <1>2, QueueAssumption DEF Slots

-----------------------------------------------------------------------------
LEMMA InitIInv == Init => IInv
  BY QueueAssumption
  DEF Init, IInv, TypeOK, TailLockInv, HoldsTail, SizeInv, SlotInv, Threads, Locks,
      Slots, ProducerSteps, ConsumerSteps

(* Who holds tail_lock, whatever the step.                                 *)
LEMMA TailLockStep ==
    ASSUME IInv, [Next]_vars
    PROVE  TailLockInv'
  <1> USE QueueAssumption DEF IInv, TypeOK, TailLockInv, HoldsTail, Threads, Locks,
          ProducerSteps, ConsumerSteps
  <1>1. ASSUME NEW p \in Producers, EnqueueCall(p) PROVE TailLockInv'
    BY <1>1 DEF EnqueueCall, Step, Lock, Unlock, CondWait, CondSignal, Asleep
  <1>2. ASSUME NEW p \in Producers, EnqueueLockSize(p) PROVE TailLockInv'
    BY <1>2 DEF EnqueueLockSize, Step, Lock, Unlock, CondWait, CondSignal, Asleep
  <1>3. ASSUME NEW p \in Producers, EnqueueLockTail(p) PROVE TailLockInv'
    BY <1>3 DEF EnqueueLockTail, Step, Lock, Unlock, CondWait, CondSignal, Asleep
  <1>4. ASSUME NEW p \in Producers, EnqueueLockPusher(p) PROVE TailLockInv'
    BY <1>4 DEF EnqueueLockPusher, Step, Lock, Unlock, CondWait, CondSignal, Asleep
  <1>5. ASSUME NEW p \in Producers, EnqueueWait(p) PROVE TailLockInv'
    BY <1>5 DEF EnqueueWait, Step, Lock, Unlock, CondWait, CondSignal, Asleep
  <1>6. ASSUME NEW p \in Producers, EnqueueRelock(p) PROVE TailLockInv'
    BY <1>6 DEF EnqueueRelock, Step, Lock, Unlock, CondWait, CondSignal, Asleep
  <1>7. ASSUME NEW p \in Producers, EnqueueRoom(p) PROVE TailLockInv'
    BY <1>7 DEF EnqueueRoom, Step, Lock, Unlock, CondWait, CondSignal, Asleep
  <1>8. ASSUME NEW p \in Producers, EnqueueStore(p) PROVE TailLockInv'
    BY <1>8 DEF EnqueueStore, Step, Lock, Unlock, CondWait, CondSignal, Asleep
  <1>9. ASSUME NEW p \in Producers, EnqueueAdvance(p) PROVE TailLockInv'
    BY <1>9 DEF EnqueueAdvance, Step, Lock, Unlock, CondWait, CondSignal, Asleep
  <1>10. ASSUME NEW p \in Producers, EnqueueSignal(p) PROVE TailLockInv'
    BY <1>10 DEF EnqueueSignal, Step, Lock, Unlock, CondWait, CondSignal, Asleep
  <1>11. ASSUME NEW p \in Producers, EnqueueUnlockPusher(p) PROVE TailLockInv'
    BY <1>11 DEF EnqueueUnlockPusher, Step, Lock, Unlock, CondWait, CondSignal, Asleep
  <1>12. ASSUME NEW p \in Producers, EnqueueUnlockTail(p) PROVE TailLockInv'
    BY <1>12 DEF EnqueueUnlockTail, Step, Lock, Unlock, CondWait, CondSignal, Asleep
  <1>13. ASSUME NEW p \in Producers, EnqueueUnlockSize(p) PROVE TailLockInv'
    BY <1>13 DEF EnqueueUnlockSize, Step, Lock, Unlock, CondWait, CondSignal, Asleep
  <1>14. ASSUME NEW c \in Consumers, DequeueLockTail(c) PROVE TailLockInv'
    BY <1>14 DEF DequeueLockTail, Step, Lock, Unlock, CondWait, CondSignal, Asleep
  <1>15. ASSUME NEW c \in Consumers, DequeueWait(c) PROVE TailLockInv'
    BY <1>15 DEF DequeueWait, Step, Lock, Unlock, CondWait, CondSignal, Asleep
  <1>16. ASSUME NEW c \in Consumers, DequeueRelock(c) PROVE TailLockInv'
    BY <1>16 DEF DequeueRelock, Step, Lock, Unlock, CondWait, CondSignal, Asleep
  <1>17. ASSUME NEW c \in Consumers, DequeueSome(c) PROVE TailLockInv'
    BY <1>17 DEF DequeueSome, Step, Lock, Unlock, CondWait, CondSignal, Asleep
  <1>18. ASSUME NEW c \in Consumers, DequeueLoad(c) PROVE TailLockInv'
    BY <1>18 DEF DequeueLoad, Step, Lock, Unlock, CondWait, CondSignal, Asleep
  <1>19. ASSUME NEW c \in Consumers, DequeueAdvance(c) PROVE TailLockInv'
    BY <1>19 DEF DequeueAdvance, Step, Lock, Unlock, CondWait, CondSignal, Asleep
  <1>20. ASSUME NEW c \in Consumers, DequeueSignal(c) PROVE TailLockInv'
    BY <1>20 DEF DequeueSignal, Step, Lock, Unlock, CondWait, CondSignal, Asleep
  <1>21. ASSUME NEW c \in Consumers, DequeueUnlockTail(c) PROVE TailLockInv'
    BY <1>21 DEF DequeueUnlockTail, Step, Lock, Unlock, CondWait, CondSignal, Asleep
  <1>22. ASSUME NEW t \in Threads, SpuriousWakeup(t) PROVE TailLockInv'
    BY <1>22 DEF SpuriousWakeup, Step
  <1>23. CASE UNCHANGED vars
    BY <1>23 DEF vars
  <1> QED
    BY <1>1, <1>2, <1>3, <1>4, <1>5, <1>6, <1>7, <1>8, <1>9, <1>10, <1>11, <1>12, <1>13, <1>14, <1>15, <1>16, <1>17, <1>18, <1>19, <1>20, <1>21, <1>22, <1>23
    DEF Next, pcq_enqueue, pcq_dequeue

LEMMA TypeStep ==
    ASSUME IInv, [Next]_vars
    PROVE  TypeOK'
  <1> USE QueueAssumption DEF IInv, TypeOK, Threads, Locks, ProducerSteps, ConsumerSteps
  <1>1. ASSUME NEW p \in Producers, EnqueueCall(p) PROVE TypeOK'
    BY <1>1 DEF EnqueueCall, Step, Lock, Unlock, CondWait, CondSignal, Asleep, ring
  <1>2. ASSUME NEW p \in Producers, EnqueueLockSize(p) PROVE TypeOK'
    BY <1>2 DEF EnqueueLockSize, Step, Lock, Unlock, CondWait, CondSignal, Asleep, ring
  <1>3. ASSUME NEW p \in Producers, EnqueueLockTail(p) PROVE TypeOK'
    BY <1>3 DEF EnqueueLockTail, Step, Lock, Unlock, CondWait, CondSignal, Asleep, ring
  <1>4. ASSUME NEW p \in Producers, EnqueueLockPusher(p) PROVE TypeOK'
    BY <1>4 DEF EnqueueLockPusher, Step, Lock, Unlock, CondWait, CondSignal, Asleep, ring
  <1>5. ASSUME NEW p \in Producers, EnqueueWait(p) PROVE TypeOK'
    BY <1>5 DEF EnqueueWait, Step, Lock, Unlock, CondWait, CondSignal, Asleep, ring
  <1>6. ASSUME NEW p \in Producers, EnqueueRelock(p) PROVE TypeOK'
    BY <1>6 DEF EnqueueRelock, Step, Lock, Unlock, CondWait, CondSignal, Asleep, ring
  <1>7. ASSUME NEW p \in Producers, EnqueueRoom(p) PROVE TypeOK'
    BY <1>7 DEF EnqueueRoom, Step, Lock, Unlock, CondWait, CondSignal, Asleep, ring
  <1>8. ASSUME NEW p \in Producers, EnqueueStore(p) PROVE TypeOK'
    BY <1>8 DEF EnqueueStore, Step, SlotInv
  <1>9. ASSUME NEW p \in Producers, EnqueueAdvance(p) PROVE TypeOK'
    BY <1>9, Next1Value DEF EnqueueAdvance, Step, SizeInv
  <1>10. ASSUME NEW p \in Producers, EnqueueSignal(p) PROVE TypeOK'
    BY <1>10 DEF EnqueueSignal, Step, Lock, Unlock, CondWait, CondSignal, Asleep, ring
  <1>11. ASSUME NEW p \in Producers, EnqueueUnlockPusher(p) PROVE TypeOK'
    BY <1>11 DEF EnqueueUnlockPusher, Step, Lock, Unlock, CondWait, CondSignal, Asleep, ring
  <1>12. ASSUME NEW p \in Producers, EnqueueUnlockTail(p) PROVE TypeOK'
    BY <1>12 DEF EnqueueUnlockTail, Step, Lock, Unlock, CondWait, CondSignal, Asleep, ring
  <1>13. ASSUME NEW p \in Producers, EnqueueUnlockSize(p) PROVE TypeOK'
    BY <1>13 DEF EnqueueUnlockSize, Step, Lock, Unlock, CondWait, CondSignal, Asleep, ring
  <1>14. ASSUME NEW c \in Consumers, DequeueLockTail(c) PROVE TypeOK'
    BY <1>14 DEF DequeueLockTail, Step, Lock, Unlock, CondWait, CondSignal, Asleep, ring
  <1>15. ASSUME NEW c \in Consumers, DequeueWait(c) PROVE TypeOK'
    BY <1>15 DEF DequeueWait, Step, Lock, Unlock, CondWait, CondSignal, Asleep, ring
  <1>16. ASSUME NEW c \in Consumers, DequeueRelock(c) PROVE TypeOK'
    BY <1>16 DEF DequeueRelock, Step, Lock, Unlock, CondWait, CondSignal, Asleep, ring
  <1>17. ASSUME NEW c \in Consumers, DequeueSome(c) PROVE TypeOK'
    BY <1>17 DEF DequeueSome, Step, Lock, Unlock, CondWait, CondSignal, Asleep, ring
  <1>18. ASSUME NEW c \in Consumers, DequeueLoad(c) PROVE TypeOK'
    <2>1. pcq_current_size > 0 /\ pcq_current_size \in Nat /\ pcq_head \in Slots
      BY <1>18 DEF DequeueLoad, Step, SizeInv
    <2>2. pcq_head + 0 = pcq_head /\ pcq_head \in 0 .. 2 * Capacity - 1 /\ pcq_head < Capacity
      BY <2>1 DEF Slots
    <2>3. pcq_buffer[pcq_head] \in Elem
      BY <2>1, <2>2, WrapOnce DEF SlotInv
    <2> QED
      BY <1>18, <2>3 DEF DequeueLoad, Step, ring
  <1>19. ASSUME NEW c \in Consumers, DequeueAdvance(c) PROVE TypeOK'
    BY <1>19, Next1Value DEF DequeueAdvance, Step, SizeInv
  <1>20. ASSUME NEW c \in Consumers, DequeueSignal(c) PROVE TypeOK'
    BY <1>20 DEF DequeueSignal, Step, Lock, Unlock, CondWait, CondSignal, Asleep, ring
  <1>21. ASSUME NEW c \in Consumers, DequeueUnlockTail(c) PROVE TypeOK'
    BY <1>21 DEF DequeueUnlockTail, Step, Lock, Unlock, CondWait, CondSignal, Asleep, ring
  <1>22. ASSUME NEW t \in Threads, SpuriousWakeup(t) PROVE TypeOK'
    BY <1>22 DEF SpuriousWakeup, Step, ring
  <1>23. CASE UNCHANGED vars
    BY <1>23 DEF vars
  <1> QED
    BY <1>1, <1>2, <1>3, <1>4, <1>5, <1>6, <1>7, <1>8, <1>9, <1>10, <1>11, <1>12, <1>13, <1>14, <1>15, <1>16, <1>17, <1>18, <1>19, <1>20, <1>21, <1>22, <1>23
    DEF Next, pcq_enqueue, pcq_dequeue

LEMMA SizeStep ==
    ASSUME IInv, [Next]_vars
    PROVE  SizeInv'
  <1> USE QueueAssumption DEF IInv, TypeOK, TailLockInv, HoldsTail, SizeInv, Threads,
          Locks, ProducerSteps, ConsumerSteps
  <1>1. ASSUME NEW p \in Producers, EnqueueCall(p) PROVE SizeInv'
    BY <1>1 DEF EnqueueCall, Step, Lock, Unlock, CondWait, CondSignal, Asleep, ring
  <1>2. ASSUME NEW p \in Producers, EnqueueLockSize(p) PROVE SizeInv'
    BY <1>2 DEF EnqueueLockSize, Step, Lock, Unlock, CondWait, CondSignal, Asleep, ring
  <1>3. ASSUME NEW p \in Producers, EnqueueLockTail(p) PROVE SizeInv'
    BY <1>3 DEF EnqueueLockTail, Step, Lock, Unlock, CondWait, CondSignal, Asleep, ring
  <1>4. ASSUME NEW p \in Producers, EnqueueLockPusher(p) PROVE SizeInv'
    BY <1>4 DEF EnqueueLockPusher, Step, Lock, Unlock, CondWait, CondSignal, Asleep, ring
  <1>5. ASSUME NEW p \in Producers, EnqueueWait(p) PROVE SizeInv'
    BY <1>5 DEF EnqueueWait, Step, Lock, Unlock, CondWait, CondSignal, Asleep, ring
  <1>6. ASSUME NEW p \in Producers, EnqueueRelock(p) PROVE SizeInv'
    BY <1>6 DEF EnqueueRelock, Step, Lock, Unlock, CondWait, CondSignal, Asleep, ring
  <1>7. ASSUME NEW p \in Producers, EnqueueRoom(p) PROVE SizeInv'
    BY <1>7 DEF EnqueueRoom, Step, Lock, Unlock, CondWait, CondSignal, Asleep, ring
  <1>8. ASSUME NEW p \in Producers, EnqueueStore(p) PROVE SizeInv'
    BY <1>8 DEF EnqueueStore, Step, Lock, Unlock, CondWait, CondSignal, Asleep, ring
  <1>9. ASSUME NEW p \in Producers, EnqueueAdvance(p) PROVE SizeInv'
    <2>1. /\ pcq_current_size \in 0 .. Capacity - 1 /\ pcq_head \in Slots
          /\ pcq_current_size' = pcq_current_size + 1
      BY <1>9 DEF EnqueueAdvance, Step
    <2>2. pcq_tail' = (pcq_head + (pcq_current_size + 1)) % Capacity
      <3>1. pcq_current_size \in 0 .. Capacity /\ pcq_current_size < Capacity
        BY <2>1
      <3>2. Next1((pcq_head + pcq_current_size) % Capacity)
               = (pcq_head + (pcq_current_size + 1)) % Capacity
        BY <2>1, <3>1, RingArithmetic
      <3> QED
        BY <1>9, <3>2 DEF EnqueueAdvance
    <2>3. pcq_tail' = (pcq_head + pcq_current_size)' % Capacity
      BY <1>9, <2>1, <2>2 DEF EnqueueAdvance
    <2> QED
      BY <1>9, <2>1, <2>3 DEF EnqueueAdvance, Step
  <1>10. ASSUME NEW p \in Producers, EnqueueSignal(p) PROVE SizeInv'
    BY <1>10 DEF EnqueueSignal, Step, Lock, Unlock, CondWait, CondSignal, Asleep, ring
  <1>11. ASSUME NEW p \in Producers, EnqueueUnlockPusher(p) PROVE SizeInv'
    BY <1>11 DEF EnqueueUnlockPusher, Step, Lock, Unlock, CondWait, CondSignal, Asleep, ring
  <1>12. ASSUME NEW p \in Producers, EnqueueUnlockTail(p) PROVE SizeInv'
    BY <1>12 DEF EnqueueUnlockTail, Step, Lock, Unlock, CondWait, CondSignal, Asleep, ring
  <1>13. ASSUME NEW p \in Producers, EnqueueUnlockSize(p) PROVE SizeInv'
    BY <1>13 DEF EnqueueUnlockSize, Step, Lock, Unlock, CondWait, CondSignal, Asleep, ring
  <1>14. ASSUME NEW c \in Consumers, DequeueLockTail(c) PROVE SizeInv'
    BY <1>14 DEF DequeueLockTail, Step, Lock, Unlock, CondWait, CondSignal, Asleep, ring
  <1>15. ASSUME NEW c \in Consumers, DequeueWait(c) PROVE SizeInv'
    BY <1>15 DEF DequeueWait, Step, Lock, Unlock, CondWait, CondSignal, Asleep, ring
  <1>16. ASSUME NEW c \in Consumers, DequeueRelock(c) PROVE SizeInv'
    BY <1>16 DEF DequeueRelock, Step, Lock, Unlock, CondWait, CondSignal, Asleep, ring
  <1>17. ASSUME NEW c \in Consumers, DequeueSome(c) PROVE SizeInv'
    BY <1>17 DEF DequeueSome, Step, Lock, Unlock, CondWait, CondSignal, Asleep, ring
  <1>18. ASSUME NEW c \in Consumers, DequeueLoad(c) PROVE SizeInv'
    BY <1>18 DEF DequeueLoad, Step, Lock, Unlock, CondWait, CondSignal, Asleep, ring
  <1>19. ASSUME NEW c \in Consumers, DequeueAdvance(c) PROVE SizeInv'
    <2>1. /\ pcq_current_size - 1 \in 0 .. Capacity - 1 /\ pcq_head \in Slots
          /\ pcq_current_size' = pcq_current_size - 1
      BY <1>19 DEF DequeueAdvance, Step
    <2>2. (Next1(pcq_head) + (pcq_current_size - 1)) % Capacity
             = (pcq_head + ((pcq_current_size - 1) + 1)) % Capacity
      BY <2>1, RingArithmetic
    <2>3. (pcq_current_size - 1) + 1 = pcq_current_size
      BY <2>1
    <2>4. pcq_tail' = (pcq_head' + pcq_current_size') % Capacity
      BY <1>19, <2>1, <2>2, <2>3 DEF DequeueAdvance
    <2> QED
      BY <1>19, <2>1, <2>4 DEF DequeueAdvance, Step
  <1>20. ASSUME NEW c \in Consumers, DequeueSignal(c) PROVE SizeInv'
    BY <1>20 DEF DequeueSignal, Step, Lock, Unlock, CondWait, CondSignal, Asleep, ring
  <1>21. ASSUME NEW c \in Consumers, DequeueUnlockTail(c) PROVE SizeInv'
    BY <1>21 DEF DequeueUnlockTail, Step, Lock, Unlock, CondWait, CondSignal, Asleep, ring
  <1>22. ASSUME NEW t \in Threads, SpuriousWakeup(t) PROVE SizeInv'
    BY <1>22 DEF SpuriousWakeup, Step, ring
  <1>23. CASE UNCHANGED vars
    BY <1>23 DEF vars
  <1> QED
    BY <1>1, <1>2, <1>3, <1>4, <1>5, <1>6, <1>7, <1>8, <1>9, <1>10, <1>11, <1>12, <1>13, <1>14, <1>15, <1>16, <1>17, <1>18, <1>19, <1>20, <1>21, <1>22, <1>23
    DEF Next, pcq_enqueue, pcq_dequeue

LEMMA SlotStep ==
    ASSUME IInv, [Next]_vars
    PROVE  SlotInv'
  <1> USE QueueAssumption DEF IInv, TypeOK, TailLockInv, HoldsTail, SizeInv, SlotInv,
          Threads, Locks, ProducerSteps, ConsumerSteps
  <1>1. ASSUME NEW p \in Producers, EnqueueCall(p) PROVE SlotInv'
    BY <1>1 DEF EnqueueCall, Step, Lock, Unlock, CondWait, CondSignal, Asleep, ring
  <1>2. ASSUME NEW p \in Producers, EnqueueLockSize(p) PROVE SlotInv'
    BY <1>2 DEF EnqueueLockSize, Step, Lock, Unlock, CondWait, CondSignal, Asleep, ring
  <1>3. ASSUME NEW p \in Producers, EnqueueLockTail(p) PROVE SlotInv'
    BY <1>3 DEF EnqueueLockTail, Step, Lock, Unlock, CondWait, CondSignal, Asleep, ring
  <1>4. ASSUME NEW p \in Producers, EnqueueLockPusher(p) PROVE SlotInv'
    BY <1>4 DEF EnqueueLockPusher, Step, Lock, Unlock, CondWait, CondSignal, Asleep, ring
  <1>5. ASSUME NEW p \in Producers, EnqueueWait(p) PROVE SlotInv'
    BY <1>5 DEF EnqueueWait, Step, Lock, Unlock, CondWait, CondSignal, Asleep, ring
  <1>6. ASSUME NEW p \in Producers, EnqueueRelock(p) PROVE SlotInv'
    BY <1>6 DEF EnqueueRelock, Step, Lock, Unlock, CondWait, CondSignal, Asleep, ring
  <1>7. ASSUME NEW p \in Producers, EnqueueRoom(p) PROVE SlotInv'
    BY <1>7 DEF EnqueueRoom, Step, Lock, Unlock, CondWait, CondSignal, Asleep, ring
  <1>8. ASSUME NEW p \in Producers, EnqueueStore(p) PROVE SlotInv'
    <2>1. /\ pcq_current_size \in 0 .. Capacity - 1 /\ pcq_head \in Slots
          /\ pcq_tail = (pcq_head + pcq_current_size) % Capacity /\ pcq_tail \in Slots
          /\ arg[p] \in Elem
      BY <1>8 DEF EnqueueStore, Step
    <2>2. ASSUME NEW i \in 0 .. pcq_current_size - 1
          PROVE  pcq_buffer'[(pcq_head + i) % Capacity] \in Elem
      <3>1. i \in 0 .. Capacity - 1 /\ i # pcq_current_size
        BY <2>1
      <3>2. (pcq_head + i) % Capacity # pcq_tail
        <4>1. \A h \in Slots : \A a, b \in 0 .. Capacity - 1 :
                 (h + a) % Capacity = (h + b) % Capacity => a = b
          BY DistinctSlots
        <4> HIDE DEF IInv, TypeOK, SizeInv, SlotInv
        <4> QED
          BY <2>1, <3>1, <4>1, Zenon
      <3>3. pcq_buffer'[(pcq_head + i) % Capacity] = pcq_buffer[(pcq_head + i) % Capacity]
        BY <1>8, <3>2 DEF EnqueueStore
      <3> QED
        BY <3>3
    <2>3. \A i \in 0 .. pcq_current_size' - 1 :
             pcq_buffer'[(pcq_head' + i) % Capacity] \in Elem
      BY <1>8, <2>2 DEF EnqueueStore
    <2> QED
      BY <1>8, <2>1, <2>3 DEF EnqueueStore, Step
  <1>9. ASSUME NEW p \in Producers, EnqueueAdvance(p) PROVE SlotInv'
    <2>1. /\ pcq_current_size \in 0 .. Capacity - 1 /\ pcq_current_size' = pcq_current_size + 1
          /\ pcq_buffer[(pcq_head + pcq_current_size) % Capacity] \in Elem
      BY <1>9 DEF EnqueueAdvance, Step
    <2>2. \A i \in 0 .. pcq_current_size' - 1 :
             pcq_buffer'[(pcq_head' + i) % Capacity] \in Elem
      BY <1>9, <2>1 DEF EnqueueAdvance
    <2> QED
      BY <1>9, <2>1, <2>2 DEF EnqueueAdvance, Step
  <1>10. ASSUME NEW p \in Producers, EnqueueSignal(p) PROVE SlotInv'
    BY <1>10 DEF EnqueueSignal, Step, Lock, Unlock, CondWait, CondSignal, Asleep, ring
  <1>11. ASSUME NEW p \in Producers, EnqueueUnlockPusher(p) PROVE SlotInv'
    BY <1>11 DEF EnqueueUnlockPusher, Step, Lock, Unlock, CondWait, CondSignal, Asleep, ring
  <1>12. ASSUME NEW p \in Producers, EnqueueUnlockTail(p) PROVE SlotInv'
    BY <1>12 DEF EnqueueUnlockTail, Step, Lock, Unlock, CondWait, CondSignal, Asleep, ring
  <1>13. ASSUME NEW p \in Producers, EnqueueUnlockSize(p) PROVE SlotInv'
    BY <1>13 DEF EnqueueUnlockSize, Step, Lock, Unlock, CondWait, CondSignal, Asleep, ring
  <1>14. ASSUME NEW c \in Consumers, DequeueLockTail(c) PROVE SlotInv'
    BY <1>14 DEF DequeueLockTail, Step, Lock, Unlock, CondWait, CondSignal, Asleep, ring
  <1>15. ASSUME NEW c \in Consumers, DequeueWait(c) PROVE SlotInv'
    BY <1>15 DEF DequeueWait, Step, Lock, Unlock, CondWait, CondSignal, Asleep, ring
  <1>16. ASSUME NEW c \in Consumers, DequeueRelock(c) PROVE SlotInv'
    BY <1>16 DEF DequeueRelock, Step, Lock, Unlock, CondWait, CondSignal, Asleep, ring
  <1>17. ASSUME NEW c \in Consumers, DequeueSome(c) PROVE SlotInv'
    BY <1>17 DEF DequeueSome, Step, Lock, Unlock, CondWait, CondSignal, Asleep, ring
  <1>18. ASSUME NEW c \in Consumers, DequeueLoad(c) PROVE SlotInv'
    <2>1. pcq_current_size > 0 /\ pcq_head \in Slots
      BY <1>18 DEF DequeueLoad, Step
    <2>2. pcq_buffer[pcq_head] \in Elem
      <3>1. 0 \in 0 .. pcq_current_size - 1 /\ 0 \in 0 .. Capacity
        BY <2>1
      <3>2. (pcq_head + 0) % Capacity = pcq_head
        BY <2>1, <3>1, RingArithmetic
      <3> QED
        BY <3>1, <3>2
    <2> QED
      BY <1>18, <2>2 DEF DequeueLoad, Step, ring
  <1>19. ASSUME NEW c \in Consumers, DequeueAdvance(c) PROVE SlotInv'
    <2>1. /\ pcq_current_size \in 1 .. Capacity /\ pcq_head \in Slots
          /\ pcq_current_size' = pcq_current_size - 1 /\ arg[c] = pcq_buffer[pcq_head]
      BY <1>19 DEF DequeueAdvance, Step
    <2>2. ASSUME NEW i \in 0 .. pcq_current_size - 2
          PROVE  pcq_buffer[(Next1(pcq_head) + i) % Capacity] \in Elem
      <3>1. i \in 0 .. Capacity /\ i < Capacity /\ i + 1 \in 0 .. pcq_current_size - 1
        BY <2>1
      <3>2. (Next1(pcq_head) + i) % Capacity = (pcq_head + (i + 1)) % Capacity
        BY <2>1, <3>1, RingArithmetic
      <3> QED
        BY <3>1, <3>2
    <2>3. \A i \in 0 .. pcq_current_size' - 1 :
             pcq_buffer'[(pcq_head' + i) % Capacity] \in Elem
      BY <1>19, <2>1, <2>2 DEF DequeueAdvance
    <2> QED
      BY <1>19, <2>1, <2>3 DEF DequeueAdvance, Step
  <1>20. ASSUME NEW c \in Consumers, DequeueSignal(c) PROVE SlotInv'
    BY <1>20 DEF DequeueSignal, Step, Lock, Unlock, CondWait, CondSignal, Asleep, ring
  <1>21. ASSUME NEW c \in Consumers, DequeueUnlockTail(c) PROVE SlotInv'
    BY <1>21 DEF DequeueUnlockTail, Step, Lock, Unlock, CondWait, CondSignal, Asleep, ring
  <1>22. ASSUME NEW t \in Threads, SpuriousWakeup(t) PROVE SlotInv'
    BY <1>22 DEF SpuriousWakeup, Step, ring
  <1>23. CASE UNCHANGED vars
    BY <1>23 DEF vars
  <1> QED
    BY <1>1, <1>2, <1>3, <1>4, <1>5, <1>6, <1>7, <1>8, <1>9, <1>10, <1>11, <1>12, <1>13, <1>14, <1>15, <1>16, <1>17, <1>18, <1>19, <1>20, <1>21, <1>22, <1>23
    DEF Next, pcq_enqueue, pcq_dequeue

-----------------------------------------------------------------------------
LEMMA Invariance == Spec => []IInv
  <1>1. IInv /\ [Next]_vars => IInv'
    BY TypeStep, TailLockStep, SizeStep, SlotStep DEF IInv
  <1> QED
    BY InitIInv, <1>1, PTL DEF Spec

(* Every variable of the queue stays in its range; in particular           *)
(* pcq_current_size, a size_t, is never decremented below zero and never   *)
(* exceeds pcq_capacity, and no call returns what malloc left in a slot.   *)
THEOREM TypeCorrect == Spec => []TypeOK
  <1>1. IInv => TypeOK
    BY DEF IInv
  <1> QED
    BY Invariance, <1>1, PTL

(* pcq_tail_lock alone makes the accesses of pcq_enqueue and pcq_dequeue   *)
(* to the ring mutually exclusive.                                         *)
THEOREM RaceFreedom == Spec => []NoRace
  <1>1. IInv => NoRace
    BY DEF IInv, TypeOK, TailLockInv, HoldsTail, NoRace, Touches, Threads,
           ProducerSteps, ConsumerSteps
  <1> QED
    BY Invariance, <1>1, PTL

(* A step taken while the producer r sleeps on a full queue: r still holds *)
(* tail_lock, without which nobody touches the ring, and r itself finds    *)
(* the queue full whenever it wakes up.                                    *)
LEMMA BlockedStep ==
    ASSUME IInv, [Next]_vars, NEW r \in Producers, Blocked(r)
    PROVE  Blocked(r)' /\ UNCHANGED ring
  <1> USE QueueAssumption DEF IInv, TypeOK, TailLockInv, HoldsTail, SizeInv, Threads,
          Locks, ProducerSteps, ConsumerSteps, Blocked
  <1>1. ASSUME NEW p \in Producers, EnqueueCall(p) PROVE Blocked(r)' /\ UNCHANGED ring
    BY <1>1 DEF EnqueueCall, Step, Lock, Unlock, CondWait, CondSignal, Asleep, ring
  <1>2. ASSUME NEW p \in Producers, EnqueueLockSize(p) PROVE Blocked(r)' /\ UNCHANGED ring
    BY <1>2 DEF EnqueueLockSize, Step, Lock, Unlock, CondWait, CondSignal, Asleep, ring
  <1>3. ASSUME NEW p \in Producers, EnqueueLockTail(p) PROVE Blocked(r)' /\ UNCHANGED ring
    BY <1>3 DEF EnqueueLockTail, Step, Lock, Unlock, CondWait, CondSignal, Asleep, ring
  <1>4. ASSUME NEW p \in Producers, EnqueueLockPusher(p) PROVE Blocked(r)' /\ UNCHANGED ring
    BY <1>4 DEF EnqueueLockPusher, Step, Lock, Unlock, CondWait, CondSignal, Asleep, ring
  <1>5. ASSUME NEW p \in Producers, EnqueueWait(p) PROVE Blocked(r)' /\ UNCHANGED ring
    BY <1>5 DEF EnqueueWait, Step, Lock, Unlock, CondWait, CondSignal, Asleep, ring
  <1>6. ASSUME NEW p \in Producers, EnqueueRelock(p) PROVE Blocked(r)' /\ UNCHANGED ring
    BY <1>6 DEF EnqueueRelock, Step, Lock, Unlock, CondWait, CondSignal, Asleep, ring
  <1>7. ASSUME NEW p \in Producers, EnqueueRoom(p) PROVE Blocked(r)' /\ UNCHANGED ring
    BY <1>7 DEF EnqueueRoom, Step, Lock, Unlock, CondWait, CondSignal, Asleep, ring
  <1>8. ASSUME NEW p \in Producers, EnqueueStore(p) PROVE Blocked(r)' /\ UNCHANGED ring
    BY <1>8 DEF EnqueueStore, Step, Lock, Unlock, CondWait, CondSignal, Asleep, ring
  <1>9. ASSUME NEW p \in Producers, EnqueueAdvance(p) PROVE Blocked(r)' /\ UNCHANGED ring
    BY <1>9 DEF EnqueueAdvance, Step, Lock, Unlock, CondWait, CondSignal, Asleep, ring
  <1>10. ASSUME NEW p \in Producers, EnqueueSignal(p) PROVE Blocked(r)' /\ UNCHANGED ring
    BY <1>10 DEF EnqueueSignal, Step, Lock, Unlock, CondWait, CondSignal, Asleep, ring
  <1>11. ASSUME NEW p \in Producers, EnqueueUnlockPusher(p) PROVE Blocked(r)' /\ UNCHANGED ring
    BY <1>11 DEF EnqueueUnlockPusher, Step, Lock, Unlock, CondWait, CondSignal, Asleep, ring
  <1>12. ASSUME NEW p \in Producers, EnqueueUnlockTail(p) PROVE Blocked(r)' /\ UNCHANGED ring
    BY <1>12 DEF EnqueueUnlockTail, Step, Lock, Unlock, CondWait, CondSignal, Asleep, ring
  <1>13. ASSUME NEW p \in Producers, EnqueueUnlockSize(p) PROVE Blocked(r)' /\ UNCHANGED ring
    BY <1>13 DEF EnqueueUnlockSize, Step, Lock, Unlock, CondWait, CondSignal, Asleep, ring
  <1>14. ASSUME NEW c \in Consumers, DequeueLockTail(c) PROVE Blocked(r)' /\ UNCHANGED ring
    BY <1>14 DEF DequeueLockTail, Step, Lock, Unlock, CondWait, CondSignal, Asleep, ring
  <1>15. ASSUME NEW c \in Consumers, DequeueWait(c) PROVE Blocked(r)' /\ UNCHANGED ring
    BY <1>15 DEF DequeueWait, Step, Lock, Unlock, CondWait, CondSignal, Asleep, ring
  <1>16. ASSUME NEW c \in Consumers, DequeueRelock(c) PROVE Blocked(r)' /\ UNCHANGED ring
    BY <1>16 DEF DequeueRelock, Step, Lock, Unlock, CondWait, CondSignal, Asleep, ring
  <1>17. ASSUME NEW c \in Consumers, DequeueSome(c) PROVE Blocked(r)' /\ UNCHANGED ring
    BY <1>17 DEF DequeueSome, Step, Lock, Unlock, CondWait, CondSignal, Asleep, ring
  <1>18. ASSUME NEW c \in Consumers, DequeueLoad(c) PROVE Blocked(r)' /\ UNCHANGED ring
    BY <1>18 DEF DequeueLoad, Step, Lock, Unlock, CondWait, CondSignal, Asleep, ring
  <1>19. ASSUME NEW c \in Consumers, DequeueAdvance(c) PROVE Blocked(r)' /\ UNCHANGED ring
    BY <1>19 DEF DequeueAdvance, Step, Lock, Unlock, CondWait, CondSignal, Asleep, ring
  <1>20. ASSUME NEW c \in Consumers, DequeueSignal(c) PROVE Blocked(r)' /\ UNCHANGED ring
    BY <1>20 DEF DequeueSignal, Step, Lock, Unlock, CondWait, CondSignal, Asleep, ring
  <1>21. ASSUME NEW c \in Consumers, DequeueUnlockTail(c) PROVE Blocked(r)' /\ UNCHANGED ring
    BY <1>21 DEF DequeueUnlockTail, Step, Lock, Unlock, CondWait, CondSignal, Asleep, ring
  <1>22. ASSUME NEW t \in Threads, SpuriousWakeup(t) PROVE Blocked(r)' /\ UNCHANGED ring
    BY <1>22 DEF SpuriousWakeup, Step, ring
  <1>23. CASE UNCHANGED vars
    BY <1>23 DEF vars, ring
  <1> QED
    BY <1>1, <1>2, <1>3, <1>4, <1>5, <1>6, <1>7, <1>8, <1>9, <1>10, <1>11, <1>12, <1>13, <1>14, <1>15, <1>16, <1>17, <1>18, <1>19, <1>20, <1>21, <1>22, <1>23
    DEF Next, pcq_enqueue, pcq_dequeue

(* A producer that finds the queue full never leaves pcq_enqueue, and no   *)
(* element enters or leaves the queue from then on: pcq_enqueue sleeps     *)
(* with tail_lock, whatever the number of threads and the capacity.        *)
THEOREM FullIsForever == Spec => BlockedForever
  <1>1. IInv /\ [Next]_vars
          => [\A p \in Producers : Blocked(p) => Blocked(p)' /\ UNCHANGED ring]_vars
    BY BlockedStep
  <1> QED
    BY Invariance, <1>1, PTL DEF Spec, BlockedForever

-----------------------------------------------------------------------------
(* No wakeup is lost                                                       *)

ComingSteps == {"woken", "test", "load", "advance"}

LEMMA ComingFinite == IsFiniteSet(Coming) /\ Cardinality(Coming) \in Nat
  <1>1. Coming \in SUBSET Consumers
    BY DEF Coming
  <1> QED
    BY <1>1, QueueAssumption, FS_Subset, FS_CardinalityType

LEMMA NextComingFinite == IsFiniteSet(Coming') /\ Cardinality(Coming') \in Nat
  <1>1. Coming' \in SUBSET Consumers
    BY DEF Coming
  <1> QED
    BY <1>1, QueueAssumption, FS_Subset, FS_CardinalityType

LEMMA UnsignalledType == Unsignalled \in {0, 1} /\ Unsignalled' \in {0, 1}
  BY DEF Unsignalled

(* More consumers may come and sleepers wake, as long as the elements and  *)
(* the signal stay.                                                        *)
LEMMA MoreComing ==
    ASSUME NoLostWakeup, pcq_current_size \in Nat, pcq_current_size' = pcq_current_size,
           Unsignalled' = Unsignalled, Coming \subseteq Coming',
           Asleep(Consumers)' \subseteq Asleep(Consumers)
    PROVE  NoLostWakeup'
  <1> SUFFICES ASSUME Asleep(Consumers)' # {}
               PROVE  pcq_current_size' <= Cardinality(Coming') + Unsignalled'
    BY DEF NoLostWakeup
  <1>1. pcq_current_size <= Cardinality(Coming) + Unsignalled
    BY DEF NoLostWakeup
  <1>2. Cardinality(Coming) <= Cardinality(Coming')
    BY NextComingFinite, FS_Subset
  <1> QED
    BY <1>1, <1>2, ComingFinite, NextComingFinite, UnsignalledType

(* A step of a producer other than those that advance and signal.          *)
LEMMA ProducerPasses ==
    ASSUME TypeOK, NoLostWakeup, NEW p \in Producers, NEW from, NEW to, Step(p, from, to),
           from # "signal", to # "signal", UNCHANGED pcq_current_size
    PROVE  NoLostWakeup'
  <1>1. pc[p] = from /\ pc'[p] = to /\ \A t \in Threads \ {p} : pc'[t] = pc[t]
    BY DEF Step, TypeOK, Threads
  <1>2. \A c \in Consumers : pc'[c] = pc[c]
    BY <1>1, QueueAssumption DEF Threads
  <1>3. Coming' = Coming /\ Asleep(Consumers)' = Asleep(Consumers)
    BY <1>2 DEF Coming, Asleep
  <1>4. Unsignalled' = Unsignalled
    BY <1>1 DEF Unsignalled, Threads
  <1> QED
    BY <1>3, <1>4, MoreComing DEF TypeOK

(* A step of a consumer that takes nothing and does not fall asleep.       *)
LEMMA ConsumerPasses ==
    ASSUME TypeOK, NoLostWakeup, NEW c \in Consumers, NEW from, NEW to, Step(c, from, to),
           from \in ComingSteps => to \in ComingSteps, to # "asleep", UNCHANGED pcq_current_size
    PROVE  NoLostWakeup'
  <1>1. pc[c] = from /\ pc'[c] = to /\ \A t \in Threads \ {c} : pc'[t] = pc[t]
    BY DEF Step, TypeOK, Threads
  <1>2. Coming \subseteq Coming' /\ Asleep(Consumers)' \subseteq Asleep(Consumers)
    BY <1>1 DEF Coming, Asleep, ComingSteps, Threads
  <1>3. \A p \in Producers : pc'[p] = pc[p]
    BY <1>1, QueueAssumption DEF Threads
  <1>4. Unsignalled' = Unsignalled
    BY <1>3 DEF Unsignalled
  <1> QED
    BY <1>2, <1>4, MoreComing DEF TypeOK

(* An element more, whose signal is the next step of its producer.         *)
LEMMA AdvanceWakes ==
    ASSUME IInv, NoLostWakeup, NEW p \in Producers, EnqueueAdvance(p)
    PROVE  NoLostWakeup'
  <1>1. pc[p] = "advance" /\ pc'[p] = "signal" /\ \A t \in Threads \ {p} : pc'[t] = pc[t]
    BY DEF EnqueueAdvance, Step, IInv, TypeOK, Threads
  <1>2. \A c \in Consumers : pc'[c] = pc[c]
    BY <1>1, QueueAssumption DEF Threads
  <1>3. Coming' = Coming /\ Asleep(Consumers)' = Asleep(Consumers)
    BY <1>2 DEF Coming, Asleep
  <1>4. Unsignalled = 0 /\ Unsignalled' = 1
    <2>1. owner["tail_lock"] = p
      BY <1>1 DEF IInv, TailLockInv, HoldsTail, Threads
    <2>2. \A q \in Producers : pc[q] = "signal" => q = p
      BY <2>1 DEF IInv, TailLockInv, HoldsTail, Threads
    <2> QED
      BY <1>1, <2>2 DEF Unsignalled
  <1>5. pcq_current_size \in Nat /\ pcq_current_size' = pcq_current_size + 1
    BY DEF EnqueueAdvance, IInv, TypeOK
  <1>6. Asleep(Consumers) # {} => pcq_current_size <= Cardinality(Coming) + 0
    BY <1>4 DEF NoLostWakeup
  <1>7. Asleep(Consumers) # {} => pcq_current_size + 1 <= Cardinality(Coming) + 1
    BY <1>5, <1>6, ComingFinite
  <1> QED
    BY <1>3, <1>4, <1>5, <1>7 DEF NoLostWakeup

(* The signal wakes a sleeper for the element, if there is one.            *)
LEMMA SignalWakes ==
    ASSUME IInv, NoLostWakeup, NEW p \in Producers, EnqueueSignal(p)
    PROVE  NoLostWakeup'
  <1> USE DEF IInv
  <1>1. pc[p] = "signal" /\ pcq_current_size' = pcq_current_size /\ pcq_current_size \in Nat
    BY DEF EnqueueSignal, CondSignal, ring, TypeOK
  <1>2. CASE Asleep(Consumers) = {}
    <2>1. pc' = [pc EXCEPT ![p] = "unlock_pusher"]
      BY <1>2 DEF EnqueueSignal, CondSignal
    <2>2. \A c \in Consumers : pc'[c] = pc[c]
      BY <2>1, QueueAssumption DEF TypeOK, Threads
    <2>3. Asleep(Consumers)' = {}
      BY <1>2, <2>2 DEF Asleep
    <2> QED
      BY <2>3 DEF NoLostWakeup
  <1>3. ASSUME NEW s \in Asleep(Consumers),
               pc' = [pc EXCEPT ![p] = "unlock_pusher", ![s] = "woken"]
        PROVE  NoLostWakeup'
    <2>1. s \in Consumers /\ pc[s] = "asleep" /\ s # p /\ s \in Threads /\ p \in Threads
      BY <1>3, QueueAssumption DEF Asleep, Threads
    <2>2. /\ pc'[s] = "woken" /\ pc'[p] = "unlock_pusher"
          /\ \A t \in Threads \ {s, p} : pc'[t] = pc[t]
      BY <1>3, <2>1 DEF TypeOK
    <2>3. s \notin Coming /\ Coming' = Coming \cup {s}
      BY <2>1, <2>2, QueueAssumption DEF Coming, Threads
    <2>4. Cardinality(Coming') = Cardinality(Coming) + 1
      BY <2>3, ComingFinite, FS_AddElement
    <2>5. Unsignalled = 1
      BY <1>1 DEF Unsignalled
    <2>6. pcq_current_size <= Cardinality(Coming) + 1
      BY <1>3, <2>5 DEF NoLostWakeup
    <2>7. pcq_current_size' <= Cardinality(Coming') + Unsignalled'
      BY <1>1, <2>4, <2>6, ComingFinite, UnsignalledType
    <2> QED
      BY <2>7 DEF NoLostWakeup
  <1>4. \/ Asleep(Consumers) = {}
        \/ \E s \in Asleep(Consumers) : pc' = [pc EXCEPT ![p] = "unlock_pusher", ![s] = "woken"]
    BY DEF EnqueueSignal, CondSignal
  <1> QED
    BY <1>2, <1>3, <1>4

(* A consumer falls asleep at an empty ring only.                          *)
LEMMA SleepsAtNothing ==
    ASSUME IInv, NEW c \in Consumers, DequeueWait(c)
    PROVE  NoLostWakeup'
  <1>1. pcq_current_size' = 0
    BY DEF DequeueWait, CondWait, Unlock, ring
  <1>2. 0 <= Cardinality(Coming') + Unsignalled'
    BY NextComingFinite, UnsignalledType
  <1> QED
    BY <1>1, <1>2 DEF NoLostWakeup

(* The consumer that takes an element was one that came.                   *)
LEMMA TakerCame ==
    ASSUME IInv, NoLostWakeup, NEW c \in Consumers, DequeueAdvance(c)
    PROVE  NoLostWakeup'
  <1> USE DEF IInv
  <1>1. pc[c] = "advance" /\ pc'[c] = "signal" /\ \A t \in Threads \ {c} : pc'[t] = pc[t]
    BY DEF DequeueAdvance, Step, TypeOK, Threads
  <1>2. c \in Coming /\ Coming' = Coming \ {c} /\ Asleep(Consumers)' = Asleep(Consumers)
    BY <1>1 DEF Coming, Asleep, Threads
  <1>3. Cardinality(Coming') = Cardinality(Coming) - 1
    BY <1>2, ComingFinite, FS_RemoveElement
  <1>4. \A p \in Producers : pc'[p] = pc[p]
    BY <1>1, QueueAssumption DEF Threads
  <1>5. Unsignalled' = Unsignalled
    BY <1>4 DEF Unsignalled
  <1>6. pcq_current_size \in Nat /\ pcq_current_size' = pcq_current_size - 1
    BY DEF DequeueAdvance, TypeOK
  <1>7. Asleep(Consumers) # {} => pcq_current_size <= Cardinality(Coming) + Unsignalled
    BY DEF NoLostWakeup
  <1>8. Asleep(Consumers) # {} =>
          pcq_current_size - 1 <= Cardinality(Coming) - 1 + Unsignalled
    BY <1>6, <1>7, ComingFinite, UnsignalledType
  <1> QED
    BY <1>2, <1>3, <1>5, <1>6, <1>8 DEF NoLostWakeup

(* The signal of a consumer is for producers.                              *)
LEMMA PusherSignalWakes ==
    ASSUME IInv, NoLostWakeup, NEW c \in Consumers, DequeueSignal(c)
    PROVE  NoLostWakeup'
  <1> USE DEF IInv
  <1>1. pc[c] = "signal" /\ pcq_current_size' = pcq_current_size
    BY DEF DequeueSignal, CondSignal, ring
  <1>2. CASE pc' = [pc EXCEPT ![c] = "unlock_tail"]
    <2>1. Step(c, "signal", "unlock_tail")
      BY <1>1, <1>2 DEF Step
    <2> QED
      BY <1>1, <2>1, ConsumerPasses DEF ComingSteps
  <1>3. ASSUME NEW s \in Asleep(Producers),
               pc' = [pc EXCEPT ![c] = "unlock_tail", ![s] = "woken"]
        PROVE  NoLostWakeup'
    <2>1. s \in Producers /\ pc[s] = "asleep" /\ s # c /\ s \in Threads /\ c \in Threads
      BY <1>3, QueueAssumption DEF Asleep, Threads
    <2>2. /\ pc'[s] = "woken" /\ pc'[c] = "unlock_tail"
          /\ \A t \in Threads \ {s, c} : pc'[t] = pc[t]
      BY <1>3, <2>1 DEF TypeOK
    <2>3. Coming' = Coming /\ Asleep(Consumers)' = Asleep(Consumers)
      BY <1>1, <2>1, <2>2, QueueAssumption DEF Coming, Asleep, Threads
    <2>4. Unsignalled' = Unsignalled
      BY <2>1, <2>2, QueueAssumption DEF Unsignalled, Threads
    <2> QED
      BY <1>1, <2>3, <2>4, MoreComing DEF TypeOK
  <1> QED
    BY <1>2, <1>3 DEF DequeueSignal, CondSignal

LEMMA WakeupStep ==
    ASSUME IInv, NoLostWakeup, [Next]_vars
    PROVE  NoLostWakeup'
  <1> USE DEF IInv
  <1>1. ASSUME NEW p \in Producers, EnqueueCall(p) \/ pcq_enqueue(p)
        PROVE  NoLostWakeup'
    <2>1. \/ \E from, to : /\ Step(p, from, to) /\ from # "signal" /\ to # "signal"
                           /\ UNCHANGED pcq_current_size
          \/ EnqueueAdvance(p) \/ EnqueueSignal(p)
      BY <1>1
      DEF EnqueueCall, pcq_enqueue, EnqueueLockSize, EnqueueLockTail, EnqueueLockPusher,
          EnqueueWait, EnqueueRelock, EnqueueRoom, EnqueueStore, EnqueueUnlockPusher,
          EnqueueUnlockTail, EnqueueUnlockSize, Lock, Unlock, CondWait, ring
    <2> QED
      BY <2>1, ProducerPasses, AdvanceWakes, SignalWakes
  <1>2. ASSUME NEW c \in Consumers, pcq_dequeue(c)
        PROVE  NoLostWakeup'
    <2>1. \/ \E from, to : /\ Step(c, from, to) /\ to # "asleep"
                           /\ from \in ComingSteps => to \in ComingSteps
                           /\ UNCHANGED pcq_current_size
          \/ DequeueWait(c) \/ DequeueAdvance(c) \/ DequeueSignal(c)
      BY <1>2
      DEF pcq_dequeue, DequeueLockTail, DequeueRelock, DequeueSome, DequeueLoad,
          DequeueUnlockTail, Lock, Unlock, ring, ComingSteps
    <2> QED
      BY <2>1, ConsumerPasses, SleepsAtNothing, TakerCame, PusherSignalWakes
  <1>3. ASSUME NEW t \in Threads, SpuriousWakeup(t)
        PROVE  NoLostWakeup'
    <2>1. Step(t, "asleep", "woken") /\ pcq_current_size' = pcq_current_size
      BY <1>3 DEF SpuriousWakeup, ring
    <2>2. CASE t \in Producers
      BY <2>1, <2>2, ProducerPasses
    <2>3. CASE t \in Consumers
      BY <2>1, <2>3, ConsumerPasses DEF ComingSteps
    <2> QED
      BY <2>2, <2>3 DEF Threads
  <1>4. CASE UNCHANGED vars
    BY <1>4 DEF vars, NoLostWakeup, Asleep, Coming, Unsignalled
  <1> QED
    BY <1>1, <1>2, <1>3, <1>4 DEF Next

(* For any number of producers and consumers and any capacity: while a     *)
(* consumer sleeps, each element in the queue has a consumer that comes    *)
(* for it.                                                                 *)
THEOREM WakeupsSuffice == Spec => []NoLostWakeup
  <1>1. Init => NoLostWakeup
    BY DEF Init, NoLostWakeup, Asleep, Threads
  <1>2. IInv /\ NoLostWakeup /\ [Next]_vars => NoLostWakeup'
    BY WakeupStep
  <1> QED
    BY <1>1, <1>2, Invariance, PTL DEF Spec
=============================================================================
