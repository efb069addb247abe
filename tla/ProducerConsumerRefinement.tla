--------------------- MODULE ProducerConsumerRefinement ---------------------
(***************************************************************************)
(* Proof that the ring of ProducerConsumer implements BoundedQueue.        *)
(***************************************************************************)
EXTENDS ProducerConsumerProofs

(* The abstract queue has an element for each slot in use, but for the one *)
(* a consumer has loaded and not yet stepped over.                         *)
QueueShape ==
    /\ Leaving \in {0, 1}
    /\ pcq_current_size - Leaving \in 0 .. Capacity
    /\ queue \in Seq(Elem)
    /\ Len(queue) = pcq_current_size - Leaving
    /\ \A i \in 1 .. pcq_current_size - Leaving : queue[i] = Nth(i + Leaving - 1)

LEMMA HasQueueShape == IInv => QueueShape
  <1> SUFFICES ASSUME IInv PROVE QueueShape
    OBVIOUS
  <1>1. Leaving \in {0, 1} /\ pcq_current_size - Leaving \in 0 .. Capacity
    BY QueueAssumption DEF IInv, TypeOK, SizeInv, Leaving
  <1>2. \A i \in 1 .. pcq_current_size - Leaving : Nth(i + Leaving - 1) \in Elem
    <2> SUFFICES ASSUME NEW i \in 1 .. pcq_current_size - Leaving
                 PROVE  Nth(i + Leaving - 1) \in Elem
      OBVIOUS
    <2>1. i + Leaving - 1 \in 0 .. pcq_current_size - 1
      BY <1>1 DEF IInv, TypeOK
    <2>2. \A k \in 0 .. pcq_current_size - 1 : Nth(k) \in Elem
      BY DEF IInv, SlotInv, Nth
    <2> QED
      BY <2>1, <2>2
  <1> QED
    BY <1>1, <1>2 DEF queue, QueueShape

(* The slots in use hold the same elements: so does the abstract queue.    *)
LEMMA SameQueue ==
    ASSUME IInv, pcq_current_size' - Leaving' = pcq_current_size - Leaving,
           \A i \in 1 .. pcq_current_size - Leaving :
               Nth(i + Leaving - 1)' = Nth(i + Leaving - 1)
    PROVE  queue' = queue
  <1>1. queue' = [i \in 1 .. pcq_current_size' - Leaving' |-> Nth(i + Leaving - 1)']
    BY DEF queue
  <1> QED
    BY <1>1 DEF queue

-----------------------------------------------------------------------------
LEMMA InitRefinement == Init => BQ!Init
  <1> SUFFICES ASSUME Init PROVE BQ!Init
    OBVIOUS
  <1>1. Leaving = 0 /\ pcq_current_size = 0
    BY QueueAssumption DEF Init, Leaving, Threads
  <1>2. queue = <<>>
    BY <1>1 DEF queue
  <1>3. offered = [p \in Producers |-> None] /\ taken = [c \in Consumers |-> None]
    BY DEF Init, offered, taken, Threads
  <1> QED
    BY <1>2, <1>3 DEF BQ!Init

(* An element appears at the end of the queue when pcq_tail moves past it. *)
LEMMA PutStep ==
    ASSUME IInv, IInv', NEW p \in Producers, EnqueueAdvance(p)
    PROVE  BQ!Put(p)
  <1> USE QueueAssumption
  <1>1. /\ pcq_current_size \in 0 .. Capacity - 1 /\ pcq_current_size' = pcq_current_size + 1
        /\ arg[p] = Nth(pcq_current_size) /\ arg[p] \in Elem
        /\ pc[p] = "advance" /\ UNCHANGED <<pcq_buffer, pcq_head, arg>>
    BY DEF IInv, TypeOK, SizeInv, SlotInv, EnqueueAdvance, Step, Nth, Threads
  <1>2. Leaving = 0 /\ Leaving' = 0
    BY DEF IInv, TypeOK, TailLockInv, HoldsTail, Threads, Leaving, EnqueueAdvance, Step
  <1>3. offered[p] = arg[p] /\ arg[p] # None
    BY <1>1 DEF offered
  <1>4. offered' = [offered EXCEPT ![p] = None] /\ taken' = taken
    BY DEF IInv, TypeOK, Threads, offered, taken, EnqueueAdvance, Step
  <1>5. queue' = Append(queue, arg[p])
    <2>1. /\ queue \in Seq(Elem) /\ Len(queue) = pcq_current_size
          /\ \A i \in 1 .. pcq_current_size : queue[i] = Nth(i - 1)
      BY <1>1, <1>2, HasQueueShape DEF QueueShape
    <2>2. /\ queue' \in Seq(Elem) /\ Len(queue') = pcq_current_size + 1
          /\ \A i \in 1 .. pcq_current_size + 1 : queue'[i] = Nth(i - 1)'
      <3>1. /\ queue' \in Seq(Elem) /\ Len(queue') = pcq_current_size' - Leaving'
            /\ \A i \in 1 .. pcq_current_size' - Leaving' : queue'[i] = Nth(i + Leaving - 1)'
        <4>1. QueueShape'
          BY HasQueueShape, PTL
        <4> QED
          BY <4>1 DEF QueueShape
      <3> QED
        BY <1>1, <1>2, <3>1
    <2>3. \A i \in 1 .. pcq_current_size + 1 : Nth(i - 1)' = Nth(i - 1)
      BY <1>1 DEF Nth
    <2> QED
      BY <1>1, <2>1, <2>2, <2>3
  <1> QED
    BY <1>1, <1>2, <1>3, <1>4, <1>5, HasQueueShape DEF BQ!Put, QueueShape

(* The oldest element leaves when a consumer has read its slot.            *)
LEMMA TakeStep ==
    ASSUME IInv, IInv', NEW c \in Consumers, DequeueLoad(c)
    PROVE  BQ!Take(c)
  <1> USE QueueAssumption
  <1>1. /\ pcq_current_size \in 1 .. Capacity /\ pcq_head \in Slots /\ pc[c] = "load"
        /\ UNCHANGED <<pcq_buffer, pcq_head, pcq_current_size>>
        /\ arg' = [arg EXCEPT ![c] = pcq_buffer[pcq_head]] /\ pc' = [pc EXCEPT ![c] = "advance"]
    BY DEF IInv, TypeOK, SizeInv, DequeueLoad, Step, ring
  <1>2. Leaving = 0 /\ Leaving' = 1
    BY DEF IInv, TypeOK, TailLockInv, HoldsTail, Threads, Leaving, DequeueLoad, Step
  <1>3. arg'[c] = Nth(0) /\ Nth(0) \in Elem
    <2>1. (pcq_head + 0) % Capacity = pcq_head
      <3>1. 0 \in 0 .. Capacity
        OBVIOUS
      <3> QED
        BY <1>1, <3>1, RingArithmetic
    <2> QED
      BY <1>1, <2>1 DEF Nth, IInv, TypeOK, SlotInv, Threads
  <1>4. /\ queue \in Seq(Elem) /\ Len(queue) = pcq_current_size
        /\ \A i \in 1 .. pcq_current_size : queue[i] = Nth(i - 1)
    BY <1>1, <1>2, HasQueueShape DEF QueueShape
  <1>5. /\ queue' \in Seq(Elem) /\ Len(queue') = pcq_current_size - 1
        /\ \A i \in 1 .. pcq_current_size - 1 : queue'[i] = Nth(i)
    <2>1. /\ queue' \in Seq(Elem) /\ Len(queue') = pcq_current_size' - Leaving'
          /\ \A i \in 1 .. pcq_current_size' - Leaving' : queue'[i] = Nth(i + Leaving - 1)'
      <3>1. QueueShape'
        BY HasQueueShape, PTL
      <3> QED
        BY <3>1 DEF QueueShape
    <2>2. \A i \in 1 .. pcq_current_size - 1 : Nth(i + Leaving - 1)' = Nth(i)
      BY <1>1, <1>2 DEF Nth
    <2> QED
      BY <1>1, <1>2, <2>1, <2>2
  <1>6. queue # <<>> /\ Head(queue) = Nth(0) /\ queue' = Tail(queue)
    BY <1>1, <1>4, <1>5
  <1>7. taken[c] = None /\ taken' = [taken EXCEPT ![c] = Nth(0)] /\ offered' = offered
    <2>1. taken[c] = None /\ offered' = offered
      BY <1>1 DEF IInv, TypeOK, Threads, offered, taken
    <2>2. \A d \in Consumers : taken'[d] = IF d = c THEN arg'[c] ELSE taken[d]
      BY <1>1 DEF IInv, TypeOK, Threads, taken
    <2>3. taken' = [taken EXCEPT ![c] = arg'[c]]
      BY <2>2 DEF taken
    <2> QED
      BY <1>3, <2>1, <2>3
  <1> QED
    BY <1>6, <1>7 DEF BQ!Take

(* Stepping over the slot just read changes nothing a caller can see.      *)
LEMMA StepOver ==
    ASSUME IInv, IInv', NEW c \in Consumers, DequeueAdvance(c)
    PROVE  UNCHANGED <<queue, offered, taken>>
  <1> USE QueueAssumption
  <1>1. /\ pcq_current_size \in 1 .. Capacity /\ pcq_head \in Slots
        /\ pcq_current_size' = pcq_current_size - 1 /\ pcq_head' = Next1(pcq_head)
        /\ UNCHANGED pcq_buffer
    BY DEF IInv, TypeOK, SizeInv, DequeueAdvance, Step
  <1>2. Leaving = 1 /\ Leaving' = 0
    BY DEF IInv, TypeOK, TailLockInv, HoldsTail, Threads, Leaving, DequeueAdvance, Step
  <1>3. ASSUME NEW i \in 1 .. pcq_current_size - Leaving
        PROVE  Nth(i + Leaving - 1)' = Nth(i + Leaving - 1)
    <2>1. i - 1 \in 0 .. Capacity /\ i - 1 < Capacity
      BY <1>1, <1>2, <1>3
    <2>2. (Next1(pcq_head) + (i - 1)) % Capacity = (pcq_head + ((i - 1) + 1)) % Capacity
      BY <1>1, <2>1, RingArithmetic
    <2>3. (i - 1) + 1 = i + Leaving - 1 /\ i + Leaving' - 1 = i - 1
      BY <1>2, <2>1
    <2> QED
      BY <1>1, <2>2, <2>3 DEF Nth
  <1>4. queue' = queue
    BY <1>1, <1>2, <1>3, SameQueue
  <1>5. offered' = offered /\ taken' = taken
    BY DEF IInv, TypeOK, Threads, offered, taken, DequeueAdvance, Step
  <1> QED
    BY <1>4, <1>5

(* The slot being filled is not one of the slots in use.                   *)
LEMMA FillStep ==
    ASSUME IInv, IInv', NEW p \in Producers, EnqueueStore(p)
    PROVE  UNCHANGED <<queue, offered, taken>>
  <1> USE QueueAssumption
  <1>1. /\ pcq_current_size \in 0 .. Capacity - 1 /\ pcq_head \in Slots
        /\ pcq_tail = (pcq_head + pcq_current_size) % Capacity
        /\ UNCHANGED <<pcq_current_size, pcq_head>>
        /\ pcq_buffer' = [pcq_buffer EXCEPT ![pcq_tail] = arg[p]]
    BY DEF IInv, TypeOK, SizeInv, EnqueueStore, Step
  <1>2. Leaving = 0 /\ Leaving' = 0
    BY DEF IInv, TypeOK, TailLockInv, HoldsTail, Threads, Leaving, EnqueueStore, Step
  <1>3. ASSUME NEW k \in 0 .. pcq_current_size - 1
        PROVE  Nth(k)' = Nth(k)
    <2>1. k \in 0 .. Capacity - 1 /\ k # pcq_current_size
      BY <1>1
    <2>2. (pcq_head + k) % Capacity # pcq_tail
      <3>1. \A h \in Slots : \A a, b \in 0 .. Capacity - 1 :
               (h + a) % Capacity = (h + b) % Capacity => a = b
        BY DistinctSlots
      <3> QED
        BY <1>1, <2>1, <3>1, Zenon
    <2> QED
      BY <1>1, <2>2 DEF Nth, IInv, TypeOK
  <1>4. queue' = queue
    <2>1. ASSUME NEW i \in 1 .. pcq_current_size - Leaving
          PROVE  Nth(i + Leaving - 1)' = Nth(i + Leaving - 1)
      <3>1. i - 1 \in 0 .. pcq_current_size - 1 /\ i + Leaving - 1 = i - 1
            /\ i + Leaving' - 1 = i - 1
        BY <1>1, <1>2, <2>1
      <3>2. Nth(i - 1)' = Nth(i - 1)
        BY <1>3, <3>1
      <3> QED
        BY <3>1, <3>2 DEF Nth
    <2> QED
      BY <1>1, <1>2, <2>1, SameQueue
  <1>5. offered' = offered /\ taken' = taken
    BY DEF IInv, TypeOK, Threads, offered, taken, EnqueueStore, Step
  <1> QED
    BY <1>4, <1>5

-----------------------------------------------------------------------------
(* A step that leaves the ring and what the callers hold as they were.     *)
Quiet == UNCHANGED <<pcq_buffer, pcq_current_size, pcq_head, Leaving, offered, taken>>

LEMMA QuietIsStutter ==
    ASSUME IInv, Quiet
    PROVE  UNCHANGED <<queue, offered, taken>>
  BY DEF Quiet, queue, Nth

LEMMA StepRefinement ==
    ASSUME IInv, IInv', [Next]_vars
    PROVE  [BQ!Next]_(BQ!vars)
  <1> USE QueueAssumption DEF IInv, TypeOK, Threads, ProducerSteps, ConsumerSteps,
          Quiet, Leaving, offered, taken
  <1>1. ASSUME NEW p \in Producers, EnqueueLockSize(p) PROVE Quiet
    BY <1>1 DEF EnqueueLockSize, Step, Lock, Unlock, CondWait, CondSignal, Asleep, ring
  <1>2. ASSUME NEW p \in Producers, EnqueueLockTail(p) PROVE Quiet
    BY <1>2 DEF EnqueueLockTail, Step, Lock, Unlock, CondWait, CondSignal, Asleep, ring
  <1>3. ASSUME NEW p \in Producers, EnqueueLockPusher(p) PROVE Quiet
    BY <1>3 DEF EnqueueLockPusher, Step, Lock, Unlock, CondWait, CondSignal, Asleep, ring
  <1>4. ASSUME NEW p \in Producers, EnqueueWait(p) PROVE Quiet
    BY <1>4 DEF EnqueueWait, Step, Lock, Unlock, CondWait, CondSignal, Asleep, ring
  <1>5. ASSUME NEW p \in Producers, EnqueueRelock(p) PROVE Quiet
    BY <1>5 DEF EnqueueRelock, Step, Lock, Unlock, CondWait, CondSignal, Asleep, ring
  <1>6. ASSUME NEW p \in Producers, EnqueueRoom(p) PROVE Quiet
    BY <1>6 DEF EnqueueRoom, Step, Lock, Unlock, CondWait, CondSignal, Asleep, ring
  <1>7. ASSUME NEW p \in Producers, EnqueueSignal(p) PROVE Quiet
    BY <1>7 DEF EnqueueSignal, Step, Lock, Unlock, CondWait, CondSignal, Asleep, ring
  <1>8. ASSUME NEW p \in Producers, EnqueueUnlockPusher(p) PROVE Quiet
    BY <1>8 DEF EnqueueUnlockPusher, Step, Lock, Unlock, CondWait, CondSignal, Asleep, ring
  <1>9. ASSUME NEW p \in Producers, EnqueueUnlockTail(p) PROVE Quiet
    BY <1>9 DEF EnqueueUnlockTail, Step, Lock, Unlock, CondWait, CondSignal, Asleep, ring
  <1>10. ASSUME NEW p \in Producers, EnqueueUnlockSize(p) PROVE Quiet
    BY <1>10 DEF EnqueueUnlockSize, Step, Lock, Unlock, CondWait, CondSignal, Asleep, ring
  <1>11. ASSUME NEW c \in Consumers, DequeueLockTail(c) PROVE Quiet
    BY <1>11 DEF DequeueLockTail, Step, Lock, Unlock, CondWait, CondSignal, Asleep, ring
  <1>12. ASSUME NEW c \in Consumers, DequeueWait(c) PROVE Quiet
    BY <1>12 DEF DequeueWait, Step, Lock, Unlock, CondWait, CondSignal, Asleep, ring
  <1>13. ASSUME NEW c \in Consumers, DequeueRelock(c) PROVE Quiet
    BY <1>13 DEF DequeueRelock, Step, Lock, Unlock, CondWait, CondSignal, Asleep, ring
  <1>14. ASSUME NEW c \in Consumers, DequeueSome(c) PROVE Quiet
    BY <1>14 DEF DequeueSome, Step, Lock, Unlock, CondWait, CondSignal, Asleep, ring
  <1>15. ASSUME NEW c \in Consumers, DequeueSignal(c) PROVE Quiet
    BY <1>15 DEF DequeueSignal, Step, Lock, Unlock, CondWait, CondSignal, Asleep, ring
  <1>16. ASSUME NEW t \in Threads, SpuriousWakeup(t) PROVE Quiet
    BY <1>16 DEF SpuriousWakeup, Step, ring
  <1>17. ASSUME UNCHANGED vars PROVE Quiet
    BY <1>17 DEF vars, ring
  <1>18. ASSUME NEW p \in Producers, EnqueueCall(p) PROVE BQ!Offer(p)
    <2>1. UNCHANGED <<pcq_buffer, pcq_current_size, pcq_head, Leaving, taken>>
      BY <1>18 DEF EnqueueCall, Step, ring
    <2>2. queue' = queue
      BY <2>1 DEF queue, Nth
    <2>3. /\ offered[p] = None
          /\ \E e \in Elem : offered' = [offered EXCEPT ![p] = e]
      BY <1>18 DEF EnqueueCall, Step
    <2> QED
      BY <2>1, <2>2, <2>3 DEF BQ!Offer
  <1>19. ASSUME NEW c \in Consumers, DequeueUnlockTail(c) PROVE BQ!Return(c)
    <2>1. UNCHANGED <<pcq_buffer, pcq_current_size, pcq_head, Leaving, offered>>
      BY <1>19 DEF DequeueUnlockTail, Unlock, Step, ring
    <2>2. queue' = queue
      BY <2>1 DEF queue, Nth
    <2>3. taken[c] # None /\ taken' = [taken EXCEPT ![c] = None]
      BY <1>19 DEF DequeueUnlockTail, Unlock, Step, SlotInv
    <2> QED
      BY <2>1, <2>2, <2>3 DEF BQ!Return
  <1> HIDE DEF IInv, Quiet, Leaving, offered, taken
  <1>20. Quiet => UNCHANGED BQ!vars
    BY QuietIsStutter DEF BQ!vars
  <1>21. ASSUME NEW p \in Producers, EnqueueStore(p) PROVE UNCHANGED BQ!vars
    BY <1>21, FillStep DEF BQ!vars
  <1>22. ASSUME NEW p \in Producers, EnqueueAdvance(p) PROVE BQ!Put(p)
    BY <1>22, PutStep
  <1>23. ASSUME NEW c \in Consumers, DequeueLoad(c) PROVE BQ!Take(c)
    BY <1>23, TakeStep
  <1>24. ASSUME NEW c \in Consumers, DequeueAdvance(c) PROVE UNCHANGED BQ!vars
    BY <1>24, StepOver DEF BQ!vars
  <1> QED
    BY <1>1, <1>2, <1>3, <1>4, <1>5, <1>6, <1>7, <1>8, <1>9, <1>10, <1>11, <1>12, <1>13, <1>14, <1>15, <1>16, <1>17, <1>18, <1>19, <1>20, <1>21, <1>22, <1>23, <1>24
    DEF Next, pcq_enqueue, pcq_dequeue, BQ!Next

(* The queue of producer-consumer.c is a bounded FIFO queue: for any       *)
(* number of threads, any elements and any capacity, each enqueue call     *)
(* appends its element once and each dequeue call returns the oldest       *)
(* element, which no other call returns.                                   *)
THEOREM Refinement == Spec => FIFO
  <1>1. IInv /\ IInv' /\ [Next]_vars => [BQ!Next]_(BQ!vars)
    BY StepRefinement
  <1> QED
    BY InitRefinement, Invariance, <1>1, PTL DEF Spec, BQ!Spec, FIFO

-----------------------------------------------------------------------------
(* The number of elements, and what a full queue does to it                *)

Stuck == \E p \in Producers : Blocked(p)

(* While a producer is blocked the queue is as it is.                      *)
LEMMA StuckStutters ==
    ASSUME IInv, IInv', [Next]_vars, Stuck
    PROVE  UNCHANGED SQ!vars
  <1>1. PICK r \in Producers : Blocked(r)
    BY DEF Stuck
  <1>2. Blocked(r)' /\ UNCHANGED ring
    BY <1>1, BlockedStep
  <1>3. Leaving = 0 /\ Leaving' = 0
    <2>1. HoldsTail(r) /\ HoldsTail(r)'
      BY <1>1, <1>2, QueueAssumption DEF Blocked, HoldsTail
    <2>2. \A c \in Consumers : pc[c] # "advance" /\ pc'[c] # "advance"
      BY <2>1, QueueAssumption DEF IInv, TailLockInv, HoldsTail, Threads
    <2> QED
      BY <2>2 DEF Leaving
  <1> QED
    BY <1>1, <1>2, <1>3 DEF SQ!vars, Stuck, ring

(* A step that changes nothing of it.                                      *)
Idle == UNCHANGED <<pcq_current_size, Leaving>> /\ ~Stuck'

LEMMA StickStep ==
    ASSUME IInv, IInv', ~Stuck, NEW p \in Producers, EnqueueLockPusher(p)
    PROVE  SQ!Stick \/ Idle
  <1> USE QueueAssumption
  <1>1. /\ pc[p] = "lock_pusher" /\ pc' = [pc EXCEPT ![p] = "test"]
        /\ pcq_current_size' = pcq_current_size
    BY DEF EnqueueLockPusher, Lock, Step, ring
  <1>2. Leaving = 0 /\ Leaving' = 0
    BY <1>1 DEF IInv, TypeOK, TailLockInv, HoldsTail, Threads, Leaving
  <1>3. \A q \in Producers : q # p => ~Blocked(q)'
    BY <1>1 DEF IInv, TypeOK, Threads, Blocked, Stuck
  <1>4. Blocked(p)' <=> pcq_current_size = Capacity
    BY <1>1 DEF IInv, TypeOK, Threads, Blocked
  <1>5. Stuck' <=> pcq_current_size = Capacity
    BY <1>3, <1>4 DEF Stuck
  <1>6. CASE pcq_current_size = Capacity
    BY <1>1, <1>2, <1>5, <1>6 DEF SQ!Stick, Stuck, IInv, TypeOK
  <1>7. CASE pcq_current_size # Capacity
    BY <1>1, <1>2, <1>5, <1>7 DEF Idle
  <1> QED
    BY <1>6, <1>7

LEMMA NumberPut ==
    ASSUME IInv, IInv', ~Stuck, NEW p \in Producers, EnqueueAdvance(p)
    PROVE  SQ!Put
  <1> USE QueueAssumption
  <1>1. /\ pc[p] = "advance" /\ pc' = [pc EXCEPT ![p] = "signal"]
        /\ pcq_current_size \in 0 .. Capacity - 1
        /\ pcq_current_size' = pcq_current_size + 1
    BY DEF EnqueueAdvance, Step, IInv, TypeOK, SizeInv
  <1>2. Leaving = 0 /\ Leaving' = 0
    BY <1>1 DEF IInv, TypeOK, TailLockInv, HoldsTail, Threads, Leaving
  <1>3. ~Stuck'
    BY <1>1 DEF IInv, TypeOK, TailLockInv, HoldsTail, Threads, Blocked, Stuck
  <1> QED
    BY <1>1, <1>2, <1>3 DEF SQ!Put, Stuck

LEMMA NumberTake ==
    ASSUME IInv, IInv', ~Stuck, NEW c \in Consumers, DequeueLoad(c)
    PROVE  SQ!Take
  <1> USE QueueAssumption
  <1>1. /\ pc[c] = "load" /\ pc' = [pc EXCEPT ![c] = "advance"]
        /\ pcq_current_size \in 1 .. Capacity /\ pcq_current_size' = pcq_current_size
    BY DEF DequeueLoad, Step, ring, IInv, TypeOK, SizeInv
  <1>2. Leaving = 0 /\ Leaving' = 1
    BY <1>1 DEF IInv, TypeOK, TailLockInv, HoldsTail, Threads, Leaving
  <1>3. ~Stuck'
    BY <1>1 DEF IInv, TypeOK, Threads, Blocked, Stuck
  <1> QED
    BY <1>1, <1>2, <1>3 DEF SQ!Take, Stuck

LEMMA NumberStays ==
    ASSUME IInv, IInv', ~Stuck, NEW c \in Consumers, DequeueAdvance(c)
    PROVE  UNCHANGED SQ!vars
  <1> USE QueueAssumption
  <1>1. /\ pc[c] = "advance" /\ pc' = [pc EXCEPT ![c] = "signal"]
        /\ pcq_current_size \in 1 .. Capacity
        /\ pcq_current_size' = pcq_current_size - 1
    BY DEF DequeueAdvance, Step, IInv, TypeOK, SizeInv
  <1>2. Leaving = 1 /\ Leaving' = 0
    BY <1>1 DEF IInv, TypeOK, TailLockInv, HoldsTail, Threads, Leaving
  <1>3. ~Stuck'
    BY <1>1 DEF IInv, TypeOK, TailLockInv, HoldsTail, Threads, Blocked, Stuck
  <1> QED
    BY <1>1, <1>2, <1>3 DEF SQ!vars, Stuck

LEMMA IdleIsStutter ==
    ASSUME ~Stuck, Idle
    PROVE  UNCHANGED SQ!vars
  BY DEF Idle, Stuck, SQ!vars

LEMMA NumberRefinement ==
    ASSUME IInv, IInv', [Next]_vars, ~Stuck
    PROVE  SQ!Next \/ UNCHANGED SQ!vars
  <1> USE QueueAssumption DEF IInv, TypeOK, Threads, ProducerSteps, ConsumerSteps, TailLockInv,
          HoldsTail, SizeInv, Idle, Leaving, Stuck, Blocked
  <1>1. ASSUME NEW p \in Producers, EnqueueLockSize(p) PROVE Idle
    BY <1>1 DEF EnqueueLockSize, Step, Lock, ring
  <1>2. ASSUME NEW p \in Producers, EnqueueLockTail(p) PROVE Idle
    BY <1>2 DEF EnqueueLockTail, Step, Lock, ring
  <1>3. ASSUME NEW p \in Producers, EnqueueWait(p) \/ EnqueueRelock(p) PROVE Idle
    BY <1>3 DEF EnqueueWait, EnqueueRelock, Step, Lock, Unlock, CondWait
  <1>4. ASSUME NEW p \in Producers, EnqueueRoom(p) PROVE Idle
    BY <1>4 DEF EnqueueRoom, Step, ring
  <1>5. ASSUME NEW p \in Producers, EnqueueSignal(p) PROVE Idle
    BY <1>5 DEF EnqueueSignal, CondSignal, Asleep, ring
  <1>6. ASSUME NEW p \in Producers, EnqueueUnlockPusher(p) PROVE Idle
    BY <1>6 DEF EnqueueUnlockPusher, Step, Unlock, ring
  <1>7. ASSUME NEW p \in Producers, EnqueueUnlockTail(p) PROVE Idle
    BY <1>7 DEF EnqueueUnlockTail, Step, Unlock, ring
  <1>8. ASSUME NEW p \in Producers, EnqueueUnlockSize(p) PROVE Idle
    BY <1>8 DEF EnqueueUnlockSize, Step, Unlock, ring
  <1>9. ASSUME NEW p \in Producers, EnqueueCall(p) PROVE Idle
    BY <1>9 DEF EnqueueCall, Step, ring
  <1>10. ASSUME NEW p \in Producers, EnqueueStore(p) PROVE Idle
    BY <1>10 DEF EnqueueStore, Step
  <1>11. ASSUME NEW c \in Consumers, DequeueLockTail(c) PROVE Idle
    BY <1>11 DEF DequeueLockTail, Step, Lock, ring
  <1>12. ASSUME NEW c \in Consumers, DequeueWait(c) PROVE Idle
    BY <1>12 DEF DequeueWait, Step, Unlock, CondWait, ring
  <1>13. ASSUME NEW c \in Consumers, DequeueRelock(c) PROVE Idle
    BY <1>13 DEF DequeueRelock, Step, Lock, ring
  <1>14. ASSUME NEW c \in Consumers, DequeueSome(c) PROVE Idle
    BY <1>14 DEF DequeueSome, Step, ring
  <1>15. ASSUME NEW c \in Consumers, DequeueSignal(c) PROVE Idle
    BY <1>15 DEF DequeueSignal, CondSignal, Asleep, ring
  <1>16. ASSUME NEW c \in Consumers, DequeueUnlockTail(c) PROVE Idle
    BY <1>16 DEF DequeueUnlockTail, Step, Unlock, ring
  <1>17. ASSUME NEW t \in Threads, SpuriousWakeup(t) PROVE Idle
    BY <1>17 DEF SpuriousWakeup, Step, ring
  <1>18. ASSUME UNCHANGED vars PROVE Idle
    BY <1>18 DEF vars
  <1> HIDE DEF IInv, TypeOK, TailLockInv, SizeInv, Idle, Leaving, Stuck, Blocked
  <1>19. ASSUME NEW p \in Producers, EnqueueLockPusher(p) PROVE SQ!Next \/ Idle
    BY <1>19, StickStep DEF SQ!Next
  <1>20. ASSUME NEW p \in Producers, EnqueueAdvance(p) PROVE SQ!Next
    BY <1>20, NumberPut DEF SQ!Next
  <1>21. ASSUME NEW c \in Consumers, DequeueLoad(c) PROVE SQ!Next
    BY <1>21, NumberTake DEF SQ!Next
  <1>22. ASSUME NEW c \in Consumers, DequeueAdvance(c) PROVE UNCHANGED SQ!vars
    BY <1>22, NumberStays
  <1>23. Idle => UNCHANGED SQ!vars
    BY IdleIsStutter
  <1> QED
    BY <1>1, <1>2, <1>3, <1>4, <1>5, <1>6, <1>7, <1>8, <1>9, <1>10, <1>11, <1>12, <1>13, <1>14, <1>15, <1>16, <1>17, <1>18, <1>19, <1>20, <1>21, <1>22, <1>23
    DEF Next, pcq_enqueue, pcq_dequeue

(* The call of pcq_enqueue that finds the queue full is the last that has  *)
(* any effect, for any number of threads and any capacity: what Broker     *)
(* takes its task_queue to do is what the locks of the two functions do.   *)
THEOREM StickingRefinement == Spec => IsStickingQueue
  <1>1. Init => SQ!Init
    <2> SUFFICES ASSUME Init PROVE SQ!Init
      OBVIOUS
    <2>1. Leaving = 0 /\ pcq_current_size = 0 /\ ~ \E p \in Producers : Blocked(p)
      BY QueueAssumption DEF Init, Leaving, Threads, Blocked
    <2> QED
      BY <2>1 DEF SQ!Init
  <1>2. IInv /\ IInv' /\ [Next]_vars => [SQ!Next]_(SQ!vars)
    BY StuckStutters, NumberRefinement
  <1> QED
    BY <1>1, <1>2, Invariance, PTL DEF Spec, SQ!Spec, IsStickingQueue
=============================================================================
