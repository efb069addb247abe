-------------------------- MODULE ProducerConsumer --------------------------
(***************************************************************************)
(* The task queue of producer-consumer/producer-consumer.c, one step per   *)
(* lock operation, test or update.  Threads run pcq_enqueue and            *)
(* pcq_dequeue for ever, as main and task_handler do in mbroker.c.         *)
(*                                                                         *)
(* The two functions do not take the same locks: pcq_enqueue nests         *)
(* pcq_current_size_lock, pcq_tail_lock and pcq_pusher_condvar_lock, and   *)
(* gives up only the last one while it sleeps; pcq_dequeue takes           *)
(* pcq_tail_lock alone, and waits on the popper variable with it.          *)
(* pcq_head_lock and pcq_popper_condvar_lock are never taken.              *)
(***************************************************************************)
EXTENDS Naturals, Sequences, FiniteSets

CONSTANTS Producers,   \* threads that call pcq_enqueue (main)
          Consumers,   \* threads that call pcq_dequeue (task_handler)
          Elem,        \* the pointers that are queued
          Capacity,    \* pcq_capacity, MAX_QUEUE_SIZE in mbroker.c
          Garbage,     \* what malloc left in a slot
          None         \* no thread, no element

Threads == Producers \cup Consumers

ASSUME QueueAssumption ==
    /\ Producers \cap Consumers = {}
    /\ IsFiniteSet(Consumers)
    /\ Capacity \in Nat \ {0}
    /\ Garbage \notin Elem
    /\ None \notin Elem
    /\ None \notin Threads

VARIABLES pcq_buffer, pcq_current_size, pcq_head, pcq_tail,
          owner,       \* owner[l]: the thread that holds mutex l, or None
          arg,         \* the elem of an enqueue call, the result of a dequeue call
          pc           \* where each thread is

ring == <<pcq_buffer, pcq_current_size, pcq_head, pcq_tail>>
vars == <<pcq_buffer, pcq_current_size, pcq_head, pcq_tail, owner, arg, pc>>

Locks == {"size_lock", "tail_lock", "pusher_lock"}
Slots == 0 .. Capacity - 1

(* pcq_create: an empty ring whose slots are as malloc left them.          *)
Init ==
    /\ pcq_buffer = [i \in Slots |-> Garbage]
    /\ pcq_current_size = 0
    /\ pcq_head = 0
    /\ pcq_tail = 0
    /\ owner = [l \in Locks |-> None]
    /\ arg = [t \in Threads |-> None]
    /\ pc = [t \in Threads |-> "out"]

-----------------------------------------------------------------------------
(* Steps both functions are made of.                                       *)

Step(t, from, to) == pc[t] = from /\ pc' = [pc EXCEPT ![t] = to]

Lock(t, l, from, to) ==
    /\ Step(t, from, to)
    /\ owner[l] = None
    /\ owner' = [owner EXCEPT ![l] = t]
    /\ UNCHANGED <<ring, arg>>

Unlock(t, l, from, to) ==
    /\ Step(t, from, to)
    /\ owner' = [owner EXCEPT ![l] = None]
    /\ UNCHANGED <<ring, arg>>

(* pthread_cond_wait releases its mutex and sleeps, atomically.            *)
CondWait(t, l, from) == Unlock(t, l, from, "asleep")

(* pthread_cond_signal wakes one of the sleepers, if there is one.         *)
CondSignal(t, sleepers, from, to) ==
    /\ pc[t] = from
    /\ IF sleepers = {}
       THEN pc' = [pc EXCEPT ![t] = to]
       ELSE \E s \in sleepers : pc' = [pc EXCEPT ![t] = to, ![s] = "woken"]
    /\ UNCHANGED <<ring, owner, arg>>

Asleep(S) == {t \in S : pc[t] = "asleep"}

(* A sleeper may return from pthread_cond_wait although nobody signalled.  *)
SpuriousWakeup(t) == Step(t, "asleep", "woken") /\ UNCHANGED <<ring, owner, arg>>

Next1(i) == (i + 1) % Capacity

-----------------------------------------------------------------------------
(* pcq_enqueue                                                             *)

EnqueueCall(p) ==
    /\ Step(p, "out", "lock_size")
    /\ \E e \in Elem : arg' = [arg EXCEPT ![p] = e]
    /\ UNCHANGED <<ring, owner>>

EnqueueLockSize(p)   == Lock(p, "size_lock", "lock_size", "lock_tail")
EnqueueLockTail(p)   == Lock(p, "tail_lock", "lock_tail", "lock_pusher")
EnqueueLockPusher(p) == Lock(p, "pusher_lock", "lock_pusher", "test")

(* The while loop: sleep, keeping the size and tail locks, until there is  *)
(* room.                                                                   *)
EnqueueWait(p) == pcq_current_size >= Capacity /\ CondWait(p, "pusher_lock", "test")

(* Mutant: if instead of while around pthread_cond_wait.                   *)
EnqueueRelockOnce(p) == Lock(p, "pusher_lock", "woken", "store")

EnqueueRelock(p) == Lock(p, "pusher_lock", "woken", "test")

(* Mutant: one slot too many is used.                                      *)
EnqueueRoomOffByOne(p) ==
    /\ pcq_current_size <= Capacity
    /\ Step(p, "test", "store")
    /\ UNCHANGED <<ring, owner, arg>>

EnqueueRoom(p) ==
    /\ pcq_current_size < Capacity
    /\ Step(p, "test", "store")
    /\ UNCHANGED <<ring, owner, arg>>

EnqueueStore(p) ==
    /\ Step(p, "store", "advance")
    /\ pcq_buffer' = [pcq_buffer EXCEPT ![pcq_tail] = arg[p]]
    /\ UNCHANGED <<pcq_current_size, pcq_head, pcq_tail, owner, arg>>

EnqueueAdvance(p) ==
    /\ Step(p, "advance", "signal")
    /\ pcq_tail' = Next1(pcq_tail)
    /\ pcq_current_size' = pcq_current_size + 1
    /\ UNCHANGED <<pcq_buffer, pcq_head, owner, arg>>

(* Mutant: the popper variable is not signalled.                           *)
EnqueueNoSignal(p) == CondSignal(p, {}, "signal", "unlock_pusher")

EnqueueSignal(p) == CondSignal(p, Asleep(Consumers), "signal", "unlock_pusher")

EnqueueUnlockPusher(p) == Unlock(p, "pusher_lock", "unlock_pusher", "unlock_tail")
EnqueueUnlockTail(p)   == Unlock(p, "tail_lock", "unlock_tail", "unlock_size")
EnqueueUnlockSize(p)   == Unlock(p, "size_lock", "unlock_size", "out")

pcq_enqueue(p) ==
    \/ EnqueueLockSize(p) \/ EnqueueLockTail(p) \/ EnqueueLockPusher(p)
    \/ EnqueueWait(p) \/ EnqueueRelock(p) \/ EnqueueRoom(p)
    \/ EnqueueStore(p) \/ EnqueueAdvance(p) \/ EnqueueSignal(p)
    \/ EnqueueUnlockPusher(p) \/ EnqueueUnlockTail(p) \/ EnqueueUnlockSize(p)

-----------------------------------------------------------------------------
(* pcq_dequeue                                                             *)

(* Mutant: pcq_dequeue takes its own lock, pcq_head_lock, which no enqueue *)
(* call takes and a single consumer never waits for.                       *)
DequeueLockHead(c) == Step(c, "out", "test") /\ UNCHANGED <<ring, owner, arg>>

DequeueLockTail(c) == Lock(c, "tail_lock", "out", "test")

DequeueWait(c) == pcq_current_size = 0 /\ CondWait(c, "tail_lock", "test")

(* Mutant: if instead of while around pthread_cond_wait.                   *)
DequeueRelockOnce(c) == Lock(c, "tail_lock", "woken", "load")

DequeueRelock(c) == Lock(c, "tail_lock", "woken", "test")

DequeueSome(c) ==
    /\ pcq_current_size # 0
    /\ Step(c, "test", "load")
    /\ UNCHANGED <<ring, owner, arg>>

DequeueLoad(c) ==
    /\ Step(c, "load", "advance")
    /\ arg' = [arg EXCEPT ![c] = pcq_buffer[pcq_head]]
    /\ UNCHANGED <<ring, owner>>

DequeueAdvance(c) ==
    /\ Step(c, "advance", "signal")
    /\ pcq_head' = Next1(pcq_head)
    /\ pcq_current_size' = pcq_current_size - 1
    /\ UNCHANGED <<pcq_buffer, pcq_tail, owner, arg>>

DequeueSignal(c) == CondSignal(c, Asleep(Producers), "signal", "unlock_tail")

DequeueUnlockTail(c) == Unlock(c, "tail_lock", "unlock_tail", "out")

pcq_dequeue(c) ==
    \/ DequeueLockTail(c) \/ DequeueWait(c) \/ DequeueRelock(c)
    \/ DequeueSome(c) \/ DequeueLoad(c) \/ DequeueAdvance(c)
    \/ DequeueSignal(c) \/ DequeueUnlockTail(c)

-----------------------------------------------------------------------------
Next ==
    \/ \E p \in Producers : EnqueueCall(p) \/ pcq_enqueue(p)
    \/ \E c \in Consumers : pcq_dequeue(c)
    \/ \E t \in Threads : SpuriousWakeup(t)

Spec == Init /\ [][Next]_vars

(* Every thread that can run a step of its call eventually does.  Nothing  *)
(* makes a producer call again, and no wakeup is promised but a signal's.  *)
Fairness == /\ \A p \in Producers : WF_vars(pcq_enqueue(p))
            /\ \A c \in Consumers : WF_vars(pcq_dequeue(c))

FairSpec == Spec /\ Fairness

-----------------------------------------------------------------------------
(* Properties                                                              *)

ProducerSteps == {"out", "lock_size", "lock_tail", "lock_pusher", "test",
                  "asleep", "woken", "store", "advance", "signal",
                  "unlock_pusher", "unlock_tail", "unlock_size"}
ConsumerSteps == {"out", "test", "asleep", "woken", "load", "advance",
                  "signal", "unlock_tail"}

TypeOK ==
    /\ pcq_buffer \in [Slots -> Elem \cup {Garbage}]
    /\ pcq_current_size \in 0 .. Capacity
    /\ pcq_head \in Slots
    /\ pcq_tail \in Slots
    /\ owner \in [Locks -> Threads \cup {None}]
    /\ arg \in [Threads -> Elem \cup {None}]
    /\ pc \in [Threads -> ProducerSteps \cup ConsumerSteps]
    /\ \A p \in Producers : pc[p] \in ProducerSteps
    /\ \A c \in Consumers : pc[c] \in ConsumerSteps

(* The steps that read or write the ring or its counters.                  *)
Touches(t) == pc[t] \in {"test", "store", "load", "advance"}

(* No data race on the ring: although enqueue and dequeue take different   *)
(* sets of locks (producer-consumer.c:51-53 and :81), no two threads are   *)
(* ever at steps that use the ring or its counters.                        *)
NoRace == \A t, u \in Threads : Touches(t) /\ Touches(u) => t = u

(* A producer that has found the queue full.                               *)
Blocked(p) == \/ pc[p] \in {"asleep", "woken"}
              \/ pc[p] = "test" /\ pcq_current_size = Capacity

(* What sleeping in pcq_enqueue really does: the sleeper keeps tail_lock,  *)
(* which every dequeue needs, so from the moment one producer finds the    *)
(* queue full no element ever enters or leaves it again.                   *)
BlockedForever ==
    [][\A p \in Producers : Blocked(p) => Blocked(p)' /\ UNCHANGED ring]_vars

(* producer-consumer.h:42-45: a producer that sleeps because the queue is  *)
(* full goes on once there is space.                                       *)
SleepsUntilSpace == \A p \in Producers : pc[p] = "asleep" ~> pc[p] = "store"

(* The consumers in pcq_dequeue that do not sleep and have taken nothing    *)
(* yet, and the element in the ring whose signal is still to come.         *)
Coming == {c \in Consumers : pc[c] \in {"woken", "test", "load", "advance"}}
Unsignalled == IF \E p \in Producers : pc[p] = "signal" THEN 1 ELSE 0

(* No signal is lost or spent on the wrong thread: while a consumer        *)
(* sleeps, each element in the queue has a consumer of its own that is on  *)
(* its way to take one.  No element waits for a busy thread while an idle  *)
(* one sleeps.                                                             *)
NoLostWakeup ==
    Asleep(Consumers) # {} => pcq_current_size <= Cardinality(Coming) + Unsignalled

(* The same in time: while an element is queued, some dequeue call takes one *)
(* unless a producer went to sleep on a full queue.  Sleepers are woken by *)
(* the signal in pcq_enqueue alone, and other threads may empty the queue  *)
(* between the signal and the wakeup.                                      *)
ElementsAreTaken ==
    pcq_current_size > 0 ~> \/ \E c \in Consumers : pc[c] = "advance"
                            \/ \E p \in Producers : pc[p] = "asleep"

-----------------------------------------------------------------------------
(* The ring implements BoundedQueue.  An element leaves when it is loaded, *)
(* though pcq_head and pcq_current_size say so one step later; it enters   *)
(* when pcq_tail has moved past it.                                        *)

Leaving == IF \E c \in Consumers : pc[c] = "advance" THEN 1 ELSE 0

(* The k-th slot from pcq_head.                                            *)
Nth(k) == pcq_buffer[(pcq_head + k) % Capacity]

queue == [i \in 1 .. pcq_current_size - Leaving |-> Nth(i + Leaving - 1)]

offered == [p \in Producers |->
              IF pc[p] \in {"out", "signal", "unlock_pusher", "unlock_tail", "unlock_size"}
              THEN None ELSE arg[p]]

taken == [c \in Consumers |->
            IF pc[c] \in {"advance", "signal", "unlock_tail"} THEN arg[c] ELSE None]

BQ == INSTANCE BoundedQueue

(* Elements come out in the order they went in, each exactly once, and     *)
(* each dequeue call returns the element it removed, never a stale or      *)
(* uninitialized slot, whatever the interleaving and the spurious wakeups. *)
FIFO == BQ!Spec

(* The number of elements alone.                                           *)
SQ == INSTANCE StickingQueue
        WITH size <- pcq_current_size - Leaving, stuck <- \E p \in Producers : Blocked(p)

(* The call of pcq_enqueue that finds the queue full is the last one that  *)
(* has any effect, and until then elements come and go one at a time: what *)
(* Broker takes its task_queue to be.                                      *)
IsStickingQueue == SQ!Spec
=============================================================================
