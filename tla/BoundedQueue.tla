---------------------------- MODULE BoundedQueue ----------------------------
(***************************************************************************)
(* What producer-consumer.h promises: a first-in first-out queue of fixed  *)
(* capacity.  An enqueue call appends its own element exactly once and     *)
(* only when there is room; a dequeue call removes the oldest element      *)
(* exactly once and hands that element, and no other, to its caller.       *)
(* Locks, the ring and the condition variables are not visible here.       *)
(***************************************************************************)
EXTENDS Naturals, Sequences

CONSTANTS Producers,   \* threads that call pcq_enqueue
          Consumers,   \* threads that call pcq_dequeue
          Elem,        \* the pointers that are queued
          Capacity,    \* pcq_capacity
          None         \* no element

VARIABLES queue,       \* the elements in the queue, oldest first
          offered,     \* offered[p]: the element of p's call, until it is queued
          taken        \* taken[c]: the element c's call removed, until it returns

vars == <<queue, offered, taken>>

Init == /\ queue = <<>>
        /\ offered = [p \in Producers |-> None]
        /\ taken = [c \in Consumers |-> None]

(* pcq_enqueue is called with some element.                                *)
Offer(p) == /\ offered[p] = None
            /\ \E e \in Elem : offered' = [offered EXCEPT ![p] = e]
            /\ UNCHANGED <<queue, taken>>

Put(p) == /\ offered[p] # None
          /\ Len(queue) < Capacity
          /\ queue' = Append(queue, offered[p])
          /\ offered' = [offered EXCEPT ![p] = None]
          /\ UNCHANGED taken

Take(c) == /\ taken[c] = None
           /\ queue # <<>>
           /\ taken' = [taken EXCEPT ![c] = Head(queue)]
           /\ queue' = Tail(queue)
           /\ UNCHANGED offered

(* pcq_dequeue returns.                                                    *)
Return(c) == /\ taken[c] # None
             /\ taken' = [taken EXCEPT ![c] = None]
             /\ UNCHANGED <<queue, offered>>

Next == \/ \E p \in Producers : Offer(p) \/ Put(p)
        \/ \E c \in Consumers : Take(c) \/ Return(c)

Spec == Init /\ [][Next]_vars
=============================================================================
