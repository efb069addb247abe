---------------------------- MODULE StickingQueue ----------------------------
(***************************************************************************)
(* What the users of producer-consumer.c can rely on about the number of   *)
(* elements: it stays within the capacity, and the call of pcq_enqueue     *)
(* that finds the queue full is the last call that has any effect.         *)
(* ProducerConsumer implements this, and Broker's queue does: what holds   *)
(* of Broker with a counter for its task_queue holds with the locks and    *)
(* the ring of ProducerConsumer.                                           *)
(***************************************************************************)
EXTENDS Naturals

CONSTANT Capacity    \* pcq_capacity

VARIABLES size,      \* the number of elements in the queue
          stuck      \* a call of pcq_enqueue has found the queue full

vars == <<size, stuck>>

Init == size = 0 /\ stuck = FALSE

Put == /\ ~stuck /\ size < Capacity
       /\ size' = size + 1
       /\ UNCHANGED stuck

Take == /\ ~stuck /\ size > 0
        /\ size' = size - 1
        /\ UNCHANGED stuck

Stick == /\ ~stuck /\ size = Capacity
         /\ stuck' = TRUE
         /\ UNCHANGED size

Next == Put \/ Take \/ Stick

Spec == Init /\ [][Next]_vars
=============================================================================
