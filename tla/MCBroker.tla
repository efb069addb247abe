------------------------------ MODULE MCBroker ------------------------------
(* The instances of Broker that TLC checks.                                *)
EXTENDS Broker, TLC

CONSTANTS w1, w2, box1, box2

OneThread  == {w1}
TwoThreads == {w1, w2}
TwoBoxes   == {box1, box2}

(* What a process may write: creations and removals of either box, no text *)
(* at all, and what the three clients write.                               *)
ClientRequest == [opcode |-> Digit, box_name |-> BadName]
AnyRequest ==
    [opcode : {"CREATE_BOX", "REMOVE_BOX"}, box_name : TwoBoxes]
        \cup {[opcode |-> NoText, box_name |-> BadName], ClientRequest}

(* The requests of the run to the end: one creates a box, one does nothing. *)
FewRequests == [opcode : {"CREATE_BOX", "LIST"}, box_name : {box1}]

Symmetric == Permutations(TwoThreads) \cup Permutations(TwoBoxes)
=============================================================================
