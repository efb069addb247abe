------------------------------ MODULE Catalogue ------------------------------
(***************************************************************************)
(* TecnicoFS as its callers count it: the names that have a file, and how  *)
(* many handles are open.  Callers may do what they like.                  *)
(***************************************************************************)
EXTENDS Integers, FiniteSets

CONSTANTS Name,        \* the names a file can have
          MaxFiles,    \* the files there is room for
          MaxOpen      \* the handles there are

VARIABLES names,       \* the names of the files that exist
          open         \* the number of open handles

vars == <<names, open>>

Init == names = {} /\ open = 0

(* The file is there or is created; the handle is given if there is one.   *)
Open(n) == /\ n \in names \/ Cardinality(names) < MaxFiles
           /\ names' = names \cup {n}
           /\ open' = IF open < MaxOpen THEN open + 1 ELSE open

Close == open > 0 /\ open' = open - 1 /\ UNCHANGED names

(* Handles that are open on the file stay so.                              *)
Unlink(n) == n \in names /\ names' = names \ {n} /\ UNCHANGED open

Next == Close \/ \E n \in Name : Open(n) \/ Unlink(n)

Spec == Init /\ [][Next]_vars
=============================================================================
