---------------------------- MODULE BrokerProofs ----------------------------
(***************************************************************************)
(* Proofs about Broker for any number of workers, any names and requests,  *)
(* and any sizes of the queue, of boxes and of the open file table.        *)
(***************************************************************************)
EXTENDS Broker, FiniteSetTheorems, TLAPS

(* FilesAreHeld is inductive once the files and the workers are known to be*)
(* finite sets and every worker to be at a step it has: TypeOK.            *)
IInv == TypeOK /\ FilesAreHeld

Holders == {w \in Workers : Holding(w)}

-----------------------------------------------------------------------------
(* Type correctness                                                        *)

LEMMA InitType == Init => TypeOK
  <1>1. Init => heard \in BOOLEAN
    BY DEF Init
  <1> QED
    BY <1>1, BrokerAssumption
    DEF Init, TypeOK, Tasks, Codes, MainSteps, WorkerSteps

(* What string_to_task returns is a task, whatever the request was.        *)
LEMMA DecodeType ==
    ASSUME NEW r \in Requests, NEW code \in OpcodesOf(r)
    PROVE  [opcode |-> code, box_name |-> NameOf(r)] \in Tasks
  <1>1. r \in [opcode : Codes \cup {NoText}, box_name : Name \cup {BadName}]
    BY BrokerAssumption
  <1>2. code \in Codes
    BY <1>1 DEF OpcodesOf
  <1>3. NameOf(r) \in Name \cup {BadName}
    BY <1>1 DEF NameOf
  <1> QED
    BY <1>2, <1>3 DEF Tasks

LEMMA EnvironmentType == TypeOK /\ Environment => TypeOK'
  <1> SUFFICES ASSUME TypeOK, Environment PROVE TypeOK'
    OBVIOUS
  <1>1. CASE WriterOpens
    BY <1>1 DEF TypeOK, Environment, WriterOpens, buffer, threads, table, tfs, MainSteps
  <1>2. CASE WriterWrites
    BY <1>2 DEF TypeOK, Environment, WriterWrites, locals, buffer, threads, table, tfs
  <1>3. CASE WriterCloses
    BY <1>3 DEF TypeOK, Environment, WriterCloses, locals, buffer, threads, table, tfs
  <1> QED
    BY <1>1, <1>2, <1>3 DEF Environment

LEMMA MainType == TypeOK /\ Main => TypeOK'
  <1> SUFFICES ASSUME TypeOK, Main PROVE TypeOK'
    OBVIOUS
  <1> USE DEF TypeOK, Main, MainStep, MainSteps, Stops, fifo, buffer, threads, table, tfs
  <1>1. CASE Read
    <2>1. heard' \in BOOLEAN
      <3>1. heard' = heard \/ heard' = TRUE
        BY <1>1 DEF Read, ReadEnd, ReadRequest, ReadOverflows
      <3> QED
        BY <3>1
    <2>2. request' \in Requests
      BY <1>1 DEF Read, ReadEnd, ReadRequest, ReadOverflows
    <2> QED
      BY <1>1, <2>1, <2>2 DEF Read, ReadEnd, ReadRequest, ReadOverflows
  <1>2. CASE Decode
    <2>1. builder' \in Tasks
      BY <1>2, DecodeType DEF Decode
    <2>2. status' \in {"running", "exited", "undefined"}
      BY <1>2 DEF Decode
    <2> QED
      BY <1>2, <2>1, <2>2 DEF Decode
  <1>3. CASE Store
    <2>1. PICK f \in left : task_op' = [task_op EXCEPT ![f] = builder[f]]
      BY <1>3 DEF Store
    <2>2. task_op' \in Tasks
      BY <2>1 DEF Tasks
    <2> QED
      BY <1>3, <2>2 DEF Store
  <1>4. CASE Switch
    <2>1. queued' \in 0 .. MAX_QUEUE_SIZE
      BY <1>4, BrokerAssumption DEF Switch, Ignore, Enqueue
    <2> QED
      BY <1>4, <2>1 DEF Switch, Ignore, Enqueue
  <1> QED
    BY <1>1, <1>2, <1>3, <1>4

(* Every step of a worker leads to a step of a worker.                     *)
LEMMA GoesType ==
    ASSUME TypeOK, NEW w \in Workers, NEW from, NEW to \in WorkerSteps, Goes(w, from, to)
    PROVE  pc' \in [Workers -> WorkerSteps]
  BY DEF TypeOK, Goes

LEMMA GoesOrExitsType ==
    ASSUME TypeOK, NEW w \in Workers, NEW from \in WorkerSteps, NEW ok \in BOOLEAN,
           NEW to \in WorkerSteps, GoesOrExits(w, from, ok, to)
    PROVE  /\ pc' \in [Workers -> WorkerSteps]
           /\ status' \in {"running", "exited", "undefined"}
  BY DEF TypeOK, Goes, GoesOrExits, Ends, Stops

LEMMA LoadType ==
    ASSUME TypeOK, NEW w \in Workers, NEW from, NEW to \in WorkerSteps,
           Load(w, from, to), UNCHANGED <<fifo, locals>>
    PROVE  TypeOK'
  <1>1. pc' \in [Workers -> WorkerSteps]
    BY GoesType DEF Load
  <1> QED
    BY <1>1 DEF TypeOK, Load, table, tfs, fifo, locals, buffer

LEMMA AddToType ==
    ASSUME TypeOK, NEW w \in Workers, NEW from, NEW to \in WorkerSteps, NEW n \in Int,
           AddTo(w, from, to, n), UNCHANGED <<fifo, locals>>
    PROVE  TypeOK'
  <1>1. pc' \in [Workers -> WorkerSteps]
    BY GoesType DEF AddTo
  <1>2. loaded[w] + n \in Int
    BY DEF TypeOK
  <1>3. current_boxes' \in Int /\ loaded' \in [Workers -> Int]
    BY <1>2 DEF AddTo, TypeOK
  <1> QED
    BY <1>1, <1>3 DEF TypeOK, AddTo, tfs, fifo, locals, buffer

LEMMA WorkerType ==
    ASSUME TypeOK, NEW w \in Workers, task_handler(w)
    PROVE  TypeOK'
  <1>0. UNCHANGED <<fifo, locals>>
    BY DEF task_handler
  <1>1. CASE Dequeue(w)
    <2>1. pc' \in [Workers -> WorkerSteps]
      BY <1>1, GoesType DEF Dequeue, WorkerSteps
    <2>2. queued' \in 0 .. MAX_QUEUE_SIZE
      BY <1>1, BrokerAssumption DEF Dequeue, TypeOK
    <2> QED
      BY <1>0, <1>1, <2>1, <2>2 DEF TypeOK, Dequeue, table, tfs, fifo, locals, buffer
  <1>2. CASE Handle(w)
    <2> DEFINE op == task_op.opcode
               to == CASE op = "CREATE_BOX" -> "create"
                       [] op = "REMOVE_BOX" -> "remove"
                       [] OTHER             -> "dequeue"
               ok == op # "LOGIN"
    <2>1. to \in WorkerSteps /\ ok \in BOOLEAN
      BY DEF WorkerSteps
    <2>2. GoesOrExits(w, "switch", ok, to)
      BY <1>2 DEF Handle
    <2> HIDE DEF to, ok
    <2>3. /\ pc' \in [Workers -> WorkerSteps]
          /\ status' \in {"running", "exited", "undefined"}
      BY <2>1, <2>2, GoesOrExitsType, "switch" \in WorkerSteps DEF WorkerSteps
    <2> QED
      BY <1>0, <1>2, <2>3 DEF TypeOK, Handle, table, tfs, fifo, locals, buffer
  <1>3. CASE CreateCheck(w) \/ RemoveCheck(w)
    <2>1. /\ pc' \in [Workers -> WorkerSteps]
          /\ status' \in {"running", "exited", "undefined"}
      BY <1>3 DEF CreateCheck, RemoveCheck, GoesOrExits, Goes, Ends, Stops, TypeOK, WorkerSteps
    <2> QED
      BY <1>0, <1>3, <2>1 DEF TypeOK, CreateCheck, RemoveCheck, table, tfs, fifo, locals, buffer
  <1>4. CASE CreateOpen(w)
    <2>1. /\ pc' \in [Workers -> WorkerSteps]
          /\ status' \in {"running", "exited", "undefined"}
      BY <1>4 DEF CreateOpen, GoesOrExits, Goes, Ends, Stops, TypeOK, WorkerSteps
    <2>2. files' \subseteq Name
      BY <1>4 DEF CreateOpen, TypeOK, Tasks
    <2>3. handles' \in 0 .. MAX_OPEN_FILES
      <3>1. handles' = IF task_op.box_name # BadName /\ handles < MAX_OPEN_FILES
                       THEN handles + 1 ELSE handles
        BY <1>4 DEF CreateOpen
      <3> QED
        BY <3>1, BrokerAssumption DEF TypeOK
    <2> QED
      BY <1>0, <1>4, <2>1, <2>2, <2>3 DEF TypeOK, CreateOpen, table, fifo, locals, buffer
  <1>5. CASE CreateStore(w)
    <2>1. /\ pc' \in [Workers -> WorkerSteps]
          /\ status' \in {"running", "exited", "undefined"}
      BY <1>5 DEF CreateStore, Goes, Stops, TypeOK, WorkerSteps
    <2> QED
      BY <1>0, <1>5, <2>1 DEF TypeOK, CreateStore, tfs, fifo, locals, buffer
  <1>6. CASE Load(w, "create load", "create add") \/ Load(w, "remove load", "remove add")
    BY <1>0, <1>6, LoadType DEF WorkerSteps
  <1>7. CASE CreateAdd(w) \/ AddTo(w, "remove add", "dequeue", -1)
    <2>1. "remove" \in WorkerSteps /\ "dequeue" \in WorkerSteps /\ 1 \in Int /\ -1 \in Int
      BY DEF WorkerSteps
    <2>2. CASE AddTo(w, "create add", "remove", 1)
      BY <1>0, <2>1, <2>2, AddToType
    <2>3. CASE AddTo(w, "remove add", "dequeue", -1)
      BY <1>0, <2>1, <2>3, AddToType
    <2> QED
      BY <1>7, <2>2, <2>3 DEF CreateAdd
  <1>9. CASE RemoveShift(w)
    <2>1. /\ pc' \in [Workers -> WorkerSteps]
          /\ status' \in {"running", "exited", "undefined"}
      BY <1>9 DEF RemoveShift, Goes, Ends, Stops, TypeOK, WorkerSteps
    <2>2. boxes' \subseteq Places
      BY <1>9 DEF RemoveShift, TypeOK
    <2> QED
      BY <1>0, <1>9, <2>1, <2>2 DEF TypeOK, RemoveShift, tfs, fifo, locals, buffer
  <1>8. CASE RemoveUnlink(w)
    <2>1. /\ pc' \in [Workers -> WorkerSteps]
          /\ status' \in {"running", "exited", "undefined"}
      BY <1>8 DEF RemoveUnlink, GoesOrExits, Goes, Ends, Stops, TypeOK, WorkerSteps
    <2> QED
      BY <1>0, <1>8, <2>1 DEF TypeOK, RemoveUnlink, table, fifo, locals, buffer
  <1> QED
    BY <1>1, <1>2, <1>3, <1>4, <1>5, <1>6, <1>7, <1>8, <1>9 DEF task_handler, Create, Remove

(* The types of main's locals, of the queue's size, of the workers' steps, *)
(* of the files and of the open handles, for any requests.                 *)
THEOREM TypeCorrect == Spec => []TypeOK
  <1>1. Init => TypeOK
    BY InitType
  <1>2. TypeOK /\ [Next]_vars => TypeOK'
    <2> SUFFICES ASSUME TypeOK, [Next]_vars PROVE TypeOK'
      OBVIOUS
    <2>1. CASE Next
      BY <2>1, EnvironmentType, MainType, WorkerType DEF Next
    <2>2. CASE UNCHANGED vars
      BY <2>2 DEF vars, fifo, locals, buffer, threads, table, tfs, TypeOK
    <2> QED
      BY <2>1, <2>2
  <1> QED
    BY <1>1, <1>2, PTL DEF Spec

-----------------------------------------------------------------------------
(* There are never more files than workers in the middle                   *)

LEMMA Finite ==
    ASSUME TypeOK
    PROVE  /\ IsFiniteSet(files) /\ Cardinality(files) \in Nat
           /\ IsFiniteSet(Holders) /\ Cardinality(Holders) \in Nat
  <1>1. files \in SUBSET Name /\ Holders \in SUBSET Workers
    BY DEF TypeOK, Holders
  <1>2. IsFiniteSet(files) /\ IsFiniteSet(Holders)
    BY <1>1, BrokerAssumption, FS_Subset
  <1> QED
    BY <1>2, FS_CardinalityType

(* The files and those that hold them only grow apart if someone stops     *)
(* holding without a removal, or a file comes without a creation.          *)
LEMMA HoldersStep ==
    ASSUME TypeOK, TypeOK', FilesAreHeld, status = "running",
           \/ files' = files /\ Holders \subseteq Holders'
           \/ \E x : files' \subseteq files \cup {x}
                     /\ \E w \in Workers : w \notin Holders /\ Holders' = Holders \cup {w}
           \/ \E x \in files : files' = files \ {x}
                     /\ \E w \in Holders : Holders' = Holders \ {w}
    PROVE  FilesAreHeld'
  <1>0. Cardinality(files) <= Cardinality(Holders)
    BY DEF FilesAreHeld, Holders
  <1>f. /\ IsFiniteSet(files) /\ Cardinality(files) \in Nat
        /\ IsFiniteSet(Holders) /\ Cardinality(Holders) \in Nat
    BY Finite
  <1>p. IsFiniteSet(Holders') /\ Cardinality(Holders') \in Nat
    <2>1. Holders' \in SUBSET Workers
      BY DEF Holders
    <2> QED
      BY <2>1, BrokerAssumption, FS_Subset, FS_CardinalityType
  <1> SUFFICES Cardinality(files') <= Cardinality(Holders')
    BY DEF FilesAreHeld, Holders
  <1>1. CASE files' = files /\ Holders \subseteq Holders'
    <2>1. Cardinality(Holders) <= Cardinality(Holders')
      BY <1>1, <1>p, FS_Subset
    <2> QED
      BY <1>0, <1>1, <1>f, <1>p, <2>1
  <1>2. ASSUME NEW x, files' \subseteq files \cup {x},
               NEW w \in Workers, w \notin Holders, Holders' = Holders \cup {w}
        PROVE  Cardinality(files') <= Cardinality(Holders')
    <2>1. Cardinality(Holders') = Cardinality(Holders) + 1
      BY <1>2, <1>f, FS_AddElement
    <2>a. /\ IsFiniteSet(files \cup {x})
          /\ Cardinality(files \cup {x}) = IF x \in files THEN Cardinality(files)
                                                          ELSE Cardinality(files) + 1
      BY <1>f, FS_AddElement
    <2>2. /\ IsFiniteSet(files \cup {x})
          /\ Cardinality(files \cup {x}) <= Cardinality(files) + 1
      BY <1>f, <2>a
    <2>3. Cardinality(files \cup {x}) \in Nat
      BY <2>2, FS_CardinalityType
    <2>4. Cardinality(files') <= Cardinality(files \cup {x}) /\ Cardinality(files') \in Nat
      BY <1>2, <2>2, FS_Subset, FS_CardinalityType
    <2> QED
      BY <1>0, <1>f, <2>1, <2>2, <2>3, <2>4
  <1>3. ASSUME NEW x \in files, files' = files \ {x},
               NEW w \in Holders, Holders' = Holders \ {w}
        PROVE  Cardinality(files') <= Cardinality(Holders')
    <2>1. Cardinality(files') = Cardinality(files) - 1
      BY <1>3, <1>f, FS_RemoveElement
    <2>2. Cardinality(Holders') = Cardinality(Holders) - 1
      BY <1>3, <1>f, FS_RemoveElement
    <2> QED
      BY <1>0, <1>f, <2>1, <2>2
  <1> QED
    BY <1>1, <1>2, <1>3

(* The holders after a step of worker w alone.                             *)
LEMMA HoldersAfter ==
    ASSUME TypeOK, NEW w \in Workers, NEW from, NEW to, Goes(w, from, to)
    PROVE  /\ pc[w] = from /\ pc'[w] = to
           /\ \A v \in Workers \ {w} : pc'[v] = pc[v]
  BY DEF TypeOK, Goes

LEMMA OtherStepsHold ==
    ASSUME IInv, TypeOK', status = "running", UNCHANGED <<threads, tfs>>
    PROVE  FilesAreHeld'
  <1>1. Holders' = Holders
    BY DEF Holders, Holding, threads
  <1>2. files' = files
    BY DEF tfs
  <1> QED
    BY <1>1, <1>2, HoldersStep DEF IInv

(* A step of a worker between two of its steps, both holding or neither,   *)
(* or to a holding one.                                                    *)
LEMMA PassingStepHolds ==
    ASSUME IInv, TypeOK', status = "running", files' = files,
           NEW w \in Workers, NEW from, NEW to, Goes(w, from, to),
           from \in HoldingSteps => to \in HoldingSteps
    PROVE  FilesAreHeld'
  <1>1. pc[w] = from /\ pc'[w] = to /\ \A v \in Workers \ {w} : pc'[v] = pc[v]
    BY HoldersAfter DEF IInv
  <1>2. Holders \subseteq Holders'
    BY <1>1 DEF Holders, Holding
  <1> QED
    BY <1>2, HoldersStep DEF IInv

LEMMA CreateOpenHolds ==
    ASSUME IInv, TypeOK', status = "running", status' = "running",
           NEW w \in Workers, CreateOpen(w)
    PROVE  FilesAreHeld'
  <1>1. Goes(w, "create open", "create store")
    BY DEF CreateOpen, GoesOrExits, Ends, Stops
  <1>2. /\ pc[w] = "create open" /\ pc'[w] = "create store"
        /\ \A v \in Workers \ {w} : pc'[v] = pc[v]
    BY <1>1, HoldersAfter DEF IInv
  <1>3. w \notin Holders /\ Holders' = Holders \cup {w}
    BY <1>2 DEF Holders, Holding, HoldingSteps
  <1>4. files' \subseteq files \cup {task_op.box_name}
    BY DEF CreateOpen
  <1> QED
    BY <1>3, <1>4, HoldersStep DEF IInv

LEMMA RemoveUnlinkHolds ==
    ASSUME IInv, TypeOK', status = "running", status' = "running",
           NEW w \in Workers, RemoveUnlink(w)
    PROVE  FilesAreHeld'
  <1>1. Goes(w, "remove unlink", "remove load") /\ task_op.box_name \in files
    BY DEF RemoveUnlink, GoesOrExits, Ends, Stops
  <1>2. /\ pc[w] = "remove unlink" /\ pc'[w] = "remove load"
        /\ \A v \in Workers \ {w} : pc'[v] = pc[v]
    BY <1>1, HoldersAfter DEF IInv
  <1>3. w \in Holders /\ Holders' = Holders \ {w}
    BY <1>2 DEF Holders, Holding, HoldingSteps
  <1>4. files' = files \ {task_op.box_name}
    BY DEF RemoveUnlink
  <1> QED
    BY <1>1, <1>3, <1>4, HoldersStep DEF IInv

LEMMA WorkerHolds ==
    ASSUME IInv, TypeOK', status = "running", NEW w \in Workers, task_handler(w)
    PROVE  FilesAreHeld'
  <1> SUFFICES ASSUME status' = "running" PROVE FilesAreHeld'
    BY DEF FilesAreHeld
  <1> USE DEF HoldingSteps
  <1>1. CASE Dequeue(w)
    <2>1. Goes(w, "dequeue", "switch") /\ files' = files
      BY <1>1 DEF Dequeue, tfs
    <2> QED
      BY <2>1, PassingStepHolds
  <1>2. CASE Handle(w)
    <2>1. PICK to : Goes(w, "switch", to)
      BY <1>2 DEF Handle, GoesOrExits, Ends, Stops
    <2>2. files' = files
      BY <1>2 DEF Handle, tfs
    <2> QED
      BY <2>1, <2>2, PassingStepHolds
  <1>3. CASE CreateCheck(w)
    <2>1. Goes(w, "create", "create open") /\ files' = files
      BY <1>3 DEF CreateCheck, Ends, Stops, tfs
    <2> QED
      BY <2>1, PassingStepHolds
  <1>4. CASE CreateStore(w)
    <2>1. Goes(w, "create store", "create load") /\ files' = files
      BY <1>4 DEF CreateStore, tfs
    <2> QED
      BY <2>1, PassingStepHolds
  <1>5. CASE Load(w, "create load", "create add")
    <2>1. Goes(w, "create load", "create add") /\ files' = files
      BY <1>5 DEF Load, tfs
    <2> QED
      BY <2>1, PassingStepHolds
  <1>6. CASE CreateAdd(w)
    <2>1. Goes(w, "create add", "remove") /\ files' = files
      BY <1>6 DEF CreateAdd, AddTo, tfs
    <2> QED
      BY <2>1, PassingStepHolds
  <1>7. CASE RemoveCheck(w)
    <2>1. Goes(w, "remove", "remove shift") /\ files' = files
      BY <1>7 DEF RemoveCheck, GoesOrExits, Ends, Stops, tfs
    <2> QED
      BY <2>1, PassingStepHolds
  <1>10. CASE RemoveShift(w)
    <2>1. Goes(w, "remove shift", "remove unlink") /\ files' = files
      BY <1>10 DEF RemoveShift, Ends, Stops, tfs
    <2> QED
      BY <2>1, PassingStepHolds
  <1>8. CASE Load(w, "remove load", "remove add")
    <2>1. Goes(w, "remove load", "remove add") /\ files' = files
      BY <1>8 DEF Load, tfs
    <2> QED
      BY <2>1, PassingStepHolds
  <1>9. CASE AddTo(w, "remove add", "dequeue", -1)
    <2>1. Goes(w, "remove add", "dequeue") /\ files' = files
      BY <1>9 DEF AddTo, tfs
    <2> QED
      BY <2>1, PassingStepHolds
  <1> QED
    BY <1>1, <1>2, <1>3, <1>4, <1>5, <1>6, <1>7, <1>8, <1>9, <1>10, CreateOpenHolds, RemoveUnlinkHolds
    DEF task_handler, Create, Remove

(* Whatever is requested, and however the workers race: there are never    *)
(* more files than workers in the middle of a creation or a removal.       *)
THEOREM FilesAreBounded == Spec => []FilesAreHeld
  <1>1. Init => IInv
    <2>1. Init => files = {}
      BY DEF Init
    <2>2. Init => FilesAreHeld
      <3> SUFFICES ASSUME Init PROVE FilesAreHeld
        OBVIOUS
      <3>1. Cardinality(files) = 0
        BY <2>1, FS_EmptySet
      <3>2. Cardinality(Holders) \in Nat
        BY InitType, Finite
      <3> QED
        BY <3>1, <3>2 DEF FilesAreHeld, Holders
    <2> QED
      BY <2>2, InitType DEF IInv
  <1>2. IInv /\ TypeOK' /\ [Next]_vars => IInv'
    <2> SUFFICES ASSUME IInv, TypeOK', [Next]_vars PROVE FilesAreHeld'
      BY DEF IInv
    <2>1. CASE Next
      <3>0. status = "running"
        BY <2>1 DEF Next
      <3>1. CASE Environment \/ Main
        BY <3>0, <3>1, OtherStepsHold DEF Environment, Main
      <3>2. ASSUME NEW w \in Workers, task_handler(w) PROVE FilesAreHeld'
        BY <3>0, <3>2, WorkerHolds
      <3> QED
        BY <2>1, <3>1, <3>2 DEF Next
    <2>2. CASE UNCHANGED vars
      BY <2>2 DEF vars, threads, tfs, IInv, FilesAreHeld, Holding
    <2> QED
      BY <2>1, <2>2
  <1>3. IInv => FilesAreHeld
    BY DEF IInv
  <1> QED
    BY <1>1, <1>2, <1>3, TypeCorrect, PTL DEF Spec

-----------------------------------------------------------------------------
(* boxes never overflows                                                   *)

StoringSteps == {"create store", "create load", "create add"}
Storing == {w \in Workers : pc[w] \in StoringSteps}

(* The creations that have counted their box: each left a handle open.     *)
Counted == handles - Cardinality(Storing)

(* current_boxes, and each value of it that a worker holds, is at most the *)
(* number of increments there were: a lost update only makes it less than  *)
(* the increments, or takes a decrement back.                              *)
AtMostCounted ==
    /\ Counted >= 0
    /\ current_boxes <= Counted
    /\ \A w \in Workers : loaded[w] <= Counted

LEMMA StoringFinite ==
    ASSUME TypeOK
    PROVE  IsFiniteSet(Storing) /\ Cardinality(Storing) \in Nat /\ Counted \in Int
  <1>1. Storing \in SUBSET Workers
    BY DEF Storing
  <1>2. IsFiniteSet(Storing) /\ Cardinality(Storing) \in Nat
    BY <1>1, BrokerAssumption, FS_Subset, FS_CardinalityType
  <1>3. handles \in Int
    BY BrokerAssumption DEF TypeOK
  <1> QED
    BY <1>2, <1>3 DEF Counted

LEMMA LessWithout ==
    ASSUME NEW c \in Int, NEW h \in Int, NEW k \in Nat, k # 0, c <= h - k
    PROVE  c < h
  OBVIOUS

LEMMA OneLess ==
    ASSUME NEW c \in Int, NEW h \in Int, c <= h
    PROVE  c + -1 <= h
  OBVIOUS

LEMMA CountTypes ==
    ASSUME TypeOK
    PROVE  /\ handles \in Int /\ current_boxes \in Int
           /\ \A w \in Workers : loaded[w] \in Int
  <1>1. handles \in Int
    BY BrokerAssumption DEF TypeOK
  <1>2. current_boxes \in Int /\ \A w \in Workers : loaded[w] \in Int
    BY DEF TypeOK
  <1> QED
    BY <1>1, <1>2

LEMMA UncountedStep ==
    ASSUME UNCHANGED <<pc, loaded, current_boxes, handles>>, AtMostCounted
    PROVE  AtMostCounted'
  BY DEF AtMostCounted, Counted, Storing

(* A worker's step that neither starts nor ends a store counts nothing.    *)
LEMMA SameCounted ==
    ASSUME TypeOK, NEW w \in Workers, NEW from, NEW to, Goes(w, from, to),
           from \in StoringSteps <=> to \in StoringSteps, handles' = handles
    PROVE  Counted' = Counted
  <1>1. pc[w] = from /\ pc'[w] = to /\ \A v \in Workers \ {w} : pc'[v] = pc[v]
    BY HoldersAfter
  <1>2. Storing' = Storing
    BY <1>1 DEF Storing
  <1> QED
    BY <1>2 DEF Counted

LEMMA PassingStepCounts ==
    ASSUME TypeOK, AtMostCounted, NEW w \in Workers, NEW from, NEW to, Goes(w, from, to),
           from \in StoringSteps <=> to \in StoringSteps,
           UNCHANGED <<loaded, current_boxes, handles>>
    PROVE  AtMostCounted'
  <1>1. Counted' = Counted
    BY SameCounted
  <1> QED
    BY <1>1 DEF AtMostCounted

LEMMA LoadCounts ==
    ASSUME TypeOK, AtMostCounted, NEW w \in Workers, NEW from, NEW to, Load(w, from, to),
           from \in StoringSteps <=> to \in StoringSteps
    PROVE  AtMostCounted'
  <1>1. Counted' = Counted
    BY SameCounted DEF Load, tfs
  <1>2. current_boxes' = current_boxes /\ loaded' = [loaded EXCEPT ![w] = current_boxes]
    BY DEF Load, table
  <1>3. \A v \in Workers : loaded'[v] = loaded[v] \/ loaded'[v] = current_boxes
    BY <1>2 DEF TypeOK
  <1> QED
    BY <1>1, <1>2, <1>3 DEF AtMostCounted

(* The handle of a creation is counted once it has added its box.          *)
LEMMA CreateOpenCounts ==
    ASSUME TypeOK, AtMostCounted, NEW w \in Workers, CreateOpen(w)
    PROVE  AtMostCounted'
  <1> DEFINE ok == task_op.box_name # BadName /\ handles < MAX_OPEN_FILES
  <1>0. UNCHANGED <<loaded, current_boxes>>
    BY DEF CreateOpen, table
  <1>1. CASE ok
    <2>1. Goes(w, "create open", "create store")
      BY <1>1 DEF CreateOpen, GoesOrExits
    <2>2. handles' = handles + 1
      BY <1>1 DEF CreateOpen
    <2>3. /\ pc[w] = "create open" /\ pc'[w] = "create store"
          /\ \A v \in Workers \ {w} : pc'[v] = pc[v]
      BY <2>1, HoldersAfter
    <2>4. w \notin Storing /\ Storing' = Storing \cup {w}
      BY <2>3 DEF Storing, StoringSteps
    <2>5. Cardinality(Storing') = Cardinality(Storing) + 1
      BY <2>4, StoringFinite, FS_AddElement
    <2>6. handles \in Int /\ Cardinality(Storing) \in Int
      BY StoringFinite, BrokerAssumption DEF TypeOK
    <2>7. Counted' = Counted
      BY <2>2, <2>5, <2>6 DEF Counted
    <2> QED
      BY <1>0, <2>7 DEF AtMostCounted
  <1>2. CASE ~ok
    <2>1. handles' = handles
      BY <1>2 DEF CreateOpen
    <2>2. pc' = pc
      BY <1>2 DEF CreateOpen, GoesOrExits, Ends
    <2> QED
      BY <1>0, <2>1, <2>2, UncountedStep
  <1> QED
    BY <1>1, <1>2

LEMMA CreateAddCounts ==
    ASSUME TypeOK, AtMostCounted, NEW w \in Workers, CreateAdd(w)
    PROVE  AtMostCounted'
  <1>1. /\ Goes(w, "create add", "remove") /\ handles' = handles
        /\ current_boxes' = loaded[w] + 1 /\ loaded' = [loaded EXCEPT ![w] = 0]
    BY DEF CreateAdd, AddTo, tfs
  <1>2. /\ pc[w] = "create add" /\ pc'[w] = "remove"
        /\ \A v \in Workers \ {w} : pc'[v] = pc[v]
    BY <1>1, HoldersAfter
  <1>3. w \in Storing /\ Storing' = Storing \ {w}
    BY <1>2 DEF Storing, StoringSteps
  <1>4. Cardinality(Storing') = Cardinality(Storing) - 1
    BY <1>3, StoringFinite, FS_RemoveElement
  <1>5. handles \in Int /\ Cardinality(Storing) \in Int /\ Counted \in Int
    BY StoringFinite, BrokerAssumption DEF TypeOK
  <1>h. handles' = handles
    BY <1>1
  <1>6. Counted' = Counted + 1
    BY <1>h, <1>4, <1>5 DEF Counted
  <1>7. loaded[w] \in Int /\ loaded[w] <= Counted
    BY DEF TypeOK, AtMostCounted
  <1>8. \A v \in Workers : loaded'[v] = 0 \/ loaded'[v] = loaded[v]
    BY <1>1 DEF TypeOK
  <1>9. \A v \in Workers : loaded'[v] <= Counted'
    BY <1>5, <1>6, <1>8 DEF AtMostCounted, TypeOK
  <1>a. Counted >= 0 /\ current_boxes' = loaded[w] + 1
    BY <1>1 DEF AtMostCounted
  <1>10. Counted' >= 0 /\ current_boxes' <= Counted'
    BY <1>a, <1>5, <1>6, <1>7
  <1> QED
    BY <1>9, <1>10 DEF AtMostCounted

LEMMA RemoveAddCounts ==
    ASSUME TypeOK, AtMostCounted, NEW w \in Workers, AddTo(w, "remove add", "dequeue", -1)
    PROVE  AtMostCounted'
  <1>1. /\ Goes(w, "remove add", "dequeue") /\ handles' = handles
        /\ current_boxes' = loaded[w] + -1 /\ loaded' = [loaded EXCEPT ![w] = 0]
    BY DEF AddTo, tfs
  <1>2. Counted' = Counted
    BY <1>1, SameCounted DEF StoringSteps
  <1>3. loaded[w] \in Int /\ loaded[w] <= Counted /\ Counted \in Int
    BY StoringFinite, CountTypes DEF AtMostCounted
  <1>4. \A v \in Workers : loaded'[v] = 0 \/ loaded'[v] = loaded[v]
    BY <1>1 DEF TypeOK
  <1>5. \A v \in Workers : loaded'[v] <= Counted'
    BY <1>2, <1>3, <1>4 DEF AtMostCounted, TypeOK
  <1>a. Counted >= 0 /\ current_boxes' = loaded[w] + -1
    BY <1>1 DEF AtMostCounted
  <1>b. loaded[w] + -1 <= Counted
    BY <1>3, OneLess
  <1>6. Counted' >= 0 /\ current_boxes' <= Counted'
    BY <1>a, <1>b, <1>2
  <1> QED
    BY <1>5, <1>6 DEF AtMostCounted

LEMMA WorkerCounts ==
    ASSUME TypeOK, AtMostCounted, NEW w \in Workers, task_handler(w)
    PROVE  AtMostCounted'
  <1> USE DEF StoringSteps, table, tfs
  <1>1. CASE Dequeue(w)
    <2>1. Goes(w, "dequeue", "switch") /\ UNCHANGED <<loaded, current_boxes, handles>>
      BY <1>1 DEF Dequeue
    <2> QED
      BY <2>1, PassingStepCounts
  <1>2. CASE Handle(w)
    <2>0. UNCHANGED <<loaded, current_boxes, handles>>
      BY <1>2 DEF Handle
    <2>1. PICK to \in {"create", "remove", "dequeue", "switch"} : Goes(w, "switch", to) \/ pc' = pc
      BY <1>2 DEF Handle, GoesOrExits, Ends
    <2> QED
      BY <2>0, <2>1, PassingStepCounts, UncountedStep
  <1>3. CASE CreateCheck(w)
    <2>0. UNCHANGED <<loaded, current_boxes, handles>>
      BY <1>3 DEF CreateCheck
    <2>1. Goes(w, "create", "create open") \/ pc' = pc
      BY <1>3 DEF CreateCheck, Ends
    <2> QED
      BY <2>0, <2>1, PassingStepCounts, UncountedStep
  <1>4. CASE CreateStore(w)
    <2>1. Goes(w, "create store", "create load") /\ UNCHANGED <<loaded, current_boxes, handles>>
      BY <1>4 DEF CreateStore
    <2> QED
      BY <2>1, PassingStepCounts
  <1>5. CASE Load(w, "create load", "create add") \/ Load(w, "remove load", "remove add")
    <2>1. CASE Load(w, "create load", "create add")
      BY <2>1, LoadCounts
    <2>2. CASE Load(w, "remove load", "remove add")
      BY <2>2, LoadCounts
    <2> QED
      BY <1>5, <2>1, <2>2
  <1>6. CASE RemoveCheck(w)
    <2>0. UNCHANGED <<loaded, current_boxes, handles>>
      BY <1>6 DEF RemoveCheck
    <2>1. Goes(w, "remove", "remove shift") \/ pc' = pc
      BY <1>6 DEF RemoveCheck, GoesOrExits, Ends
    <2> QED
      BY <2>0, <2>1, PassingStepCounts, UncountedStep
  <1>7. CASE RemoveShift(w)
    <2>0. UNCHANGED <<loaded, current_boxes, handles>>
      BY <1>7 DEF RemoveShift
    <2>1. Goes(w, "remove shift", "remove unlink") \/ pc' = pc
      BY <1>7 DEF RemoveShift, Ends
    <2> QED
      BY <2>0, <2>1, PassingStepCounts, UncountedStep
  <1>8. CASE RemoveUnlink(w)
    <2>0. UNCHANGED <<loaded, current_boxes, handles>>
      BY <1>8 DEF RemoveUnlink
    <2>1. Goes(w, "remove unlink", "remove load") \/ pc' = pc
      BY <1>8 DEF RemoveUnlink, GoesOrExits, Ends
    <2> QED
      BY <2>0, <2>1, PassingStepCounts, UncountedStep
  <1> QED
    BY <1>1, <1>2, <1>3, <1>4, <1>5, <1>6, <1>7, <1>8,
       CreateOpenCounts, CreateAddCounts, RemoveAddCounts
    DEF task_handler, Create, Remove

(* Every box is stored at a place below the number of open handles, which  *)
(* is at most MAX_OPEN_FILES, which is at most MAX_BOXES: however the      *)
(* workers race, the end of boxes is never passed.                         *)
THEOREM BoxesAreBounded == Spec => []BoxesFit
  <1>1. Init => AtMostCounted
    <2> SUFFICES ASSUME Init PROVE AtMostCounted
      OBVIOUS
    <2>1. handles = 0 /\ current_boxes = 0 /\ \A w \in Workers : loaded[w] = 0
      BY DEF Init
    <2>2. Storing = {}
      BY DEF Init, Storing, StoringSteps
    <2>3. Counted = 0
      BY <2>1, <2>2, FS_EmptySet DEF Counted
    <2> QED
      BY <2>1, <2>3 DEF AtMostCounted
  <1>2. TypeOK /\ AtMostCounted /\ [Next]_vars => AtMostCounted'
    <2> SUFFICES ASSUME TypeOK, AtMostCounted, [Next]_vars PROVE AtMostCounted'
      OBVIOUS
    <2>1. CASE Environment \/ Main \/ UNCHANGED vars
      <3>1. UNCHANGED <<pc, loaded, current_boxes, handles>>
        BY <2>1 DEF Environment, Main, vars, threads, table, tfs
      <3> QED
        BY <3>1, UncountedStep
    <2>2. ASSUME NEW w \in Workers, task_handler(w) PROVE AtMostCounted'
      BY <2>2, WorkerCounts
    <2> QED
      BY <2>1, <2>2 DEF Next
  <1>3. TypeOK /\ AtMostCounted => BoxesFit
    <2> SUFFICES ASSUME TypeOK, AtMostCounted, NEW w \in Workers, pc[w] = "create store"
                 PROVE  current_boxes < handles
      BY DEF BoxesFit
    <2>1. w \in Storing
      BY DEF Storing, StoringSteps
    <2>2. Cardinality(Storing) # 0
      BY <2>1, StoringFinite, FS_EmptySet
    <2>3. Cardinality(Storing) \in Nat
      BY StoringFinite
    <2>4. handles \in Int /\ current_boxes \in Int
      BY CountTypes
    <2>5. current_boxes <= handles - Cardinality(Storing)
      BY DEF AtMostCounted, Counted
    <2> QED
      BY <2>2, <2>3, <2>4, <2>5, LessWithout
  <1> QED
    BY <1>1, <1>2, <1>3, TypeCorrect, PTL DEF Spec

-----------------------------------------------------------------------------
(* Nor is a box stored far before boxes                                    *)

RemovingSteps == {"remove load", "remove add"}
Removing == {w \in Workers : pc[w] \in RemovingSteps}

(* The removals that have been counted: each unlinked a file, and each     *)
(* file took a handle of its own to create.                                *)
Discounted == handles - Cardinality(files) - Cardinality(Removing)

(* current_boxes, and each value of it that a worker holds, is at least    *)
(* minus the number of decrements there were.                              *)
AtLeastDiscounted ==
    status = "running" =>
        /\ Discounted >= 0
        /\ current_boxes + Discounted >= 0
        /\ \A w \in Workers : loaded[w] + Discounted >= 0

(* Of a program that has ended only this is known: its last step may have  *)
(* made a file without a handle.                                           *)
Strays == current_boxes + handles >= 0

LEMMA RemovingFinite ==
    ASSUME TypeOK
    PROVE  /\ IsFiniteSet(Removing) /\ Cardinality(Removing) \in Nat
           /\ Discounted \in Int
  <1>1. Removing \in SUBSET Workers
    BY DEF Removing
  <1>2. IsFiniteSet(Removing) /\ Cardinality(Removing) \in Nat
    BY <1>1, BrokerAssumption, FS_Subset, FS_CardinalityType
  <1>3. handles \in Int /\ Cardinality(files) \in Int
    BY CountTypes, Finite
  <1> QED
    BY <1>2, <1>3 DEF Discounted

LEMMA NextFinite ==
    ASSUME TypeOK'
    PROVE  /\ Cardinality(files') \in Nat /\ Cardinality(Removing') \in Nat
           /\ handles' \in Int /\ current_boxes' \in Int /\ Discounted' \in Int
  <1>1. Removing' \in SUBSET Workers /\ files' \in SUBSET Name
    BY DEF Removing, TypeOK
  <1>2. Cardinality(files') \in Nat /\ Cardinality(Removing') \in Nat
    BY <1>1, BrokerAssumption, FS_Subset, FS_CardinalityType
  <1>3. handles' \in Int /\ current_boxes' \in Int
    BY BrokerAssumption DEF TypeOK
  <1> QED
    BY <1>2, <1>3 DEF Discounted

LEMMA OnlyMore ==
    ASSUME NEW c \in Int, NEW d \in Int, NEW e \in Int, c + d >= 0, e >= d
    PROVE  c + e >= 0
  OBVIOUS

LEMMA NothingAdded ==
    ASSUME NEW d \in Int, d >= 0
    PROVE  0 + d >= 0
  OBVIOUS

(* What a worker holds was loaded, was held before, or is nothing.         *)
LEMMA DiscountedStep ==
    ASSUME TypeOK, TypeOK', AtLeastDiscounted, status = "running", Discounted' >= Discounted,
           current_boxes' + Discounted' >= 0,
           \A w \in Workers : loaded'[w] \in {0, loaded[w], current_boxes}
    PROVE  AtLeastDiscounted'
  <1>1. Discounted \in Int /\ Discounted' \in Int /\ Discounted >= 0 /\ Discounted' >= 0
    <2>1. Discounted \in Int /\ Discounted' \in Int
      BY RemovingFinite, NextFinite
    <2> QED
      BY <2>1 DEF AtLeastDiscounted
  <1>2. current_boxes \in Int /\ current_boxes + Discounted' >= 0
    BY <1>1, CountTypes, OnlyMore DEF AtLeastDiscounted
  <1>3. ASSUME NEW w \in Workers PROVE loaded'[w] + Discounted' >= 0
    <2>1. loaded[w] \in Int /\ loaded[w] + Discounted' >= 0
      BY <1>1, CountTypes, OnlyMore DEF AtLeastDiscounted
    <2>2. CASE loaded'[w] = 0
      BY <1>1, <2>2, NothingAdded
    <2>3. CASE loaded'[w] = loaded[w]
      BY <2>1, <2>3
    <2>4. CASE loaded'[w] = current_boxes
      BY <1>2, <2>4
    <2> QED
      BY <2>2, <2>3, <2>4
  <1> QED
    BY <1>1, <1>3 DEF AtLeastDiscounted

(* A step that touches neither files nor handles, by a worker that neither *)
(* starts nor ends a removal.                                              *)
LEMMA PassingStepStrays ==
    ASSUME TypeOK, TypeOK', AtLeastDiscounted, status = "running",
           NEW w \in Workers, NEW from, NEW to, Goes(w, from, to),
           from \in RemovingSteps <=> to \in RemovingSteps,
           UNCHANGED <<current_boxes, files, handles>>,
           \A v \in Workers : loaded'[v] \in {0, loaded[v], current_boxes}
    PROVE  AtLeastDiscounted'
  <1>1. pc[w] = from /\ pc'[w] = to /\ \A v \in Workers \ {w} : pc'[v] = pc[v]
    BY HoldersAfter
  <1>2. Removing' = Removing
    BY <1>1 DEF Removing
  <1>3. Discounted' = Discounted
    BY <1>2 DEF Discounted
  <1>4. Discounted \in Int
    BY RemovingFinite
  <1>5. Discounted' >= Discounted /\ current_boxes' + Discounted' >= 0
    BY <1>3, <1>4 DEF AtLeastDiscounted
  <1> QED
    BY <1>5, DiscountedStep

LEMMA UnchangedStrays ==
    ASSUME AtLeastDiscounted, status = "running",
           UNCHANGED <<pc, loaded, current_boxes, files, handles>>
    PROVE  AtLeastDiscounted'
  BY DEF AtLeastDiscounted, Discounted, Removing

LEMMA CreateOpenStrays ==
    ASSUME TypeOK, TypeOK', AtLeastDiscounted, status = "running", status' = "running",
           NEW w \in Workers, CreateOpen(w)
    PROVE  AtLeastDiscounted'
  <1> DEFINE x == task_op.box_name
  <1>1. /\ Goes(w, "create open", "create store") /\ files' = files \cup {x}
        /\ handles' = handles + 1 /\ UNCHANGED <<loaded, current_boxes>>
    BY DEF CreateOpen, GoesOrExits, Ends, Stops, table
  <1>2. /\ pc[w] = "create open" /\ pc'[w] = "create store"
        /\ \A v \in Workers \ {w} : pc'[v] = pc[v]
    BY <1>1, HoldersAfter
  <1>3. Removing' = Removing
    BY <1>2 DEF Removing, RemovingSteps
  <1>4. Cardinality(files') = IF x \in files THEN Cardinality(files) ELSE Cardinality(files) + 1
    BY <1>1, Finite, FS_AddElement
  <1>5. /\ Cardinality(files) \in Int /\ Cardinality(Removing) \in Int
        /\ handles \in Int /\ current_boxes \in Int /\ Discounted \in Int
    BY CountTypes, Finite, RemovingFinite
  <1>6. Cardinality(files') <= Cardinality(files) + 1 /\ Cardinality(files') \in Int
    BY <1>4, <1>5
  <1>h. handles' = handles + 1
    BY <1>1
  <1>7. Discounted' >= Discounted /\ Discounted' \in Int
    BY <1>h, <1>3, <1>5, <1>6 DEF Discounted
  <1>8. current_boxes' + Discounted' >= 0
    BY <1>1, <1>5, <1>7, OnlyMore DEF AtLeastDiscounted
  <1> QED
    BY <1>1, <1>7, <1>8, DiscountedStep

(* A file less, and a removal more that is yet to be counted.              *)
LEMMA RemoveUnlinkStrays ==
    ASSUME TypeOK, TypeOK', AtLeastDiscounted, status = "running", status' = "running",
           NEW w \in Workers, RemoveUnlink(w)
    PROVE  AtLeastDiscounted'
  <1> DEFINE x == task_op.box_name
  <1>1. /\ Goes(w, "remove unlink", "remove load") /\ x \in files /\ files' = files \ {x}
        /\ handles' = handles /\ UNCHANGED <<loaded, current_boxes>>
    BY DEF RemoveUnlink, GoesOrExits, Ends, Stops, table
  <1>2. /\ pc[w] = "remove unlink" /\ pc'[w] = "remove load"
        /\ \A v \in Workers \ {w} : pc'[v] = pc[v]
    BY <1>1, HoldersAfter
  <1>3. w \notin Removing /\ Removing' = Removing \cup {w}
    BY <1>2 DEF Removing, RemovingSteps
  <1>4. Cardinality(Removing') = Cardinality(Removing) + 1
    BY <1>3, RemovingFinite, FS_AddElement
  <1>5. Cardinality(files') = Cardinality(files) - 1
    BY <1>1, Finite, FS_RemoveElement
  <1>6. /\ Cardinality(files) \in Int /\ Cardinality(Removing) \in Int
        /\ handles \in Int /\ Discounted \in Int
    BY CountTypes, Finite, RemovingFinite
  <1>h. handles' = handles
    BY <1>1
  <1>7. Discounted' = Discounted
    BY <1>h, <1>4, <1>5, <1>6 DEF Discounted
  <1>c. current_boxes' = current_boxes
    BY <1>1
  <1>8. Discounted' >= Discounted /\ current_boxes' + Discounted' >= 0
    BY <1>c, <1>6, <1>7 DEF AtLeastDiscounted
  <1> QED
    BY <1>1, <1>8, DiscountedStep

LEMMA CreateAddStrays ==
    ASSUME TypeOK, TypeOK', AtLeastDiscounted, status = "running",
           NEW w \in Workers, CreateAdd(w)
    PROVE  AtLeastDiscounted'
  <1>1. /\ Goes(w, "create add", "remove") /\ UNCHANGED <<files, handles>>
        /\ current_boxes' = loaded[w] + 1 /\ loaded' = [loaded EXCEPT ![w] = 0]
    BY DEF CreateAdd, AddTo, tfs
  <1>2. /\ pc[w] = "create add" /\ pc'[w] = "remove"
        /\ \A v \in Workers \ {w} : pc'[v] = pc[v]
    BY <1>1, HoldersAfter
  <1>3. Removing' = Removing
    BY <1>2 DEF Removing, RemovingSteps
  <1>4. Discounted' = Discounted
    BY <1>1, <1>3 DEF Discounted
  <1>5. Discounted \in Int /\ loaded[w] \in Int /\ loaded[w] + Discounted >= 0
    BY RemovingFinite, CountTypes DEF AtLeastDiscounted
  <1>a. current_boxes' = loaded[w] + 1
    BY <1>1
  <1>6. Discounted' >= Discounted /\ current_boxes' + Discounted' >= 0
    BY <1>a, <1>4, <1>5
  <1>7. \A v \in Workers : loaded'[v] \in {0, loaded[v], current_boxes}
    BY <1>1 DEF TypeOK
  <1> QED
    BY <1>6, <1>7, DiscountedStep

LEMMA OneOff ==
    ASSUME NEW h \in Int, NEW f \in Nat, NEW r \in Nat
    PROVE  h - f - (r - 1) = (h - f - r) + 1
  OBVIOUS

(* The removal is counted.                                                 *)
LEMMA DecrementDiscounts ==
    ASSUME TypeOK, NEW w \in Workers,
           Goes(w, "remove add", "dequeue"), files' = files, handles' = handles
    PROVE  Discounted' = Discounted + 1
  <1>1. /\ pc[w] = "remove add" /\ pc'[w] = "dequeue"
        /\ \A v \in Workers \ {w} : pc'[v] = pc[v]
    BY HoldersAfter
  <1>2. w \in Removing /\ Removing' = Removing \ {w}
    BY <1>1 DEF Removing, RemovingSteps
  <1>3. Cardinality(Removing') = Cardinality(Removing) - 1
    BY <1>2, RemovingFinite, FS_RemoveElement
  <1>4. Cardinality(files) \in Nat /\ Cardinality(Removing) \in Nat /\ handles \in Int
    BY CountTypes, Finite, RemovingFinite
  <1> QED
    BY <1>3, <1>4, OneOff DEF Discounted

LEMMA EvenedOut ==
    ASSUME NEW c \in Int, NEW d \in Int, c + d >= 0
    PROVE  d + 1 >= d /\ (c + -1) + (d + 1) >= 0
  OBVIOUS

LEMMA RemoveAddStrays ==
    ASSUME TypeOK, TypeOK', AtLeastDiscounted, status = "running",
           NEW w \in Workers, AddTo(w, "remove add", "dequeue", -1)
    PROVE  AtLeastDiscounted'
  <1>1. /\ Goes(w, "remove add", "dequeue") /\ UNCHANGED <<files, handles>>
        /\ current_boxes' = loaded[w] + -1 /\ loaded' = [loaded EXCEPT ![w] = 0]
    BY DEF AddTo, tfs
  <1>2. Discounted' = Discounted + 1
    BY <1>1, DecrementDiscounts
  <1>3. loaded[w] \in Int /\ Discounted \in Int
    BY CountTypes, RemovingFinite
  <1>4. loaded[w] + Discounted >= 0
    BY DEF AtLeastDiscounted
  <1>5. Discounted' >= Discounted /\ current_boxes' + Discounted' >= 0
    BY <1>1, <1>2, <1>3, <1>4, EvenedOut
  <1>6. \A v \in Workers : loaded'[v] \in {0, loaded[v], current_boxes}
    BY <1>1 DEF TypeOK
  <1> QED
    BY <1>5, <1>6, DiscountedStep

LEMMA LoadStrays ==
    ASSUME TypeOK, TypeOK', AtLeastDiscounted, status = "running",
           NEW w \in Workers, NEW from, NEW to, Load(w, from, to),
           from \in RemovingSteps <=> to \in RemovingSteps
    PROVE  AtLeastDiscounted'
  <1>1. /\ Goes(w, from, to) /\ UNCHANGED <<current_boxes, files, handles>>
        /\ loaded' = [loaded EXCEPT ![w] = current_boxes]
    BY DEF Load, table, tfs
  <1>2. \A v \in Workers : loaded'[v] \in {0, loaded[v], current_boxes}
    BY <1>1 DEF TypeOK
  <1> QED
    BY <1>1, <1>2, PassingStepStrays

LEMMA WorkerStrays ==
    ASSUME TypeOK, TypeOK', AtLeastDiscounted, status = "running", status' = "running",
           NEW w \in Workers, task_handler(w)
    PROVE  AtLeastDiscounted'
  <1> DEFINE Same == UNCHANGED <<loaded, current_boxes, files, handles>>
  <1> USE DEF RemovingSteps, table, tfs
  <1>0. Same => \A v \in Workers : loaded'[v] \in {0, loaded[v], current_boxes}
    OBVIOUS
  <1>1. CASE Dequeue(w)
    <2>1. Goes(w, "dequeue", "switch") /\ Same
      BY <1>1 DEF Dequeue
    <2> QED
      BY <1>0, <2>1, PassingStepStrays
  <1>2. CASE Handle(w)
    <2>1. Same
      BY <1>2 DEF Handle
    <2>2. PICK to \in {"create", "remove", "dequeue"} : Goes(w, "switch", to)
      BY <1>2 DEF Handle, GoesOrExits, Ends, Stops
    <2> QED
      BY <1>0, <2>1, <2>2, PassingStepStrays
  <1>3. CASE CreateCheck(w)
    <2>1. Goes(w, "create", "create open") /\ Same
      BY <1>3 DEF CreateCheck, Ends, Stops
    <2> QED
      BY <1>0, <2>1, PassingStepStrays
  <1>4. CASE CreateStore(w)
    <2>1. Goes(w, "create store", "create load") /\ Same
      BY <1>4 DEF CreateStore
    <2> QED
      BY <1>0, <2>1, PassingStepStrays
  <1>5. CASE Load(w, "create load", "create add")
    BY <1>5, LoadStrays
  <1>6. CASE Load(w, "remove load", "remove add")
    BY <1>6, LoadStrays
  <1>7. CASE RemoveCheck(w)
    <2>1. Goes(w, "remove", "remove shift") /\ Same
      BY <1>7 DEF RemoveCheck, GoesOrExits, Ends, Stops
    <2> QED
      BY <1>0, <2>1, PassingStepStrays
  <1>8. CASE RemoveShift(w)
    <2>1. Goes(w, "remove shift", "remove unlink") /\ Same
      BY <1>8 DEF RemoveShift, Ends, Stops
    <2> QED
      BY <1>0, <2>1, PassingStepStrays
  <1> QED
    BY <1>1, <1>2, <1>3, <1>4, <1>5, <1>6, <1>7, <1>8,
       CreateOpenStrays, RemoveUnlinkStrays, CreateAddStrays, RemoveAddStrays
    DEF task_handler, Create, Remove

(* A step that ends the program moves neither count.                       *)
LEMMA LastStep ==
    ASSUME NEW w \in Workers, task_handler(w), status' # status
    PROVE  UNCHANGED <<current_boxes, handles>>
  BY DEF task_handler, Dequeue, Handle, Create, Remove, CreateCheck, CreateOpen, CreateStore,
         CreateAdd, Load, AddTo, RemoveCheck, RemoveShift, RemoveUnlink, GoesOrExits,
         table, tfs

LEMMA RunningStrays ==
    ASSUME TypeOK', AtLeastDiscounted', status' = "running"
    PROVE  Strays'
  <1>1. current_boxes' + (handles' - Cardinality(files') - Cardinality(Removing')) >= 0
    BY DEF AtLeastDiscounted, Discounted
  <1> QED
    BY <1>1, NextFinite DEF Strays

LEMMA MinusHandles ==
    ASSUME NEW c \in Int, NEW h \in Int, c + h >= 0
    PROVE  -h <= c
  OBVIOUS

(* AtLeastDiscounted as long as the broker runs, Strays to its last step.  *)
LEMMA StraysInvariance == Spec => [](AtLeastDiscounted /\ Strays)
  <1>1. Init => AtLeastDiscounted /\ Strays
    <2> SUFFICES ASSUME Init PROVE AtLeastDiscounted /\ Strays
      OBVIOUS
    <2>1. handles = 0 /\ current_boxes = 0 /\ files = {} /\ \A w \in Workers : loaded[w] = 0
      BY DEF Init
    <2>2. Removing = {}
      BY DEF Init, Removing, RemovingSteps
    <2>3. Discounted = 0
      BY <2>1, <2>2, FS_EmptySet DEF Discounted
    <2> QED
      BY <2>1, <2>3 DEF AtLeastDiscounted, Strays
  <1>2. TypeOK /\ TypeOK' /\ AtLeastDiscounted /\ Strays /\ [Next]_vars
            => (AtLeastDiscounted /\ Strays)'
    <2> SUFFICES ASSUME TypeOK, TypeOK', AtLeastDiscounted, Strays, [Next]_vars
                 PROVE  AtLeastDiscounted' /\ Strays'
      OBVIOUS
    <2>1. CASE UNCHANGED vars
      BY <2>1 DEF vars, threads, table, tfs, AtLeastDiscounted, Discounted, Removing, Strays
    <2>2. CASE Next /\ status' = "running"
      <3>0. status = "running"
        BY <2>2 DEF Next
      <3>1. CASE Environment \/ Main
        <4>1. UNCHANGED <<pc, loaded, current_boxes, files, handles>>
          BY <3>1 DEF Environment, Main, threads, table, tfs
        <4>2. AtLeastDiscounted'
          BY <3>0, <4>1, UnchangedStrays
        <4> QED
          BY <4>1, <4>2 DEF Strays
      <3>2. ASSUME NEW w \in Workers, task_handler(w) PROVE AtLeastDiscounted' /\ Strays'
        <4>1. AtLeastDiscounted'
          BY <2>2, <3>0, <3>2, WorkerStrays
        <4> QED
          BY <2>2, <4>1, RunningStrays
      <3> QED
        BY <2>2, <3>1, <3>2 DEF Next
    <2>3. CASE Next /\ status' # "running"
      <3>1. AtLeastDiscounted'
        BY <2>3 DEF AtLeastDiscounted
      <3>2. UNCHANGED <<current_boxes, handles>>
        BY <2>3, LastStep DEF Next, Environment, Main, table, tfs
      <3> QED
        BY <3>1, <3>2 DEF Strays
    <2> QED
      BY <2>1, <2>2, <2>3
  <1> QED
    BY <1>1, <1>2, TypeCorrect, PTL DEF Spec

(* However the workers race, current_boxes is at least minus the number of *)
(* open handles when a box is stored: as far before boxes, at most, as     *)
(* the open file table is long.                                            *)
THEOREM BoxesStrayLittle == Spec => []StraysLittle
  <1>1. TypeOK /\ Strays => StraysLittle
    BY CountTypes, MinusHandles DEF Strays, StraysLittle
  <1> QED
    BY <1>1, StraysInvariance, TypeCorrect, PTL

-----------------------------------------------------------------------------
(* What the broker takes TecnicoFS to be                                   *)

(* The abstract module counts as this one does.                            *)
LEMMA SameCardinality ==
    ASSUME NEW S
    PROVE  FS!Cardinality(S) = Cardinality(S)
  BY DEF Cardinality, FS!Cardinality

(* Each file took a handle that is still open.                             *)
LEMMA FilesHaveHandles ==
    ASSUME TypeOK, AtLeastDiscounted, status = "running"
    PROVE  Cardinality(files) < MAX_OPEN_FILES + 1
  <1>1. handles - Cardinality(files) - Cardinality(Removing) >= 0
    BY DEF AtLeastDiscounted, Discounted
  <1>2. Cardinality(Removing) \in Nat /\ Cardinality(files) \in Nat
    BY RemovingFinite, Finite
  <1>3. handles \in Int /\ MAX_OPEN_FILES \in Int /\ handles <= MAX_OPEN_FILES
    BY BrokerAssumption DEF TypeOK
  <1> QED
    BY <1>1, <1>2, <1>3

LEMMA WorkerUses ==
    ASSUME TypeOK, AtLeastDiscounted, status = "running", NEW w \in Workers, task_handler(w)
    PROVE  FS!Next \/ UNCHANGED FS!vars
  <1> DEFINE x == task_op.box_name
  <1>0. x \in Name \cup {BadName}
    BY DEF TypeOK, Tasks
  <1>1. CASE CreateOpen(w) /\ x # BadName
    <2>1. /\ x \in Name
          /\ files' = files \cup {x}
          /\ handles' = IF handles < MAX_OPEN_FILES THEN handles + 1 ELSE handles
      BY <1>0, <1>1 DEF CreateOpen
    <2>2. FS!Cardinality(files) < MAX_OPEN_FILES + 1
      BY FilesHaveHandles, SameCardinality
    <2>3. FS!Open(x)
      BY <2>1, <2>2 DEF FS!Open
    <2> QED
      BY <2>1, <2>3 DEF FS!Next
  <1>2. CASE CreateOpen(w) /\ x = BadName
    BY <1>2 DEF CreateOpen, FS!vars
  <1>3. CASE RemoveUnlink(w) /\ x \in files
    <2>1. x \in Name /\ files' = files \ {x} /\ handles' = handles
      BY <1>3 DEF RemoveUnlink, TypeOK
    <2>2. FS!Unlink(x)
      BY <1>3, <2>1 DEF FS!Unlink
    <2> QED
      BY <2>1, <2>2 DEF FS!Next
  <1>4. CASE RemoveUnlink(w) /\ x \notin files
    BY <1>4 DEF RemoveUnlink, FS!vars
  <1>5. \/ CreateOpen(w) \/ RemoveUnlink(w)
        \/ UNCHANGED tfs
    BY DEF task_handler, Dequeue, Handle, Create, Remove, CreateCheck, CreateStore, CreateAdd,
           Load, AddTo, RemoveCheck, RemoveShift
  <1>6. UNCHANGED tfs => UNCHANGED FS!vars
    BY DEF tfs, FS!vars
  <1> QED
    BY <1>1, <1>2, <1>3, <1>4, <1>5, <1>6

(* Whatever is requested and however the workers race, the files and the   *)
(* handles of the broker are a Catalogue with room for one file more than  *)
(* there are handles.                                                      *)
THEOREM FileSystemUse == Spec => UsesCatalogue
  <1>1. Init => FS!Init
    BY DEF Init, FS!Init
  <1>2. TypeOK /\ AtLeastDiscounted /\ [Next]_vars => [FS!Next]_(FS!vars)
    <2> SUFFICES ASSUME TypeOK, AtLeastDiscounted, [Next]_vars
                 PROVE  FS!Next \/ UNCHANGED FS!vars
      OBVIOUS
    <2>1. CASE UNCHANGED vars
      BY <2>1 DEF vars, tfs, FS!vars
    <2>2. CASE Environment \/ Main
      BY <2>2 DEF Environment, Main, tfs, FS!vars
    <2> QED
      BY <2>1, <2>2, WorkerUses DEF Next
  <1> QED
    BY <1>1, <1>2, TypeCorrect, StraysInvariance, PTL DEF Spec, UsesCatalogue, FS!Spec
=============================================================================
