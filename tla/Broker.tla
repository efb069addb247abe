------------------------------- MODULE Broker -------------------------------
(***************************************************************************)
(* The broker process of mbroker/mbroker.c: the main thread that reads     *)
(* requests from the server's pipe, and the workers that handle them.      *)
(*                                                                         *)
(* One local variable of main, task_op, holds every request: what is       *)
(* queued is its address, again and again.  A box keeps that address too,  *)
(* as its box_name, so that every name in boxes is the name in task_op, or *)
(* null where no box was ever stored.                                      *)
(*                                                                         *)
(* string_to_task leaves pipe_path empty, so that no handler ever opens a  *)
(* client's pipe: what they would do with one is not here.                 *)
(***************************************************************************)
EXTENDS Integers, FiniteSets

CONSTANTS Workers,          \* the threads of initialize_threads
          Name,             \* the box names TecnicoFS takes: they start with '/'
          BadName,          \* one that it refuses
          Requests,         \* what is written to the server's pipe
          MAX_QUEUE_SIZE,
          MAX_BOXES,
          MAX_OPEN_FILES,   \* of TecnicoFS
          MaxWriters,       \* bound: the writers that have the pipe open at once
          MaxWrites         \* bound: the requests in the pipe at once

(* The codes of lib.h: those main queues, a publisher's and a subscriber's *)
(* LOGIN as one, and those that only string_to_task takes, the responses,  *)
(* WRITE and READ, as one.  Digit is the character a client's request      *)
(* starts with.                                                            *)
Queued     == {"LOGIN", "CREATE_BOX", "LIST", "REMOVE_BOX"}
Understood == Queued \cup {"OTHER"}
Digit      == "digit"
NoText     == "no text"

Codes == Understood \cup {Digit}
Tasks == [opcode : Codes, box_name : Name \cup {BadName}]

ASSUME BrokerAssumption ==
    /\ IsFiniteSet(Workers)
    /\ IsFiniteSet(Name)
    /\ BadName \notin Name
    /\ Requests \subseteq [opcode : Codes \cup {NoText}, box_name : Name \cup {BadName}]
    /\ MAX_QUEUE_SIZE \in Nat \ {0}
    /\ MAX_OPEN_FILES \in Nat /\ MAX_BOXES \in Nat
    /\ MAX_OPEN_FILES <= MAX_BOXES

VARIABLES writers, pipe,    \* the server's pipe: its writers, how many requests are in it
          main,             \* where main is
          request,          \* main's buffer
          heard,            \* history: a request was read into it
          builder, left,    \* what string_to_task returned; its fields not yet in task_op
          task_op,
          queued,           \* the number of pointers in task_queue
          pc, loaded,       \* where each worker is; the current_boxes it has loaded
          current_boxes,
          boxes,            \* the places of boxes that have a box_name
          files, handles,   \* TecnicoFS: the files, the number of open handles
          status            \* "running", "exited" or "undefined"

fifo    == <<writers, pipe>>
buffer  == <<request, heard>>
locals  == <<main, buffer, builder, left, task_op>>
threads == <<pc, loaded>>
tfs     == <<files, handles>>
table   == <<current_boxes, boxes>>
vars    == <<fifo, locals, queued, threads, table, tfs, status>>

(* request is not initialized; builder and task_op are not read before     *)
(* they are assigned, so that what they hold does not matter.              *)
Init ==
    /\ writers = 0 /\ pipe = 0
    /\ main = "open"
    /\ request \in Requests /\ heard = FALSE
    /\ builder = [opcode |-> Digit, box_name |-> BadName]
    /\ left = {}
    /\ task_op = builder
    /\ queued = 0
    /\ pc = [w \in Workers |-> "dequeue"]
    /\ loaded = [w \in Workers |-> 0]
    /\ current_boxes = 0 /\ boxes = {}
    /\ files = {} /\ handles = 0
    /\ status = "running"

-----------------------------------------------------------------------------
(* Other processes write to the server's pipe, each request at once, the   *)
(* way the clients do.  What they wrote is only chosen when main reads it. *)

(* The first writer's open lets main's open return.                        *)
WriterOpens ==
    /\ writers < MaxWriters
    /\ writers' = writers + 1
    /\ main' = IF main = "open" THEN "read" ELSE main
    /\ UNCHANGED <<pipe, buffer, builder, left, task_op>>

WriterWrites ==
    /\ writers > 0 /\ pipe < MaxWrites
    /\ pipe' = pipe + 1
    /\ UNCHANGED <<writers, locals>>

WriterCloses ==
    /\ writers > 0
    /\ writers' = writers - 1
    /\ UNCHANGED <<pipe, locals>>

Environment ==
    /\ WriterOpens \/ WriterWrites \/ WriterCloses
    /\ UNCHANGED <<queued, threads, table, tfs, status>>

-----------------------------------------------------------------------------
(* main                                                                    *)

MainStep(from, to) == main = from /\ main' = to

Stops(how) == status' = how

(* read returns 0 once every writer has closed the pipe, and main takes it *)
(* for a request: the buffer still holds the last one.                     *)
ReadEnd ==
    /\ pipe = 0 /\ writers = 0
    /\ MainStep("read", "decode")
    /\ UNCHANGED <<fifo, buffer, status>>

ReadRequest ==
    /\ pipe = 1
    /\ MainStep("read", "decode")
    /\ request' \in Requests /\ heard' = TRUE
    /\ pipe' = 0
    /\ UNCHANGED <<writers, status>>

(* The count that read is given is sizeof(task), more than the buffer has: *)
(* a second request that is already in the pipe is written past its end,   *)
(* and so is the rest of a subscriber's, which is that long.               *)
ReadOverflows ==
    /\ pipe > 0
    /\ MainStep("read", "decode")
    /\ Stops("undefined")
    /\ UNCHANGED <<fifo, buffer>>

Read ==
    /\ ReadEnd \/ ReadRequest \/ ReadOverflows
    /\ UNCHANGED <<builder, left, task_op, queued>>

(* string_to_task.  sscanf's %s stores the text of the request from opcode *)
(* on: its first character is the opcode, the others are the box_name; and *)
(* no pipe_path is ever found.  Of a request without text nothing is       *)
(* stored, and opcode is as the stack had it.                              *)
OpcodesOf(r) == IF r.opcode = NoText THEN Codes ELSE {r.opcode}
NameOf(r)    == IF r.opcode = NoText THEN BadName ELSE r.box_name

Decode ==
    /\ MainStep("decode", "store")
    /\ \E code \in OpcodesOf(request) :
         /\ builder' = [opcode |-> code, box_name |-> NameOf(request)]
         /\ IF code \in Understood THEN UNCHANGED status ELSE Stops("exited")
    /\ left' = {"opcode", "box_name"}
    /\ UNCHANGED <<fifo, buffer, task_op, queued>>

(* task_op = string_to_task(request), while workers may be reading it.     *)
Store ==
    /\ main = "store"
    /\ \E f \in left :
         /\ task_op' = [task_op EXCEPT ![f] = builder[f]]
         /\ left' = left \ {f}
         /\ main' = IF left = {f} THEN "switch" ELSE main
    /\ UNCHANGED <<fifo, buffer, builder, queued, status>>

(* The switch.  queued goes up and down as in StickingQueue, which         *)
(* ProducerConsumer is shown to be: a pcq_enqueue call that finds the      *)
(* queue full never returns, and stops every pcq_dequeue.                  *)
Ignore ==
    /\ task_op.opcode \notin Queued
    /\ MainStep("switch", "read")
    /\ UNCHANGED queued

(* Mutant: the test for a full queue is off by one.                        *)
EnqueueOffByOne ==
    /\ task_op.opcode \in Queued
    /\ IF queued <= MAX_QUEUE_SIZE
       THEN MainStep("switch", "read") /\ queued' = queued + 1
       ELSE MainStep("switch", "stuck") /\ UNCHANGED queued

Enqueue ==
    /\ task_op.opcode \in Queued
    /\ IF queued < MAX_QUEUE_SIZE
       THEN MainStep("switch", "read") /\ queued' = queued + 1
       ELSE MainStep("switch", "stuck") /\ UNCHANGED queued

Switch ==
    /\ Ignore \/ Enqueue
    /\ UNCHANGED <<fifo, buffer, builder, left, task_op, status>>

Main ==
    /\ Read \/ Decode \/ Store \/ Switch
    /\ UNCHANGED <<threads, table, tfs>>

-----------------------------------------------------------------------------
(* task_handler, and the handlers it calls                                 *)

Goes(w, from, to) == pc[w] = from /\ pc' = [pc EXCEPT ![w] = to]

Ends(w, at, how) == pc[w] = at /\ UNCHANGED pc /\ Stops(how)

GoesOrExits(w, from, ok, to) ==
    \/ ok /\ Goes(w, from, to) /\ UNCHANGED status
    \/ ~ok /\ Ends(w, from, "exited")

Dequeue(w) ==
    /\ queued > 0 /\ main # "stuck"
    /\ queued' = queued - 1
    /\ Goes(w, "dequeue", "switch")
    /\ UNCHANGED <<loaded, table, tfs, status>>

(* pub_connect_request and sub_connect_request open pipe_path, which is    *)
(* empty, and exit.  LIST has no case, nor has what main may have put in   *)
(* task_op since.                                                          *)
Handle(w) ==
    /\ LET op == task_op.opcode
       IN  GoesOrExits(w, "switch", op # "LOGIN",
                       CASE op = "CREATE_BOX" -> "create"
                         [] op = "REMOVE_BOX" -> "remove"
                         [] OTHER             -> "dequeue")
    /\ UNCHANGED <<queued, loaded, table, tfs>>

(* The loops of box_create_request and box_remove_request compare the name *)
(* in task_op with the first box: with itself, or with null, which ends    *)
(* the program.                                                            *)
Named == 0 \in boxes

(* box_create_request takes the box to exist already; the answer it then   *)
(* writes to a pipe that is not open fails, and it exits.                  *)
CreateCheck(w) ==
    /\ \/ current_boxes <= 0 /\ Goes(w, "create", "create open") /\ UNCHANGED status
       \/ current_boxes > 0 /\ Ends(w, "create", IF Named THEN "exited" ELSE "undefined")
    /\ UNCHANGED <<queued, loaded, table, tfs>>

(* Mutant: the handle is closed again.                                     *)
CreateCloses(w) ==
    /\ GoesOrExits(w, "create open", task_op.box_name # BadName, "create store")
    /\ files' = files \cup ({task_op.box_name} \ {BadName})
    /\ UNCHANGED <<queued, loaded, table, handles>>

(* tfs_open, whose handle is never closed; without a free handle it has    *)
(* created the file all the same.                                          *)
CreateOpen(w) ==
    /\ LET named == task_op.box_name # BadName
           room  == handles < MAX_OPEN_FILES
       IN  /\ GoesOrExits(w, "create open", named /\ room, "create store")
           /\ files' = IF named THEN files \cup {task_op.box_name} ELSE files
           /\ handles' = IF named /\ room THEN handles + 1 ELSE handles
    /\ UNCHANGED <<queued, loaded, table>>

(* boxes[current_boxes-1] and boxes[current_boxes] are assigned.  Outside  *)
(* the array that may end the program, or spoil something it never uses.   *)
Places == 0 .. MAX_BOXES - 1

CreateStore(w) ==
    /\ Goes(w, "create store", "create load")
    /\ boxes' = boxes \cup ({current_boxes} \cap Places)
    /\ \/ UNCHANGED status
       \/ ~({current_boxes - 1, current_boxes} \subseteq Places) /\ Stops("undefined")
    /\ UNCHANGED <<queued, loaded, current_boxes, tfs>>

(* current_boxes++ and current_boxes--, a load and a store.                *)
Load(w, from, to) ==
    /\ Goes(w, from, to)
    /\ loaded' = [loaded EXCEPT ![w] = current_boxes]
    /\ UNCHANGED <<queued, table, tfs, status>>

AddTo(w, from, to, n) ==
    /\ Goes(w, from, to)
    /\ current_boxes' = loaded[w] + n
    /\ loaded' = [loaded EXCEPT ![w] = 0]
    /\ UNCHANGED <<queued, boxes, tfs, status>>

(* Mutant: the case CREATE_BOX ends with a break.                          *)
CreateBreaks(w) == AddTo(w, "create add", "dequeue", 1)

(* After the case CREATE_BOX comes the case REMOVE_BOX: no break parts     *)
(* them, and the box just created is removed.                              *)
CreateAdd(w) == AddTo(w, "create add", "remove", 1)

(* box_remove_request: without boxes it answers, fails to, and exits.      *)
RemoveCheck(w) ==
    /\ GoesOrExits(w, "remove", current_boxes # 0, "remove shift")
    /\ UNCHANGED <<queued, loaded, table, tfs>>

(* The first box matches, and those after it move down.                    *)
RemoveShift(w) ==
    /\ \/ /\ current_boxes <= 0 \/ Named
          /\ Goes(w, "remove shift", "remove unlink")
          /\ boxes' = {i \in Places : (IF i < current_boxes - 1 THEN i + 1 ELSE i) \in boxes}
          /\ UNCHANGED status
       \/ /\ current_boxes > 0 /\ ~Named
          /\ Ends(w, "remove shift", "undefined")
          /\ UNCHANGED boxes
    /\ UNCHANGED <<queued, loaded, current_boxes, tfs>>

RemoveUnlink(w) ==
    /\ GoesOrExits(w, "remove unlink", task_op.box_name \in files, "remove load")
    /\ files' = files \ {task_op.box_name}
    /\ UNCHANGED <<queued, loaded, table, handles>>

Create(w) == \/ CreateCheck(w) \/ CreateOpen(w) \/ CreateStore(w)
             \/ Load(w, "create load", "create add") \/ CreateAdd(w)

Remove(w) == \/ RemoveCheck(w) \/ RemoveShift(w) \/ RemoveUnlink(w)
             \/ Load(w, "remove load", "remove add")
             \/ AddTo(w, "remove add", "dequeue", -1)

task_handler(w) ==
    /\ Dequeue(w) \/ Handle(w) \/ Create(w) \/ Remove(w)
    /\ UNCHANGED <<fifo, locals>>

-----------------------------------------------------------------------------
Next == /\ status = "running"
        /\ Environment \/ Main \/ \E w \in Workers : task_handler(w)

Spec == Init /\ [][Next]_vars

(* Every thread that can run eventually does; the writers owe nothing.     *)
Fairness == /\ WF_vars(status = "running" /\ Main)
            /\ \A w \in Workers : WF_vars(status = "running" /\ task_handler(w))

FairSpec == Spec /\ Fairness

-----------------------------------------------------------------------------
(* Properties                                                              *)

MainSteps   == {"open", "read", "decode", "store", "switch", "stuck"}
WorkerSteps == {"dequeue", "switch", "create", "create open", "create store", "create load",
                "create add", "remove", "remove shift", "remove unlink", "remove load", "remove add"}

TypeOK ==
    /\ writers \in Nat
    /\ pipe \in Nat
    /\ main \in MainSteps
    /\ request \in Requests /\ heard \in BOOLEAN
    /\ builder \in Tasks
    /\ left \subseteq {"opcode", "box_name"}
    /\ task_op \in Tasks
    /\ queued \in 0 .. MAX_QUEUE_SIZE
    /\ pc \in [Workers -> WorkerSteps]
    /\ loaded \in [Workers -> Int]
    /\ current_boxes \in Int
    /\ boxes \subseteq Places
    /\ files \subseteq Name
    /\ handles \in 0 .. MAX_OPEN_FILES
    /\ status \in {"running", "exited", "undefined"}

(* The workers between the creation of a file and the next removal of one. *)
HoldingSteps == {"create store", "create load", "create add",
                 "remove", "remove shift", "remove unlink"}

Holding(w) == pc[w] \in HoldingSteps

(* There are never more files than workers in the middle of a creation or  *)
(* a removal, whatever the requests and the races: none is left when all   *)
(* of them are back.  (The file of one request may well be removed by the  *)
(* worker that has another.)                                               *)
FilesAreHeld ==
    status = "running" => Cardinality(files) <= Cardinality({w \in Workers : Holding(w)})

(* The handles that creations leave open keep boxes from overflowing: each *)
(* store into it is below the number of handles, which MAX_OPEN_FILES      *)
(* bounds, however many updates of current_boxes are lost.                 *)
BoxesFit == \A w \in Workers : pc[w] = "create store" => current_boxes < handles

(* The count may fall below zero, and a box is then stored before boxes.   *)
(* It never falls further than creations were made, however the workers    *)
(* race: each removal that is counted has unlinked a file.                 *)
StraysLittle == \A w \in Workers : pc[w] = "create store" => -handles <= current_boxes

(* A creation takes a handle for ever, and so there are never more files   *)
(* than handles: one more, when the last creation gets none.               *)
FS == INSTANCE Catalogue
        WITH names <- files, open <- handles,
             MaxFiles <- MAX_OPEN_FILES + 1, MaxOpen <- MAX_OPEN_FILES

(* Files and handles are as TecnicoFS has them (IsCatalogue there), and no *)
(* more files are asked for than one for each handle and one more, which   *)
(* the inode table and the directory of the default parameters have room   *)
(* for.                                                                    *)
UsesCatalogue == FS!Spec

(* The pipe's end: once the last writer has gone after a request to create *)
(* a box, main repeats that request until the broker stops: the workers    *)
(* run out of handles, or the queue is full for ever.                      *)
RepeatsToTheEnd ==
    (writers = 0 /\ pipe = 0 /\ request.opcode = "CREATE_BOX" /\ main # "open")
        ~> (writers > 0 \/ status # "running" \/ main = "stuck")

(* Everyone waits: once main has found the queue full, the workers finish  *)
(* what they are at and then wait for ever in pcq_dequeue, though requests *)
(* are queued, and no box is left.  Or the broker stops in between.        *)
ComesToRest ==
    main = "stuck" ~>
        (status # "running" \/ [](files = {} /\ \A w \in Workers : pc[w] = "dequeue"))

(* lib.h:49, of opcode: "Type of task, deffined by the OP_CODE".  What     *)
(* string_to_task makes of a client's request that main has read.          *)
DecodesTheType ==
    heard /\ main = "store" /\ request.opcode = Digit => builder.opcode \in Understood

(* mbroker.c:168, "Check if the box already exists".                       *)
RefusesExistingOnly ==
    [][\A w \in Workers : CreateCheck(w) /\ status' = "exited" => task_op.box_name \in files]_vars
=============================================================================
