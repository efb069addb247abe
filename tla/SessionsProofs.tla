--------------------------- MODULE SessionsProofs ---------------------------
(***************************************************************************)
(* Proofs about Sessions, for any clients and pipes, any number of brokers *)
(* and a pipe of any size.                                                 *)
(***************************************************************************)
EXTENDS Sessions, TLAPS

LEMMA InitType == Init => TypeOK
  BY SessionsAssumption
  DEF Init, TypeOK, Writing, Clients, BrokerSteps, ClientSteps

-----------------------------------------------------------------------------
(* Type correctness                                                        *)

(* The types of the variables a step of one broker or one client leaves    *)
(* alone are those of the state before: one part for each of the variables *)
(* that belong together.                                                   *)
BrokersType ==
    /\ broker \in [Brokers -> BrokerSteps]
    /\ fd \in [Brokers -> Brokers \cup {None}]
    /\ \A b \in Brokers : broker[b] \in {"opening", "read", "decode"} => fd[b] # None
    /\ text \in [Brokers -> {"request", "anything"}]

ClientsType ==
    /\ client \in [Clients -> ClientSteps]
    /\ cfd \in [Clients -> Brokers \cup {None}]
    /\ \A c \in Writing : cfd[c] = None <=> client[c] \in {"off", "connect"}
    /\ \A c \in Managers : cfd[c] = None /\ client[c] \in {"off", "own", "unlink"}
    /\ made \subseteq Pipes
    /\ reached \subseteq Unmanaged

DataType ==
    /\ pending \in [Brokers -> 0 .. PIPE_SIZE]
    /\ torn \subseteq {f \in Brokers : pending[f] > 0}

LEMMA TypeParts ==
    TypeOK <=> path \in Brokers \cup {None} /\ BrokersType /\ ClientsType /\ DataType
  BY DEF TypeOK, BrokersType, ClientsType, DataType

LEMMA BrokersSame == BrokersType /\ UNCHANGED brokers => BrokersType'
  BY DEF BrokersType, brokers

LEMMA ClientsSame == ClientsType /\ UNCHANGED clients => ClientsType'
  BY DEF ClientsType, clients

LEMMA DataSame == DataType /\ UNCHANGED data => DataType'
  BY DEF DataType, data

(* Closing an end of a pipe.                                               *)
LEMMA AbandonsType ==
    ASSUME DataType, NEW f, Abandons(f)
    PROVE  DataType'
  <1>1. pending' \in [Brokers -> 0 .. PIPE_SIZE]
    <2>1. 0 \in 0 .. PIPE_SIZE
      BY SessionsAssumption
    <2> QED
      BY <2>1 DEF DataType, Abandons
  <1>2. torn' \subseteq {g \in Brokers : pending'[g] > 0}
    BY DEF DataType, Abandons
  <1> QED
    BY <1>1, <1>2 DEF DataType

LEMMA BrokerEndsType ==
    ASSUME TypeOK, NEW b \in Brokers, BrokerEnds(b)
    PROVE  TypeOK'
  <1>1. BrokersType'
    BY TypeParts DEF BrokersType, BrokerEnds, BrokerSteps
  <1>2. ClientsType' /\ path' = path
    BY TypeParts, ClientsSame DEF BrokerEnds
  <1>3. DataType'
    BY TypeParts, AbandonsType DEF BrokerEnds
  <1> QED
    BY <1>1, <1>2, <1>3, TypeParts DEF TypeOK, BrokersType, ClientsType, DataType

LEMMA ClientEndsType ==
    ASSUME TypeOK, NEW c \in Clients, ClientEnds(c)
    PROVE  TypeOK'
  <1>1. ClientsType'
    BY TypeParts, SessionsAssumption DEF ClientsType, ClientEnds, ClientSteps, Writing, Clients
  <1>2. BrokersType' /\ path' = path
    BY TypeParts, BrokersSame DEF ClientEnds
  <1>3. DataType'
    BY TypeParts, AbandonsType DEF ClientEnds
  <1> QED
    BY <1>1, <1>2, <1>3, TypeParts DEF TypeOK, BrokersType, ClientsType, DataType

(* The steps of a broker that does not end.                                *)
LEMMA BrokerType ==
    ASSUME TypeOK, NEW b \in Brokers, UnlinkPath(b) \/ mbroker(b)
    PROVE  TypeOK'
  <1>p. path \in Brokers \cup {None} /\ BrokersType /\ ClientsType /\ DataType
    BY TypeParts
  <1> SUFFICES ASSUME ~BrokerEnds(b)
               PROVE  path' \in Brokers \cup {None} /\ BrokersType' /\ ClientsType' /\ DataType'
    BY BrokerEndsType DEF TypeOK, BrokersType, ClientsType, DataType
  <1>1. CASE UnlinkPath(b)
    <2>1. BrokersType'
      BY <1>p, <1>1 DEF UnlinkPath, BrokerStep, BrokersType, BrokerSteps
    <2> QED
      BY <1>p, <1>1, <2>1, ClientsSame, DataSame DEF UnlinkPath
  <1>2. CASE MakePipe(b)
    <2>1. BrokersType'
      BY <1>p, <1>2 DEF MakePipe, BrokerStep, BrokersType, BrokerSteps
    <2> QED
      BY <1>p, <1>2, <2>1, ClientsSame, DataSame DEF MakePipe
  <1>3. CASE OpenPath(b)
    <2>1. BrokersType'
      BY <1>p, <1>3 DEF OpenPath, BrokerStep, BrokersType, BrokerSteps
    <2>2. \A c \in Clients : \/ client'[c] = client[c]
                             \/ client[c] = "opening" /\ client'[c] = "write"
      BY <1>p, <1>3 DEF OpenPath, LetIn, ClientsType
    <2>3. client' \in [Clients -> ClientSteps]
      BY <1>p, <1>3 DEF OpenPath, LetIn, ClientsType, ClientSteps
    <2>4. ClientsType'
      BY <1>p, <1>3, <2>2, <2>3 DEF OpenPath, ClientsType, Writing, Clients
    <2> QED
      BY <1>p, <1>3, <2>1, <2>4, DataSame DEF OpenPath
  <1>4. CASE ReadRequest(b)
    <2> DEFINE f == fd[b]
    <2>1. BrokersType'
      BY <1>p, <1>4 DEF ReadRequest, BrokerStep, BrokersType, BrokerSteps
    <2>2. f \in Brokers
      BY <1>p, <1>4 DEF ReadRequest, BrokerStep, BrokersType
    <2>3. pending' \in [Brokers -> 0 .. PIPE_SIZE]
      <3>1. PICK k \in 0 .. pending[f] - 1 : pending' = [pending EXCEPT ![f] = k]
        BY <1>4 DEF ReadRequest
      <3>2. k \in 0 .. PIPE_SIZE
        BY <1>p, <2>2, <3>1, SessionsAssumption DEF DataType
      <3> QED
        BY <1>p, <3>1, <3>2 DEF DataType
    <2>4. \A g \in Brokers : g # f => pending'[g] = pending[g]
      BY <1>p, <1>4 DEF ReadRequest, DataType
    <2>5. torn' \subseteq {g \in Brokers : pending'[g] > 0}
      BY <1>p, <1>4, <2>2, <2>4 DEF ReadRequest, DataType
    <2> QED
      BY <1>p, <1>4, <2>1, <2>3, <2>5, ClientsSame DEF ReadRequest, DataType
  <1>5. CASE ReadEnd(b) \/ DecodeGoesOn(b)
    <2>1. BrokersType'
      BY <1>p, <1>5 DEF ReadEnd, DecodeGoesOn, BrokerStep, BrokersType, BrokerSteps
    <2> QED
      BY <1>p, <1>5, <2>1, ClientsSame, DataSame DEF ReadEnd, DecodeGoesOn
  <1> QED
    BY <1>1, <1>2, <1>3, <1>4, <1>5 DEF mbroker, Starts, Serves, PathIsTaken, PathIsGone, DecodeExits

LEMMA ConnectType ==
    ASSUME TypeOK, NEW c \in Writing, Connect(c)
    PROVE  TypeOK'
  <1>p. path \in Brokers \cup {None} /\ BrokersType /\ ClientsType /\ DataType
    BY TypeParts
  <1>0. c \in Clients /\ PipeOf[c] \in Pipes /\ path \in Brokers
    BY <1>p, SessionsAssumption DEF Clients, Connect
  <1>1. ClientsType'
    <2>1. client' \in [Clients -> ClientSteps] /\ cfd' \in [Clients -> Brokers \cup {None}]
      BY <1>p, <1>0 DEF Connect, ClientStep, ClientsType, ClientSteps
    <2>2. reached' \subseteq Unmanaged /\ made' = made
      BY <1>p, <1>0 DEF Connect, ClientsType
    <2>3. \A d \in Clients \ {c} : client'[d] = client[d] /\ cfd'[d] = cfd[d]
      BY <1>p, <1>0 DEF Connect, ClientStep, ClientsType
    <2>4. cfd'[c] # None /\ client'[c] \in {"opening", "write"}
      BY <1>p, <1>0 DEF Connect, ClientStep, ClientsType
    <2>5. \A d \in Writing : cfd'[d] = None <=> client'[d] \in {"off", "connect"}
      BY <1>p, <2>3, <2>4 DEF ClientsType, Clients
    <2>6. \A d \in Managers : cfd'[d] = None /\ client'[d] \in {"off", "own", "unlink"}
      BY <1>p, <2>3, SessionsAssumption DEF ClientsType, Clients
    <2> QED
      BY <1>p, <2>1, <2>2, <2>5, <2>6 DEF ClientsType
  <1>2. BrokersType'
    <2>1. broker' \in [Brokers -> BrokerSteps]
      BY <1>p DEF Connect, LetIn, BrokersType, BrokerSteps
    <2>2. \A b \in Brokers : \/ broker'[b] = broker[b]
                             \/ broker[b] = "opening" /\ broker'[b] = "read"
      BY <1>p DEF Connect, LetIn, BrokersType
    <2> QED
      BY <1>p, <2>1, <2>2 DEF Connect, BrokersType
  <1>3. DataType' /\ path' = path
    BY <1>p, DataSame DEF Connect
  <1> QED
    BY <1>p, <1>1, <1>2, <1>3 DEF TypeOK, BrokersType, ClientsType, DataType

(* What all steps of a manager have in common.                             *)
ManagerStep(c) ==
    /\ \E to \in {"off", "own", "unlink"} : client' = [client EXCEPT ![c] = to]
    /\ made' \in {made, made \cup {PipeOf[c]}, made \ {PipeOf[c]}}
    /\ UNCHANGED <<path, brokers, cfd, reached, data>>

LEMMA ManagerSteps ==
    ASSUME NEW c, manager(c)
    PROVE  c \in Managers /\ ManagerStep(c)
  <1> USE DEF ClientStep, ManagerStep
  <1>0. c \in Managers
    BY DEF manager
  <1>1. CASE MakeFirst(c) \/ OpenWaits(c)
    BY <1>0, <1>1 DEF MakeFirst, OpenWaits
  <1>2. CASE OwnPipeExists(c) \/ MissesOwnPipe(c) \/ RemovePipe(c)
    BY <1>0, <1>2 DEF OwnPipeExists, MissesOwnPipe, RemovePipe
  <1> QED
    BY <1>1, <1>2 DEF manager

(* The steps of a client that does not end.                                *)
LEMMA ClientType ==
    ASSUME TypeOK, NEW c \in Clients, pub(c) \/ sub(c) \/ manager(c)
    PROVE  TypeOK'
  <1>p. path \in Brokers \cup {None} /\ BrokersType /\ ClientsType /\ DataType
    BY TypeParts
  <1>0. PipeOf[c] \in Pipes
    BY SessionsAssumption
  <1>1. CASE ClientEnds(c)
    BY <1>1, ClientEndsType
  <1>2. CASE c \in Writing /\ Connect(c)
    BY <1>2, ConnectType
  <1>3. CASE c \in Writing /\ Write(c)
    <2> DEFINE f == cfd[c]
    <2>1. f \in Brokers
      BY <1>p, <1>3 DEF Write, ClientStep, ClientsType
    <2>2. pending[f] \in 0 .. PIPE_SIZE /\ pending[f] + 1 \in 0 .. PIPE_SIZE
      BY <1>p, <1>3, <2>1, SessionsAssumption DEF Write, DataType
    <2>3. DataType'
      BY <1>p, <1>3, <2>1, <2>2 DEF Write, DataType
    <2>4. ClientsType'
      BY <1>p, <1>3, SessionsAssumption DEF Write, ClientStep, ClientsType, ClientSteps, Writing, Clients
    <2> QED
      BY <1>p, <1>3, <2>3, <2>4, BrokersSame DEF Write, TypeOK, BrokersType, ClientsType, DataType
  <1>4. CASE c \in Writing /\ MakeOwnPipe(c)
    <2>1. ClientsType'
      BY <1>p, <1>0, <1>4, SessionsAssumption
      DEF MakeOwnPipe, ClientStep, ClientsType, ClientSteps, Writing, Clients
    <2> QED
      BY <1>p, <1>4, <2>1, BrokersSame, DataSame
      DEF MakeOwnPipe, TypeOK, BrokersType, ClientsType, DataType
  <1>5. CASE c \in Writing /\ OpenOwnPipe(c)
    <2>1. ClientsType'
      BY <1>p, <1>5, SessionsAssumption
      DEF OpenOwnPipe, ClientStep, ClientsType, ClientSteps, Writing, Clients
    <2> QED
      BY <1>p, <1>5, <2>1, BrokersSame, DataSame
      DEF OpenOwnPipe, TypeOK, BrokersType, ClientsType, DataType
  <1>6. CASE manager(c)
    <2>1. c \in Managers /\ ManagerStep(c)
      BY <1>6, ManagerSteps
    <2>2. client' \in [Clients -> ClientSteps] /\ client'[c] \in {"off", "own", "unlink"}
      BY <1>p, <2>1 DEF ManagerStep, ClientsType, ClientSteps
    <2>3. \A d \in Clients \ {c} : client'[d] = client[d]
      BY <1>p, <2>1 DEF ManagerStep, ClientsType
    <2>4. \A d \in Writing : d \in Clients \ {c}
      BY <2>1, SessionsAssumption DEF Clients
    <2>5. \A d \in Managers : d \in Clients
      BY DEF Clients
    <2>6. made' \subseteq Pipes
      BY <1>p, <1>0, <2>1 DEF ManagerStep, ClientsType
    <2>7. cfd' = cfd /\ reached' = reached
      BY <2>1 DEF ManagerStep
    <2>8. \A d \in Writing : cfd'[d] = None <=> client'[d] \in {"off", "connect"}
      BY <1>p, <2>3, <2>4, <2>7 DEF ClientsType
    <2>9. \A d \in Managers : cfd'[d] = None /\ client'[d] \in {"off", "own", "unlink"}
      BY <1>p, <2>2, <2>3, <2>5, <2>7 DEF ClientsType
    <2>10. ClientsType'
      BY <1>p, <2>2, <2>6, <2>7, <2>8, <2>9 DEF ClientsType
    <2> QED
      BY <1>p, <2>1, <2>10, BrokersSame, DataSame
      DEF ManagerStep, TypeOK, BrokersType, ClientsType, DataType
  <1> QED
    BY <1>1, <1>2, <1>3, <1>4, <1>5, <1>6
    DEF pub, sub, Connection, NoBroker, WriteBroken, OwnPipeIsGone, Writing

LEMMA TypeStep == TypeOK /\ [Next]_vars => TypeOK'
  <1> SUFFICES ASSUME TypeOK, [Next]_vars PROVE TypeOK'
    OBVIOUS
  <1>1. CASE UNCHANGED vars
    BY <1>1 DEF vars, brokers, clients, data, TypeOK
  <1>2. ASSUME NEW b \in Brokers, UnlinkPath(b) \/ mbroker(b) \/ KillBroker(b) PROVE TypeOK'
    BY <1>2, BrokerType, BrokerEndsType DEF KillBroker
  <1>3. ASSUME NEW c \in Clients, pub(c) \/ sub(c) \/ manager(c) \/ KillClient(c) PROVE TypeOK'
    BY <1>3, ClientType, ClientEndsType DEF KillClient
  <1> QED
    BY <1>1, <1>2, <1>3 DEF Next

(* The programs' variables keep their types, for any processes and pipes;  *)
(* in particular nobody reads from, or writes to, a pipe it has not opened.*)
THEOREM TypeCorrect == Spec => []TypeOK
  BY InitType, TypeStep, PTL DEF Spec

-----------------------------------------------------------------------------
(* One chance                                                              *)

Active(c) == client[c] # "off"

(* Of a pipe that no manager removes: it exists from the first start of a  *)
(* client that is given it, so that there is no second; and that client    *)
(* connects once.                                                          *)
ChanceInv ==
    \A p \in Unmanaged :
        /\ \A c \in Clients : PipeOf[c] = p /\ Active(c) => p \in made
        /\ \A c, d \in Clients : PipeOf[c] = p /\ PipeOf[d] = p /\ Active(c) /\ Active(d)
                                   => c = d
        /\ \A c \in Clients : PipeOf[c] = p /\ client[c] = "connect" => p \notin reached
        /\ p \in reached => p \in made

LEMMA InitChance == Init => ChanceInv
  BY DEF Init, ChanceInv, Active

(* A step that starts nobody and lets nobody connect.                      *)
LEMMA NobodyNew ==
    ASSUME ChanceInv, \A p \in Unmanaged : p \in made => p \in made', reached' = reached,
           \A c \in Clients : client'[c] # client[c] =>
               client'[c] = "off" \/ (Active(c) /\ client'[c] # "connect")
    PROVE  ChanceInv'
  <1> SUFFICES ASSUME NEW p \in Unmanaged
               PROVE  /\ \A c \in Clients : PipeOf[c] = p /\ Active(c)' => p \in made'
                      /\ \A c, d \in Clients : PipeOf[c] = p /\ PipeOf[d] = p /\ Active(c)' /\ Active(d)'
                                                 => c = d
                      /\ \A c \in Clients : PipeOf[c] = p /\ client'[c] = "connect" => p \notin reached'
                      /\ p \in reached' => p \in made'
    BY DEF ChanceInv, Unmanaged
  <1>1. \A c \in Clients : Active(c)' => Active(c)
    BY DEF Active
  <1>2. \A c \in Clients : client'[c] = "connect" => client[c] = "connect"
    OBVIOUS
  <1> QED
    BY <1>1, <1>2 DEF ChanceInv

LEMMA StartChance ==
    ASSUME TypeOK, ChanceInv, NEW c \in Clients, MakeOwnPipe(c)
    PROVE  ChanceInv'
  <1> DEFINE q == PipeOf[c]
  <1>1. /\ q \notin made /\ made' = made \cup {q} /\ reached' = reached
        /\ client'[c] = "connect" /\ \A d \in Clients \ {c} : client'[d] = client[d]
    BY DEF MakeOwnPipe, ClientStep, TypeOK
  <1>2. ASSUME NEW p \in Unmanaged, p # q
        PROVE  \A d \in Clients : PipeOf[d] = p => client'[d] = client[d]
    BY <1>1, <1>2
  <1>3. ASSUME q \in Unmanaged
        PROVE  /\ \A d \in Clients \ {c} : PipeOf[d] = q => ~Active(d)'
               /\ q \notin reached
    BY <1>1, <1>3 DEF ChanceInv, Active
  <1> QED
    BY <1>1, <1>2, <1>3 DEF ChanceInv, Active, Unmanaged

LEMMA ConnectChance ==
    ASSUME TypeOK, ChanceInv, NEW c \in Clients, Connect(c)
    PROVE  ChanceInv'
  <1> DEFINE q == PipeOf[c]
  <1>1. /\ client[c] = "connect" /\ client'[c] \in {"opening", "write"} /\ made' = made
        /\ \A d \in Clients \ {c} : client'[d] = client[d]
    BY DEF Connect, ClientStep, TypeOK
  <1>2. \A p \in Unmanaged : p \in reached' <=> p \in reached \/ p = q
    BY DEF Connect
  <1>3. \A d \in Clients : Active(d)' <=> Active(d)
    BY <1>1 DEF Active
  <1>4. ASSUME q \in Unmanaged
        PROVE  /\ q \in made
               /\ \A d \in Clients \ {c} : PipeOf[d] = q => client[d] = "off"
    BY <1>1, <1>2, <1>4 DEF ChanceInv, Active
  <1> SUFFICES ASSUME NEW p \in Unmanaged
               PROVE  /\ \A d \in Clients : PipeOf[d] = p /\ Active(d)' => p \in made'
                      /\ \A d, e \in Clients : PipeOf[d] = p /\ PipeOf[e] = p /\ Active(d)' /\ Active(e)'
                                                 => d = e
                      /\ \A d \in Clients : PipeOf[d] = p /\ client'[d] = "connect" => p \notin reached'
                      /\ p \in reached' => p \in made'
    BY DEF ChanceInv, Unmanaged
  <1>5. CASE p = q
    BY <1>1, <1>3, <1>4, <1>5 DEF ChanceInv
  <1>6. CASE p # q
    <2>1. p \in reached' <=> p \in reached
      BY <1>2, <1>6
    <2>2. \A d \in Clients : PipeOf[d] = p => client'[d] = client[d]
      BY <1>1, <1>6
    <2> QED
      BY <1>1, <1>3, <2>1, <2>2 DEF ChanceInv
  <1> QED
    BY <1>5, <1>6

LEMMA ChanceStep ==
    ASSUME TypeOK, ChanceInv, [Next]_vars
    PROVE  ChanceInv'
  <1> USE DEF ClientStep, TypeOK, Active
  <1>1. CASE UNCHANGED vars
    BY <1>1, NobodyNew DEF vars, clients
  <1>2. ASSUME NEW b \in Brokers, UnlinkPath(b) \/ mbroker(b) \/ KillBroker(b)
        PROVE  ChanceInv'
    <2>1. made' = made /\ reached' = reached
      BY <1>2 DEF UnlinkPath, mbroker, Starts, Serves, KillBroker, MakePipe, PathIsTaken, OpenPath, PathIsGone,
                  ReadRequest, ReadEnd, DecodeExits, DecodeGoesOn, BrokerEnds, clients
    <2>2. \A c \in Clients : client'[c] # client[c] => client[c] = "opening" /\ client'[c] = "write"
      <3>1. CASE OpenPath(b)
        BY <3>1 DEF OpenPath, LetIn
      <3>2. CASE client' = client
        BY <3>2
      <3> QED
        BY <1>2, <3>1, <3>2
        DEF UnlinkPath, mbroker, Starts, Serves, KillBroker, MakePipe, PathIsTaken, PathIsGone,
            ReadRequest, ReadEnd, DecodeExits, DecodeGoesOn, BrokerEnds, clients
    <2> QED
      BY <2>1, <2>2, NobodyNew
  <1>3. ASSUME NEW c \in Clients, pub(c) \/ sub(c) PROVE ChanceInv'
    <2>1. CASE ClientEnds(c)
      BY <2>1, NobodyNew DEF ClientEnds
    <2>2. CASE Write(c) \/ OpenOwnPipe(c)
      BY <2>2, NobodyNew DEF Write, OpenOwnPipe
    <2> QED
      BY <1>3, <2>1, <2>2, StartChance, ConnectChance
      DEF pub, sub, Connection, NoBroker, WriteBroken, OwnPipeIsGone
  <1>4. ASSUME NEW c \in Clients, KillClient(c) PROVE ChanceInv'
    BY <1>4, NobodyNew DEF KillClient, ClientEnds
  <1>5. ASSUME NEW c \in Clients, manager(c) PROVE ChanceInv'
    <2>0. c \in Managers /\ ManagerStep(c)
      BY <1>5, ManagerSteps
    <2>1. PipeOf[c] \notin Unmanaged /\ reached' = reached
      BY <2>0 DEF Unmanaged, ManagerStep
    <2>2. \A p \in Unmanaged : p \in made <=> p \in made'
      BY <2>0, <2>1 DEF ManagerStep
    <2>3. \A d \in Clients : PipeOf[d] \in Unmanaged => client'[d] = client[d]
      BY <2>0, <2>1 DEF ManagerStep
    <2> QED
      BY <2>1, <2>2, <2>3 DEF ChanceInv, Unmanaged
  <1> QED
    BY <1>1, <1>2, <1>3, <1>4, <1>5 DEF Next

(* A broker's pipe is opened by Connect alone.                             *)
LEMMA OnlyConnectOpens ==
    ASSUME TypeOK, Next, NEW c \in Clients, OpensBroker(c)
    PROVE  client[c] = "connect"
  <1> USE DEF TypeOK, OpensBroker
  <1>1. cfd' # cfd
    OBVIOUS
  <1>2. ~ \E b \in Brokers : UnlinkPath(b) \/ mbroker(b) \/ KillBroker(b)
    BY <1>1 DEF UnlinkPath, mbroker, Starts, Serves, KillBroker, MakePipe, PathIsTaken, OpenPath,
                PathIsGone, ReadRequest, ReadEnd, DecodeExits, DecodeGoesOn, BrokerEnds, clients
  <1>3. PICK d \in Clients : pub(d) \/ sub(d) \/ manager(d) \/ KillClient(d)
    BY <1>2 DEF Next
  <1>4. ~ClientEnds(d)
    BY DEF ClientEnds
  <1>5. ~manager(d)
    BY <1>1, ManagerSteps DEF ManagerStep
  <1>6. Connect(d)
    BY <1>1, <1>3, <1>4, <1>5
    DEF pub, sub, KillClient, Connection, MakeOwnPipe, NoBroker, Write, WriteBroken,
        OpenOwnPipe, OwnPipeIsGone
  <1>7. d = c
    BY <1>6 DEF Connect
  <1> QED
    BY <1>6, <1>7 DEF Connect, ClientStep

(* Whatever is killed and started again: once a process that was started   *)
(* with a pipe that no manager removes has opened a broker's pipe, no      *)
(* other that is started with the same pipe does.                          *)
THEOREM OneChanceOnly == Spec => OneChance
  <1>1. TypeOK /\ ChanceInv /\ [Next]_vars
          => [\A c \in Clients :
                OpensBroker(c) /\ PipeOf[c] \in Unmanaged => PipeOf[c] \notin reached]_vars
    <2> SUFFICES ASSUME TypeOK, ChanceInv, Next, NEW c \in Clients, OpensBroker(c),
                        PipeOf[c] \in Unmanaged
                 PROVE  PipeOf[c] \notin reached
      OBVIOUS
    <2>1. client[c] = "connect"
      BY OnlyConnectOpens
    <2> QED
      BY <2>1 DEF ChanceInv
  <1>2. TypeOK /\ ChanceInv /\ [Next]_vars => ChanceInv'
    BY ChanceStep
  <1> QED
    BY <1>1, <1>2, InitChance, TypeCorrect, PTL DEF Spec, OneChance

-----------------------------------------------------------------------------
(* Stranded for ever                                                       *)

(* A pipe that is at the path, or that a client has opened, was made by a  *)
(* broker that will not make another.                                      *)
HasMade(f) == broker[f] \notin {"off", "make"}

PipesAreMade ==
    /\ path # None => HasMade(path)
    /\ \A c \in Clients : cfd[c] # None => HasMade(cfd[c])

LEMMA MadeIfKept ==
    ASSUME TypeOK, PipesAreMade, \A f \in Brokers : HasMade(f) => HasMade(f)',
           path' = path \/ path' = None \/ HasMade(path)',
           \A c \in Clients : cfd'[c] \in {cfd[c], path, None}
    PROVE  PipesAreMade'
  <1>1. path \in Brokers \cup {None} /\ \A c \in Clients : cfd[c] \in Brokers \cup {None}
    BY DEF TypeOK
  <1>2. path' # None => HasMade(path)'
    BY <1>1 DEF PipesAreMade, HasMade
  <1>3. \A c \in Clients : cfd'[c] # None => HasMade(cfd[c])'
    BY <1>1 DEF PipesAreMade, HasMade
  <1> QED
    BY <1>2, <1>3 DEF PipesAreMade

LEMMA MadeStep ==
    ASSUME TypeOK, PipesAreMade, [Next]_vars
    PROVE  PipesAreMade'
  <1> USE SessionsAssumption DEF TypeOK, HasMade
  <1>1. CASE UNCHANGED vars
    BY <1>1 DEF vars, brokers, clients, PipesAreMade
  <1>2. ASSUME NEW b \in Brokers, UnlinkPath(b) \/ mbroker(b) \/ KillBroker(b)
        PROVE  PipesAreMade'
    <2>1. \A c \in Clients : cfd'[c] \in {cfd[c], path, None}
      BY <1>2 DEF UnlinkPath, mbroker, Starts, Serves, KillBroker, MakePipe, PathIsTaken, OpenPath, PathIsGone,
                  ReadRequest, ReadEnd, DecodeExits, DecodeGoesOn, BrokerEnds, clients
    <2>2. \A f \in Brokers : HasMade(f) => HasMade(f)'
      BY <1>2 DEF UnlinkPath, mbroker, Starts, Serves, KillBroker, MakePipe, PathIsTaken, OpenPath, PathIsGone,
                  ReadRequest, ReadEnd, DecodeExits, DecodeGoesOn, BrokerEnds, BrokerStep
    <2>3. path' = path \/ path' = None \/ HasMade(path)'
      BY <1>2 DEF UnlinkPath, mbroker, Starts, Serves, KillBroker, MakePipe, PathIsTaken, OpenPath, PathIsGone,
                  ReadRequest, ReadEnd, DecodeExits, DecodeGoesOn, BrokerEnds, BrokerStep
    <2> QED
      BY <2>1, <2>2, <2>3, MadeIfKept
  <1>3. ASSUME NEW c \in Clients, pub(c) \/ sub(c) \/ manager(c) \/ KillClient(c)
        PROVE  PipesAreMade'
    <2>1. path' = path
      BY <1>3 DEF pub, sub, manager, KillClient, Connection, MakeOwnPipe, NoBroker, Connect, Write,
                  WriteBroken, OpenOwnPipe, OwnPipeIsGone, MakeFirst, OpenWaits,
                  OwnPipeExists, MissesOwnPipe, RemovePipe, ClientEnds
    <2>2. \A f \in Brokers : HasMade(f) => HasMade(f)'
      <3>1. CASE Connect(c)
        BY <3>1 DEF Connect, LetIn
      <3>2. CASE broker' = broker
        BY <3>2
      <3> QED
        BY <1>3, <3>1, <3>2
        DEF pub, sub, manager, KillClient, Connection, MakeOwnPipe, NoBroker, Write, brokers,
            WriteBroken, OpenOwnPipe, OwnPipeIsGone, MakeFirst, OpenWaits,
                  OwnPipeExists, MissesOwnPipe, RemovePipe, ClientEnds
    <2>3. \A d \in Clients : cfd'[d] \in {cfd[d], path, None}
      BY <1>3 DEF pub, sub, manager, KillClient, Connection, MakeOwnPipe, NoBroker, Connect, Write,
                  WriteBroken, OpenOwnPipe, OwnPipeIsGone, MakeFirst, OpenWaits,
                  OwnPipeExists, MissesOwnPipe, RemovePipe, ClientEnds
    <2> QED
      BY <2>1, <2>2, <2>3, MadeIfKept
  <1> QED
    BY <1>1, <1>2, <1>3 DEF Next

(* Where the path does not lead to the client's pipe it never will, and a  *)
(* broker on its way to open the path made its own pipe first.             *)
LEMMA StrandedByBroker ==
    ASSUME TypeOK, PipesAreMade, NEW c \in Clients, Stranded(c), NEW b \in Brokers,
           UnlinkPath(b) \/ mbroker(b) \/ KillBroker(b)
    PROVE  Stranded(c)'
  <1> USE SessionsAssumption DEF TypeOK
  <1>1. client[c] = "opening" /\ c \in Writing /\ cfd[c] \in Brokers /\ HasMade(cfd[c])
    BY DEF Stranded, PipesAreMade, Clients
  <1>2. CASE UnlinkPath(b)
    BY <1>1, <1>2 DEF UnlinkPath, Stranded, clients
  <1>3. CASE MakePipe(b)
    BY <1>1, <1>3 DEF MakePipe, BrokerStep, Stranded, HasMade, clients
  <1>4. CASE OpenPath(b)
    <2>1. broker[b] = "open" /\ path # cfd[c]
      BY <1>4 DEF OpenPath, BrokerStep, Stranded
    <2>2. client'[c] = client[c]
      BY <1>1, <1>4, <2>1 DEF OpenPath, LetIn, Writers
    <2> QED
      BY <1>1, <1>4, <2>1, <2>2 DEF OpenPath, Stranded
  <1>5. CASE BrokerEnds(b)
    BY <1>5 DEF BrokerEnds, Stranded, clients
  <1>6. CASE ReadRequest(b) \/ ReadEnd(b) \/ DecodeGoesOn(b)
    BY <1>6 DEF ReadRequest, ReadEnd, DecodeGoesOn, BrokerStep, Stranded, clients
  <1> QED
    BY <1>2, <1>3, <1>4, <1>5, <1>6 DEF mbroker, Starts, Serves, KillBroker, PathIsTaken, PathIsGone, DecodeExits

LEMMA StrandedByClient ==
    ASSUME TypeOK, PipesAreMade, NEW c \in Clients, Stranded(c), NEW d \in Clients,
           pub(d) \/ sub(d) \/ manager(d) \/ KillClient(d)
    PROVE  Stranded(c)' \/ client'[c] = "off"
  <1> USE DEF TypeOK, Stranded
  <1>1. CASE ClientEnds(d)
    BY <1>1 DEF ClientEnds, brokers
  <1>2. CASE Connect(d)
    <2>1. d # c /\ client'[c] = client[c] /\ cfd'[c] = cfd[c] /\ path' = path
      BY <1>2 DEF Connect, ClientStep
    <2>2. \A b \in Brokers : broker'[b] = "open" => broker[b] = "open"
      BY <1>2 DEF Connect, LetIn
    <2> QED
      BY <2>1, <2>2
  <1>3. CASE MakeOwnPipe(d) \/ Write(d) \/ OpenOwnPipe(d)
    BY <1>3 DEF MakeOwnPipe, Write, OpenOwnPipe, ClientStep, brokers
  <1>4. CASE manager(d)
    <2>1. ManagerStep(d)
      BY <1>4, ManagerSteps
    <2>2. c # d
      BY <1>4, SessionsAssumption DEF manager
    <2> QED
      BY <2>1, <2>2 DEF ManagerStep, brokers
  <1> QED
    BY <1>1, <1>2, <1>3, <1>4
    DEF pub, sub, KillClient, Connection, NoBroker, WriteBroken, OwnPipeIsGone

(* A client that waits at a pipe nobody is about to open waits there until *)
(* it ends, however many brokers are started.                              *)
THEOREM NobodyIsRescued == Spec => StrandedForEver
  <1>1. Init => PipesAreMade
    BY DEF Init, PipesAreMade
  <1>2. TypeOK /\ PipesAreMade /\ [Next]_vars => PipesAreMade'
    BY MadeStep
  <1>3. TypeOK /\ PipesAreMade /\ [Next]_vars
          => [\A c \in Clients : Stranded(c) => Stranded(c)' \/ client'[c] = "off"]_vars
    <2> SUFFICES ASSUME TypeOK, PipesAreMade, Next, NEW c \in Clients, Stranded(c)
                 PROVE  Stranded(c)' \/ client'[c] = "off"
      OBVIOUS
    <2> QED
      BY StrandedByBroker, StrandedByClient DEF Next
  <1> QED
    BY <1>1, <1>2, <1>3, TypeCorrect, PTL DEF Spec, StrandedForEver
=============================================================================
