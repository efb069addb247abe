------------------------------ MODULE Sessions ------------------------------
(***************************************************************************)
(* The programs as processes that meet at named pipes: brokers, publishers,*)
(* subscribers and managers, each of which may be killed and started       *)
(* again.  A broker and a client follow mbroker.c, pub.c, sub.c and        *)
(* manager.c up to the point where nothing more can happen to them:        *)
(*                                                                         *)
(*  - string_to_task does not convert the opcode, so that the broker ends  *)
(*    with the first request it reads from a client, and never opens a     *)
(*    client's pipe;                                                       *)
(*  - a client waits for the broker to open its pipe, a manager before it  *)
(*    has sent anything.                                                   *)
(*                                                                         *)
(* What a broker reads past the end of its buffer may end it too, and is   *)
(* given no other outcome.                                                 *)
(*                                                                         *)
(* All brokers are given the same path for their pipe.  A pipe stays what  *)
(* it is for those who have it open when its path is unlinked: it is named *)
(* here by the broker that made it.  Nobody but these programs makes or    *)
(* removes pipes.                                                          *)
(***************************************************************************)
EXTENDS Integers

CONSTANTS Publishers, Subscribers, Managers,   \* the client processes
          Pipes,       \* the paths of the clients' pipes
          PipeOf,      \* PipeOf[c]: the path that client c is started with
          MaxBrokers,  \* bound: how many brokers are started, one after the other
          PIPE_SIZE,   \* how many requests a pipe holds
          None         \* no pipe

Writing == Publishers \cup Subscribers
Clients == Writing \cup Managers
Brokers == 1 .. MaxBrokers

(* The pipes no manager is started with.                                   *)
Unmanaged == Pipes \ {PipeOf[c] : c \in Managers}

ASSUME SessionsAssumption ==
    /\ Writing \cap Managers = {}
    /\ PipeOf \in [Clients -> Pipes]
    /\ MaxBrokers \in Nat
    /\ PIPE_SIZE \in Nat \ {0}
    /\ None \notin Brokers

VARIABLES path,        \* the pipe at the brokers' path, or None
          made,        \* the clients' pipes that exist
          broker, fd,  \* where each broker is; the pipe it opened
          text,        \* what its buffer starts with: "request" or "anything"
          client, cfd, \* where each client is; the brokers' pipe it opened
          pending,     \* the requests in each pipe
          torn,        \* the pipes whose contents may start inside a request
          reached      \* history: those of Unmanaged whose client has opened a broker's

brokers == <<broker, fd, text>>
clients == <<client, cfd, made, reached>>
data    == <<pending, torn>>
vars    == <<path, brokers, clients, data>>

Init ==
    /\ path = None
    /\ made = {}
    /\ broker = [b \in Brokers |-> "off"]
    /\ fd = [b \in Brokers |-> None]
    /\ text = [b \in Brokers |-> "anything"]
    /\ client = [c \in Clients |-> "off"]
    /\ cfd = [c \in Clients |-> None]
    /\ pending = [f \in Brokers |-> 0]
    /\ torn = {}
    /\ reached = {}

-----------------------------------------------------------------------------
(* Pipes.  open waits until the other end is opened too, and then both     *)
(* calls return; what nobody has open any more loses its contents.         *)

Readers(f) == {b \in Brokers : fd[b] = f /\ broker[b] \in {"opening", "read", "decode"}}
Writers(f) == {c \in Clients : cfd[c] = f}

LetIn(state, who, to) ==
    [x \in DOMAIN state |-> IF x \in who /\ state[x] = "opening" THEN to ELSE state[x]]

Abandons(f) ==
    /\ pending' = [g \in Brokers |->
                     IF g = f /\ (Readers(f) \cup Writers(f))' = {} THEN 0 ELSE pending[g]]
    /\ torn' = {g \in torn : pending'[g] > 0}

-----------------------------------------------------------------------------
(* main of mbroker.c                                                       *)

BrokerStep(b, from, to) == broker[b] = from /\ broker' = [broker EXCEPT ![b] = to]

(* The process is gone, its buffer with it, and its end of the pipe closed.*)
BrokerEnds(b) ==
    /\ broker' = [broker EXCEPT ![b] = "gone"]
    /\ text' = [text EXCEPT ![b] = "anything"]
    /\ UNCHANGED <<path, fd, clients>>
    /\ Abandons(fd[b])

(* Mutant: a pipe that is there is used again.                             *)
ReusePath(b) ==
    /\ \A a \in Brokers : a < b => broker[a] # "off"
    /\ BrokerStep(b, "off", IF path = None THEN "make" ELSE "open")
    /\ UNCHANGED <<path, fd, text, clients, data>>

(* A broker is started.  It unlinks whatever pipe is at the path.          *)
UnlinkPath(b) ==
    /\ \A a \in Brokers : a < b => broker[a] # "off"
    /\ BrokerStep(b, "off", "make")
    /\ path' = None
    /\ UNCHANGED <<fd, text, clients, data>>

MakePipe(b) ==
    /\ path = None
    /\ BrokerStep(b, "make", "open")
    /\ path' = b
    /\ UNCHANGED <<fd, text, clients, data>>

(* Another broker has made its pipe in between.                            *)
PathIsTaken(b) == broker[b] = "make" /\ path # None /\ BrokerEnds(b)

(* The path is opened, and may lead to a pipe that another broker has put  *)
(* in the place of this one's.                                             *)
OpenPath(b) ==
    /\ path # None
    /\ BrokerStep(b, "open", IF Writers(path) = {} THEN "opening" ELSE "read")
    /\ fd' = [fd EXCEPT ![b] = path]
    /\ client' = LetIn(client, Writers(path), "write")
    /\ UNCHANGED <<path, text, cfd, made, reached, data>>

PathIsGone(b) == broker[b] = "open" /\ path = None /\ BrokerEnds(b)

(* read takes one request or several; the rest may start inside another.   *)
ReadRequest(b) ==
    LET f == fd[b]
    IN  /\ BrokerStep(b, "read", "decode")
        /\ pending[f] > 0
        /\ \E k \in 0 .. pending[f] - 1 : pending' = [pending EXCEPT ![f] = k]
        /\ torn' = IF pending'[f] > 0 THEN torn \cup {f} ELSE torn \ {f}
        /\ text' = [text EXCEPT ![b] = IF f \in torn THEN "anything" ELSE "request"]
        /\ UNCHANGED <<path, fd, clients>>

(* Without a writer read returns 0, and main decodes its buffer, which is  *)
(* not initialized.                                                        *)
ReadEnd(b) ==
    /\ BrokerStep(b, "read", "decode")
    /\ pending[fd[b]] = 0 /\ Writers(fd[b]) = {}
    /\ UNCHANGED <<path, fd, text, clients, data>>


(* string_to_task ends the program: the opcode is the character a request  *)
(* starts with.  Whatever else was in the buffer may end it too.           *)
DecodeExits(b) == broker[b] = "decode" /\ BrokerEnds(b)

(* Something that was no request is taken for one and handled, or ignored. *)
DecodeGoesOn(b) ==
    /\ text[b] = "anything"
    /\ BrokerStep(b, "decode", "read")
    /\ UNCHANGED <<path, fd, text, clients, data>>

Starts(b)  == MakePipe(b) \/ PathIsTaken(b) \/ OpenPath(b) \/ PathIsGone(b)
Serves(b)  == ReadRequest(b) \/ ReadEnd(b) \/ DecodeExits(b) \/ DecodeGoesOn(b)
mbroker(b) == Starts(b) \/ Serves(b)

KillBroker(b) == broker[b] \notin {"off", "gone"} /\ BrokerEnds(b)

-----------------------------------------------------------------------------
(* main and start_server_connection of pub.c and sub.c.  The signals they  *)
(* handle, later, still end them here.                                     *)

ClientStep(c, from, to) == client[c] = from /\ client' = [client EXCEPT ![c] = to]

(* The process is gone.  Its own pipe stays.                               *)
ClientEnds(c) ==
    /\ client' = [client EXCEPT ![c] = "off"]
    /\ cfd' = [cfd EXCEPT ![c] = None]
    /\ UNCHANGED <<path, brokers, made, reached>>
    /\ Abandons(cfd[c])

(* Mutant: a pipe that is there is used again.                             *)
ReuseOwnPipe(c) ==
    /\ ClientStep(c, "off", "connect")
    /\ made' = made \cup {PipeOf[c]}
    /\ UNCHANGED <<path, brokers, cfd, reached, data>>

(* The client is started.  If its pipe exists it exits at once.            *)
MakeOwnPipe(c) ==
    /\ PipeOf[c] \notin made
    /\ ClientStep(c, "off", "connect")
    /\ made' = made \cup {PipeOf[c]}
    /\ UNCHANGED <<path, brokers, cfd, reached, data>>

(* Mutant: the result of open is not tested.                               *)
NoBrokerUnseen(c) ==
    /\ path = None
    /\ ClientStep(c, "connect", "write")
    /\ UNCHANGED <<path, brokers, cfd, made, reached, data>>

NoBroker(c) == path = None /\ client[c] = "connect" /\ ClientEnds(c)

Connect(c) ==
    /\ path # None
    /\ ClientStep(c, "connect", IF Readers(path) = {} THEN "opening" ELSE "write")
    /\ cfd' = [cfd EXCEPT ![c] = path]
    /\ broker' = LetIn(broker, Readers(path), "read")
    /\ reached' = reached \cup ({PipeOf[c]} \cap Unmanaged)
    /\ UNCHANGED <<path, fd, text, made, data>>

Write(c) ==
    LET f == cfd[c]
    IN  /\ Readers(f) # {} /\ pending[f] < PIPE_SIZE
        /\ ClientStep(c, "write", "own")
        /\ pending' = [pending EXCEPT ![f] = @ + 1]
        /\ UNCHANGED <<path, brokers, cfd, made, reached, torn>>

(* The broker has gone meanwhile: SIGPIPE ends the client.                 *)
WriteBroken(c) == client[c] = "write" /\ Readers(cfd[c]) = {} /\ ClientEnds(c)

(* The client opens its own pipe for reading, and waits for a writer; it   *)
(* exits if a manager has removed the pipe.                                *)
OpenOwnPipe(c) ==
    /\ PipeOf[c] \in made
    /\ ClientStep(c, "own", "answer")
    /\ UNCHANGED <<path, brokers, cfd, made, reached, data>>

OwnPipeIsGone(c) == PipeOf[c] \notin made /\ client[c] = "own" /\ ClientEnds(c)

Connection(c) ==
    \/ MakeOwnPipe(c) \/ NoBroker(c) \/ Connect(c) \/ Write(c) \/ WriteBroken(c)
    \/ OpenOwnPipe(c) \/ OwnPipeIsGone(c)

pub(c) == c \in Publishers /\ Connection(c)
sub(c) == c \in Subscribers /\ Connection(c)

KillClient(c) == client[c] # "off" /\ ClientEnds(c)

-----------------------------------------------------------------------------
(* main of manager.c: it removes a pipe that exists, and ends, or makes it *)
(* and waits for ever in its open.  Where it has come to that it is left,  *)
(* killed or not, and another manager may be started in its place.         *)

MakeFirst(c) ==
    /\ PipeOf[c] \notin made
    /\ ClientStep(c, "off", "own")
    /\ made' = made \cup {PipeOf[c]}
    /\ UNCHANGED <<path, brokers, cfd, reached, data>>

OpenWaits(c) ==
    /\ PipeOf[c] \in made
    /\ ClientStep(c, "own", "off")
    /\ UNCHANGED <<path, brokers, cfd, made, reached, data>>

OwnPipeExists(c) ==
    /\ PipeOf[c] \in made
    /\ ClientStep(c, "off", "unlink")
    /\ UNCHANGED <<path, brokers, cfd, made, reached, data>>

(* Another manager has removed the pipe that this one made.                *)
MissesOwnPipe(c) ==
    /\ PipeOf[c] \notin made
    /\ ClientStep(c, "own", "unlink")
    /\ UNCHANGED <<path, brokers, cfd, made, reached, data>>

(* Whatever is at the path by then is removed, and may be another's.       *)
RemovePipe(c) ==
    /\ ClientStep(c, "unlink", "off")
    /\ made' = made \ {PipeOf[c]}
    /\ UNCHANGED <<path, brokers, cfd, reached, data>>

manager(c) ==
    /\ c \in Managers
    /\ MakeFirst(c) \/ OpenWaits(c) \/ OwnPipeExists(c) \/ MissesOwnPipe(c) \/ RemovePipe(c)

-----------------------------------------------------------------------------
Next ==
    \/ \E b \in Brokers : UnlinkPath(b) \/ mbroker(b) \/ KillBroker(b)
    \/ \E c \in Clients : pub(c) \/ sub(c) \/ manager(c) \/ KillClient(c)

Spec == Init /\ [][Next]_vars

(* A broker that has its pipe open and can go on eventually does.  Nobody  *)
(* has to start a process, or to kill one, and clients may be as slow as   *)
(* they like.                                                              *)
FairSpec == Spec /\ \A b \in Brokers : WF_broker(Serves(b))

-----------------------------------------------------------------------------
(* Properties                                                              *)

BrokerSteps == {"off", "make", "open", "opening", "read", "decode", "gone"}
ClientSteps == {"off", "connect", "opening", "write", "own", "answer", "unlink"}

TypeOK ==
    /\ path \in Brokers \cup {None}
    /\ made \subseteq Pipes
    /\ broker \in [Brokers -> BrokerSteps]
    /\ fd \in [Brokers -> Brokers \cup {None}]
    /\ \A b \in Brokers : broker[b] \in {"opening", "read", "decode"} => fd[b] # None
    /\ text \in [Brokers -> {"request", "anything"}]
    /\ client \in [Clients -> ClientSteps]
    /\ cfd \in [Clients -> Brokers \cup {None}]
    /\ \A c \in Writing : cfd[c] = None <=> client[c] \in {"off", "connect"}
    /\ \A c \in Managers : cfd[c] = None /\ client[c] \in {"off", "own", "unlink"}
    /\ pending \in [Brokers -> 0 .. PIPE_SIZE]
    /\ torn \subseteq {f \in Brokers : pending[f] > 0}
    /\ reached \subseteq Unmanaged

(* A publisher or a subscriber has one chance: because it leaves its pipe  *)
(* behind however it ends, no second process that is started with the same *)
(* pipe ever opens a broker's, whatever is killed and started meanwhile.   *)
(* (Only a manager given the same pipe removes it.)                        *)
OpensBroker(c) == cfd[c] = None /\ cfd'[c] # None

OneChance ==
    [][\A c \in Clients :
         OpensBroker(c) /\ PipeOf[c] \in Unmanaged => PipeOf[c] \notin reached]_vars

(* A client waits at a pipe that no broker is about to open.               *)
Stranded(c) ==
    /\ client[c] = "opening"
    /\ path # cfd[c] \/ \A b \in Brokers : broker[b] # "open"

(* Starting the broker again rescues nobody: it makes a pipe of its own,   *)
(* and the client goes on waiting at the old one until it is killed.       *)
StrandedForEver ==
    [][\A c \in Clients : Stranded(c) => Stranded(c)' \/ client'[c] = "off"]_vars

=============================================================================
