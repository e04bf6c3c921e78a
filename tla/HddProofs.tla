-------------------------------- MODULE HddProofs --------------------------------
(******************************************************************************)
(* The disk driver, for any clients and requests.  Commands and sectors go    *)
(* only to a disk that is ready for them, whatever interrupts were left       *)
(* behind: the polls of the status alone see to it.  The opens are counted as *)
(* the clients make them, and an open leaves no interrupt behind.             *)
(*                                                                            *)
(* With what it reads (HddOpen, Partition), for any disks and any geometry    *)
(* with at least two drives: once the drive is open each of its minors stands *)
(* for the partition that fs.h draws it as and the disk has there, and the    *)
(* lines that were printed read as these partitions.  And how far the         *)
(* arithmetic of the driver and of the library goes.                          *)
(******************************************************************************)
EXTENDS HddOpen, FiniteSetTheorems, WellFoundedInduction, TLAPS

Commands == {"none", "identify", "read", "write"}
DiskType == [state : {"idle", "busy", "data"}, command : Commands, sectors : Int]
Asking == [type : Requests \cup {"none"}, sectors : Int]

\* What the steps below need to know of types.
DriverTypeOK ==
  /\ left \in Int
  /\ asking \in [Client -> Asking]
  /\ command \in Commands
  /\ disk \in DiskType

\* A command fits the request it is given for.
CommandFits ==
  pc \in {"busy?", "command"} => type \in {"open", "read"} \/ command = "write"

\* While hdd_read_write writes, the disk works on nothing else.
DiskWrites ==
  pc \in {"drq?", "write"} /\ disk.state # "idle" => disk.command = "write"

IInv == DriverTypeOK /\ CommandFits /\ DiskWrites /\ CommandsInTurn /\ WritesAsked

\* The driver starts without a command, the disk idle.
LEMMA InitInv == Init => IInv
<1> SUFFICES ASSUME Init PROVE IInv
  OBVIOUS
<1>1. Idle \in DiskType /\ None \in Asking
  BY DEF Idle, DiskType, Commands, None, Asking
<1>2. asking \in [Client -> Asking]
  BY <1>1 DEF Init
<1>3. left = 0 /\ command = "none" /\ disk = Idle
  BY DEF Init
<1>4. DriverTypeOK
  BY <1>1, <1>2, <1>3 DEF DriverTypeOK, Commands
<1> QED
  BY <1>4 DEF Init, IInv, CommandFits, DiskWrites, CommandsInTurn, WritesAsked

\* A transfer leaves the command of the disk alone, unless it was the last.
LEMMA TransferredKeeps ==
  ASSUME DriverTypeOK
  PROVE  /\ Transferred \in DiskType
         /\ Transferred.state # "idle" => Transferred.command = disk.command
<1>1. Idle \in DiskType /\ Idle.state = "idle"
  BY DEF Idle, DiskType, Commands
<1>2. disk \in DiskType
  BY DEF DriverTypeOK
<1>3. CASE Transferred \in {disk, Idle}
  BY <1>1, <1>2, <1>3
<1>4. CASE Transferred = [disk EXCEPT !.state = "busy", !.sectors = disk.sectors - 1]
  <2>1. /\ disk.command \in Commands /\ disk.sectors \in Int
        /\ disk = [state |-> disk.state, command |-> disk.command, sectors |-> disk.sectors]
    BY <1>2 DEF DiskType
  <2>2. Transferred = [state |-> "busy", command |-> disk.command, sectors |-> disk.sectors - 1]
    BY <1>4, <2>1
  <2>3. Transferred.command = disk.command
    BY <2>2
  <2>4. Transferred \in DiskType
    BY <2>1, <2>2 DEF DiskType
  <2> QED
    BY <2>3, <2>4
<1> QED
  BY <1>3, <1>4 DEF Transferred

\* Steps after which the task neither gives a command nor writes.
LEMMA Elsewhere ==
  ASSUME DriverTypeOK', pc' \notin {"busy?", "command", "drq?", "write"}
  PROVE  IInv'
BY DEF IInv, CommandFits, DiskWrites, CommandsInTurn, WritesAsked

\* Accepting a request keeps the invariant: the command is the request's.
LEMMA ServeInv == ASSUME NEW c \in Client, IInv, asking[c] # None, Serve(c) PROVE IInv'
<1>1. DriverTypeOK'
  BY DEF IInv, DriverTypeOK, Serve, clients, Asking, Commands
<1>2. CASE pc' = "busy?"
  <2>1. CommandFits'
    BY <1>2 DEF Serve, CommandFits
  <2> QED
    BY <1>1, <1>2, <2>1 DEF IInv, DiskWrites, CommandsInTurn, WritesAsked
<1>3. CASE pc' = "reply"
  BY <1>1, <1>3, Elsewhere
<1> QED
  BY <1>2, <1>3 DEF Serve

\* What the disk does by itself: it leaves "busy", which no step relies on.
LEMMA DiskReadyInv == IInv /\ DiskReady => IInv'
<1> SUFFICES ASSUME IInv, DiskReady PROVE IInv'
  OBVIOUS
<1>1. UNCHANGED <<pc, type, left, command, asking>>
  BY DEF DiskReady, driver, clients
<1>2. /\ disk.state = "busy"
      /\ disk' = Idle \/ disk' = [disk EXCEPT !.state = "data"]
  BY DEF DiskReady
<1>3. DriverTypeOK'
  BY <1>1, <1>2 DEF IInv, DriverTypeOK, DiskType, Idle, Commands
<1>4. CommandFits' /\ DiskWrites'
  BY <1>1, <1>2 DEF IInv, DriverTypeOK, DiskType, CommandFits, DiskWrites, Idle
<1>5. CommandsInTurn' /\ WritesAsked'
  BY <1>1, <1>2 DEF IInv, CommandsInTurn, WritesAsked
<1> QED
  BY <1>3, <1>4, <1>5 DEF IInv

\* A poll goes on only when the disk is ready.
LEMMA PollInv == IInv /\ (Poll \/ PollWrite) => IInv'
<1> SUFFICES ASSUME IInv, Poll \/ PollWrite PROVE IInv'
  OBVIOUS
<1>1. UNCHANGED <<type, left, command, asking, disk>>
  BY DEF Poll, GetStatus, PollWrite, clients
<1>2. DriverTypeOK'
  BY <1>1 DEF IInv, DriverTypeOK
<1>3. CASE Poll
  BY <1>1, <1>2, <1>3 DEF IInv, Poll, GetStatus, CommandFits, DiskWrites, CommandsInTurn, WritesAsked, NotBusy
<1>4. CASE PollWrite
  BY <1>1, <1>2, <1>4 DEF IInv, DriverTypeOK, PollWrite, GetStatus, CommandFits, DiskWrites,
     CommandsInTurn, WritesAsked, Asked
<1> QED
  BY <1>3, <1>4

\* The disk works on the command from then on.
LEMMA CommandInv == IInv /\ Command => IInv'
<1> SUFFICES ASSUME IInv, Command PROVE IInv'
  OBVIOUS
<1>1. UNCHANGED <<type, left, command, asking>>
  BY DEF Command, clients
<1>2. disk' \in DiskType /\ disk'.command = command
  <2> DEFINE n == IF type = "open" THEN 1 ELSE left
  <2>1. n \in Int /\ command \in Commands
    BY DEF IInv, DriverTypeOK
  <2>2. disk' = [state |-> IF command = "write" THEN "data" ELSE "busy",
                 command |-> command, sectors |-> n]
    BY DEF Command, Accept
  <2> HIDE DEF n
  <2> QED
    BY <2>1, <2>2 DEF DiskType
<1>3. DriverTypeOK'
  BY <1>1, <1>2 DEF IInv, DriverTypeOK
<1>4. pc' \in {"test int", "data"} \/ (pc' = "drq?" /\ command = "write")
  BY DEF IInv, Command, CommandFits
<1> QED
  BY <1>1, <1>2, <1>3, <1>4 DEF IInv, CommandFits, DiskWrites, CommandsInTurn, WritesAsked

\* A sector is transferred.
LEMMA SectorInv == IInv /\ (Identified \/ TableRead \/ SectorRead \/ SectorWrite) => IInv'
<1> SUFFICES ASSUME IInv, Identified \/ TableRead \/ SectorRead \/ SectorWrite PROVE IInv'
  OBVIOUS
<1>1. disk' = Transferred /\ UNCHANGED <<type, asking>> /\ left' \in {left, left - 1}
  BY DEF Identified, TableRead, SectorRead, SectorWrite, clients
<1>2. command' \in {command, "read"}
  BY DEF Identified, TableRead, SectorRead, SectorWrite
<1>3. DriverTypeOK'
  BY <1>1, <1>2, TransferredKeeps DEF IInv, DriverTypeOK, Commands
<1>4. CASE SectorWrite
  <2>1. pc = "write" /\ pc' \in {"reply", "drq?"}
    BY <1>4 DEF SectorWrite
  <2>2. DiskWrites'
    BY <1>1, <2>1, TransferredKeeps DEF IInv, DiskWrites, WritesAsked
  <2> QED
    BY <1>3, <2>1, <2>2 DEF IInv, CommandFits, CommandsInTurn, WritesAsked
<1>5. CASE Identified \/ TableRead \/ SectorRead
  <2>1. pc' \in {"data", "reply"} \/ (pc' = "busy?" /\ type' = "open")
    BY <1>1, <1>5 DEF Identified, TableRead, SectorRead
  <2> QED
    BY <1>3, <2>1 DEF IInv, CommandFits, DiskWrites, CommandsInTurn, WritesAsked
<1> QED
  BY <1>4, <1>5

\* Receiving, waiting, answering, and the handler, which only ends a receive.
LEMMA OtherInv ==
  IInv /\ ((\E c \in Client : Ask(c)) \/ Handler \/ ReceiveTest \/ ReceiveBlock
           \/ WaitTest \/ WaitBlock \/ Reply) => IInv'
<1> SUFFICES ASSUME IInv, (\E c \in Client : Ask(c)) \/ Handler \/ ReceiveTest \/ ReceiveBlock
                          \/ WaitTest \/ WaitBlock \/ Reply
             PROVE  IInv'
  OBVIOUS
<1>1. CASE \E c \in Client : Ask(c)
  <2>1. DriverTypeOK'
    BY <1>1, BoundsAssumption DEF IInv, DriverTypeOK, Ask, driver, Asking
  <2> QED
    BY <1>1, <2>1 DEF IInv, Ask, driver, CommandFits, DiskWrites, CommandsInTurn, WritesAsked
<1>2. CASE Handler
  <2>1. DriverTypeOK' /\ UNCHANGED <<type, command, disk>>
    BY <1>2 DEF IInv, DriverTypeOK, Handler, clients
  <2>2. pc' = pc \/ pc' \in {"halted", "data"}
    BY <1>2 DEF Handler
  <2> QED
    BY <2>1, <2>2 DEF IInv, CommandFits, DiskWrites, CommandsInTurn, WritesAsked
<1>3. CASE ReceiveTest \/ ReceiveBlock \/ WaitTest \/ WaitBlock
  <2>1. DriverTypeOK'
    BY <1>3 DEF IInv, DriverTypeOK, ReceiveTest, ReceiveBlock, WaitTest, WaitBlock, clients
  <2>2. pc' \in {"halted", "block any", "wait any", "data", "block int", "wait int"}
    BY <1>3 DEF ReceiveTest, ReceiveBlock, WaitTest, Awaited, WaitBlock
  <2> QED
    BY <2>1, <2>2, Elsewhere
<1>4. CASE Reply
  <2>1. DriverTypeOK'
    <3>1. None \in Asking
      BY DEF None, Asking
    <3>2. UNCHANGED disk /\ asking' = [asking EXCEPT ![src] = None] /\ left' = 0 /\ command' = "none"
      BY <1>4 DEF Reply
    <3>3. asking' \in [Client -> Asking]
      BY <3>1, <3>2 DEF IInv, DriverTypeOK
    <3> QED
      BY <3>2, <3>3 DEF IInv, DriverTypeOK, Commands
  <2> QED
    BY <1>4, <2>1, Elsewhere DEF Reply
<1> QED
  BY <1>1, <1>2, <1>3, <1>4

\* Polls keep the driver in step with the disk, whatever else goes out of step.
THEOREM Inductive == Spec => []IInv
<1>1. IInv /\ [Next]_vars => IInv'
  <2> SUFFICES ASSUME IInv, [Next]_vars PROVE IInv'
    OBVIOUS
  <2>1. CASE Receive
    BY <2>1, ServeInv DEF Receive
  <2>2. CASE UNCHANGED vars
    BY <2>2 DEF vars, driver, clients, IInv, DriverTypeOK, CommandFits, DiskWrites,
       CommandsInTurn, WritesAsked
  <2> QED
    BY <2>1, <2>2, DiskReadyInv, PollInv, CommandInv, SectorInv, OtherInv DEF Next, Task, Protocol
<1> QED
  BY <1>1, InitInv, PTL DEF Spec

\* hdd_cmd_out gives no command to a disk that is busy.
THEOREM CommandsWaitForDisk == Spec => []CommandsInTurn
<1>1. IInv => CommandsInTurn
  BY DEF IInv
<1> QED
  BY <1>1, Inductive, PTL

\* hdd_read_write writes a sector only to a disk that asks for the sectors of a write.
THEOREM WritesWaitForDisk == Spec => []WritesAsked
<1>1. IInv => WritesAsked
  BY DEF IInv
<1> QED
  BY <1>1, Inductive, PTL

--------------------------------------------------------------------------------
(* The driver from request to request.                                        *)

Receiving == {"test any", "block any", "wait any"}
Awaiting == {"test int", "block int", "wait int"}

\* Whom the task serves, and how far it is with the request.
ServiceOK ==
  /\ pc \in Receiving => src = Nobody /\ command = "none"
  /\ pc \notin Receiving \cup {"halted"} => src \in Client
  /\ src = Nobody => type = "none"
  /\ src \in Client => type # "none" /\ asking[src].type = type
  /\ pc \in {"busy?", "command"} => type \in {"open", "read", "write"}
  /\ pc \in Awaiting => type = "open"
  /\ pc = "data" => type \in {"open", "read"}
  /\ pc \in {"drq?", "write"} => type = "write"
  /\ pc \in {"busy?", "command", "data", "drq?", "write"} /\ type # "open" =>
       left >= 1 /\ command = type
  /\ pc \in Awaiting \cup {"busy?", "command", "data"} /\ type = "open" =>
       command = "identify" \/ (command = "read" /\ tables >= 1)

\* What a client asks for fits what it has open.
ClientsOK ==
  /\ asking \in [Client -> [type : Requests, sectors : 1 .. MaxSectors] \cup {None}]
  /\ opened \in [Client -> {0, 1}]
  /\ \A c \in Client : asking[c].type = "open" => opened[c] = 1
  /\ \A c \in Client : asking[c].type = "close" => opened[c] = 0

\* The open of c is in the count: hdd_open has counted it, hdd_close not yet.
Counted(c) ==
  \/ asking[c].type = "open" /\ src = c /\ (pc = "reply" \/ command = "read")
  \/ asking[c].type = "close" /\ src # c
  \/ asking[c].type \notin {"open", "close"} /\ opened[c] = 1

CountOK == open_cnt = Cardinality({c \in Client : Counted(c)})

\* The disk never runs out of sectors while it has one to give or to take.
DiskOK ==
  /\ disk \in [state : {"idle", "busy", "data"}, command : Commands, sectors : 0 .. MaxSectors]
  /\ disk.state = "data" => disk.sectors >= 1

\* Before the first read or write of a client no interrupt is left over: between
\* requests the disk rests, and an open waits for the one answer it has asked for.
SignalsOK ==
  ~unawaited =>
    /\ pc \in Receiving \cup {"busy?", "command", "reply"} =>
         ~irq /\ ~have_int_msg /\ disk.state = "idle"
    /\ pc \in Awaiting \cup {"data"} /\ type = "open" =>
         /\ disk.command # "write" /\ disk.sectors = 1
         /\ disk.state # "idle"
    /\ pc \in Awaiting =>
         /\ irq \/ have_int_msg => disk.state = "data"
         /\ ~(irq /\ have_int_msg)
    /\ pc = "data" /\ type = "open" => disk.state = "data" /\ ~irq /\ ~have_int_msg

DriverInv == TypeOK /\ ServiceOK /\ ClientsOK /\ DiskOK /\ CountOK /\ SignalsOK

LEMMA RequestFacts ==
  /\ "none" \notin Requests
  /\ None.type = "none"
  /\ MaxSectors \in Nat /\ MaxSectors >= 1 /\ MaxTables \in Nat /\ MaxTables >= 1
  /\ Nobody \notin Client
  /\ \A r \in [type : Requests, sectors : 1 .. MaxSectors] : r.type \in Requests /\ r # None
<1>1. "none" \notin Requests /\ None.type = "none"
  BY KindsAssumption DEF None
<1>2. MaxSectors \in Nat /\ MaxSectors >= 1 /\ MaxTables \in Nat /\ MaxTables >= 1
  BY BoundsAssumption
<1>3. Nobody \notin Client
  BY ClientAssumption
<1>4. ASSUME NEW r \in [type : Requests, sectors : 1 .. MaxSectors]
      PROVE  r.type \in Requests /\ r # None
  BY <1>1
<1> QED
  BY <1>1, <1>2, <1>3, <1>4

LEMMA InitDriver == ASSUME Init PROVE DriverInv
<1>1. /\ pc = "test any" /\ src = Nobody /\ type = "none" /\ left = 0 /\ tables = 0
      /\ open_cnt = 0 /\ command = "none"
      /\ have_int_msg = FALSE /\ irq = FALSE /\ stale = FALSE /\ unawaited = FALSE
  BY DEF Init
<1>2. disk = [state |-> "idle", command |-> "none", sectors |-> 0]
  BY DEF Init, Idle
<1>3. asking = [c \in Client |-> None] /\ opened = [c \in Client |-> 0]
  BY DEF Init
<1>4. MaxSectors \in Nat /\ MaxTables \in Nat /\ Cardinality(Client) \in Nat
  BY BoundsAssumption, ClientAssumption, FS_CardinalityType
<1>5. 0 \in 0 .. MaxSectors /\ 0 \in 0 .. MaxTables /\ 0 \in 0 .. Cardinality(Client)
  BY <1>4
<1>6. \A c \in Client : asking[c].type = "none" /\ opened[c] = 0
  BY <1>3, RequestFacts
<1>7. disk.state = "idle" /\ disk.sectors = 0
  BY <1>2
<1>8. TypeOK
  BY <1>1, <1>5, <1>7 DEF TypeOK
<1>9. ServiceOK
  BY <1>1, RequestFacts DEF ServiceOK, Receiving, Awaiting
<1>10. ClientsOK
  BY <1>3, <1>6 DEF ClientsOK
<1>11. DiskOK
  BY <1>2, <1>5, <1>7 DEF DiskOK, Commands
<1>12. CountOK
  <2>1. \A c \in Client : ~Counted(c)
    BY <1>6 DEF Counted
  <2>2. {c \in Client : Counted(c)} = {}
    BY <2>1
  <2> QED
    BY <1>1, <2>2, FS_EmptySet DEF CountOK
<1>13. SignalsOK
  BY <1>1, <1>7 DEF SignalsOK, Receiving, Awaiting
<1> QED
  BY <1>8, <1>9, <1>10, <1>11, <1>12, <1>13 DEF DriverInv

\* The request of c is taken up.
LEMMA ServeFacts ==
  ASSUME NEW c \in Client, Serve(c)
  PROVE  /\ src' = c /\ type' = asking[c].type /\ left' = asking[c].sectors
         /\ UNCHANGED <<tables, have_int_msg, asking, opened, disk, irq, stale, unawaited>>
         /\ asking[c].type \in {"open", "read", "write"} => pc' = "busy?"
         /\ asking[c].type \notin {"open", "read", "write"} => pc' = "reply"
         /\ asking[c].type = "open" => command' = "identify"
         /\ asking[c].type \in {"read", "write"} => command' = asking[c].type
         /\ asking[c].type \notin {"open", "read", "write"} => command' = "none"
         /\ open_cnt' = IF asking[c].type = "close" THEN open_cnt - 1 ELSE open_cnt
BY DEF Serve, Closed, clients, history

LEMMA ServiceStep ==
  ASSUME DriverInv, [Next]_vars
  PROVE  ServiceOK'
<1> USE DEF DriverInv, Receiving, Awaiting
<1>1. ASSUME NEW c \in Client, Ask(c) PROVE ServiceOK'
  BY <1>1, RequestFacts DEF Ask, driver, ServiceOK, ClientsOK
<1>2. CASE DiskReady \/ UNCHANGED vars
  BY <1>2 DEF DiskReady, vars, driver, clients, ServiceOK
<1>3. CASE Handler
  BY <1>3 DEF Handler, clients, ServiceOK, TypeOK
<1>4. CASE ReceiveTest \/ ReceiveBlock
  BY <1>4 DEF ReceiveTest, ReceiveBlock, clients, ServiceOK, TypeOK
<1>5. ASSUME NEW c \in Client, asking[c] # None, pc \in Receiving, Serve(c) PROVE ServiceOK'
  <2>1. asking[c].type # "none" /\ asking[c].sectors >= 1
    <3>1. asking[c] \in [type : Requests, sectors : 1 .. MaxSectors]
      BY <1>5 DEF ClientsOK
    <3> QED
      BY <3>1, RequestFacts
  <2> QED
    BY <1>5, <2>1, ServeFacts, RequestFacts DEF ServiceOK
<1>6. CASE Poll \/ Command
  BY <1>6 DEF Poll, GetStatus, Command, clients, ServiceOK, TypeOK
<1>7. CASE WaitTest \/ WaitBlock
  BY <1>7 DEF WaitTest, Awaited, WaitBlock, clients, ServiceOK, TypeOK
<1>8. CASE Identified
  <2>1. tables' \in 1 .. MaxTables \/ pc' = "reply"
    BY <1>8 DEF Identified
  <2>2. pc' = "busy?" => command' = "read" /\ tables' >= 1
    BY <1>8, <2>1, BoundsAssumption DEF Identified
  <2>3. pc' \in {"busy?", "reply"} /\ pc = "data" /\ type = "open"
        /\ UNCHANGED <<src, type, asking>>
    BY <1>8 DEF Identified, clients
  <2> QED
    BY <2>2, <2>3 DEF ServiceOK
<1>9. CASE TableRead
  BY <1>9 DEF TableRead, clients, ServiceOK, TypeOK
<1>10. CASE SectorRead
  BY <1>10 DEF SectorRead, clients, ServiceOK, TypeOK
<1>11. CASE PollWrite
  BY <1>11 DEF PollWrite, GetStatus, clients, ServiceOK
<1>13. CASE SectorWrite
  <2>1. /\ pc = "write" /\ type = "write" /\ left \in Int /\ left' = left - 1
        /\ pc' = IF left = 1 THEN "reply" ELSE "drq?"
        /\ UNCHANGED <<src, type, command, asking>>
    BY <1>13 DEF SectorWrite, clients, ServiceOK, TypeOK
  <2> QED
    BY <2>1 DEF ServiceOK
<1>12. CASE Reply
  BY <1>12, RequestFacts DEF Reply, ServiceOK, TypeOK
<1> QED
  BY <1>1, <1>2, <1>3, <1>4, <1>5, <1>6, <1>7, <1>8, <1>9, <1>10, <1>11, <1>12, <1>13
     DEF Next, Task, Protocol, Receive

LEMMA ClientsStep ==
  ASSUME DriverInv, [Next]_vars
  PROVE  ClientsOK'
<1> USE DEF DriverInv
<1>1. ASSUME NEW c \in Client, Ask(c) PROVE ClientsOK'
  <2>1. PICK t \in Requests, n \in 1 .. MaxSectors :
          /\ MayAsk(c, t)
          /\ t = "open" => opened[c] = 0
          /\ asking' = [asking EXCEPT ![c] = [type |-> t, sectors |-> n]]
          /\ opened' = [opened EXCEPT ![c] = CASE t = "open" -> 1 [] t = "close" -> 0 [] OTHER -> @]
    BY <1>1 DEF Ask
  <2> DEFINE r == [type |-> t, sectors |-> n]
  <2>2. r \in [type : Requests, sectors : 1 .. MaxSectors] /\ r.type = t
    OBVIOUS
  <2> HIDE DEF r
  <2>3. asking' = [asking EXCEPT ![c] = r]
    BY <2>1 DEF r
  <2> QED
    BY <2>1, <2>2, <2>3 DEF ClientsOK
<1>2. CASE Reply
  <2>1. asking' = [asking EXCEPT ![src] = None] /\ UNCHANGED opened
    BY <1>2 DEF Reply
  <2> QED
    BY <2>1, RequestFacts DEF ClientsOK
<1>3. CASE UNCHANGED clients
  BY <1>3 DEF clients, ClientsOK
<1> QED
  BY <1>1, <1>2, <1>3
     DEF Next, Task, Protocol, vars, DiskReady, Handler, ReceiveTest, Receive, Serve, ReceiveBlock,
         Poll, GetStatus, Command, WaitTest, WaitBlock, Identified, TableRead, SectorRead, PollWrite, SectorWrite

LEMMA NumberFacts ==
  ASSUME DriverInv
  PROVE  /\ left \in 0 .. MaxSectors /\ tables \in 0 .. MaxTables
         /\ MaxSectors \in Nat \ {0} /\ MaxTables \in Nat \ {0}
         /\ disk.sectors \in 0 .. MaxSectors
BY BoundsAssumption DEF DriverInv, TypeOK

\* What becomes of the sectors of a command.
LEMMA DiskStep ==
  ASSUME DriverInv, [Next]_vars
  PROVE  DiskOK'
<1> DEFINE DiskRecord == [state : {"idle", "busy", "data"}, command : Commands, sectors : 0 .. MaxSectors]
<1>1. /\ Idle \in DiskRecord /\ Idle.state = "idle"
      /\ disk \in DiskRecord /\ disk.sectors \in Int
      /\ disk.state = "data" => disk.sectors >= 1
  BY BoundsAssumption DEF Idle, Commands, DriverInv, DiskOK
<1>2. /\ disk.command \in Commands /\ disk.sectors \in 0 .. MaxSectors
      /\ disk = [state |-> disk.state, command |-> disk.command, sectors |-> disk.sectors]
  BY <1>1
<1>3. CASE disk' = disk
  BY <1>3 DEF DriverInv, DiskOK
<1>4. CASE disk' = Idle
  BY <1>1, <1>4 DEF DiskOK
<1>5. CASE DiskReady
  <2>1. CASE disk.sectors = 0
    BY <1>4, <1>5, <2>1 DEF DiskReady
  <2>2. CASE disk.sectors # 0
    <3>1. disk' = [disk EXCEPT !.state = "data"] /\ disk.sectors >= 1
      BY <1>2, <1>5, <2>2, BoundsAssumption DEF DiskReady
    <3>2. disk' = [state |-> "data", command |-> disk.command, sectors |-> disk.sectors]
      BY <1>2, <3>1
    <3>3. disk' \in DiskRecord /\ disk'.sectors = disk.sectors
      BY <1>2, <3>2
    <3> QED
      BY <3>1, <3>3 DEF DiskOK
  <2> QED
    BY <2>1, <2>2
<1>6. CASE disk' = Transferred
  <2>1. CASE disk.state # "data"
    BY <1>3, <1>6, <2>1 DEF Transferred
  <2>2. CASE disk.state = "data" /\ (disk.command = "write" \/ disk.sectors > 1)
    <3>1. disk' = [disk EXCEPT !.state = "busy", !.sectors = @ - 1]
      BY <1>6, <2>2 DEF Transferred
    <3>2. disk' = [state |-> "busy", command |-> disk.command, sectors |-> disk.sectors - 1]
      BY <1>2, <3>1
    <3>3. disk.sectors - 1 \in 0 .. MaxSectors
      BY <1>1, <1>2, <2>2, BoundsAssumption
    <3>4. disk' \in DiskRecord /\ disk'.state = "busy"
      BY <1>2, <3>2, <3>3
    <3> QED
      BY <3>4 DEF DiskOK
  <2>3. CASE disk.state = "data" /\ ~(disk.command = "write" \/ disk.sectors > 1)
    BY <1>4, <1>6, <2>3 DEF Transferred
  <2> QED
    BY <2>1, <2>2, <2>3
<1>7. CASE Command
  <2> DEFINE n == IF type = "open" THEN 1 ELSE left
  <2>1. disk' = [state |-> IF command = "write" THEN "data" ELSE "busy",
                 command |-> command, sectors |-> n]
    BY <1>7 DEF Command, Accept
  <2>2. n \in 1 .. MaxSectors /\ command \in Commands
    <3>1. type # "open" => left >= 1
      BY <1>7 DEF Command, DriverInv, ServiceOK
    <3>2. n \in 1 .. MaxSectors
      BY <3>1, NumberFacts
    <3> QED
      BY <3>2 DEF DriverInv, TypeOK, Commands
  <2> HIDE DEF n
  <2>3. n \in 0 .. MaxSectors /\ n >= 1
    BY <2>2, BoundsAssumption
  <2>4. disk' \in DiskRecord /\ disk'.sectors = n
    BY <2>1, <2>2, <2>3
  <2> QED
    BY <2>3, <2>4 DEF DiskOK
<1>8. DiskReady \/ Command \/ disk' \in {disk, Transferred}
  BY DEF Next, Task, Protocol, vars, Ask, Handler, ReceiveTest, Receive, Serve, ReceiveBlock,
         Poll, GetStatus, WaitTest, WaitBlock, Identified, TableRead, SectorRead, PollWrite, SectorWrite, Reply
<1> QED
  BY <1>3, <1>5, <1>6, <1>7, <1>8

\* The count of opens goes with the clients: hdd_open and hdd_close are the only
\* steps that change either, and they change both.
LEMMA CountStep ==
  ASSUME DriverInv, [Next]_vars
  PROVE  CountOK'
<1> DEFINE K == {c \in Client : Counted(c)}
<1>1. IsFiniteSet(K) /\ open_cnt = Cardinality(K) /\ K \subseteq Client
  BY ClientAssumption, FS_Subset DEF DriverInv, CountOK
<1>2. ASSUME open_cnt' = open_cnt, \A c \in Client : Counted(c)' <=> Counted(c) PROVE CountOK'
  <2>1. {c \in Client : Counted(c)'} = K
    BY <1>2
  <2> QED
    BY <1>1, <1>2, <2>1 DEF CountOK
<1>3. ASSUME NEW c \in Client, pc \in Receiving, asking[c] # None, Serve(c) PROVE CountOK'
  <2>1. src = Nobody /\ Nobody \notin Client
    BY <1>3, ClientAssumption DEF DriverInv, ServiceOK
  <2>2. /\ src' = c /\ UNCHANGED <<asking, opened>>
        /\ asking[c].type = "open" => pc' = "busy?" /\ command' = "identify"
        /\ open_cnt' = IF asking[c].type = "close" THEN open_cnt - 1 ELSE open_cnt
    BY <1>3, ServeFacts
  <2>3. \A d \in Client \ {c} : Counted(d)' <=> Counted(d)
    BY <2>1, <2>2 DEF Counted
  <2>4. CASE asking[c].type = "close"
    <3>1. c \in K /\ ~Counted(c)'
      BY <2>1, <2>2, <2>4 DEF Counted
    <3>2. {d \in Client : Counted(d)'} = K \ {c}
      BY <2>3, <3>1
    <3> HIDE DEF K
    <3>3. Cardinality(K \ {c}) = Cardinality(K) - 1
      BY <1>1, <3>1, FS_RemoveElement
    <3> QED
      BY <1>1, <2>2, <2>4, <3>2, <3>3 DEF CountOK
  <2>5. CASE asking[c].type # "close"
    <3>1. Counted(c)' <=> Counted(c)
      BY <2>1, <2>2, <2>5 DEF Counted
    <3> QED
      BY <1>2, <2>2, <2>3, <2>5, <3>1
  <2> QED
    BY <2>4, <2>5
<1>4. CASE Identified
  <2>1. /\ pc = "data" /\ type = "open" /\ command = "identify" /\ open_cnt' = open_cnt + 1
        /\ pc' = "reply" \/ command' = "read"
        /\ UNCHANGED <<src, asking, opened>>
    BY <1>4 DEF Identified, clients
  <2>2. src \in Client /\ asking[src].type = "open"
    BY <2>1 DEF DriverInv, ServiceOK, Receiving
  <2>3. src \notin K /\ \A d \in Client : d = src => Counted(d)'
    BY <2>1, <2>2 DEF Counted
  <2>4. \A d \in Client \ {src} : Counted(d)' <=> Counted(d)
    BY <2>1 DEF Counted
  <2>5. {d \in Client : Counted(d)'} = K \cup {src}
    <3>1. \A d \in Client : Counted(d)' <=> d \in K \cup {src}
      <4> TAKE d \in Client
      <4>1. CASE d = src
        BY <2>3, <4>1
      <4>2. CASE d # src
        BY <2>4, <4>2
      <4> QED
        BY <4>1, <4>2
    <3> QED
      BY <2>2, <3>1
  <2> HIDE DEF K
  <2>6. Cardinality(K \cup {src}) = Cardinality(K) + 1
    BY <1>1, <2>3, FS_AddElement
  <2> QED
    BY <1>1, <2>1, <2>5, <2>6 DEF CountOK
<1>5. ASSUME NEW c \in Client, Ask(c) PROVE CountOK'
  <2>1. PICK t \in Requests, n \in 1 .. MaxSectors :
          /\ MayAsk(c, t) /\ (t = "open" => opened[c] = 0)
          /\ asking' = [asking EXCEPT ![c] = [type |-> t, sectors |-> n]]
          /\ opened' = [opened EXCEPT ![c] = CASE t = "open" -> 1 [] t = "close" -> 0 [] OTHER -> @]
    BY <1>5 DEF Ask
  <2>2. asking[c].type = "none" /\ src # c /\ UNCHANGED <<open_cnt, src, pc, command>>
    BY <1>5, RequestFacts DEF Ask, driver, DriverInv, ServiceOK
  <2>3. /\ asking'[c].type = t /\ \A d \in Client \ {c} : asking'[d] = asking[d]
    BY <2>1 DEF DriverInv, ClientsOK
  <2>4. /\ \A d \in Client \ {c} : opened'[d] = opened[d]
        /\ t \notin {"open", "close"} => opened'[c] = opened[c]
    BY <2>1 DEF DriverInv, ClientsOK
  <2>5. opened[c] \in {0, 1} /\ (t = "open" \/ opened[c] > 0)
    BY <2>1 DEF DriverInv, ClientsOK, MayAsk
  <2>6. Counted(c)' <=> Counted(c)
    BY <2>1, <2>2, <2>3, <2>4, <2>5 DEF Counted
  <2>7. \A d \in Client \ {c} : Counted(d)' <=> Counted(d)
    BY <2>2, <2>3, <2>4 DEF Counted
  <2> QED
    BY <1>2, <2>2, <2>6, <2>7
<1>6. CASE Reply
  <2>1. /\ pc = "reply" /\ src' = Nobody /\ asking' = [asking EXCEPT ![src] = None]
        /\ UNCHANGED <<open_cnt, opened>>
    BY <1>6 DEF Reply
  <2>2. src \in Client /\ Nobody \notin Client
    BY <2>1, ClientAssumption DEF DriverInv, ServiceOK, Receiving
  <2>3. asking'[src].type = "none" /\ \A d \in Client \ {src} : asking'[d] = asking[d]
    BY <2>1, <2>2, RequestFacts DEF DriverInv, ClientsOK
  <2>4. \A d \in Client \ {src} : Counted(d)' <=> Counted(d)
    BY <2>1, <2>2, <2>3 DEF Counted
  <2>5. /\ asking[src].type = "open" => opened[src] = 1
        /\ asking[src].type = "close" => opened[src] = 0
    BY <2>2 DEF DriverInv, ClientsOK
  <2>6. ASSUME NEW s \in Client, s = src PROVE Counted(s)' <=> Counted(s)
    BY <2>1, <2>2, <2>3, <2>5, <2>6 DEF Counted
  <2> QED
    BY <1>2, <2>1, <2>2, <2>4, <2>6
<1>7. CASE pc # "reply" /\ pc' # "reply" /\ UNCHANGED <<open_cnt, src, command, asking, opened>>
  BY <1>2, <1>7 DEF Counted
<1>8. CASE UNCHANGED <<open_cnt, src, command, asking, opened, pc>>
  BY <1>2, <1>8 DEF Counted
<1>9. CASE (TableRead \/ SectorRead \/ SectorWrite)
  <2>1. UNCHANGED <<open_cnt, src, command, asking, opened>>
    BY <1>9 DEF TableRead, SectorRead, SectorWrite, clients
  <2>2. pc \in {"data", "write"} /\ (type = "open" => command = "read")
    BY <1>9 DEF TableRead, SectorRead, SectorWrite, DriverInv, ServiceOK
  <2>3. src \in Client => asking[src].type = type
    BY DEF DriverInv, ServiceOK
  <2> QED
    BY <1>2, <2>1, <2>2, <2>3 DEF Counted
<1> QED
  <2>1. CASE DiskReady \/ Handler \/ UNCHANGED vars
    BY <1>7, <1>8, <2>1 DEF DiskReady, Handler, vars, driver, clients
  <2>2. CASE ReceiveTest \/ ReceiveBlock \/ Poll \/ Command \/ WaitTest \/ WaitBlock \/ PollWrite
    BY <1>7, <2>2
       DEF ReceiveTest, ReceiveBlock, Poll, GetStatus, Command, WaitTest, Awaited, WaitBlock, PollWrite, clients
  <2>3. CASE Receive
    BY <1>3, <2>3 DEF Receive, Receiving
  <2> QED
    BY <1>4, <1>5, <1>6, <1>9, <2>1, <2>2, <2>3 DEF Next, Task, Protocol

LEMMA TypeStep ==
  ASSUME DriverInv, [Next]_vars, CountOK', DiskOK', ServiceOK'
  PROVE  TypeOK'
<1>1. open_cnt' \in 0 .. Cardinality(Client)
  <2> DEFINE K == {c \in Client : Counted(c)'}
  <2>1. Cardinality(K) \in Nat /\ Cardinality(K) <= Cardinality(Client) /\ Cardinality(Client) \in Nat
    BY ClientAssumption, FS_Subset, FS_CardinalityType
  <2> QED
    BY <2>1 DEF CountOK
<1>2. disk'.state \in {"idle", "busy", "data"} /\ disk'.sectors \in 0 .. MaxSectors
  BY DEF DiskOK
<1>3. UNCHANGED <<src, type>> \/ (src' \in Client /\ type' \in Requests) \/ (src' = Nobody /\ type' = "none")
  <2>1. ASSUME NEW c \in Client, asking[c] # None, Serve(c) PROVE src' \in Client /\ type' \in Requests
    BY <2>1, ServeFacts, RequestFacts DEF DriverInv, ClientsOK
  <2> QED
    BY <2>1 DEF Next, Task, Protocol, vars, driver, DiskReady, Ask, Handler, ReceiveTest, Receive, ReceiveBlock,
         Poll, GetStatus, Command, WaitTest, WaitBlock, Identified, TableRead, SectorRead, PollWrite, SectorWrite, Reply
<1>4. /\ have_int_msg' \in BOOLEAN /\ irq' \in BOOLEAN
      /\ stale' \in BOOLEAN /\ unawaited' \in BOOLEAN
  <2>1. CASE Receive
    BY <2>1, ServeFacts DEF Receive, DriverInv, TypeOK
  <2> QED
    BY <2>1 DEF DriverInv, TypeOK, Next, Task, Protocol, vars, history, DiskReady, Ask, Handler, Recorded,
         ReceiveTest, ReceiveBlock, Poll, GetStatus, Command, WaitTest, Awaited, WaitBlock, Identified, TableRead,
         SectorRead, PollWrite, SectorWrite, Reply
<1>5. command' \in Commands
  <2>1. CASE Receive
    BY <2>1, ServeFacts DEF Receive, Commands
  <2> QED
    BY <2>1 DEF Commands, DriverInv, TypeOK, Next, Task, Protocol, vars, driver, DiskReady, Ask, Handler,
         ReceiveTest, ReceiveBlock, Poll, GetStatus, Command, WaitTest, WaitBlock, Identified, TableRead,
         SectorRead, PollWrite, SectorWrite, Reply
<1>6. tables' \in 0 .. MaxTables
  <2>1. CASE Receive
    BY <2>1, ServeFacts DEF Receive, DriverInv, TypeOK
  <2>2. CASE TableRead
    <3>1. tables' = tables - 1 /\ tables >= 1
      BY <2>2 DEF TableRead, DriverInv, ServiceOK
    <3> QED
      BY <3>1, NumberFacts
  <2>3. CASE Identified
    <3>1. tables' = tables \/ tables' \in 1 .. MaxTables
      BY <2>3 DEF Identified
    <3> QED
      BY <3>1, NumberFacts
  <2> QED
    BY <2>1, <2>2, <2>3 DEF DriverInv, TypeOK, Next, Task, Protocol, vars, driver, DiskReady, Ask, Handler,
         ReceiveTest, ReceiveBlock, Poll, GetStatus, Command, WaitTest, WaitBlock,
         SectorRead, PollWrite, SectorWrite, Reply
<1>7. left' \in 0 .. MaxSectors
  <2>1. CASE Receive
    <3>1. PICK c \in Client : asking[c] # None /\ Serve(c)
      BY <2>1 DEF Receive
    <3>2. asking[c] \in [type : Requests, sectors : 1 .. MaxSectors]
      BY <3>1 DEF DriverInv, ClientsOK
    <3>3. asking[c].sectors \in 1 .. MaxSectors
      BY <3>2
    <3> QED
      BY <3>1, <3>3, ServeFacts, BoundsAssumption
  <2>2. CASE SectorRead \/ SectorWrite
    <3>1. left' = left - 1 /\ left >= 1
      BY <2>2 DEF SectorRead, SectorWrite, DriverInv, ServiceOK
    <3> QED
      BY <3>1, NumberFacts
  <2> QED
    <3>1. Receive \/ SectorRead \/ SectorWrite \/ left' \in {left, 0}
      BY DEF Next, Task, Protocol, vars, driver, DiskReady, Ask, Handler,
         ReceiveTest, ReceiveBlock, Poll, GetStatus, Command, WaitTest, WaitBlock, Identified, TableRead,
         PollWrite, Reply
    <3> QED
      BY <2>1, <2>2, <3>1, NumberFacts
<1>8. pc' \in {"test any", "block any", "wait any", "busy?", "command", "test int",
               "block int", "wait int", "data", "drq?", "write", "reply", "halted"}
  <2>1. CASE Receive
    BY <2>1, ServeFacts DEF Receive
  <2> QED
    BY <2>1 DEF DriverInv, TypeOK, Next, Task, Protocol, vars, driver, DiskReady, Ask, Handler,
         ReceiveTest, ReceiveBlock, Poll, GetStatus, Command, WaitTest, Awaited, WaitBlock, Identified, TableRead,
         SectorRead, PollWrite, SectorWrite, Reply
<1> QED
  BY <1>1, <1>2, <1>3, <1>4, <1>5, <1>6, <1>7, <1>8 DEF DriverInv, TypeOK, Commands

\* An interrupt is asked for, recorded and consumed by the open that waits for it.
LEMMA SignalsStep ==
  ASSUME DriverInv, [Next]_vars
  PROVE  SignalsOK'
<1> USE DEF DriverInv, Receiving, Awaiting
<1>1. CASE unawaited'
  BY <1>1 DEF SignalsOK
<1>2. CASE ~unawaited' /\ DiskReady
  <2>1. /\ ~unawaited /\ disk.state = "busy" /\ irq' = TRUE
        /\ disk' = IF disk.sectors = 0 THEN Idle ELSE [disk EXCEPT !.state = "data"]
        /\ UNCHANGED <<pc, type, have_int_msg>>
    BY <1>2 DEF DiskReady, history, driver
  <2>2. disk.sectors # 0 => /\ disk'.state = "data" /\ disk'.command = disk.command
                            /\ disk'.sectors = disk.sectors
    BY <2>1 DEF DiskOK
  <2>4. ~(pc \in Receiving \cup {"busy?", "command", "reply"}) /\ ~(pc = "data" /\ type = "open")
    BY <2>1 DEF SignalsOK
  <2>5. pc \in Awaiting => /\ disk.command # "write" /\ disk.sectors = 1 /\ ~have_int_msg
    BY <2>1 DEF SignalsOK, ServiceOK
  <2>6. CASE pc \in Awaiting
    <3>1. disk.command # "write" /\ disk.sectors = 1
      BY <2>5, <2>6, Zenon
    <3>2. disk'.state = "data" /\ disk'.command # "write" /\ disk'.sectors = 1
      BY <2>2, <3>1
    <3>3. ~have_int_msg' /\ pc' \in Awaiting
      BY <2>1, <2>5, <2>6, Zenon
    <3> QED
      BY <3>2, <3>3 DEF SignalsOK
  <2>7. CASE pc \notin Awaiting
    BY <2>1, <2>4, <2>7 DEF SignalsOK
  <2> QED
    BY <2>6, <2>7
<1>3. CASE ~unawaited' /\ Handler
  BY <1>3 DEF Handler, history, SignalsOK, ServiceOK, TypeOK
<1>4. CASE ~unawaited' /\ \E c \in Client : Ask(c)
  <2>1. UNCHANGED <<pc, type, unawaited, irq, have_int_msg, disk>>
    BY <1>4 DEF Ask, driver, history
  <2> QED
    BY <1>4, <2>1 DEF SignalsOK
<1>5. CASE ~unawaited' /\ (ReceiveTest \/ ReceiveBlock)
  <2>1. /\ UNCHANGED <<type, unawaited, irq, disk>> /\ pc \in Receiving
        /\ have_int_msg' \in {have_int_msg, FALSE}
        /\ pc' \in {"halted", "block any", "wait any"}
    BY <1>5 DEF ReceiveTest, ReceiveBlock, history
  <2>2. ~irq /\ ~have_int_msg /\ disk.state = "idle"
    BY <1>5, <2>1 DEF SignalsOK
  <2> QED
    BY <2>1, <2>2 DEF SignalsOK
<1>6. CASE ~unawaited' /\ Receive
  BY <1>6, ServeFacts DEF Receive, SignalsOK
<1>7. CASE ~unawaited' /\ Poll
  BY <1>7 DEF Poll, GetStatus, NotBusy, history, SignalsOK
<1>8. CASE ~unawaited' /\ Command
  <2>1. /\ pc = "command" /\ ~unawaited /\ irq' = FALSE /\ UNCHANGED <<have_int_msg, type>>
        /\ disk' = [state |-> IF command = "write" THEN "data" ELSE "busy", command |-> command,
                    sectors |-> IF type = "open" THEN 1 ELSE left]
        /\ type = "open" => pc' = "test int"
        /\ type # "open" => pc' \in {"data", "drq?"}
    BY <1>8 DEF Command, Accept, history
  <2>2. type = "open" => /\ disk'.state = "busy" /\ disk'.sectors = 1 /\ disk'.command # "write"
    BY <2>1 DEF ServiceOK
  <2> QED
    BY <2>1, <2>2 DEF SignalsOK
<1>9. CASE ~unawaited' /\ (WaitTest \/ WaitBlock)
  <2>1. /\ UNCHANGED <<type, unawaited, irq, disk>> /\ pc \in Awaiting /\ type = "open"
        /\ \/ pc' = "data" /\ have_int_msg /\ have_int_msg' = FALSE
           \/ pc' \in {"block int", "wait int"} /\ UNCHANGED have_int_msg
    BY <1>9 DEF WaitTest, Awaited, WaitBlock, history, ServiceOK
  <2>2. /\ disk.command # "write" /\ disk.sectors = 1 /\ disk.state # "idle"
        /\ irq \/ have_int_msg => disk.state = "data"
        /\ ~(irq /\ have_int_msg)
    BY <1>9, <2>1 DEF SignalsOK
  <2>3. CASE pc' = "data"
    BY <2>1, <2>2, <2>3 DEF SignalsOK
  <2>4. CASE pc' # "data"
    BY <2>1, <2>2, <2>4 DEF SignalsOK
  <2> QED
    BY <2>3, <2>4
<1>10. CASE ~unawaited' /\ (Identified \/ TableRead)
  <2>1. /\ pc = "data" /\ type = "open" /\ ~unawaited /\ disk' = Transferred
        /\ pc' \in {"busy?", "reply"} /\ UNCHANGED <<irq, have_int_msg, type>>
    BY <1>10 DEF Identified, TableRead
  <2>2. /\ disk.state = "data" /\ ~irq /\ ~have_int_msg
        /\ disk.command # "write" /\ disk.sectors = 1
    BY <2>1 DEF SignalsOK
  <2>3. disk'.state = "idle"
    BY <2>1, <2>2 DEF Transferred, Idle
  <2> QED
    BY <2>1, <2>2, <2>3 DEF SignalsOK
<1>11. CASE ~unawaited' /\ PollWrite
  BY <1>11 DEF PollWrite, GetStatus, history, SignalsOK
<1>12. CASE ~unawaited' /\ Reply
  BY <1>12 DEF Reply, history, SignalsOK
<1>13. CASE ~unawaited' /\ UNCHANGED vars
  BY <1>13 DEF vars, driver, history, SignalsOK
<1>14. CASE SectorRead \/ SectorWrite
  BY <1>1, <1>14 DEF SectorRead, SectorWrite
<1> QED
  BY <1>1, <1>2, <1>3, <1>4, <1>5, <1>6, <1>7, <1>8, <1>9, <1>10, <1>11, <1>12, <1>13, <1>14
     DEF Next, Task, Protocol

\* From request to request hdd_task, its clients, the disk and the interrupt stay in
\* step: the count of opens is the opens hdd_open has counted and hdd_close has not,
\* a request has as many sectors left as it may transfer, and before the first read
\* or write no interrupt is ever left over.
THEOREM DriverInductive == Spec => []DriverInv
<1>1. DriverInv /\ [Next]_vars => DriverInv'
  <2> SUFFICES ASSUME DriverInv, [Next]_vars PROVE DriverInv'
    OBVIOUS
  <2>1. CountOK' /\ DiskOK' /\ ServiceOK'
    BY CountStep, DiskStep, ServiceStep
  <2>2. TypeOK'
    BY <2>1, TypeStep
  <2> QED
    BY <2>1, <2>2, ClientsStep, SignalsStep DEF DriverInv
<1> QED
  BY <1>1, InitDriver, PTL DEF Spec

\* The counters of hdd_task stay in their ranges: it never closes more than it has
\* opened, and it transfers no more sectors than it was asked for.
THEOREM TypeCorrect == Spec => []TypeOK
<1>1. DriverInv => TypeOK
  BY DEF DriverInv
<1> QED
  BY <1>1, DriverInductive, PTL

\* Until hdd_read_write runs for the first time hdd_interrupt_wait consumes every
\* interrupt: handle_identify and get_partition_table leave none to be taken later.
THEOREM InterruptsConsumedEver == Spec => []InterruptsConsumed
<1>1. DriverInv => InterruptsConsumed
  BY DEF DriverInv, SignalsOK, InterruptsConsumed, Receiving
<1> QED
  BY <1>1, DriverInductive, PTL

\* The driver that reads the partition tables and prints them takes the steps of the
\* driver that leaves open what it reads, so what is proved of that one holds of it.
THEOREM OpenIsDriver == OpenSpec => Spec
<1>1. OpenInit => Init
  BY DEF OpenInit
<1>2. [OpenNext]_openVars => [Next]_vars
  BY DEF OpenNext, openVars, OpenIdentified, OpenTableRead, OpenPrint, OpenReply, Next, Task
<1> QED
  BY <1>1, <1>2, PTL DEF OpenSpec, Spec

--------------------------------------------------------------------------------
(* Opening: the partition tables.                                             *)

N == NR_PART_PER_DRIVE
M == NR_SUB_PER_PART

--------------------------------------------------------------------------------
(* Quotients and remainders.                                                  *)

LEMMA TimesMonotone ==
  ASSUME NEW a \in Nat, NEW b \in Nat, NEW c \in Nat, b <= c
  PROVE  b * a <= c * a
<1>1. PICK d \in Nat : c = b + d
  <2>1. c - b \in Nat /\ c = b + (c - b)
    OBVIOUS
  <2> QED
    BY <2>1
<1>2. c * a = b * a + d * a /\ d * a \in Nat /\ b * a \in Nat
  BY <1>1
<1> QED
  BY <1>2

LEMMA DivMod ==
  ASSUME NEW a \in Nat, NEW b \in Nat \ {0}
  PROVE  /\ a \div b \in Nat /\ a % b \in 0 .. b - 1
         /\ a = (a \div b) * b + (a % b)
OBVIOUS

\* Row and column are found again.
LEMMA Unique ==
  ASSUME NEW m \in Nat \ {0}, NEW s \in Nat, NEW k \in 0 .. m - 1
  PROVE  (s * m + k) \div m = s /\ (s * m + k) % m = k
<1> DEFINE a == s * m + k
           q == a \div m
           r == a % m
<1>1. a \in Nat /\ q \in Nat /\ r \in 0 .. m - 1 /\ a = q * m + r
  <2>1. a \in Nat
    OBVIOUS
  <2> HIDE DEF a
  <2> QED
    BY <2>1, DivMod
<1>2. s * m \in Nat /\ q * m \in Nat
  BY <1>1
<1> HIDE DEF q, r
<1>3. ~(q < s)
  <2> SUFFICES ASSUME q < s PROVE FALSE
    OBVIOUS
  <2>1. (q + 1) * m <= s * m
    BY <1>1, TimesMonotone
  <2>2. (q + 1) * m = q * m + m
    BY <1>1
  <2> QED
    BY <1>1, <1>2, <2>1, <2>2
<1>4. ~(s < q)
  <2> SUFFICES ASSUME s < q PROVE FALSE
    OBVIOUS
  <2>1. (s + 1) * m <= q * m
    BY <1>1, TimesMonotone
  <2>2. (s + 1) * m = s * m + m
    OBVIOUS
  <2> QED
    BY <1>1, <1>2, <2>1, <2>2
<1>5. q = s /\ r = k
  <2>1. q = s
    BY <1>1, <1>3, <1>4
  <2> QED
    BY <1>1, <1>2, <2>1
<1> QED
  BY <1>5 DEF q, r

\* The place behind another on a circle of c.
LEMMA NextInCircle ==
  ASSUME NEW c \in Nat \ {0}, NEW i \in Nat
  PROVE  (i + 1) % c = IF i % c = c - 1 THEN 0 ELSE (i % c) + 1
<1> DEFINE q == i \div c
           k == i % c
<1>1. q \in Nat /\ k \in 0 .. c - 1 /\ i = q * c + k
  BY DivMod
<1> HIDE DEF q, k
<1>2. CASE k = c - 1
  <2>1. i + 1 = (q + 1) * c + 0
    BY <1>1, <1>2
  <2>2. 0 \in 0 .. c - 1 /\ q + 1 \in Nat
    BY <1>1
  <2>3. ((q + 1) * c + 0) % c = 0
    BY <2>2, Unique
  <2>4. (i + 1) % c = 0
    BY <2>1, <2>3
  <2> QED
    BY <1>2, <2>4 DEF k
<1>3. CASE k # c - 1
  <2>1. i + 1 = q * c + (k + 1) /\ k + 1 \in 0 .. c - 1
    BY <1>1, <1>3
  <2>2. (q * c + (k + 1)) % c = k + 1
    BY <1>1, <2>1, Unique
  <2>3. (i + 1) % c = k + 1
    BY <2>1, <2>2
  <2> QED
    BY <1>3, <2>3 DEF k
<1> QED
  BY <1>2, <1>3

\* Where row s and column k of a table of M columns lie, only they do.
LEMMA CellsDiffer ==
  ASSUME NEW s \in Nat, NEW t \in Nat, NEW k \in 0 .. M - 1, NEW j \in 0 .. M - 1,
         s * M + k = t * M + j
  PROVE  s = t /\ k = j
BY GeometryAssumption, Unique DEF M

\* Every entry of a drive has a row and a column.
LEMMA CellOf ==
  ASSUME NEW l \in 0 .. NR_SUB_PER_DRIVE - 1
  PROVE  /\ l \div M \in PartSlot /\ l % M \in 0 .. M - 1
         /\ l = (l \div M) * M + (l % M)
<1>1. M \in Nat \ {0} /\ N \in Nat \ {0} /\ l \in Nat
  BY GeometryAssumption DEF M, N, NR_SUB_PER_DRIVE
<1> DEFINE q == l \div M
           r == l % M
<1>2. q \in Nat /\ r \in 0 .. M - 1 /\ l = q * M + r
  BY <1>1, DivMod
<1> HIDE DEF q, r
<1>3. N * M \in Nat /\ q * M \in Nat /\ l < N * M
  <2>1. NR_SUB_PER_DRIVE = N * M
    BY <1>1 DEF NR_SUB_PER_DRIVE, M, N
  <2> QED
    BY <1>1, <1>2, <2>1
<1>4. q < N
  <2> SUFFICES ASSUME N <= q PROVE FALSE
    BY <1>1, <1>2
  <2>1. N * M <= q * M
    BY <1>1, <1>2, TimesMonotone
  <2> QED
    BY <1>2, <1>3, <2>1
<1> QED
  BY <1>1, <1>2, <1>4 DEF q, r, PartSlot, N

--------------------------------------------------------------------------------
(* The inductive invariant of the walk: what is filled is filled as the disk  *)
(* has it, up to where the walk stands; what is not is empty, or left from an *)
(* earlier walk.                                                              *)

Empty == Info(0, 0)
ChainOf(t) == layout[t].chain

\* What belongs into the entry in column j of row t.
LaidAt(t, j) ==
  IF layout[t].kind # "extended" \/ (j >= ChainOf(t) /\ ~layout[t].back) THEN Empty
  ELSE Info(Base(t) + 2 * (j % ChainOf(t)) + 1, 1)

TablesType ==
  /\ DOMAIN primary = 0 .. N /\ DOMAIN logical = 0 .. NR_SUB_PER_DRIVE - 1
  /\ \A p \in 1 .. N : primary[p] \in {Empty, LaidPrimary(p, DiskSize)}
  /\ \A t \in PartSlot, j \in 0 .. M - 1 : logical[t * M + j] \in {Empty, LaidAt(t, j)}

PrimaryFilled(n) == \A p \in 1 .. N : p <= n => primary[p] = LaidPrimary(p, DiskSize)
LogicalFilled(s, k) ==
  \A t \in PartSlot, j \in 0 .. M - 1 :
    t < s \/ (t = s /\ j < k) => logical[t * M + j] = LaidAt(t, j)

InChain ==
  /\ slot \in PartSlot /\ layout[slot].kind = "extended"
  /\ sub \in 0 .. M - 1 /\ (sub < ChainOf(slot) \/ layout[slot].back)
  /\ next_sub_sector = Base(slot) + 2 * (sub % ChainOf(slot))
  /\ PrimaryFilled(slot + 1) /\ LogicalFilled(slot, sub)

WalkAt ==
  /\ walk \in {"idle", "primary", "extended", "read"}
  /\ walk = "extended" => InChain
  /\ walk = "read" \/ (walk = "idle" /\ open_cnt > 0) => PrimaryFilled(N) /\ LogicalFilled(N, 0)

WalkInv ==
  /\ layout \in Layouts /\ open_cnt \in Int
  /\ open_cnt > 0 \/ walk # "idle" => primary[0] = Info(0, DiskSize)
  /\ TablesType /\ WalkAt

\* What is assumed of geometry and disks.
LEMMA Given ==
  /\ N \in Nat \ {0} /\ M \in Nat \ {0} /\ Span \in Nat
  /\ PartSlot = 0 .. N - 1
  /\ \A l \in Layouts : \A t \in PartSlot :
       /\ l[t].kind \in {"none", "plain", "extended"} /\ l[t].back \in BOOLEAN
       /\ l[t].chain \in Nat \ {0} /\ 2 * l[t].chain < Span
<1>1. N \in Nat \ {0} /\ M \in Nat \ {0} /\ Span \in Nat /\ PartSlot = 0 .. N - 1
  BY GeometryAssumption, LayoutAssumption DEF N, M, PartSlot
<1>2. ASSUME NEW l \in Layouts, NEW t \in PartSlot
      PROVE  /\ l[t].kind \in {"none", "plain", "extended"} /\ l[t].back \in BOOLEAN
             /\ l[t].chain \in Nat \ {0} /\ 2 * l[t].chain < Span
  <2>1. l[t] \in Slot /\ 2 * l[t].chain < Span
    BY LayoutAssumption
  <2> QED
    BY <2>1 DEF Slot
<1> QED
  BY <1>1, <1>2

LEMMA LaidIsLaidAt ==
  ASSUME NEW t \in PartSlot, NEW j \in 0 .. M - 1
  PROVE  LaidLogical(t * M + j) = LaidAt(t, j)
<1>1. (t * M + j) \div M = t /\ (t * M + j) % M = j
  BY Given, Unique
<1> QED
  BY <1>1 DEF LaidLogical, LaidAt, Empty, ChainOf, M

\* A row and a column are those of an entry of the drive.
LEMMA CellInside ==
  ASSUME NEW t \in PartSlot, NEW j \in 0 .. M - 1
  PROVE  t * M + j \in 0 .. NR_SUB_PER_DRIVE - 1
<1>1. t \in Nat /\ t + 1 <= N /\ N \in Nat /\ M \in Nat /\ j \in Nat /\ j < M
  BY Given
<1>2. (t + 1) * M <= N * M
  BY <1>1, TimesMonotone
<1>3. (t + 1) * M = t * M + M /\ t * M \in Nat /\ N * M \in Nat /\ NR_SUB_PER_DRIVE = N * M
  BY <1>1 DEF NR_SUB_PER_DRIVE, N, M
<1> QED
  BY <1>1, <1>2, <1>3

LEMMA WalkInitInv == OpenInit => WalkInv
<1> SUFFICES ASSUME OpenInit PROVE WalkInv
  OBVIOUS
<1>1. /\ layout \in Layouts /\ open_cnt = 0 /\ walk = "idle"
      /\ primary = [p \in 0 .. N |-> Empty]
      /\ logical = [l \in 0 .. NR_SUB_PER_DRIVE - 1 |-> Empty]
  BY DEF OpenInit, Init, WalkInit, N, Empty
<1>2. \A t \in PartSlot, j \in 0 .. M - 1 : logical[t * M + j] = Empty
  <2> SUFFICES ASSUME NEW t \in PartSlot, NEW j \in 0 .. M - 1
               PROVE  t * M + j \in 0 .. NR_SUB_PER_DRIVE - 1
    BY <1>1
  <2> QED
    BY CellInside
<1>3. \A p \in 1 .. N : primary[p] = Empty
  BY <1>1, Given
<1>4. DOMAIN primary = 0 .. N /\ DOMAIN logical = 0 .. NR_SUB_PER_DRIVE - 1
  BY <1>1
<1>5. TablesType
  BY <1>2, <1>3, <1>4 DEF TablesType
<1> QED
  BY <1>1, <1>5 DEF WalkInv, WalkAt

\* The loop over the primary table, from a slot before which all is filled.
LEMMA LoopFromKeeps ==
  ASSUME NEW s \in 0 .. N, LoopFrom(s), layout' = layout, layout \in Layouts,
         DOMAIN primary = 0 .. N, PrimaryFilled(s),
         \A p \in 1 .. N : primary[p] \in {Empty, LaidPrimary(p, DiskSize)},
         \A t \in PartSlot, j \in 0 .. M - 1 : logical'[t * M + j] \in {Empty, LaidAt(t, j)},
         \A t \in PartSlot, j \in 0 .. M - 1 : t < s => logical'[t * M + j] = LaidAt(t, j)
  PROVE  /\ DOMAIN primary' = 0 .. N /\ primary'[0] = primary[0]
         /\ \A p \in 1 .. N : primary'[p] \in {Empty, LaidPrimary(p, DiskSize)}
         /\ WalkAt'
<1>1. PICK e \in s .. N :
        /\ StopsAt(s, e)
        /\ primary' = [p \in 0 .. N |->
             IF p - 1 \in s .. e /\ PrimaryTable(layout)[p - 1].system_id # NO_PART
             THEN Info(PrimaryTable(layout)[p - 1].starting_sector, PrimaryTable(layout)[p - 1].sector_cnt)
             ELSE primary[p]]
        /\ slot' = e /\ sub' = 0
        /\ IF e < N
           THEN walk' = "extended" /\ next_sub_sector' = PrimaryTable(layout)[e].starting_sector
           ELSE walk' = "read" /\ next_sub_sector' = 0
  BY Zenon DEF LoopFrom, N
<1>2. e \in Nat /\ s \in Nat /\ N \in Nat /\ s <= e /\ e <= N
  BY Given
<1>3. ASSUME NEW p \in 1 .. N
      PROVE  /\ PrimaryTable(layout)[p - 1].system_id # NO_PART <=> layout[p - 1].kind # "none"
             /\ layout[p - 1].kind # "none" =>
                  /\ PrimaryTable(layout)[p - 1].starting_sector = Base(p - 1)
                  /\ PrimaryTable(layout)[p - 1].sector_cnt = Span
             /\ LaidPrimary(p, DiskSize) =
                  IF layout[p - 1].kind = "none" THEN Empty ELSE Info(Base(p - 1), Span)
  <2> DEFINE t == p - 1
  <2>1. t \in PartSlot /\ p # 0
    BY Given
  <2> HIDE DEF t
  <2>2. layout[t].kind \in {"none", "plain", "extended"}
    BY <2>1, Given
  <2>3. PrimaryTable(layout)[t] =
          IF layout[t].kind = "none" THEN PartEntry(NO_PART, 0, 0)
          ELSE IF layout[t].kind = "plain" THEN PartEntry(SomePart, Base(t), Span)
          ELSE PartEntry(EXT_PART, Base(t), Span)
    BY <2>1, <2>2 DEF PrimaryTable
  <2>4. PrimaryTable(layout)[t].system_id # NO_PART <=> layout[t].kind # "none"
    BY <2>3 DEF PartEntry, NO_PART, SomePart, EXT_PART
  <2>5. layout[t].kind # "none" =>
          PrimaryTable(layout)[t].starting_sector = Base(t) /\ PrimaryTable(layout)[t].sector_cnt = Span
    BY <2>3 DEF PartEntry
  <2> QED
    BY <2>1, <2>4, <2>5 DEF LaidPrimary, Empty, t
<1>4. ASSUME NEW p \in 1 .. N
      PROVE  primary'[p] = IF p - 1 \in s .. e THEN LaidPrimary(p, DiskSize) ELSE primary[p]
  <2>1. p \in 0 .. N
    OBVIOUS
  <2>2. CASE p - 1 \in s .. e /\ layout[p - 1].kind # "none"
    BY <1>1, <1>3, <2>1, <2>2
  <2>3. CASE p - 1 \in s .. e /\ layout[p - 1].kind = "none"
    <3>1. primary'[p] = primary[p]
      BY <1>1, <1>3, <2>1, <2>3
    <3>2. LaidPrimary(p, DiskSize) = Empty
      BY <1>3, <2>3
    <3> QED
      BY <2>3, <3>1, <3>2
  <2>4. CASE p - 1 \notin s .. e
    BY <1>1, <2>1, <2>4
  <2> QED
    BY <2>2, <2>3, <2>4
<1>5. DOMAIN primary' = 0 .. N /\ primary'[0] = primary[0]
  <2>1. 0 \in 0 .. N /\ ~(0 - 1 \in s .. e)
    BY <1>2
  <2> QED
    BY <1>1, <2>1
<1>6. \A p \in 1 .. N : p <= e + 1 => primary'[p] = LaidPrimary(p, DiskSize)
  <2> SUFFICES ASSUME NEW p \in 1 .. N, p <= e + 1 PROVE primary'[p] = LaidPrimary(p, DiskSize)
    OBVIOUS
  <2>1. CASE p - 1 \in s .. e
    BY <1>4, <2>1
  <2>2. CASE p - 1 \notin s .. e
    <3>1. p <= s
      BY <1>2, <2>2
    <3> QED
      BY <1>4, <2>2, <3>1 DEF PrimaryFilled
  <2> QED
    BY <2>1, <2>2
<1>7. ASSUME NEW t \in PartSlot, NEW j \in 0 .. M - 1, t < e
      PROVE  logical'[t * M + j] = LaidAt(t, j)
  <2>1. CASE t < s
    BY <2>1
  <2>2. CASE ~(t < s)
    <3>1. t \in s .. e - 1
      BY <1>2, <1>7, <2>2, Given
    <3>2. layout[t].kind # "extended"
      BY <1>1, <3>1 DEF StopsAt
    <3> QED
      BY <3>2 DEF LaidAt
  <2> QED
    BY <2>1, <2>2
<1>8. ASSUME e < N PROVE WalkAt'
  <2>1. /\ e \in PartSlot /\ layout[e].kind = "extended" /\ 0 \in 0 .. M - 1
        /\ ChainOf(e) \in Nat \ {0} /\ 0 % ChainOf(e) = 0
    <3>1. e \in PartSlot /\ layout[e].kind = "extended"
      BY <1>1, <1>2, <1>8, Given DEF StopsAt, N
    <3>2. ChainOf(e) \in Nat \ {0}
      BY <3>1, Given DEF ChainOf
    <3> HIDE DEF ChainOf
    <3> QED
      BY <3>1, <3>2, Given
  <2>2. next_sub_sector' = Base(e) + 2 * (0 % ChainOf(e))
    <3>1. PrimaryTable(layout)[e].starting_sector = Base(e)
      <4>1. PrimaryTable(layout)[e] = PartEntry(EXT_PART, Base(e), Span)
        BY <2>1 DEF PrimaryTable
      <4> QED
        BY <4>1 DEF PartEntry
    <3>2. Base(e) \in Nat
      BY <1>2, Given DEF Base
    <3> QED
      BY <1>1, <1>8, <2>1, <3>1, <3>2
  <2>3. PrimaryFilled(slot + 1)'
    <3>1. slot' + 1 = e + 1 /\ \A p \in 1 .. N : LaidPrimary(p, DiskSize)' = LaidPrimary(p, DiskSize)
      BY <1>1 DEF LaidPrimary
    <3> HIDE DEF LaidPrimary
    <3> QED
      BY <1>6, <3>1 DEF PrimaryFilled
  <2>4. LogicalFilled(slot, sub)'
    <3> SUFFICES ASSUME NEW t \in PartSlot, NEW j \in 0 .. M - 1, t < e \/ (t = e /\ j < 0)
                 PROVE  logical'[t * M + j] = LaidAt(t, j)
      BY <1>1 DEF LogicalFilled, LaidAt, ChainOf
    <3>1. t < e
      BY <1>2, Given
    <3> QED
      BY <1>7, <3>1
  <2>5. InChain'
    BY <1>1, <2>1, <2>2, <2>3, <2>4 DEF InChain, ChainOf, Base
  <2> QED
    BY <1>1, <1>8, <2>5 DEF WalkAt
<1>9. ASSUME e = N PROVE WalkAt'
  <2>1. PrimaryFilled(N)'
    <3>1. \A p \in 1 .. N : LaidPrimary(p, DiskSize)' = LaidPrimary(p, DiskSize)
      BY DEF LaidPrimary
    <3>2. \A p \in 1 .. N : p <= e + 1
      BY <1>2, <1>9
    <3> QED
      BY <1>6, <3>1, <3>2 DEF PrimaryFilled
  <2>2. LogicalFilled(N, 0)'
    <3> SUFFICES ASSUME NEW t \in PartSlot, NEW j \in 0 .. M - 1
                 PROVE  logical'[t * M + j] = LaidAt(t, j)
      BY DEF LogicalFilled, LaidAt, ChainOf
    <3>1. t < e
      BY <1>9, Given
    <3> QED
      BY <1>7, <3>1
  <2> QED
    BY <1>1, <1>2, <1>9, <2>1, <2>2 DEF WalkAt
<1>10. \A p \in 1 .. N : primary'[p] \in {Empty, LaidPrimary(p, DiskSize)}
  BY <1>4
<1> QED
  BY <1>2, <1>5, <1>8, <1>9, <1>10

\* The start of the walk.
LEMMA ReadPrimaryKeeps ==
  ASSUME WalkInv, ReadPrimary, UNCHANGED open_cnt
  PROVE  WalkInv'
<1>1. LoopFrom(0) /\ walk = "primary" /\ UNCHANGED <<layout, logical, open_cnt>>
  BY DEF ReadPrimary
<1>2. /\ DOMAIN primary = 0 .. N /\ PrimaryFilled(0) /\ layout \in Layouts
      /\ \A p \in 1 .. N : primary[p] \in {Empty, LaidPrimary(p, DiskSize)}
      /\ \A t \in PartSlot, j \in 0 .. M - 1 : logical'[t * M + j] \in {Empty, LaidAt(t, j)}
      /\ \A t \in PartSlot, j \in 0 .. M - 1 : t < 0 => logical'[t * M + j] = LaidAt(t, j)
      /\ 0 \in 0 .. N
  <2>1. 0 \in 0 .. N /\ \A t \in PartSlot : ~(t < 0)
    BY Given
  <2>2. PrimaryFilled(0)
    BY Given DEF PrimaryFilled
  <2> QED
    BY <1>1, <2>1, <2>2 DEF WalkInv, TablesType
<1>3. /\ DOMAIN primary' = 0 .. N /\ primary'[0] = primary[0] /\ WalkAt'
      /\ \A p \in 1 .. N : primary'[p] \in {Empty, LaidPrimary(p, DiskSize)}
  BY <1>1, <1>2, LoopFromKeeps
<1>4. TablesType'
  BY <1>1, <1>3 DEF WalkInv, TablesType, LaidAt, ChainOf, LaidPrimary
<1> QED
  BY <1>1, <1>3, <1>4 DEF WalkInv

\* The table that is read is the one whose number in the chain sub is.
LEMMA TableOfChain ==
  ASSUME layout \in Layouts, InChain
  PROVE  LET k == sub % ChainOf(slot)
             table == TableAt(layout, next_sub_sector)
         IN /\ k \in 0 .. ChainOf(slot) - 1
            /\ table = ExtendedTable(layout, slot, k)
<1> DEFINE c == ChainOf(slot)
           k == sub % c
           x == next_sub_sector
<1>1. /\ slot \in PartSlot /\ slot \in Nat /\ c \in Nat \ {0} /\ 2 * c < Span /\ Span \in Nat \ {0}
      /\ sub \in Nat
  BY Given DEF InChain, ChainOf
<1> HIDE DEF c
<1>2. k \in 0 .. c - 1
  BY <1>1
<1>3. x = (slot + 1) * Span + 2 * k
  BY DEF InChain, Base, c
<1> HIDE DEF k, x
<1>4. 2 * k \in 0 .. Span - 1 /\ slot + 1 \in Nat
  BY <1>1, <1>2
<1>5. x \div Span = slot + 1
  BY <1>1, <1>3, <1>4, Unique
<1>6. (x \div Span) - 1 = slot
  BY <1>1, <1>5
<1>7. (x - Base(slot)) \div 2 = k
  <2>1. Base(slot) \in Nat /\ x = Base(slot) + 2 * k
    BY <1>1, <1>3, <1>4 DEF Base
  <2>2. x - Base(slot) = 2 * k
    BY <1>2, <1>1, <2>1
  <2> QED
    BY <1>1, <1>2, <2>2
<1>8. TableAt(layout, x) = ExtendedTable(layout, slot, k)
  BY <1>6, <1>7, Zenon DEF TableAt
<1> QED
  BY <1>2, <1>8 DEF k, c, x

\* A table of a chain fills its own entry, and the walk goes on as the chain does.
LEMMA ReadExtendedKeeps ==
  ASSUME WalkInv, ReadExtended, UNCHANGED open_cnt
  PROVE  WalkInv'
<1> DEFINE c == ChainOf(slot)
           k == sub % c
           back == layout[slot].back
           table == TableAt(layout, next_sub_sector)
           here == slot * M + sub
<1>1. /\ layout \in Layouts /\ InChain /\ TablesType /\ walk = "extended"
      /\ UNCHANGED <<layout, open_cnt>> /\ open_cnt \in Int
      /\ open_cnt > 0 \/ walk # "idle" => primary[0] = Info(0, DiskSize)
  BY DEF ReadExtended, WalkInv, WalkAt
<1>2. /\ slot \in PartSlot /\ layout[slot].kind = "extended" /\ sub \in 0 .. M - 1
      /\ sub < c \/ back
      /\ PrimaryFilled(slot + 1) /\ LogicalFilled(slot, sub)
      /\ next_sub_sector = Base(slot) + 2 * k
  BY <1>1 DEF InChain
<1>3. /\ c \in Nat \ {0} /\ back \in BOOLEAN /\ slot \in Nat /\ slot < N /\ sub \in Nat /\ Span \in Nat
      /\ Base(slot) \in Nat /\ N \in Nat /\ M \in Nat
  BY <1>1, <1>2, Given DEF ChainOf, Base
<1>4. k \in 0 .. c - 1 /\ table = ExtendedTable(layout, slot, k)
  BY <1>1, TableOfChain
<1> HIDE DEF c, k, table
<1>5. /\ table[1].starting_sector = 1 /\ table[1].sector_cnt = 1
      /\ table[2].system_id = NO_PART <=> ~(k < c - 1) /\ ~back
      /\ table[2].system_id # NO_PART =>
           table[2].starting_sector = IF k < c - 1 THEN 2 * (k + 1) ELSE 0
  BY <1>3, <1>4 DEF ExtendedTable, PartEntry, NO_PART, EXT_PART, SomePart, c, ChainOf
<1>6. SubSignature + sub = here /\ ExtendedIndex = slot + 1
  <2>1. (slot + 1) \div (N + 1) = 0
    BY <1>3
  <2>2. ExtendedIndex = slot + 1
    BY <1>3, <2>1 DEF ExtendedIndex, Rem, Quot, NR_PRIM_PER_DRIVE, N
  <2> QED
    BY <1>3, <2>2 DEF SubSignature, M
<1>7. here \in DOMAIN logical
  BY <1>1, <1>2, CellInside DEF TablesType
<1>8. logical' = [logical EXCEPT ![here] = Info(Base(slot) + 2 * k + 1, 1)]
  BY <1>2, <1>5, <1>6 DEF ReadExtended, table
<1>9. LaidAt(slot, sub) = Info(Base(slot) + 2 * k + 1, 1)
  BY <1>2, <1>3 DEF LaidAt, k, c
<1>10. ASSUME NEW t \in PartSlot, NEW j \in 0 .. M - 1
       PROVE  logical'[t * M + j] = IF t = slot /\ j = sub THEN LaidAt(t, j) ELSE logical[t * M + j]
  <2>1. CASE t = slot /\ j = sub
    BY <1>7, <1>8, <1>9, <2>1
  <2>2. CASE ~(t = slot /\ j = sub)
    <3>1. t \in Nat
      BY Given
    <3>2. t * M + j # here
      BY <1>2, <1>3, <2>2, <3>1, CellsDiffer
    <3> HIDE DEF here
    <3> QED
      BY <1>8, <2>2, <3>2
  <2> QED
    BY <2>1, <2>2
<1> HIDE DEF here, back
<1>11. \A t \in PartSlot, j \in 0 .. M - 1 : logical'[t * M + j] \in {Empty, LaidAt(t, j)}
  BY <1>1, <1>10 DEF TablesType
<1>12. \A t \in PartSlot, j \in 0 .. M - 1 :
         t < slot \/ (t = slot /\ j <= sub) => logical'[t * M + j] = LaidAt(t, j)
  <2> SUFFICES ASSUME NEW t \in PartSlot, NEW j \in 0 .. M - 1, t < slot \/ (t = slot /\ j <= sub)
               PROVE  logical'[t * M + j] = LaidAt(t, j)
    OBVIOUS
  <2>1. CASE t = slot /\ j = sub
    BY <1>10, <2>1
  <2>2. CASE t < slot \/ (t = slot /\ j < sub)
    BY <1>2, <1>3, <1>10, <2>2 DEF LogicalFilled
  <2> QED
    BY <1>3, <2>1, <2>2
<1>13. DOMAIN logical' = 0 .. NR_SUB_PER_DRIVE - 1
  BY <1>1, <1>8 DEF TablesType
<1>14. ~back => sub < c /\ k = sub
  <2> SUFFICES ASSUME ~back PROVE sub < c /\ sub % c = sub
    BY DEF k
  <2> QED
    BY <1>2, <1>3
<1>15. CASE table[2].system_id = NO_PART \/ sub + 1 = M
  <2>1. LoopFrom(slot + 1)
    BY <1>15 DEF ReadExtended, table, M
  <2>2. ASSUME NEW t \in PartSlot, NEW j \in 0 .. M - 1, t < slot + 1
        PROVE  logical'[t * M + j] = LaidAt(t, j)
    <3>1. t \in Nat /\ (t < slot \/ t = slot)
      BY <1>3, <2>2, Given
    <3>2. CASE t < slot \/ j <= sub
      BY <1>12, <3>1, <3>2
    <3>3. CASE t = slot /\ sub < j
      <4>1. table[2].system_id = NO_PART
        BY <1>2, <1>3, <1>15, <3>3
      <4>2. ~back /\ j >= c
        BY <1>3, <1>4, <1>5, <1>14, <3>3, <4>1
      <4>3. LaidAt(t, j) = Empty
        BY <3>3, <4>2 DEF LaidAt, c, back
      <4> QED
        BY <1>11, <4>3
    <3> QED
      BY <1>3, <3>1, <3>2, <3>3
  <2>3. slot + 1 \in 0 .. N /\ DOMAIN primary = 0 .. N
    BY <1>1, <1>3 DEF TablesType
  <2>4. \A p \in 1 .. N : primary[p] \in {Empty, LaidPrimary(p, DiskSize)}
    BY <1>1 DEF TablesType
  <2>5. /\ DOMAIN primary' = 0 .. N /\ primary'[0] = primary[0] /\ WalkAt'
        /\ \A p \in 1 .. N : primary'[p] \in {Empty, LaidPrimary(p, DiskSize)}
    <3> DEFINE s == slot + 1
    <3>1. /\ LoopFrom(s) /\ s \in 0 .. N /\ PrimaryFilled(s)
          /\ \A t \in PartSlot, j \in 0 .. M - 1 : t < s => logical'[t * M + j] = LaidAt(t, j)
      BY <1>2, <2>1, <2>2, <2>3
    <3> HIDE DEF s
    <3> QED
      BY <1>1, <1>11, <2>3, <2>4, <3>1, LoopFromKeeps
  <2>6. TablesType'
    BY <1>1, <1>11, <1>13, <2>5 DEF TablesType, LaidAt, ChainOf, LaidPrimary
  <2> QED
    BY <1>1, <2>5, <2>6 DEF WalkInv
<1>16. CASE ~(table[2].system_id = NO_PART \/ sub + 1 = M)
  <2>1. /\ sub' = sub + 1 /\ UNCHANGED <<walk, slot, primary>>
        /\ next_sub_sector' = primary[slot + 1].base + table[2].starting_sector
    BY <1>6, <1>16 DEF ReadExtended, NextTable, table, M
  <2>2. primary[slot + 1].base = Base(slot)
    <3>1. slot + 1 \in 1 .. N
      BY <1>3
    <3>2. primary[slot + 1] = LaidPrimary(slot + 1, DiskSize)
      BY <1>2, <3>1 DEF PrimaryFilled
    <3>3. LaidPrimary(slot + 1, DiskSize) = Info(Base(slot), Span)
      <4>1. (slot + 1) - 1 = slot /\ slot + 1 # 0
        BY <1>3
      <4> QED
        BY <1>2, <4>1 DEF LaidPrimary
    <3> QED
      BY <3>2, <3>3 DEF Info
  <2>3. (sub + 1) % c = IF k = c - 1 THEN 0 ELSE k + 1
    BY <1>3, NextInCircle DEF k
  <2>4. next_sub_sector' = Base(slot) + 2 * ((sub + 1) % c)
    BY <1>3, <1>4, <1>5, <1>16, <2>1, <2>2, <2>3
  <2>5. sub + 1 \in 0 .. M - 1 /\ (sub + 1 < c \/ back)
    BY <1>2, <1>3, <1>4, <1>5, <1>14, <1>16
  <2>6. LogicalFilled(slot, sub)'
    <3> SUFFICES ASSUME NEW t \in PartSlot, NEW j \in 0 .. M - 1, t < slot \/ (t = slot /\ j < sub + 1)
                 PROVE  logical'[t * M + j] = LaidAt(t, j)
      BY <1>1, <2>1 DEF LogicalFilled, LaidAt, ChainOf
    <3>1. t < slot \/ (t = slot /\ j <= sub)
      BY <1>2
    <3> QED
      BY <1>12, <3>1
  <2>7. PrimaryFilled(slot + 1)'
    BY <1>1, <1>2, <2>1 DEF PrimaryFilled, LaidPrimary
  <2>8. InChain'
    BY <1>1, <1>2, <2>1, <2>4, <2>5, <2>6, <2>7 DEF InChain, c, back, ChainOf, Base
  <2>9. TablesType'
    BY <1>1, <1>11, <1>13, <2>1 DEF TablesType, LaidAt, ChainOf, LaidPrimary
  <2> QED
    BY <1>1, <2>1, <2>8, <2>9 DEF WalkInv, WalkAt
<1> QED
  BY <1>15, <1>16

\* hdd_open is where a drive gets its size, and where the walk starts.
LEMMA IdentifiedKeeps ==
  ASSUME WalkInv, OpenIdentified
  PROVE  WalkInv'
<1>1. /\ open_cnt' = open_cnt + 1 /\ primary' = [primary EXCEPT ![0] = Info(0, DiskSize)]
      /\ walk' = IF open_cnt = 0 THEN "primary" ELSE walk
      /\ UNCHANGED <<layout, slot, sub, next_sub_sector, logical>>
  BY DEF OpenIdentified, Identified, WalkIdentify, FirstOpen
<1>2. 0 \in DOMAIN primary /\ N \in Nat
  BY Given DEF WalkInv, TablesType
<1>3. /\ DOMAIN primary' = DOMAIN primary /\ primary'[0] = Info(0, DiskSize)
      /\ \A p \in 1 .. N : primary'[p] = primary[p]
  BY <1>1, <1>2
<1>4. \A p \in 1 .. N : LaidPrimary(p, DiskSize)' = LaidPrimary(p, DiskSize)
  BY <1>1 DEF LaidPrimary
<1>5. TablesType'
  BY <1>1, <1>3, <1>4 DEF WalkInv, TablesType, LaidAt, ChainOf
<1>6. WalkAt'
  <2>1. \A n : PrimaryFilled(n) => PrimaryFilled(n)'
    BY <1>3, <1>4 DEF PrimaryFilled
  <2>2. PrimaryFilled(slot + 1) => PrimaryFilled(slot + 1)'
    BY <1>1, <1>3, <1>4 DEF PrimaryFilled
  <2>3. /\ LogicalFilled(N, 0)' = LogicalFilled(N, 0)
        /\ LogicalFilled(slot, sub)' = LogicalFilled(slot, sub)
    BY <1>1 DEF LogicalFilled, LaidAt, ChainOf
  <2>4. InChain => InChain'
    BY <1>1, <2>2, <2>3 DEF InChain, ChainOf, Base
  <2>5. open_cnt' > 0 /\ walk' = "idle" => open_cnt > 0 /\ walk = "idle"
    BY <1>1 DEF WalkInv
  <2> QED
    BY <1>1, <2>1, <2>3, <2>4, <2>5 DEF WalkInv, WalkAt
<1> QED
  BY <1>1, <1>3, <1>5, <1>6 DEF WalkInv

\* Nothing else fills the tables, and nothing else counts an open.
LEMMA CountedOnlyHere ==
  ASSUME open_cnt \in Int,
         (\E c \in Client : Ask(c)) \/ DiskReady \/ Handler \/ Protocol \/ Reply \/ TableRead
  PROVE  open_cnt' \in {open_cnt, open_cnt - 1}
<1>1. ASSUME NEW c \in Client, Ask(c) PROVE open_cnt' = open_cnt
  BY <1>1 DEF Ask, driver
<1>2. ASSUME DiskReady \/ Handler \/ Reply \/ TableRead PROVE open_cnt' = open_cnt
  BY <1>2 DEF DiskReady, Handler, Reply, TableRead, driver
<1>3. ASSUME Receive PROVE open_cnt' \in {open_cnt, open_cnt - 1}
  BY <1>3 DEF Receive, Serve, Closed
<1>4. ASSUME Protocol, ~Receive PROVE open_cnt' = open_cnt
  BY <1>4 DEF Protocol, ReceiveTest, ReceiveBlock, Poll, GetStatus, Command, WaitTest, WaitBlock,
              SectorRead, PollWrite, SectorWrite, driver
<1> QED
  BY <1>1, <1>2, <1>3, <1>4

\* The tables stay as they are while the walk does not go on and no open is counted.
LEMMA RestKeeps ==
  ASSUME WalkInv, UNCHANGED <<layout, slot, sub, next_sub_sector, primary, logical>>,
         open_cnt' \in {open_cnt, open_cnt - 1},
         walk' = walk \/ (walk = "read" /\ walk' = "idle")
  PROVE  WalkInv'
<1>1. \A p \in 1 .. N : LaidPrimary(p, DiskSize)' = LaidPrimary(p, DiskSize)
  BY DEF LaidPrimary
<1>2. TablesType'
  BY <1>1 DEF WalkInv, TablesType, LaidAt, ChainOf
<1>3. /\ PrimaryFilled(N)' = PrimaryFilled(N) /\ PrimaryFilled(slot + 1)' = PrimaryFilled(slot + 1)
      /\ LogicalFilled(N, 0)' = LogicalFilled(N, 0)
      /\ LogicalFilled(slot, sub)' = LogicalFilled(slot, sub)
  BY <1>1 DEF PrimaryFilled, LogicalFilled, LaidAt, ChainOf
<1>4. InChain' = InChain
  BY <1>3 DEF InChain, ChainOf, Base
<1>5. open_cnt' \in Int /\ (open_cnt' > 0 => open_cnt > 0)
  BY DEF WalkInv
<1> QED
  BY <1>2, <1>3, <1>4, <1>5 DEF WalkInv, WalkAt

\* The invariant is inductive.
LEMMA WalkInductive == WalkInv /\ [OpenNext]_openVars => WalkInv'
<1> SUFFICES ASSUME WalkInv, [OpenNext]_openVars PROVE WalkInv'
  OBVIOUS
<1>0. open_cnt \in Int
  BY DEF WalkInv
<1>1. CASE OpenIdentified
  BY <1>1, IdentifiedKeeps
<1>2. CASE OpenTableRead
  <2>1. UNCHANGED open_cnt
    BY <1>2 DEF OpenTableRead, TableRead
  <2> QED
    BY <1>2, <2>1, ReadPrimaryKeeps, ReadExtendedKeeps DEF OpenTableRead
<1>3. CASE OpenPrint
  BY <1>0, <1>3, RestKeeps DEF OpenPrint, vars, driver
<1>4. CASE OpenReply
  BY <1>0, <1>4, CountedOnlyHere, RestKeeps DEF OpenReply, walkVars
<1>5. CASE /\ (\E c \in Client : Ask(c)) \/ DiskReady \/ Handler \/ Protocol
           /\ UNCHANGED <<walkVars, printed>>
  BY <1>0, <1>5, CountedOnlyHere, RestKeeps DEF walkVars
<1>6. CASE UNCHANGED openVars
  BY <1>0, <1>6, RestKeeps DEF openVars, vars, driver, walkVars
<1> QED
  BY <1>1, <1>2, <1>3, <1>4, <1>5, <1>6 DEF OpenNext

--------------------------------------------------------------------------------
(* The minors of the drives.                                                  *)

\* Each minor of the first drive is used as fs.h draws it, if there are at least two
\* drives (hdd.c hdd_read_write and hdd_io_control).
THEOREM FirstDriveAsDrawn ==
  ASSUME MAX_DRIVES # 1
  PROVE  \A d \in Drawn(0) : EntryOf(d.dev) = DrawnEntry(0, d)
<1>1. /\ N \in Nat \ {0} /\ M \in Nat \ {0} /\ MAX_DRIVES \in Nat /\ MAX_DRIVES >= 2
      /\ MAX_PRIM = MAX_DRIVES * (N + 1) - 1 /\ MAX_PRIM < 16
      /\ NR_SUB_PER_DRIVE = M * N /\ NR_SUB_PER_DRIVE \in Nat \ {0}
  <2>1. M * N \in Nat \ {0}
    <3>1. M \in Nat \ {0} /\ N \in Nat \ {0}
      BY Given
    <3>2. 1 * N <= M * N
      BY <3>1, TimesMonotone
    <3> QED
      BY <3>1, <3>2
  <2> QED
    BY <2>1, Given, GeometryAssumption
       DEF MAX_PRIM, MINOR_hd1a, NR_SUB_PER_DRIVE, NR_PRIM_PER_DRIVE, N, M
<1>2. N < MAX_PRIM
  <2>1. 2 * (N + 1) <= MAX_DRIVES * (N + 1)
    BY <1>1, TimesMonotone
  <2> QED
    BY <1>1, <2>1
<1> SUFFICES ASSUME NEW d \in Drawn(0) PROVE EntryOf(d.dev) = DrawnEntry(0, d)
  OBVIOUS
<1>3. CASE d.at = "primary"
  <2>1. PICK p \in 0 .. N : d.dev = p
    BY <1>1, <1>3 DEF Drawn, N, NR_PRIM_PER_DRIVE
  <2> QED
    BY <1>1, <1>2, <1>3, <2>1 DEF EntryOf, DrawnEntry, NR_PRIM_PER_DRIVE, N
<1>4. CASE d.at = "logical"
  <2>1. PICK l \in 0 .. NR_SUB_PER_DRIVE - 1 : d.dev = 16 + l
    BY <1>1, <1>4 DEF Drawn, MINOR_hd1a
  <2> DEFINE R == NR_SUB_PER_DRIVE
  <2>2. l \div R = 0 /\ R \in Nat \ {0} /\ l \in 0 .. R - 1
    BY <1>1
  <2>3. (16 + l) - 16 = l /\ ~(16 + l < MAX_PRIM)
    BY <1>1
  <2>4. Rem(l, R) = l
    BY <2>2 DEF Rem, Quot
  <2>5. EntryOf(d.dev) = [table |-> "logical", index |-> l]
    BY <2>1, <2>3, <2>4 DEF EntryOf, MINOR_hd1a
  <2>6. d.dev - MINOR_hd1a - 0 * NR_SUB_PER_DRIVE = l
    BY <1>1, <2>1, <2>2 DEF MINOR_hd1a
  <2> QED
    BY <1>4, <2>5, <2>6 DEF DrawnEntry
<1> QED
  BY <1>3, <1>4 DEF Drawn

\* Not so the primary ones of the second: the driver looks for them behind the table,
\* and for the last one in front of the other.
THEOREM SecondDriveStrays ==
  ASSUME MAX_DRIVES = 2, NR_SUB_PER_DRIVE >= MINOR_hd1a
  PROVE  \A p \in 0 .. N :
           LET e == EntryOf(NR_PRIM_PER_DRIVE + p)
           IN IF p = N THEN e.table = "logical" /\ e.index < 0
              ELSE e.table = "primary" /\ e.index \notin 0 .. N
<1> DEFINE R == NR_SUB_PER_DRIVE
<1>1. N \in Nat \ {0} /\ MAX_PRIM = 2 * N + 1 /\ MAX_PRIM < 16 /\ NR_PRIM_PER_DRIVE = N + 1
  BY Given, GeometryAssumption DEF MAX_PRIM, NR_PRIM_PER_DRIVE, N, MINOR_hd1a
<1>2. R \in Nat /\ R >= 16
  BY Given DEF NR_SUB_PER_DRIVE, N, M, MINOR_hd1a
<1> HIDE DEF R
<1> SUFFICES ASSUME NEW p \in 0 .. N
             PROVE  LET e == EntryOf(NR_PRIM_PER_DRIVE + p)
                    IN IF p = N THEN e.table = "logical" /\ e.index < 0
                       ELSE e.table = "primary" /\ e.index \notin 0 .. N
  OBVIOUS
<1>3. CASE p # N
  BY <1>1, <1>3 DEF EntryOf
<1>4. CASE p = N
  <2> DEFINE dev == NR_PRIM_PER_DRIVE + p
             a == dev - 16
  <2>1. a \in -15 .. -1 /\ ~(dev < MAX_PRIM)
    BY <1>1, <1>4
  <2> HIDE DEF a, dev
  <2>2. Quot(a, R) = 0
    <3>1. (-a) \div R = 0
      BY <1>2, <2>1
    <3> QED
      BY <2>1, <3>1 DEF Quot
  <2>3. Rem(a, R) = a
    BY <1>2, <2>1, <2>2 DEF Rem
  <2>4. EntryOf(dev) = [table |-> "logical", index |-> a]
    BY <2>1, <2>3 DEF EntryOf, MINOR_hd1a, a, R
  <2> QED
    BY <1>4, <2>1, <2>4 DEF dev
<1> QED
  BY <1>3, <1>4

\* Filled tables hold the entries that the disk has.
LEMMA EntriesAreLaid ==
  ASSUME WalkInv, PrimaryFilled(N), LogicalFilled(N, 0), primary[0] = Info(0, DiskSize)
  PROVE  /\ \A p \in 0 .. N : primary[p] = LaidPrimary(p, DiskSize)
         /\ \A l \in 0 .. NR_SUB_PER_DRIVE - 1 : logical[l] = LaidLogical(l)
<1>1. ASSUME NEW p \in 0 .. N PROVE primary[p] = LaidPrimary(p, DiskSize)
  <2>1. CASE p = 0
    BY <2>1 DEF LaidPrimary
  <2>2. CASE p # 0
    BY <2>2, Given DEF PrimaryFilled
  <2> QED
    BY <2>1, <2>2
<1>2. ASSUME NEW l \in 0 .. NR_SUB_PER_DRIVE - 1 PROVE logical[l] = LaidLogical(l)
  <2> DEFINE t == l \div M
             j == l % M
  <2>1. t \in PartSlot /\ j \in 0 .. M - 1 /\ l = t * M + j
    BY CellOf
  <2> HIDE DEF t, j
  <2>2. t < N
    BY <2>1, Given
  <2>3. logical[t * M + j] = LaidAt(t, j)
    BY <2>1, <2>2 DEF LogicalFilled
  <2> QED
    BY <2>1, <2>3, LaidIsLaidAt
<1> QED
  BY <1>1, <1>2

\* Once the drive is open its minors stand for what is on the disk, whatever that is.
THEOREM MinorsAreLayoutEver ==
  ASSUME MAX_DRIVES # 1
  PROVE  OpenSpec => []MinorsAreLayout
<1>1. WalkInv => MinorsAreLayout
  <2> SUFFICES ASSUME WalkInv, open_cnt > 0, walk = "idle", NEW d \in Drawn(0)
               PROVE  Geometry(d.dev) = Laid(d)
    BY DEF MinorsAreLayout
  <2>1. PrimaryFilled(N) /\ LogicalFilled(N, 0) /\ primary[0] = Info(0, DiskSize)
    BY DEF WalkInv, WalkAt
  <2>2. EntryOf(d.dev) = DrawnEntry(0, d)
    BY FirstDriveAsDrawn
  <2>3. CASE d.at = "primary"
    <3>1. PICK p \in 0 .. N : d.dev = p
      BY <2>3, Given DEF Drawn, N, NR_PRIM_PER_DRIVE
    <3>2. EntryOf(d.dev) = [table |-> "primary", index |-> p]
      BY <2>2, <2>3, <3>1, Given DEF DrawnEntry, NR_PRIM_PER_DRIVE, N
    <3>3. primary[p] = LaidPrimary(p, DiskSize)
      BY <2>1, EntriesAreLaid
    <3> QED
      BY <2>2, <3>2, <3>3 DEF Geometry, Laid
  <2>4. CASE d.at = "logical"
    <3>1. PICK l \in 0 .. NR_SUB_PER_DRIVE - 1 : d.dev = 16 + l
      BY <2>4, Given DEF Drawn, MINOR_hd1a, NR_SUB_PER_DRIVE, N, M
    <3>2. EntryOf(d.dev) = [table |-> "logical", index |-> l]
      <4>1. d.dev - MINOR_hd1a - 0 * NR_SUB_PER_DRIVE = l
        BY <3>1, Given DEF MINOR_hd1a, NR_SUB_PER_DRIVE, N, M
      <4> QED
        BY <2>2, <2>4, <4>1 DEF DrawnEntry
    <3>3. logical[l] = LaidLogical(l)
      BY <2>1, EntriesAreLaid
    <3> QED
      BY <2>2, <3>2, <3>3 DEF Geometry, Laid
  <2> QED
    BY <2>3, <2>4 DEF Drawn
<1> QED
  BY <1>1, WalkInitInv, WalkInductive, PTL DEF OpenSpec

--------------------------------------------------------------------------------
(* How far the arithmetic goes.                                               *)

\* The four bytes of a command name the sector as long as it has no more than 28 bits
\* (hdd_read_write; with more, MAKE_CMD_DEVICE loses some).
THEOREM CommandNamesSector ==
  ASSUME NEW drive \in {0, 1}, NEW sector \in Nat, sector < 268435456, NEW cnt
  PROVE  LET c == CommandFor(drive, sector, cnt)
         IN sector = c.lba_low + 256 * c.lba_mid + 65536 * c.lba_high + 16777216 * (c.device % 16)
<1> DEFINE low == sector \div 256
           mid == sector \div 65536
           top == sector \div 16777216
<1>1. /\ low \in Nat /\ sector = 256 * low + (sector % 256)
      /\ mid \in Nat /\ low = 256 * mid + (low % 256)
      /\ top \in Nat /\ mid = 256 * top + (mid % 256)
  <2>1. low \div 256 = mid /\ mid \div 256 = top
    BY SMT
  <2> QED
    BY <2>1, SMT
<1>2. top < 16
  BY SMT
<1>3. sector % 256 \in Nat /\ low % 256 \in Nat /\ mid % 256 \in Nat
  BY <1>1, SMT
<1>4. /\ CommandFor(drive, sector, cnt).lba_low = sector % 256
      /\ CommandFor(drive, sector, cnt).lba_mid = low % 256
      /\ CommandFor(drive, sector, cnt).lba_high = mid % 256
      /\ CommandFor(drive, sector, cnt).device = 160 + 64 * 1 + 16 * drive + ((top % 256) % 16)
  BY SMT DEF CommandFor, MAKE_CMD_DEVICE
<1> HIDE DEF low, mid, top
<1>5. (top % 256) % 16 = top
  <2>1. top % 256 = top /\ top % 16 = top
    BY <1>1, <1>2, SMT
  <2> QED
    BY <2>1
<1>6. (160 + 64 * 1 + 16 * drive + top) % 16 = top
  BY <1>1, <1>2, SMT
<1>7. CommandFor(drive, sector, cnt).device % 16 = top
  BY <1>4, <1>5, <1>6
<1>8. sector = (sector % 256) + 256 * (low % 256) + 65536 * (mid % 256) + 16777216 * top
  BY <1>1, <1>3, SMT
<1> QED
  BY <1>4, <1>7, <1>8, SMT

\* An int holds what it can, and other numbers as those that differ by the range.
LEMMA SignedIsItself ==
  ASSUME NEW n \in Int, -SignBit <= n, n < SignBit
  PROVE  Signed(n) = n
<1> DEFINE r == 2 * SignBit
           m == n + SignBit
<1>1. r \in Nat \ {0} /\ m \in 0 .. r - 1
  BY SignBitAssumption
<1> HIDE DEF r, m
<1>2. m % r = m
  BY <1>1
<1> QED
  BY <1>2, SignBitAssumption DEF Signed, r, m

LEMMA SignedDiffers ==
  ASSUME NEW n \in Int
  PROVE  \E q \in Int : Signed(n) = n - q * (2 * SignBit)
<1> DEFINE r == 2 * SignBit
           m == n + SignBit
<1>1. r \in Nat \ {0} /\ m \in Int
  BY SignBitAssumption
<1> HIDE DEF r, m
<1>2. m % r = m - (m \div r) * r /\ m \div r \in Int
  BY <1>1
<1>3. Signed(n) = n - (m \div r) * r
  BY <1>1, <1>2, SignBitAssumption DEF Signed, m, r
<1> QED
  BY <1>2, <1>3 DEF r

\* The loop over the sectors of a read or a write ends just for a count that is a
\* multiple of 512: left skips 0 for any other (hdd_read_write).
THEOREM LoopEndsOnWholeSectors ==
  ASSUME NEW cnt \in 0 .. SignBit - 1, SignBit % SECTOR_SIZE = 0
  PROVE  (\E turns \in Nat : ~LoopsOn(cnt, turns)) <=> cnt % SECTOR_SIZE = 0
<1>1. cnt \in Nat
  BY SignBitAssumption
<1>2. ASSUME cnt % SECTOR_SIZE = 0 PROVE \E turns \in Nat : ~LoopsOn(cnt, turns)
  <2> DEFINE t == cnt \div 512
  <2>1. t \in Nat /\ cnt - 512 * t = 0
    BY <1>1, <1>2 DEF SECTOR_SIZE
  <2>2. Signed(0) = 0
    BY SignedIsItself, SignBitAssumption
  <2> HIDE DEF t
  <2>3. ~LoopsOn(cnt, t)
    BY <2>1, <2>2 DEF LoopsOn, LeftAfter, SECTOR_SIZE
  <2> QED
    BY <2>1, <2>3
<1>3. ASSUME NEW turns \in Nat, ~LoopsOn(cnt, turns) PROVE cnt % SECTOR_SIZE = 0
  <2>1. Signed(cnt - 512 * turns) = 0
    BY <1>3 DEF LoopsOn, LeftAfter, SECTOR_SIZE
  <2>2. PICK q \in Int : 0 = cnt - 512 * turns - q * (2 * SignBit)
    BY <1>1, <2>1, SignedDiffers
  <2>3. PICK b \in Nat : SignBit = 512 * b
    <3>1. SignBit \div 512 \in Nat /\ SignBit = 512 * (SignBit \div 512)
      BY SignBitAssumption DEF SECTOR_SIZE
    <3> QED
      BY <3>1
  <2>4. cnt = 512 * (turns + q * (2 * b))
    <3>1. q * (2 * SignBit) = 512 * (q * (2 * b))
      BY <2>3
    <3>2. q * (2 * b) \in Int /\ q * (2 * SignBit) \in Int
      BY <2>3, SignBitAssumption
    <3> QED
      BY <1>1, <2>2, <3>1, <3>2
  <2> DEFINE w == turns + q * (2 * b)
  <2>5. w \in Int
    BY <2>3
  <2> HIDE DEF w
  <2>6. (512 * w) % 512 = 0
    BY <2>5
  <2> QED
    BY <2>4, <2>6 DEF SECTOR_SIZE, w
<1> QED
  BY <1>2, <1>3

\* delay and get_status measure the time rightly as long as a thousand times the
\* ticks fit into an int.
THEOREM TimeIsMeasured ==
  ASSUME NEW t \in Nat, NEW now \in Nat, t <= now, 1000 * (now - t) < SignBit
  PROVE  Elapsed(now, t) = 10 * (now - t)
<1> DEFINE d == now - t
<1>1. d \in Nat /\ 1000 * d < SignBit
  OBVIOUS
<1> HIDE DEF d
<1>2. Signed(d) = d
  BY <1>1, SignedIsItself, SignBitAssumption
<1>3. Signed(d * 1000) = 1000 * d
  <2>1. d * 1000 = 1000 * d /\ 1000 * d \in Int /\ -SignBit <= 1000 * d
    BY <1>1, SignBitAssumption
  <2> QED
    BY <1>1, <2>1, SignedIsItself
<1>4. Quot(1000 * d, 100) = 10 * d
  BY <1>1 DEF Quot
<1> QED
  BY <1>2, <1>3, <1>4 DEF Elapsed, d

\* Then the product in delay and get_status turns negative, and they wait on however
\* short the time asked for: a poll that began so long ago would not give up.
THEOREM TimeTurnsBack ==
  ASSUME NEW t \in Nat, NEW now \in Nat, t <= now,
         1000 * (now - t) >= SignBit, 1000 * (now - t) < 2 * SignBit
  PROVE  \A milli \in Nat \ {0} : Waits(now, t, milli)
<1> DEFINE d == now - t
<1>1. d \in Nat /\ 1000 * d >= SignBit /\ 1000 * d < 2 * SignBit
  OBVIOUS
<1> HIDE DEF d
<1>2. Signed(d) = d
  <2>1. d < SignBit /\ -SignBit <= d
    BY <1>1, SignBitAssumption
  <2> QED
    BY <1>1, <2>1, SignedIsItself
<1>3. Signed(d * 1000) = 1000 * d - 2 * SignBit
  <2> DEFINE x == 1000 * d
             r == 2 * SignBit
             m == x - SignBit
  <2>1. m \in 0 .. r - 1 /\ r \in Nat \ {0} /\ x \in Nat /\ x + SignBit = m + r
    BY <1>1, SignBitAssumption
  <2> HIDE DEF x, r, m
  <2>2. (m + r) % r = m
    BY <2>1
  <2>3. Signed(x) = m - SignBit
    BY <2>1, <2>2 DEF Signed, r
  <2>4. m - SignBit = x - r
    BY <2>1, SignBitAssumption DEF m, r
  <2>5. d * 1000 = x
    BY <1>1 DEF x
  <2> QED
    BY <2>3, <2>4, <2>5 DEF x, r
<1>4. Quot(1000 * d - 2 * SignBit, 100) <= 0
  BY <1>1, SignBitAssumption DEF Quot
<1>5. Elapsed(now, t) <= 0 /\ Elapsed(now, t) \in Int
  BY <1>1, <1>2, <1>3, <1>4, SignBitAssumption DEF Elapsed, d, Quot
<1> QED
  BY <1>5 DEF Waits

\* The size of a drive is shown rightly as long as its bytes fit into an int.
THEOREM SizeIsShown ==
  ASSUME NEW sectors \in Nat, 512 * sectors < SignBit
  PROVE  SizeShown(sectors) = (512 * sectors) \div 1000000
<1>1. Signed(sectors) = sectors
  BY SignedIsItself, SignBitAssumption
<1>2. Signed(sectors * 512) = 512 * sectors
  <2>1. sectors * 512 = 512 * sectors /\ 512 * sectors \in Int /\ -SignBit <= 512 * sectors
    BY SignBitAssumption
  <2> QED
    BY <2>1, SignedIsItself
<1> QED
  BY <1>1, <1>2, SMT DEF SizeShown, Quot


--------------------------------------------------------------------------------
(* What itoa_base prints, for every number: its loop calls itself on the      *)
(* quotient, so every fact about it goes from smaller numbers to larger ones. *)

\* A set of natural numbers has a least one.
LEMMA Least ==
  ASSUME NEW T \in SUBSET Nat, NEW n \in T
  PROVE  \E m \in T : \A k \in T : m <= k
<1> DEFINE R == {ss \in Nat \X Nat : ss[1] < ss[2]}
<1>1. IsWellFoundedOn(R, Nat)
  <2>1. R = OpToRel(<, Nat)
    BY Zenon DEF OpToRel
  <2> QED
    BY <2>1, NatLessThanWellFounded, Zenon
<1>2. PICK m \in T : \A k \in T : ~ (<<k, m>> \in R)
  <2> HIDE DEF R
  <2> QED
    BY <1>1, WFMin
<1>3. \A k \in T : m <= k
  <2> TAKE k \in T
  <2>1. <<k, m>> \notin R
    BY <1>2
  <2> QED
    BY <2>1
<1> QED
  BY <1>3

\* The bases that vsprintf prints in.
Radixes == {10, 16}

LEMMA DivideByRadix ==
  ASSUME NEW r \in Radixes, NEW v \in Nat
  PROVE  /\ v \div r \in Nat /\ v % r \in 0 .. r - 1 /\ r \in Nat
         /\ v = (v \div r) * r + (v % r)
         /\ v # 0 => v \div r < v
<1>1. r \in Nat \ {0}
  BY DEF Radixes
<1>2. v # 0 => v \div 10 < v /\ v \div 16 < v
  OBVIOUS
<1> QED
  BY <1>1, <1>2, DivMod DEF Radixes

Before(d, s) == <<d>> \o s

LEMMA BeforeIs ==
  ASSUME NEW s \in Seq(Nat), NEW d \in Nat
  PROVE  /\ Before(d, s) \in Seq(Nat) /\ Len(Before(d, s)) = Len(s) + 1
         /\ Len(s) \in Nat
         /\ Before(d, s)[1] = d
         /\ \A i \in 1 .. Len(s) : Before(d, s)[i + 1] = s[i]
BY DEF Before

\* f does for each number up to n what the loop of itoa_base does.
Divides(f, n, r) ==
  f = [v \in 0 .. n |-> IF v = 0 THEN <<>> ELSE Before(v % r, f[v \div r])]

LEMMA DividesExists ==
  ASSUME NEW r \in Radixes, NEW n \in Nat
  PROVE  \E f : Divides(f, n, r)
<1> DEFINE T == {k \in Nat : ~ \E f : Divides(f, k, r)}
<1> SUFFICES ASSUME n \in T PROVE FALSE
  OBVIOUS
<1>1. PICK m \in T : \A k \in T : m <= k
  <2> HIDE DEF T
  <2>1. T \in SUBSET Nat
    BY DEF T
  <2> QED
    BY <2>1, Least
<1>2. m \in Nat /\ ~ \E f : Divides(f, m, r)
  OBVIOUS
<1>3. CASE m = 0
  <2>1. Divides([v \in 0 .. 0 |-> <<>>], 0, r)
    BY DEF Divides
  <2> QED
    BY <1>2, <1>3, <2>1
<1>4. CASE m # 0
  <2>1. m - 1 \in Nat /\ m - 1 \notin T
    BY <1>1, <1>2, <1>4
  <2>2. PICK f : Divides(f, m - 1, r)
    BY <2>1
  <2> DEFINE g == [v \in 0 .. m |-> IF v = m THEN Before(m % r, f[m \div r]) ELSE f[v]]
  <2>3. m \div r \in 0 .. m - 1
    BY <1>2, <1>4, DivideByRadix
  <2>4. ASSUME NEW v \in 0 .. m
        PROVE  g[v] = IF v = 0 THEN <<>> ELSE Before(v % r, g[v \div r])
    <3>1. CASE v = m
      BY <1>2, <1>4, <2>3, <3>1
    <3>2. CASE v # m
      <4>1. v \in 0 .. m - 1
        BY <1>2, <3>2
      <4>2. v # 0 => v \div r \in 0 .. m - 1
        BY <1>2, <4>1, DivideByRadix
      <4>3. f[v] = IF v = 0 THEN <<>> ELSE Before(v % r, f[v \div r])
        BY <2>2, <4>1 DEF Divides
      <4>4. g[v] = f[v] /\ (v # 0 => g[v \div r] = f[v \div r])
        BY <1>2, <3>2, <4>2
      <4> HIDE DEF g
      <4> QED
        BY <4>3, <4>4
    <3> QED
      BY <3>1, <3>2
  <2>5. g = [v \in 0 .. m |-> g[v]]
    OBVIOUS
  <2> HIDE DEF g
  <2>6. Divides(g, m, r)
    BY <2>4, <2>5 DEF Divides
  <2> QED
    BY <1>2, <2>6
<1> QED
  BY <1>3, <1>4

\* s holds the digits of v, the last one first: q is what the loop still has to print
\* when it has come so far.
Left(q, s, v, r) ==
  /\ q \in [0 .. Len(s) -> Nat] /\ q[0] = v /\ q[Len(s)] = 0
  /\ \A j \in 1 .. Len(s) :
       q[j - 1] = q[j] * r + s[j] /\ s[j] \in 0 .. r - 1 /\ q[j - 1] <= v

DigitsOf(s, v, r) ==
  /\ s \in Seq(Nat)
  /\ \E q : Left(q, s, v, r)
  /\ v = 0 => s = <<>>
  /\ v # 0 => Len(s) > 0 /\ s[Len(s)] # 0

\* One turn of the loop.
LEMMA OneMoreDigit ==
  ASSUME NEW r \in Radixes, NEW v \in Nat \ {0}, NEW s, DigitsOf(s, v \div r, r)
  PROVE  DigitsOf(Before(v % r, s), v, r)
<1> DEFINE w == v \div r
           d == v % r
           t == Before(d, s)
<1>1. w \in Nat /\ d \in 0 .. r - 1 /\ d \in Nat /\ r \in Nat /\ v = w * r + d /\ w < v
  BY DivideByRadix
<1>2. s \in Seq(Nat) /\ (w = 0 => s = <<>>) /\ (w # 0 => Len(s) > 0 /\ s[Len(s)] # 0)
  BY DEF DigitsOf
<1>3. PICK q : Left(q, s, w, r)
  BY DEF DigitsOf
<1> HIDE DEF w, d
<1>4. /\ t \in Seq(Nat) /\ Len(t) = Len(s) + 1 /\ Len(s) \in Nat /\ t[1] = d
      /\ \A i \in 1 .. Len(s) : t[i + 1] = s[i]
  BY <1>1, <1>2, BeforeIs
<1> HIDE DEF t
<1> DEFINE L == Len(s)
           p == [j \in 0 .. L + 1 |-> IF j = 0 THEN v ELSE q[j - 1]]
<1>5. /\ q \in [0 .. L -> Nat] /\ q[0] = w /\ q[L] = 0
      /\ \A j \in 1 .. L : q[j - 1] = q[j] * r + s[j] /\ s[j] \in 0 .. r - 1 /\ q[j - 1] <= w
  BY <1>3 DEF Left
<1>6. L \in Nat
  BY <1>4
<1> HIDE DEF L
<1>7. p \in [0 .. L + 1 -> Nat] /\ p[0] = v /\ p[L + 1] = 0
  BY <1>5, <1>6
<1>8. ASSUME NEW j \in 1 .. L + 1
      PROVE  p[j - 1] = p[j] * r + t[j] /\ t[j] \in 0 .. r - 1 /\ p[j - 1] <= v
  <2>1. CASE j = 1
    <3>1. p[0] = v /\ p[1] = w
      BY <1>5, <1>6
    <3>2. t[j] = d /\ j - 1 = 0
      BY <1>4, <2>1
    <3>3. v = w * r + d /\ v <= v
      BY <1>1
    <3> QED
      BY <1>1, <2>1, <3>1, <3>2, <3>3
  <2>2. CASE j # 1
    <3>1. PICK i \in 1 .. L : j = i + 1
      <4>1. j - 1 \in 1 .. L /\ j = (j - 1) + 1
        BY <1>6, <2>2
      <4> QED
        BY <4>1
    <3>2. p[j - 1] = q[i - 1] /\ p[j] = q[i] /\ q[i - 1] \in Nat
      BY <1>5, <1>6, <3>1
    <3>5. t[j] = s[i]
      BY <1>4, <3>1 DEF L
    <3>3. q[i - 1] = q[i] * r + s[i] /\ s[i] \in 0 .. r - 1 /\ q[i - 1] <= w
      BY <1>5
    <3>4. q[i - 1] <= v
      BY <1>1, <3>2, <3>3
    <3> QED
      BY <3>2, <3>3, <3>4, <3>5
  <2> QED
    BY <2>1, <2>2
<1> HIDE DEF p
<1>9. Left(p, t, v, r)
  BY <1>4, <1>7, <1>8 DEF Left, L
<1>10. Len(t) > 0 /\ t[Len(t)] # 0
  <2>1. CASE w = 0
    <3>1. 0 * r = 0
      BY <1>1
    <3>2. Len(t) = 1 /\ d = v
      BY <1>1, <1>2, <1>4, <2>1, <3>1
    <3>3. t[1] = d /\ d # 0
      BY <1>4, <3>2
    <3> QED
      BY <3>2, <3>3
  <2>2. CASE w # 0
    BY <1>2, <1>4, <2>2
  <2> QED
    BY <2>1, <2>2
<1> QED
  BY <1>4, <1>9, <1>10 DEF DigitsOf, t, d

LEMMA DividesGivesDigits ==
  ASSUME NEW r \in Radixes, NEW n \in Nat, NEW f, Divides(f, n, r)
  PROVE  \A v \in 0 .. n : DigitsOf(f[v], v, r)
<1> DEFINE T == {v \in 0 .. n : ~DigitsOf(f[v], v, r)}
<1> SUFFICES ASSUME NEW k \in T PROVE FALSE
  OBVIOUS
<1>1. T \in SUBSET Nat
  OBVIOUS
<1>2. PICK v \in T : \A j \in T : v <= j
  <2> HIDE DEF T
  <2> QED
    BY <1>1, Least
<1>3. v \in 0 .. n /\ v \in Nat /\ ~DigitsOf(f[v], v, r)
  OBVIOUS
<1>4. f[v] = IF v = 0 THEN <<>> ELSE Before(v % r, f[v \div r])
  BY <1>3 DEF Divides
<1>5. CASE v = 0
  <2>1. f[v] = <<>> /\ Len(<<>>) = 0
    BY <1>4, <1>5
  <2>2. Left([j \in 0 .. 0 |-> 0], <<>>, 0, r)
    BY DEF Left
  <2>3. DigitsOf(<<>>, 0, r)
    BY <2>2 DEF DigitsOf
  <2> QED
    BY <1>3, <1>5, <2>1, <2>3
<1>6. CASE v # 0
  <2>1. v \div r \in 0 .. n /\ v \div r < v /\ v \div r \in Nat
    BY <1>3, <1>6, DivideByRadix
  <2>2. v \div r \notin T
    BY <1>2, <1>3, <2>1
  <2>3. DigitsOf(f[v \div r], v \div r, r)
    BY <2>1, <2>2
  <2>4. DigitsOf(Before(v % r, f[v \div r]), v, r)
    BY <1>3, <1>6, <2>3, OneMoreDigit
  <2> QED
    BY <1>3, <1>4, <1>6, <2>4
<1> QED
  BY <1>5, <1>6

LEMMA DigitsUpAre ==
  ASSUME NEW r \in Radixes, NEW n \in Nat
  PROVE  DigitsOf(DigitsUp(n, r), n, r)
<1> DEFINE f == CHOOSE g : Divides(g, n, r)
<1>1. DigitsUp(n, r) = f[n]
  BY DEF DigitsUp, Divides, Before
<1>2. Divides(f, n, r)
  BY DividesExists
<1> HIDE DEF f
<1> QED
  BY <1>1, <1>2, DividesGivesDigits

--------------------------------------------------------------------------------
(* What a reader makes of it, and what atoi does.                             *)

\* The value of the digits read so far is determined by the step from digit to digit.
Reads(number, radix, L, u) == \A k \in 1 .. L : u[k] = u[k - 1] * radix + number.digits[k]

LEMMA ReadBackIs ==
  ASSUME NEW number, NEW radix \in Nat, NEW L \in Nat, Len(number.digits) = L,
         NEW u \in [0 .. L -> Int], u[0] = 0, Reads(number, radix, L, u)
  PROVE  ReadBack(number, radix) = IF number.negative THEN -u[L] ELSE u[L]
<1> DEFINE Rec(f) == f = [k \in 0 .. L |-> IF k = 0 THEN 0
                                           ELSE f[k - 1] * radix + number.digits[k]]
           upTo == CHOOSE f : Rec(f)
<1>1. ReadBack(number, radix) = IF number.negative THEN -upTo[L] ELSE upTo[L]
  BY DEF ReadBack
<1>2. Rec(u)
  <2>1. \A k \in 0 .. L : u[k] = IF k = 0 THEN 0 ELSE u[k - 1] * radix + number.digits[k]
    BY DEF Reads
  <2>2. u = [k \in 0 .. L |-> u[k]]
    OBVIOUS
  <2> QED
    BY <2>1, <2>2
<1>3. Rec(upTo)
  BY <1>2
<1> HIDE DEF upTo
<1>4. \A k \in 0 .. L : upTo[k] = IF k = 0 THEN 0 ELSE upTo[k - 1] * radix + number.digits[k]
  BY <1>3
<1> DEFINE T == {k \in 0 .. L : upTo[k] # u[k]}
<1>5. ASSUME NEW n \in T PROVE FALSE
  <2>1. T \in SUBSET Nat
    OBVIOUS
  <2>2. PICK k \in T : \A j \in T : k <= j
    <3> HIDE DEF T
    <3> QED
      BY <1>5, <2>1, Least
  <2>3. k \in 0 .. L /\ upTo[k] # u[k]
    OBVIOUS
  <2>4. k # 0
    BY <1>4, <2>3
  <2>5. k - 1 \in 0 .. L /\ ~(k <= k - 1) /\ k \in 1 .. L
    BY <2>3, <2>4
  <2>6. upTo[k - 1] = u[k - 1]
    BY <2>2, <2>5
  <2> QED
    BY <1>4, <2>3, <2>4, <2>5, <2>6 DEF Reads
<1>6. upTo[L] = u[L]
  BY <1>5
<1> QED
  BY <1>1, <1>6

LEMMA AccumulatedIs ==
  ASSUME NEW digits, NEW L \in Nat, Len(digits) = L,
         NEW u \in [0 .. L -> Int], u[0] = 0,
         \A k \in 1 .. L : u[k] = Signed(u[k - 1] * 10 + digits[k])
  PROVE  Accumulated(digits) = u[L]
<1> DEFINE Rec(f) == f = [k \in 0 .. L |-> IF k = 0 THEN 0
                                           ELSE Signed(f[k - 1] * 10 + digits[k])]
           num == CHOOSE f : Rec(f)
<1>1. Accumulated(digits) = num[L]
  BY DEF Accumulated
<1>2. Rec(u)
  <2>1. \A k \in 0 .. L : u[k] = IF k = 0 THEN 0 ELSE Signed(u[k - 1] * 10 + digits[k])
    OBVIOUS
  <2>2. u = [k \in 0 .. L |-> u[k]]
    OBVIOUS
  <2> QED
    BY <2>1, <2>2
<1>3. Rec(num)
  BY <1>2
<1> HIDE DEF num
<1>4. \A k \in 0 .. L : num[k] = IF k = 0 THEN 0 ELSE Signed(num[k - 1] * 10 + digits[k])
  BY <1>3
<1> DEFINE T == {k \in 0 .. L : num[k] # u[k]}
<1>5. ASSUME NEW n \in T PROVE FALSE
  <2>1. T \in SUBSET Nat
    OBVIOUS
  <2>2. PICK k \in T : \A j \in T : k <= j
    <3> HIDE DEF T
    <3> QED
      BY <1>5, <2>1, Least
  <2>3. k \in 0 .. L /\ num[k] # u[k]
    OBVIOUS
  <2>4. k # 0
    BY <1>4, <2>3
  <2>5. k - 1 \in 0 .. L /\ ~(k <= k - 1) /\ k \in 1 .. L
    BY <2>3, <2>4
  <2>6. num[k - 1] = u[k - 1]
    BY <2>2, <2>5
  <2> QED
    BY <1>4, <2>3, <2>4, <2>5, <2>6
<1>6. num[L] = u[L]
  BY <1>5
<1> QED
  BY <1>1, <1>6

\* u is what the digits t come to, from the first one on.
Amounts(u, t, v, r) ==
  /\ u \in [0 .. Len(t) -> Nat] /\ u[0] = 0 /\ u[Len(t)] = v
  /\ \A k \in 1 .. Len(t) :
       u[k] = u[k - 1] * r + t[k] /\ t[k] \in 0 .. r - 1 /\ u[k] <= v

\* reverse puts the first digit in front, and it is not 0.
LEMMA ReversedDigits ==
  ASSUME NEW r \in Radixes, NEW v \in Nat \ {0}, NEW s, DigitsOf(s, v, r)
  PROVE  /\ Len(Reversed(s)) \in Nat \ {0} /\ Len(Reversed(s)) = Len(s)
         /\ Reversed(s)[1] \in 1 .. r - 1
         /\ \E u : Amounts(u, Reversed(s), v, r)
<1> DEFINE L == Len(s)
           t == Reversed(s)
<1>1. s \in Seq(Nat) /\ L \in Nat \ {0} /\ s[L] # 0
  BY DEF DigitsOf
<1>2. PICK q : Left(q, s, v, r)
  BY DEF DigitsOf
<1>3. /\ q \in [0 .. L -> Nat] /\ q[0] = v /\ q[L] = 0
      /\ \A j \in 1 .. L : q[j - 1] = q[j] * r + s[j] /\ s[j] \in 0 .. r - 1 /\ q[j - 1] <= v
  BY <1>2 DEF Left
<1>4. t = [i \in 1 .. L |-> s[L + 1 - i]] /\ Len(t) = L
  <2>1. t = [i \in 1 .. L |-> s[L + 1 - i]]
    BY DEF Reversed
  <2> HIDE DEF t
  <2>2. \A i \in 1 .. L : s[L + 1 - i] \in Nat
    BY <1>1
  <2> HIDE DEF L
  <2>3. t \in [1 .. L -> Nat]
    BY <2>1, <2>2
  <2> QED
    BY <1>1, <2>1, <2>3
<1> HIDE DEF L, t
<1> DEFINE u == [k \in 0 .. L |-> q[L - k]]
<1>5. u \in [0 .. L -> Nat] /\ u[0] = 0 /\ u[L] = v
  BY <1>1, <1>3
<1>6. ASSUME NEW k \in 1 .. L
      PROVE  u[k] = u[k - 1] * r + t[k] /\ t[k] \in 0 .. r - 1 /\ u[k] <= v
  <2>1. PICK j \in 1 .. L : j = L + 1 - k
    <3>1. L + 1 - k \in 1 .. L
      BY <1>1
    <3> QED
      BY <3>1
  <2>2. u[k] = q[j - 1] /\ u[k - 1] = q[j]
    BY <1>1, <2>1
  <2>3. t[k] = s[j]
    BY <1>4, <2>1
  <2>4. q[j - 1] = q[j] * r + s[j] /\ s[j] \in 0 .. r - 1 /\ q[j - 1] <= v
    BY <1>3
  <2> QED
    BY <2>2, <2>3, <2>4
<1> HIDE DEF u
<1>7. Amounts(u, t, v, r)
  BY <1>4, <1>5, <1>6 DEF Amounts
<1>8. t[1] \in 1 .. r - 1
  <2>1. t[1] = s[L] /\ L \in 1 .. L
    <3>1. L + 1 - 1 = L /\ 1 \in 1 .. L
      BY <1>1
    <3> QED
      BY <1>1, <1>4, <3>1
  <2>2. s[L] \in 0 .. r - 1 /\ r \in Nat
    BY <1>3, <2>1 DEF Radixes
  <2> QED
    BY <1>1, <2>1, <2>2
<1> QED
  BY <1>1, <1>4, <1>7, <1>8 DEF L, t

\* The numbers of the two's complement.
IntRange == -SignBit .. SignBit - 1

\* The digits and the sign of a number that is not the smallest one.
LEMMA ItoaIs ==
  ASSUME NEW r \in Radixes, NEW value \in IntRange, value # INT_MIN, value # 0
  PROVE  LET v == IF value < 0 THEN -value ELSE value
         IN /\ v \in 1 .. SignBit - 1
            /\ Itoa(value, r).negative = (value < 0)
            /\ Itoa(value, r).digits = Reversed(DigitsUp(v, r))
<1> DEFINE v == IF value < 0 THEN -value ELSE value
<1>1. v \in 1 .. SignBit - 1 /\ (value < 0 => Signed(-value) = v)
  <2>1. SignBit \in Nat /\ value \in Int /\ -SignBit < value /\ value < SignBit
    BY SignBitAssumption DEF IntRange, INT_MIN
  <2>2. value < 0 => Signed(-value) = -value
    BY <2>1, SignedIsItself
  <2> QED
    BY <2>1, <2>2
<1>2. (IF value < 0 THEN Signed(-value) ELSE value) = v /\ v > 0 /\ ~(v = 0) /\ ~(v < 0)
  BY <1>1, SignBitAssumption
<1> HIDE DEF v
<1>3. Itoa(value, r) = [negative |-> value < 0, digits |-> Reversed(DigitsUp(v, r))]
  <2> DEFINE m == IF value < 0 THEN Signed(-value) ELSE value
  <2>1. m = v
    BY <1>2
  <2>2. Itoa(value, r) =
          [negative |-> value < 0,
           digits |-> CASE m = 0 -> <<0>>
                        [] m > 0 -> Reversed(DigitsUp(m, r))
                        [] m < 0 -> NotDigits(Reversed(DigitsUp(-m, r)))]
    BY DEF Itoa
  <2> HIDE DEF m
  <2> QED
    BY <1>2, <2>1, <2>2
<1> QED
  BY <1>1, <1>3 DEF v

LEMMA FieldsOf ==
  ASSUME NEW n, NEW d
  PROVE  /\ [negative |-> n, digits |-> d].negative = n
         /\ [negative |-> n, digits |-> d].digits = d
OBVIOUS

LEMMA ItoaOfZero ==
  ASSUME NEW r \in Radixes
  PROVE  Itoa(0, r).negative = FALSE /\ Itoa(0, r).digits = <<0>>
<1> DEFINE m == IF 0 < 0 THEN Signed(-0) ELSE 0
           d == CASE m = 0 -> <<0>>
                  [] m > 0 -> Reversed(DigitsUp(m, r))
                  [] m < 0 -> NotDigits(Reversed(DigitsUp(-m, r)))
<1>1. Itoa(0, r) = [negative |-> 0 < 0, digits |-> d]
  BY DEF Itoa
<1>2. m = 0 /\ ~(m > 0) /\ ~(m < 0) /\ (0 < 0) = FALSE
  OBVIOUS
<1> HIDE DEF m
<1>3. d = <<0>>
  BY <1>2
<1> HIDE DEF d
<1>4. Itoa(0, r) = [negative |-> FALSE, digits |-> <<0>>]
  <2>1. (0 < 0) = FALSE
    BY <1>2
  <2> QED
    BY <1>1, <1>3, <2>1
<1> QED
  BY <1>4

\* Every int but the smallest is printed in digits, without a leading 0, and read
\* back as what it is (itoa_base, vsprintf).
THEOREM ItoaReadsBack ==
  ASSUME NEW r \in Radixes, NEW value \in IntRange, value # INT_MIN
  PROVE  /\ Legible(Itoa(value, r), r)
         /\ ReadBack(Itoa(value, r), r) = value
         /\ value # 0 => Itoa(value, r).digits[1] # 0
<1>1. CASE value = 0
  <2>1. Itoa(0, r).digits = <<0>> /\ Itoa(0, r).negative = FALSE
    BY ItoaOfZero
  <2>2. Legible(Itoa(0, r), r)
    BY <2>1 DEF Legible, Radixes
  <2> DEFINE u == [k \in 0 .. 1 |-> 0]
  <2>3. /\ u \in [0 .. 1 -> Int] /\ u[0] = 0 /\ u[1] = 0
        /\ Reads(Itoa(0, r), r, 1, u)
    BY <2>1 DEF Radixes, Reads
  <2>4. Len(Itoa(0, r).digits) = 1 /\ 1 \in Nat /\ r \in Nat
    BY <2>1 DEF Radixes
  <2> HIDE DEF u
  <2>5. ReadBack(Itoa(0, r), r) = IF Itoa(0, r).negative THEN -u[1] ELSE u[1]
    BY <2>3, <2>4, ReadBackIs
  <2> QED
    BY <1>1, <2>1, <2>2, <2>3, <2>5
<1>2. CASE value # 0
  <2> DEFINE v == IF value < 0 THEN -value ELSE value
             number == Itoa(value, r)
             t == Reversed(DigitsUp(v, r))
  <2>1. /\ v \in 1 .. SignBit - 1 /\ number.negative = (value < 0)
        /\ number.digits = t
    BY <1>2, ItoaIs
  <2>2. v \in Nat \ {0} /\ value \in Int
    BY <2>1, SignBitAssumption DEF IntRange
  <2>3. (IF value < 0 THEN -v ELSE v) = value
    BY <2>2
  <2> HIDE DEF v, number, t
  <2>4. DigitsOf(DigitsUp(v, r), v, r)
    BY <2>2, DigitsUpAre
  <2>5. /\ Len(t) \in Nat \ {0} /\ t[1] \in 1 .. r - 1
        /\ \E u : Amounts(u, t, v, r)
    BY <2>2, <2>4, ReversedDigits DEF t
  <2>6. PICK u : Amounts(u, t, v, r)
    BY <2>5
  <2> DEFINE L == Len(t)
  <2>7. /\ L \in Nat /\ u \in [0 .. L -> Nat] /\ u[0] = 0 /\ u[L] = v
        /\ \A k \in 1 .. L : u[k] = u[k - 1] * r + t[k] /\ t[k] \in 0 .. r - 1
    BY <2>5, <2>6 DEF Amounts
  <2>8. u \in [0 .. L -> Int] /\ r \in Nat
    BY <2>7 DEF Radixes
  <2>9. Legible(number, r)
    BY <2>1, <2>7 DEF Legible
  <2>10. Len(number.digits) = L
    BY <2>1
  <2>11. Reads(number, r, L, u)
    BY <2>1, <2>7 DEF Reads
  <2> HIDE DEF L
  <2>12. ReadBack(number, r) = IF number.negative THEN -u[L] ELSE u[L]
    BY <2>7, <2>8, <2>10, <2>11, ReadBackIs
  <2>13. number.digits[1] # 0
    BY <2>1, <2>5, <2>8
  <2>14. ReadBack(number, r) = value
    <3>1. CASE value < 0
      <4>1. number.negative
        BY <2>1, <3>1
      <4> QED
        BY <2>3, <2>7, <2>12, <3>1, <4>1
    <3>2. CASE ~(value < 0)
      <4>1. ~number.negative
        BY <2>1, <3>2
      <4> QED
        BY <2>3, <2>7, <2>12, <3>2, <4>1
    <3> QED
      BY <3>1, <3>2
  <2> QED
    BY <2>9, <2>13, <2>14 DEF number
<1> QED
  BY <1>1, <1>2


\* The smallest int: it stays negative, and its remainders with it.
LEMMA ItoaOfSmallest ==
  ASSUME NEW r \in Radixes
  PROVE  /\ Itoa(INT_MIN, r).negative = TRUE
         /\ Itoa(INT_MIN, r).digits = NotDigits(Reversed(DigitsUp(SignBit, r)))
<1> DEFINE m == IF INT_MIN < 0 THEN Signed(-INT_MIN) ELSE INT_MIN
           d == CASE m = 0 -> <<0>>
                  [] m > 0 -> Reversed(DigitsUp(m, r))
                  [] m < 0 -> NotDigits(Reversed(DigitsUp(-m, r)))
<1>1. Itoa(INT_MIN, r) = [negative |-> INT_MIN < 0, digits |-> d]
  BY DEF Itoa
<1>2. m = -SignBit /\ -m = SignBit /\ SignBit \in Nat \ {0} /\ (INT_MIN < 0) = TRUE
  <2>1. SignBit + SignBit = 1 * (2 * SignBit) + 0 /\ 0 \in 0 .. 2 * SignBit - 1
    BY SignBitAssumption
  <2>2. (SignBit + SignBit) % (2 * SignBit) = 0
    BY <2>1, Unique, SignBitAssumption
  <2>3. -INT_MIN = SignBit /\ INT_MIN < 0
    BY SignBitAssumption DEF INT_MIN
  <2> QED
    BY <2>2, <2>3, SignBitAssumption DEF Signed
<1> HIDE DEF m
<1>3. ~(m = 0) /\ ~(m > 0) /\ m < 0
  BY <1>2
<1>4. d = NotDigits(Reversed(DigitsUp(-m, r)))
  BY <1>3
<1> HIDE DEF d
<1>5. Itoa(INT_MIN, r) =
        [negative |-> TRUE, digits |-> NotDigits(Reversed(DigitsUp(SignBit, r)))]
  <2>1. (INT_MIN < 0) = TRUE
    BY <1>2
  <2>2. d = NotDigits(Reversed(DigitsUp(SignBit, r)))
    BY <1>2, <1>4
  <2> QED
    BY <1>1, <2>1, <2>2
<1> QED
  BY <1>5

\* The smallest int comes out with characters that are no digits; taken for negative
\* digits behind a sign, they come to its magnitude (itoa_base, vsprintf).
THEOREM SmallestIntIsIllegible ==
  ASSUME NEW r \in Radixes
  PROVE  ~Legible(Itoa(INT_MIN, r), r) /\ ReadBack(Itoa(INT_MIN, r), r) = SignBit
<1> DEFINE number == Itoa(INT_MIN, r)
           t == Reversed(DigitsUp(SignBit, r))
           L == Len(t)
<1>1. number.negative = TRUE /\ number.digits = NotDigits(t)
  BY ItoaOfSmallest
<1>2. L \in Nat \ {0} /\ t[1] \in 1 .. r - 1 /\ \E u : Amounts(u, t, SignBit, r)
  BY SignBitAssumption, DigitsUpAre, ReversedDigits
<1> HIDE DEF number, t
<1>3. PICK u : Amounts(u, t, SignBit, r)
  BY <1>2
<1>4. /\ u \in [0 .. L -> Nat] /\ u[0] = 0 /\ u[L] = SignBit
      /\ \A k \in 1 .. L : u[k] = u[k - 1] * r + t[k] /\ t[k] \in 0 .. r - 1
  BY <1>3 DEF Amounts
<1>5. NotDigits(t) = [k \in 1 .. L |-> -t[k]]
  BY DEF NotDigits
<1> HIDE DEF L
<1>6. Len(number.digits) = L
  <2>1. \A k \in 1 .. L : -t[k] \in Int
    BY <1>4 DEF Radixes
  <2>2. NotDigits(t) \in [1 .. L -> Int]
    BY <1>5, <2>1
  <2> QED
    BY <1>1, <1>2, <1>5, <2>2
<1>7. ~Legible(number, r)
  <2>1. 1 \in 1 .. L /\ r \in Nat
    BY <1>2 DEF Radixes
  <2>2. number.digits[1] = -t[1]
    BY <1>1, <1>5, <2>1
  <2>3. number.digits[1] \notin 0 .. r - 1
    BY <1>2, <2>1, <2>2
  <2> QED
    BY <1>6, <2>1, <2>3 DEF Legible
<1> DEFINE w == [k \in 0 .. L |-> -u[k]]
<1>8. w \in [0 .. L -> Int] /\ w[0] = 0 /\ w[L] = -SignBit
  BY <1>2, <1>4
<1>9. ASSUME NEW k \in 1 .. L PROVE w[k] = w[k - 1] * r + number.digits[k]
  <2>1. w[k] = -u[k] /\ w[k - 1] = -u[k - 1] /\ number.digits[k] = -t[k]
    BY <1>1, <1>2, <1>5
  <2>2. u[k] = u[k - 1] * r + t[k] /\ u[k - 1] \in Nat /\ t[k] \in Int /\ r \in Nat
    BY <1>2, <1>4 DEF Radixes
  <2>3. -(u[k - 1] * r + t[k]) = (-u[k - 1]) * r + (-t[k])
    BY <2>2
  <2> QED
    BY <2>1, <2>2, <2>3
<1> HIDE DEF w
<1>10. L \in Nat /\ r \in Nat /\ Reads(number, r, L, w)
  BY <1>2, <1>9 DEF Radixes, Reads
<1>11. ReadBack(number, r) = IF number.negative THEN -w[L] ELSE w[L]
  BY <1>6, <1>8, <1>10, ReadBackIs
<1>12. ReadBack(number, r) = -w[L]
  BY <1>1, <1>11
<1> QED
  BY <1>7, <1>8, <1>12, SignBitAssumption DEF number

\* atoi of what was printed is the number again if that is not negative; of the
\* negative ones only half the smallest is, for atoi sets the sign bit (atoi).
THEOREM AtoiOfItoa ==
  ASSUME NEW value \in IntRange, value # INT_MIN
  PROVE  LET number == Itoa(value, 10)
         IN Atoi(number.negative, number.digits) = value <=> value >= 0 \/ 2 * value = INT_MIN
<1> DEFINE v == IF value < 0 THEN -value ELSE value
           number == Itoa(value, 10)
<1>1. v \in 0 .. SignBit - 1 /\ value \in Int /\ SignBit \in Nat \ {0} /\ value < SignBit
  BY SignBitAssumption DEF IntRange, INT_MIN
<1>2. 10 \in Radixes
  BY DEF Radixes
<1>3. number.negative = (value < 0)
  <2>1. CASE value = 0
    <3>1. (value < 0) = FALSE
      BY <2>1
    <3>2. Itoa(0, 10).negative = FALSE
      BY <1>2, ItoaOfZero
    <3> QED
      BY <2>1, <3>1, <3>2
  <2>2. CASE value # 0
    BY <1>2, <2>2, ItoaIs
  <2> QED
    BY <2>1, <2>2
<1>4. Accumulated(number.digits) = v
  <2>1. CASE value = 0
    <3>1. number.digits = <<0>>
      BY <1>2, <2>1, ItoaOfZero
    <3> DEFINE u == [k \in 0 .. 1 |-> 0]
    <3>2. Signed(0 * 10 + 0) = 0
      BY <1>1, SignedIsItself
    <3>3. u \in [0 .. 1 -> Int] /\ u[0] = 0 /\ u[1] = 0 /\ Len(<<0>>) = 1 /\ 1 \in Nat
      OBVIOUS
    <3>4. \A k \in 1 .. 1 : u[k] = Signed(u[k - 1] * 10 + <<0>>[k])
      <4> TAKE k \in 1 .. 1
      <4>1. k = 1 /\ <<0>>[1] = 0 /\ u[k - 1] = 0 /\ u[k] = 0
        OBVIOUS
      <4> QED
        BY <3>2, <4>1
    <3> HIDE DEF u
    <3>5. Accumulated(<<0>>) = u[1]
      BY <3>3, <3>4, AccumulatedIs
    <3> QED
      BY <2>1, <3>1, <3>3, <3>5
  <2>2. CASE value # 0
    <3> DEFINE t == Reversed(DigitsUp(v, 10))
               L == Len(t)
    <3>1. number.digits = t /\ v \in Nat \ {0}
      BY <1>1, <1>2, <2>2, ItoaIs
    <3> HIDE DEF v, number
    <3>2. L \in Nat /\ \E u : Amounts(u, t, v, 10)
      BY <1>2, <3>1, DigitsUpAre, ReversedDigits
    <3> HIDE DEF t
    <3>3. PICK u : Amounts(u, t, v, 10)
      BY <3>2
    <3>4. /\ u \in [0 .. L -> Nat] /\ u[0] = 0 /\ u[L] = v
          /\ \A k \in 1 .. L : u[k] = u[k - 1] * 10 + t[k] /\ u[k] <= v
      BY <3>3 DEF Amounts
    <3>5. Len(t) = L
      OBVIOUS
    <3> HIDE DEF L
    <3>6. \A k \in 1 .. L : u[k] = Signed(u[k - 1] * 10 + t[k])
      <4> TAKE k \in 1 .. L
      <4>1. u[k] \in Nat /\ u[k] <= v /\ u[k] = u[k - 1] * 10 + t[k]
        BY <3>2, <3>4
      <4>2. Signed(u[k]) = u[k]
        BY <1>1, <4>1, SignedIsItself
      <4> QED
        BY <4>1, <4>2
    <3>7. u \in [0 .. L -> Int]
      BY <3>4
    <3>8. Accumulated(t) = u[L]
      BY <3>2, <3>4, <3>5, <3>6, <3>7, AccumulatedIs
    <3> QED
      BY <3>1, <3>4, <3>8
  <2> QED
    BY <2>1, <2>2
<1>5. Atoi(number.negative, number.digits) = IF value < 0 THEN v - SignBit ELSE v
  <2> HIDE DEF v, number
  <2>1. CASE value < 0
    <3>1. number.negative
      BY <1>3, <2>1
    <3>2. ~(v < 0)
      BY <1>1
    <3> QED
      BY <1>4, <2>1, <3>1, <3>2 DEF Atoi, WithSignBit
  <2>2. CASE ~(value < 0)
    <3>1. ~number.negative
      BY <1>3, <2>2
    <3> QED
      BY <1>4, <2>2, <3>1 DEF Atoi
  <2> QED
    BY <2>1, <2>2
<1>6. (IF value < 0 THEN v - SignBit ELSE v) = value <=> value >= 0 \/ 2 * value = INT_MIN
  BY <1>1 DEF INT_MIN
<1> QED
  BY <1>5, <1>6


--------------------------------------------------------------------------------
(* What print_hdd_info prints.                                                *)

\* The int that has the bits of an unsigned one, and back.
LEMMA SignedOfUnsigned ==
  ASSUME NEW n \in 0 .. 2 * SignBit - 1
  PROVE  /\ Signed(n) \in IntRange
         /\ Signed(n) = IF n < SignBit THEN n ELSE n - 2 * SignBit
         /\ Unsigned(n) = n /\ Unsigned(n - 2 * SignBit) = n
<1> DEFINE R == 2 * SignBit
<1>1. SignBit \in Nat \ {0} /\ R \in Nat \ {0} /\ n \in 0 .. R - 1 /\ n \in Nat
  BY SignBitAssumption
<1>2. Signed(n) = IF n < SignBit THEN n ELSE n - R
  <2>1. CASE n < SignBit
    <3>1. -SignBit <= n
      BY <1>1
    <3> QED
      BY <2>1, <3>1, <1>1, SignedIsItself
  <2>2. CASE ~(n < SignBit)
    <3>1. n - SignBit \in 0 .. R - 1 /\ n + SignBit = 1 * R + (n - SignBit)
      BY <1>1, <2>2
    <3> HIDE DEF R
    <3>2. (n + SignBit) % R = n - SignBit
      BY <1>1, <3>1, Unique
    <3>3. Signed(n) = ((n + SignBit) % R) - SignBit
      BY DEF Signed, R
    <3> QED
      BY <1>1, <2>2, <3>2, <3>3 DEF R
  <2> QED
    BY <2>1, <2>2
<1>3. n % R = n
  <2> HIDE DEF R
  <2> QED
    BY <1>1
<1>4. (n - R) % R = n
  <2> HIDE DEF R
  <2> DEFINE q == (n - R) \div R
             x == (n - R) % R
  <2>1. q \in Int /\ x \in 0 .. R - 1 /\ n - R = q * R + x
    BY <1>1
  <2> HIDE DEF q, x
  <2>2. ~(q + 1 >= 1)
    <3> SUFFICES ASSUME q + 1 >= 1 PROVE FALSE
      OBVIOUS
    <3>1. 0 * R <= q * R
      BY <1>1, <2>1, TimesMonotone
    <3> QED
      BY <1>1, <2>1, <3>1
  <2>3. ~(q + 1 <= -1)
    <3> SUFFICES ASSUME q + 1 <= -1 PROVE FALSE
      OBVIOUS
    <3>1. -q \in Nat /\ 2 <= -q
      BY <2>1
    <3>2. 2 * R <= (-q) * R
      BY <1>1, <3>1, TimesMonotone
    <3>3. (-q) * R = -(q * R) /\ q * R \in Int
      BY <1>1, <2>1
    <3> QED
      BY <1>1, <2>1, <3>2, <3>3
  <2>4. q = -1
    BY <2>1, <2>2, <2>3
  <2>5. (-1) * R = -R
    BY <1>1
  <2> QED
    BY <1>1, <2>1, <2>4, <2>5 DEF x
<1>5. Signed(n) \in IntRange
  BY <1>1, <1>2 DEF IntRange
<1> QED
  BY <1>2, <1>3, <1>4, <1>5 DEF Unsigned

\* The filling in front of a number changes nothing for the reader.
LEMMA FormattedReadsBack ==
  ASSUME NEW value, NEW r, NEW align
  PROVE  /\ ReadBack(Formatted(value, r, align), r) = ReadBack(Itoa(value, r), r)
         /\ Legible(Formatted(value, r, align), r) <=> Legible(Itoa(value, r), r)
<1>1. /\ Formatted(value, r, align).digits = Itoa(value, r).digits
      /\ Formatted(value, r, align).negative = Itoa(value, r).negative
  BY DEF Formatted
<1> QED
  BY <1>1 DEF ReadBack, Legible

\* A %x of an unsigned number reads back in two's complement as that number, the one
\* that is printed illegibly not excepted; a %d of an index as the index, in digits.
LEMMA PrintedReadsBack ==
  ASSUME NEW n \in 0 .. 2 * SignBit - 1
  PROVE  /\ Unsigned(ReadBack(Formatted(Signed(n), 16, 0), 16)) = n
         /\ Legible(Formatted(Signed(n), 16, 0), 16) <=> n # SignBit
         /\ n < SignBit =>
              ReadBack(Formatted(n, 10, 0), 10) = n /\ Legible(Formatted(n, 10, 0), 10)
<1>1. /\ Signed(n) \in IntRange /\ Unsigned(n) = n /\ Unsigned(n - 2 * SignBit) = n
      /\ Signed(n) = IF n < SignBit THEN n ELSE n - 2 * SignBit
      /\ n \in Nat /\ SignBit \in Nat \ {0}
  BY SignedOfUnsigned, SignBitAssumption
<1>2. 10 \in Radixes /\ 16 \in Radixes
  BY DEF Radixes
<1>3. /\ Unsigned(ReadBack(Itoa(Signed(n), 16), 16)) = n
      /\ Legible(Itoa(Signed(n), 16), 16) <=> n # SignBit
  <2>1. CASE Signed(n) = INT_MIN
    <3>1. n = SignBit
      BY <1>1, <2>1 DEF INT_MIN
    <3>2. ReadBack(Itoa(Signed(n), 16), 16) = SignBit /\ ~Legible(Itoa(Signed(n), 16), 16)
      BY <1>2, <2>1, SmallestIntIsIllegible
    <3> QED
      BY <1>1, <3>1, <3>2
  <2>2. CASE Signed(n) # INT_MIN
    <3>1. ReadBack(Itoa(Signed(n), 16), 16) = Signed(n) /\ Legible(Itoa(Signed(n), 16), 16)
      BY <1>1, <1>2, <2>2, ItoaReadsBack
    <3>2. n # SignBit
      BY <1>1, <2>2 DEF INT_MIN
    <3> QED
      BY <1>1, <3>1, <3>2
  <2> QED
    BY <2>1, <2>2
<1>4. n < SignBit => ReadBack(Itoa(n, 10), 10) = n /\ Legible(Itoa(n, 10), 10)
  <2> SUFFICES ASSUME n < SignBit PROVE ReadBack(Itoa(n, 10), 10) = n /\ Legible(Itoa(n, 10), 10)
    OBVIOUS
  <2>1. n \in IntRange /\ n # INT_MIN
    BY <1>1 DEF IntRange, INT_MIN
  <2> QED
    BY <1>2, <2>1, ItoaReadsBack
<1> QED
  BY <1>3, <1>4, FormattedReadsBack

\* What the disk has fits into the fields.
LEMMA LaidFits ==
  ASSUME layout \in Layouts
  PROVE  /\ \A p \in 0 .. N : /\ LaidPrimary(p, DiskSize).base \in 0 .. 2 * SignBit - 1
                              /\ LaidPrimary(p, DiskSize).sec_cnt \in 0 .. 2 * SignBit - 1
         /\ \A l \in 0 .. NR_SUB_PER_DRIVE - 1 :
              LaidLogical(l).base \in 0 .. 2 * SignBit - 1 /\ LaidLogical(l).sec_cnt \in {0, 1}
<1>1. /\ SignBit \in Nat \ {0} /\ Span \in Nat /\ N \in Nat \ {0} /\ M \in Nat \ {0}
      /\ DiskSize \in 0 .. 2 * SignBit - 1 /\ (N + 1) * Span < 2 * SignBit
  BY SignBitAssumption, Given, DiskSizeAssumption, WidthAssumption DEF N
<1>2. \A s \in PartSlot : /\ Base(s) \in Nat /\ Base(s) + Span <= (N + 1) * Span
                          /\ s \in Nat
  <2> TAKE s \in PartSlot
  <2>1. s \in Nat /\ s + 2 <= N + 1
    BY <1>1, Given
  <2>2. (s + 2) * Span <= (N + 1) * Span
    BY <1>1, <2>1, TimesMonotone
  <2>3. (s + 2) * Span = (s + 1) * Span + Span /\ (s + 1) * Span \in Nat
    BY <1>1, <2>1
  <2> QED
    BY <2>1, <2>2, <2>3 DEF Base
<1>3. (N + 1) * Span \in Nat
  BY <1>1
<1>4. \A i, c : Info(i, c).base = i /\ Info(i, c).sec_cnt = c
  BY DEF Info
<1>5. ASSUME NEW p \in 0 .. N
      PROVE  /\ LaidPrimary(p, DiskSize).base \in 0 .. 2 * SignBit - 1
             /\ LaidPrimary(p, DiskSize).sec_cnt \in 0 .. 2 * SignBit - 1
  <2>1. CASE p = 0
    <3>1. LaidPrimary(p, DiskSize) = Info(0, DiskSize)
      BY <2>1 DEF LaidPrimary
    <3> QED
      BY <1>1, <1>4, <3>1
  <2>2. CASE p # 0
    <3>1. p - 1 \in PartSlot
      BY <1>1, <2>2, Given
    <3>2. LaidPrimary(p, DiskSize) \in {Info(0, 0), Info(Base(p - 1), Span)}
      BY <2>2 DEF LaidPrimary
    <3>3. Base(p - 1) \in 0 .. 2 * SignBit - 1 /\ Span \in 0 .. 2 * SignBit - 1
      BY <1>1, <1>2, <1>3, <3>1
    <3> QED
      BY <1>1, <1>4, <3>2, <3>3
  <2> QED
    BY <2>1, <2>2
<1>6. ASSUME NEW l \in 0 .. NR_SUB_PER_DRIVE - 1
      PROVE  LaidLogical(l).base \in 0 .. 2 * SignBit - 1 /\ LaidLogical(l).sec_cnt \in {0, 1}
  <2> DEFINE s == l \div M
             k == l % M
             c == layout[s].chain
  <2>1. s \in PartSlot /\ k \in Nat
    BY CellOf, <1>1
  <2>2. LaidLogical(l) \in {Info(0, 0), Info(Base(s) + 2 * (k % c) + 1, 1)}
    BY DEF LaidLogical, M
  <2> HIDE DEF s, k
  <2>3. c \in Nat \ {0} /\ 2 * c < Span
    BY <2>1, Given
  <2> HIDE DEF c
  <2>4. k % c \in 0 .. c - 1
    BY <2>1, <2>3, DivMod
  <2> DEFINE b == Base(s)
             x == k % c
  <2>5. b \in Nat /\ b + Span <= (N + 1) * Span
    BY <1>2, <2>1
  <2>6. x \in 0 .. c - 1
    BY <2>4
  <2>7. b + 2 * x + 1 \in 0 .. 2 * SignBit - 1
    <3> HIDE DEF b, x
    <3> QED
      BY <1>1, <1>3, <2>3, <2>5, <2>6
  <2>8. 0 \in 0 .. 2 * SignBit - 1
    BY <1>1
  <2> QED
    BY <1>4, <2>2, <2>7, <2>8
<1> QED
  BY <1>5, <1>6

\* A printed line shows the entry it is about, in digits but for the smallest int.
LEMMA LineShows ==
  ASSUME NEW table, NEW i \in 0 .. SignBit - 1,
         NEW info, info.base \in 0 .. 2 * SignBit - 1, info.sec_cnt \in 0 .. 2 * SignBit - 1
  PROVE  /\ Shown(Line(table, i, info)) =
              [table |-> table, index |-> i, base |-> info.base, sec_cnt |-> info.sec_cnt]
         /\ InDigits(Line(table, i, info))
<1> DEFINE line == Line(table, i, info)
<1>1. /\ line.table = table /\ line.number = Formatted(i, 10, 0)
      /\ line.base = Formatted(Signed(info.base), 16, 0)
      /\ line.count = Formatted(Signed(info.sec_cnt), 16, 0)
  BY DEF Line
<1>2. i \in 0 .. 2 * SignBit - 1 /\ i < SignBit
  BY SignBitAssumption
<1> HIDE DEF line
<1>3. /\ ReadBack(line.number, 10) = i
      /\ Unsigned(ReadBack(line.base, 16)) = info.base
      /\ Unsigned(ReadBack(line.count, 16)) = info.sec_cnt
      /\ Legible(line.number, 10)
      /\ Legible(line.base, 16) <=> info.base # SignBit
      /\ Legible(line.count, 16) <=> info.sec_cnt # SignBit
  BY <1>1, <1>2, PrintedReadsBack
<1>4. Shown(line) = [table |-> table, index |-> i, base |-> info.base, sec_cnt |-> info.sec_cnt]
  BY <1>1, <1>3 DEF Shown
<1>5. InDigits(line)
  BY <1>3 DEF InDigits
<1> QED
  BY <1>4, <1>5 DEF line

\* The lines that tell of the partitions of the disk.
LaidLines ==
  {[table |-> "primary", index |-> p, base |-> LaidPrimary(p, DiskSize).base,
    sec_cnt |-> LaidPrimary(p, DiskSize).sec_cnt] : p \in 0 .. NR_PART_PER_DRIVE}
  \cup
  {[table |-> "logical", index |-> l, base |-> LaidLogical(l).base,
    sec_cnt |-> LaidLogical(l).sec_cnt] :
      l \in {k \in 0 .. NR_SUB_PER_DRIVE - 1 : LaidLogical(k).sec_cnt # 0}}

LEMMA LinesAreLaid ==
  ASSUME layout \in Layouts, DOMAIN primary = 0 .. N, DOMAIN logical = 0 .. NR_SUB_PER_DRIVE - 1,
         \A p \in 0 .. N : primary[p] = LaidPrimary(p, DiskSize),
         \A l \in 0 .. NR_SUB_PER_DRIVE - 1 : logical[l] = LaidLogical(l)
  PROVE  {Shown(line) : line \in InfoLines} = LaidLines /\ \A line \in InfoLines : InDigits(line)
<1> DEFINE P(p) == Line("primary", p, primary[p])
           L(l) == Line("logical", l, logical[l])
           ShownP(p) == [table |-> "primary", index |-> p, base |-> LaidPrimary(p, DiskSize).base,
                         sec_cnt |-> LaidPrimary(p, DiskSize).sec_cnt]
           ShownL(l) == [table |-> "logical", index |-> l, base |-> LaidLogical(l).base,
                         sec_cnt |-> LaidLogical(l).sec_cnt]
           Kept == {k \in 0 .. NR_SUB_PER_DRIVE - 1 : LaidLogical(k).sec_cnt # 0}
<1>1. InfoLines = {P(p) : p \in 0 .. N} \cup {L(l) : l \in Kept}
  <2>1. {k \in DOMAIN logical : logical[k].sec_cnt # 0} = Kept
    OBVIOUS
  <2> QED
    BY <2>1, Zenon DEF InfoLines
<1>2. LaidLines = {ShownP(p) : p \in 0 .. N} \cup {ShownL(l) : l \in Kept}
  BY DEF LaidLines, N
<1>3. /\ SignBit \in Nat \ {0} /\ N \in Nat /\ N < SignBit
      /\ NR_SUB_PER_DRIVE \in Int /\ NR_SUB_PER_DRIVE <= SignBit
  BY SignBitAssumption, Given, WidthAssumption DEF N, M, NR_SUB_PER_DRIVE
<1>4. ASSUME NEW p \in 0 .. N PROVE Shown(P(p)) = ShownP(p) /\ InDigits(P(p))
  <2>1. p \in 0 .. SignBit - 1
    BY <1>3
  <2>2. /\ primary[p].base \in 0 .. 2 * SignBit - 1 /\ primary[p].sec_cnt \in 0 .. 2 * SignBit - 1
        /\ primary[p] = LaidPrimary(p, DiskSize)
    BY LaidFits
  <2> QED
    BY <2>1, <2>2, LineShows
<1>5. ASSUME NEW l \in Kept PROVE Shown(L(l)) = ShownL(l) /\ InDigits(L(l))
  <2>1. l \in 0 .. SignBit - 1 /\ l \in 0 .. NR_SUB_PER_DRIVE - 1
    BY <1>3
  <2>2. 0 \in 0 .. 2 * SignBit - 1 /\ 1 \in 0 .. 2 * SignBit - 1
    BY <1>3
  <2>3. /\ logical[l].base \in 0 .. 2 * SignBit - 1 /\ logical[l].sec_cnt \in 0 .. 2 * SignBit - 1
        /\ logical[l] = LaidLogical(l)
    BY <2>1, <2>2, LaidFits
  <2> QED
    BY <2>1, <2>3, LineShows
<1> HIDE DEF P, L, ShownP, ShownL, Kept
<1> QED
  BY <1>1, <1>2, <1>4, <1>5

\* Only print_hdd_info prints, and what is on the disk stays there.
LEMMA PrintedOnlyHere ==
  ASSUME [OpenNext]_openVars, ~OpenPrint
  PROVE  UNCHANGED <<layout, printed>>
BY DEF OpenNext, openVars, OpenIdentified, OpenTableRead, OpenReply, WalkIdentify,
       ReadPrimary, ReadExtended, walkVars

\* What print_hdd_info prints, after any number of opens, tells the partitions of the
\* disk, its numbers read in two's complement, and is written in digits but for numbers
\* of 2^31 (print_hdd_info, vsprintf, itoa_base).
THEOREM PrintedIsLayoutEver == OpenSpec => []PrintedIsLayout
<1>1. OpenInit => WalkInv /\ PrintedIsLayout
  BY WalkInitInv DEF OpenInit, PrintedIsLayout
<1>2. WalkInv /\ PrintedIsLayout /\ [OpenNext]_openVars => (WalkInv /\ PrintedIsLayout)'
  <2> SUFFICES ASSUME WalkInv, PrintedIsLayout, [OpenNext]_openVars
               PROVE  PrintedIsLayout'
    BY WalkInductive
  <2>1. PrintedIsLayout <=>
          (printed # {} => /\ \A line \in printed : InDigits(line)
                           /\ {Shown(line) : line \in printed} = LaidLines)
    BY DEF PrintedIsLayout, LaidLines
  <2>2. layout' = layout => LaidLines' = LaidLines
    BY DEF LaidLines, LaidPrimary, LaidLogical
  <2>3. PrintedIsLayout' <=>
          (printed' # {} => /\ \A line \in printed' : InDigits(line)
                            /\ {Shown(line) : line \in printed'} = LaidLines')
    BY DEF PrintedIsLayout, LaidLines
  <2>4. CASE OpenPrint
    <3>1. walk = "read" /\ printed' = InfoLines /\ layout' = layout
      BY <2>4 DEF OpenPrint
    <3>2. /\ layout \in Layouts /\ PrimaryFilled(N) /\ LogicalFilled(N, 0)
          /\ primary[0] = Info(0, DiskSize)
          /\ DOMAIN primary = 0 .. N /\ DOMAIN logical = 0 .. NR_SUB_PER_DRIVE - 1
      BY <3>1 DEF WalkInv, WalkAt, TablesType
    <3>3. {Shown(line) : line \in InfoLines} = LaidLines /\ \A line \in InfoLines : InDigits(line)
      BY <3>2, EntriesAreLaid, LinesAreLaid
    <3> QED
      BY <2>2, <2>3, <3>1, <3>3
  <2>5. CASE ~OpenPrint
    <3>1. layout' = layout /\ printed' = printed
      BY <2>5, PrintedOnlyHere
    <3> QED
      BY <2>1, <2>2, <2>3, <3>1
  <2> QED
    BY <2>4, <2>5
<1> QED
  BY <1>1, <1>2, PTL DEF OpenSpec

================================================================================
