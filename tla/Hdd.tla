----------------------------------- MODULE Hdd -----------------------------------
(******************************************************************************)
(* The disk driver (kernel/hdd.c): hdd_task serves one request after another  *)
(* with commands to the disk; hdd_int_handler turns the disk's interrupt into *)
(* a message.                                                                 *)
(*                                                                            *)
(* The disk is external: it works on one command, sector by sector, and asks  *)
(* for an interrupt when it has a sector to give or has taken one.  Reading   *)
(* its status withdraws the interrupt.  Requests are for whole sectors.       *)
(*                                                                            *)
(* Receiving is two steps, the test of have_int_msg and the rest, because the *)
(* interrupt may come between them (see Ipc); sending is one.                 *)
(******************************************************************************)
EXTENDS Integers, FiniteSets

CONSTANTS
  Client,       \* the processes that send requests
  Requests,     \* the types of request they make
  MaxSectors,   \* a bound: sectors of one request
  MaxTables     \* a bound: partition tables read for one drive

ASSUME KindsAssumption == Requests \subseteq {"open", "close", "read", "write", "io control"}
ASSUME BoundsAssumption == MaxSectors \in Nat \ {0} /\ MaxTables \in Nat \ {0}

VARIABLES
  pc,            \* where hdd_task is
  src, type,     \* whom it serves, with what
  left,          \* sectors of the request left
  tables,        \* partition tables left to read, as far as they are known
  open_cnt,
  command,       \* the command it gives
  have_int_msg,  \* proc_table[HDD_TASK].have_int_msg
  asking,        \* client -> its request, while it is blocked
  opened,        \* client -> the opens it has not closed
  disk,          \* what the disk does, with the sectors left
  irq,           \* its interrupt
  stale,         \* a sector was read that the disk did not have
  unawaited      \* hdd_interrupt_wait has returned without its interrupt

driver == <<pc, src, type, left, tables, open_cnt, command>>
history == <<stale, unawaited>>
clients == <<asking, opened>>
vars == <<driver, have_int_msg, clients, disk, irq, history>>

Nobody == "nobody"

ASSUME ClientAssumption == IsFiniteSet(Client) /\ Nobody \notin Client

None == [type |-> "none", sectors |-> 0]
Idle == [state |-> "idle", command |-> "none", sectors |-> 0]

\* hdd_init is over.
Init ==
  /\ pc = "test any" /\ src = Nobody /\ type = "none" /\ left = 0
  /\ tables = 0 /\ open_cnt = 0 /\ command = "none"
  /\ have_int_msg = FALSE
  /\ asking = [c \in Client |-> None] /\ opened = [c \in Client |-> 0]
  /\ disk = Idle /\ irq = FALSE /\ stale = FALSE /\ unawaited = FALSE

--------------------------------------------------------------------------------
(* The clients: a request and its answer, as MSG_BOTH.                        *)

\* A client closes what it has opened, and uses what is open.
MayAsk(c, t) == t = "open" \/ opened[c] > 0

Ask(c) ==
  /\ asking[c] = None
  /\ \E t \in Requests, n \in 1 .. MaxSectors :
       /\ MayAsk(c, t)
       /\ t = "open" => opened[c] = 0
       /\ asking' = [asking EXCEPT ![c] = [type |-> t, sectors |-> n]]
       /\ opened' = [opened EXCEPT ![c] = CASE t = "open" -> 1 [] t = "close" -> 0 [] OTHER -> @]
  /\ UNCHANGED <<driver, have_int_msg, disk, irq, history>>

--------------------------------------------------------------------------------
(* The disk.                                                                  *)

\* A sector is ready to be read, or the last one written is on the disk.
DiskReady ==
  /\ disk.state = "busy"
  /\ disk' = IF disk.sectors = 0 THEN Idle ELSE [disk EXCEPT !.state = "data"]
  /\ irq' = TRUE
  /\ UNCHANGED <<driver, have_int_msg, clients, history>>

\* hdd_cmd_out: a write begins with the disk asking for data, without an interrupt.
Accept(cmd, n) ==
  [state |-> IF cmd = "write" THEN "data" ELSE "busy", command |-> cmd, sectors |-> n]

\* A sector goes through the data port.
Transferred ==
  IF disk.state # "data" THEN disk
  ELSE IF disk.command = "write" \/ disk.sectors > 1
  THEN [disk EXCEPT !.state = "busy", !.sectors = @ - 1]
  ELSE Idle

--------------------------------------------------------------------------------
(* hdd_int_handler and deliver_int_to_proc.                                   *)

\* Mutant of Recorded: an interrupt nobody waits for is forgotten.
RecordedNot == have_int_msg

Recorded == TRUE

Handler ==
  /\ irq /\ pc # "halted"
  /\ irq' = FALSE
  /\ \/ /\ pc \in {"wait any", "wait int"}
        /\ pc' = IF pc = "wait any" THEN "halted" ELSE "data"
        /\ have_int_msg' = FALSE
     \/ /\ pc \notin {"wait any", "wait int"}
        /\ have_int_msg' = Recorded
        /\ UNCHANGED pc
  /\ UNCHANGED <<src, type, left, tables, open_cnt, command, clients, disk, history>>

--------------------------------------------------------------------------------
(* hdd_task.                                                                  *)

\* send_recv(MSG_RECEIVE, P_ANY): an interrupt is no request and ends in CRITICAL.
ReceiveTest ==
  /\ pc = "test any"
  /\ pc' = IF have_int_msg THEN "halted" ELSE "block any"
  /\ have_int_msg' = FALSE
  /\ UNCHANGED <<src, type, left, tables, open_cnt, command, clients, disk, irq, history>>

\* Mutant of Closed: hdd_close forgets the count.
ClosedNot == open_cnt

\* hdd_close.
Closed == open_cnt - 1

\* The switch of hdd_task; closing and io control need no disk.
Serve(c) ==
  /\ pc' = CASE asking[c].type \in {"open", "read", "write"} -> "busy?" [] OTHER -> "reply"
  /\ src' = c /\ type' = asking[c].type
  /\ left' = asking[c].sectors
  /\ command' = CASE asking[c].type = "open" -> "identify"
                  [] asking[c].type \in {"read", "write"} -> asking[c].type
                  [] OTHER -> "none"
  /\ open_cnt' = IF asking[c].type = "close" THEN Closed ELSE open_cnt
  /\ UNCHANGED <<tables, have_int_msg, clients, disk, irq, history>>

Receive ==
  /\ pc \in {"block any", "wait any"}
  /\ \E c \in Client : asking[c] # None /\ Serve(c)

ReceiveBlock ==
  /\ pc = "block any"
  /\ \A c \in Client : asking[c] = None
  /\ pc' = "wait any"
  /\ UNCHANGED <<src, type, left, tables, open_cnt, command, have_int_msg, clients, disk, irq, history>>

NotBusy == disk.state # "busy"

\* get_status: once HDD_TIMEOUT is over it gives up, whatever the disk does; else it
\* reads the status, which withdraws an interrupt nobody has taken yet.
GetStatus(holds, next) ==
  \/ pc' = "halted" /\ UNCHANGED irq
  \/ irq' = FALSE /\ IF holds THEN pc' = next ELSE UNCHANGED pc

\* hdd_cmd_out waits until the disk is not busy.
Poll ==
  /\ pc = "busy?"
  /\ GetStatus(NotBusy, "command")
  /\ UNCHANGED <<src, type, left, tables, open_cnt, command, have_int_msg, clients, disk, history>>

\* The command; only handle_identify and get_partition_table wait for the interrupt,
\* for a read or a write hdd_interrupt_wait returns at once.
Command ==
  /\ pc = "command"
  /\ disk' = Accept(command, IF type = "open" THEN 1 ELSE left)
  /\ irq' = FALSE
  /\ pc' = CASE type = "open" -> "test int" [] type = "read" -> "data" [] OTHER -> "drq?"
  /\ UNCHANGED <<src, type, left, tables, open_cnt, command, have_int_msg, clients, history>>

\* Mutant of Awaited: an old interrupt message is taken for an answer.
AwaitedNot == pc' = "data" /\ UNCHANGED have_int_msg

\* send_recv(MSG_RECEIVE, MSG_SOURCE_INTERRUPT).
Awaited ==
  IF have_int_msg THEN pc' = "data" /\ have_int_msg' = FALSE
  ELSE pc' = "block int" /\ UNCHANGED have_int_msg

WaitTest ==
  /\ pc = "test int"
  /\ Awaited
  /\ UNCHANGED <<src, type, left, tables, open_cnt, command, clients, disk, irq, history>>

WaitBlock ==
  /\ pc = "block int"
  /\ pc' = "wait int"
  /\ UNCHANGED <<src, type, left, tables, open_cnt, command, have_int_msg, clients, disk, irq, history>>

FirstOpen == open_cnt = 0

\* read_port in handle_identify, and hdd_open behind it: the first open reads the
\* partition tables, whose number the disk decides.
Identified ==
  /\ pc = "data" /\ type = "open" /\ command = "identify"
  /\ disk' = Transferred /\ stale' = (stale \/ disk.state # "data")
  /\ open_cnt' = open_cnt + 1
  /\ IF FirstOpen
     THEN pc' = "busy?" /\ command' = "read" /\ tables' \in 1 .. MaxTables
     ELSE pc' = "reply" /\ UNCHANGED <<command, tables>>
  /\ UNCHANGED <<src, type, left, have_int_msg, clients, irq, unawaited>>

\* read_port in get_partition_table.
TableRead ==
  /\ pc = "data" /\ type = "open" /\ command = "read"
  /\ disk' = Transferred /\ stale' = (stale \/ disk.state # "data")
  /\ tables' = tables - 1
  /\ pc' = IF tables = 1 THEN "reply" ELSE "busy?"
  /\ UNCHANGED <<src, type, left, open_cnt, command, have_int_msg, clients, irq, unawaited>>

\* hdd_read_write, one sector read ...
SectorRead ==
  /\ pc = "data" /\ type = "read"
  /\ disk' = Transferred /\ stale' = (stale \/ disk.state # "data") /\ unawaited' = TRUE
  /\ left' = left - 1
  /\ pc' = IF left = 1 THEN "reply" ELSE "data"
  /\ UNCHANGED <<src, type, tables, open_cnt, command, have_int_msg, clients, irq>>

\* The disk asks for data: STATUS_DRQ.
Asked == disk.state = "data"

\* ... or written, once the disk asks for it.
PollWrite ==
  /\ pc = "drq?"
  /\ GetStatus(Asked, "write")
  /\ UNCHANGED <<src, type, left, tables, open_cnt, command, have_int_msg, clients, disk, history>>

SectorWrite ==
  /\ pc = "write"
  /\ disk' = Transferred /\ unawaited' = TRUE
  /\ left' = left - 1
  /\ pc' = IF left = 1 THEN "reply" ELSE "drq?"
  /\ UNCHANGED <<src, type, tables, open_cnt, command, have_int_msg, clients, irq, stale>>

\* send_recv(MSG_SEND, src).
Reply ==
  /\ pc = "reply"
  /\ asking' = [asking EXCEPT ![src] = None]
  /\ pc' = "test any" /\ src' = Nobody /\ type' = "none" /\ left' = 0 /\ command' = "none"
  /\ UNCHANGED <<tables, open_cnt, have_int_msg, opened, disk, irq, history>>

--------------------------------------------------------------------------------
Protocol ==
  \/ ReceiveTest \/ Receive \/ ReceiveBlock \/ Poll \/ Command \/ WaitTest \/ WaitBlock
  \/ SectorRead \/ PollWrite \/ SectorWrite

Task == Protocol \/ Identified \/ TableRead \/ Reply

Next == (\E c \in Client : Ask(c)) \/ DiskReady \/ Handler \/ Task

Spec == Init /\ [][Next]_vars

\* The disk works, its interrupt is taken, the driver gets the processor, and of two
\* clients that ask again and again each is served (the list of blocked senders).
FairSpec ==
  /\ Spec
  /\ WF_vars(DiskReady) /\ WF_vars(Handler) /\ WF_vars(Task)
  /\ \A c \in Client : SF_vars(pc \in {"block any", "wait any"} /\ asking[c] # None /\ Serve(c))

--------------------------------------------------------------------------------
\* Types; the disk never has more to do than was asked of it.
TypeOK ==
  /\ pc \in {"test any", "block any", "wait any", "busy?", "command", "test int",
             "block int", "wait int", "data", "drq?", "write", "reply", "halted"}
  /\ src \in Client \cup {Nobody} /\ type \in Requests \cup {"none"}
  /\ left \in 0 .. MaxSectors /\ tables \in 0 .. MaxTables
  /\ open_cnt \in 0 .. Cardinality(Client)
  /\ command \in {"none", "identify", "read", "write"}
  /\ have_int_msg \in BOOLEAN /\ irq \in BOOLEAN
  /\ stale \in BOOLEAN /\ unawaited \in BOOLEAN
  /\ disk.state \in {"idle", "busy", "data"} /\ disk.sectors \in 0 .. MaxSectors

\* No command is given to a disk that is busy, whatever was left undone before.
CommandsInTurn == pc = "command" => disk.state # "busy"

\* A sector is written only to a disk that asks for it, and waits for none.
WritesAsked == pc = "write" => disk.state = "data" /\ disk.command = "write"

\* What hdd_task reads through the data port is a sector the disk has put there
\* (comments in hdd.c: "wait hdd interrupt...").
ReadsReady == ~stale

\* And every interrupt is consumed by the wait it belongs to: when hdd_task asks
\* for the next request none is under way, and none is recorded.
InterruptsConsumed ==
  pc \in {"test any", "block any", "wait any"} /\ ~unawaited =>
    ~irq /\ ~have_int_msg /\ disk.state = "idle"

\* The driver has gone to sleep on the interrupt it has recorded.
Missed == pc = "wait int" /\ have_int_msg

\* Every request is answered, unless HDD_TIMEOUT is over before a look at the status or
\* the interrupt comes between the two steps of msg_recv.
Answered ==
  \A c \in Client : asking[c] # None ~> (asking[c] = None \/ pc = "halted" \/ Missed)

================================================================================
