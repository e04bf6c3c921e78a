--------------------------------- MODULE System ---------------------------------
(******************************************************************************)
(* The programs of WalOS on top of its message passing: sys_task              *)
(* (kernel/system.c), hdd_task as far as opening the disk (kernel/hdd.c),     *)
(* fs_task (kernel/fs.c), the processes that wait with delay, and get_ticks   *)
(* (kernel/interrupt.c), through which most of their messages go.  The        *)
(* kernel below them is module Ipc, whose steps appear here unchanged; what   *)
(* this module adds is which calls a process makes, in which order.           *)
(*                                                                            *)
(* at[p] is the next thing p does when it runs.  What a program does between  *)
(* two calls in memory of its own is part of the step behind it.              *)
(******************************************************************************)
EXTENDS Ipc

CONSTANTS
  SysTask,    \* SYSTEM_TASK
  FsTask,     \* FS_TASK
  Ticker,     \* the processes that call delay: process_B, process_C
  MaxTables   \* a bound: partition tables read for the root device

ASSUME ProgramsAssumption ==
  /\ {SysTask, FsTask} \cup Ticker \subseteq Proc \ {HddTask}
  /\ SysTask # FsTask /\ {SysTask, FsTask} \cap Ticker = {}
  /\ MaxTables \in Nat \ {0}
  /\ {"open", "get ticks", "ticks"} \subseteq Payload

VARIABLES
  at,        \* process -> its next step
  served,    \* hdd_task: src, the process whose request it serves
  commands,  \* hdd_task: commands to the disk that the open still needs
  disk,      \* whether the disk works on a command
  irq,       \* its interrupt
  critical   \* a task has come to a CRITICAL

programVars == <<at, served, commands, disk, irq, critical>>
systemVars == <<vars, programVars>>

\* The others, console_task and process_A, send and receive nothing.
SystemInit ==
  /\ Init
  /\ at = [p \in Proc |->
             CASE p \in {SysTask, HddTask} -> "receive"
               [] p = FsTask -> "open"
               [] p \in Ticker -> "ask"
               [] OTHER -> "loop"]
  /\ served = Null /\ commands = 0 /\ disk = "idle" /\ irq = FALSE /\ critical = FALSE

--------------------------------------------------------------------------------
(* Calls.                                                                     *)

Go(p, next) == at' = [at EXCEPT ![p] = next]

\* send_recv(MSG_SEND, ...) and send_recv(MSG_RECEIVE, ...).
SendTo(dest, m) == SendDeadLock(dest, m) \/ SendMeet(dest, m) \/ SendQueue(dest, m)
ReceiveFrom(src, m) == ReceiveInterrupt(src) \/ ReceiveProceed(src, m)

SendStep(p, here, dest, m, next) == at[p] = here /\ SendTo(dest, m) /\ Go(p, next)
ReceiveStep(p, here, src, m, next) == at[p] = here /\ ReceiveFrom(src, m) /\ Go(p, next)

\* CRITICAL: the system call it ends in stops the machine.
Critical == critical' = TRUE /\ UNCHANGED <<vars, at>>

\* get_ticks is a MSG_BOTH: two calls, between which the clock may switch.
AskTicks(p, here, next) == SendStep(p, here, SysTask, "get ticks", next)

AwaitTicks(p, here, next) == ReceiveStep(p, here, SysTask, "get ticks", next)

--------------------------------------------------------------------------------
(* sys_task.                                                                  *)

\* (Mutant) the answer goes out as the request came in.
AnswerUnfilled == "get ticks"

\* msg.u.m3.m3i1 = ticks
Answer == "ticks"

\* (Mutant) a request for the ticks is taken, and not answered.
SysTaskSilent ==
  /\ \/ ReceiveStep(SysTask, "receive", AnySource, Blank, "switch")
     \/ at[SysTask] = "switch" /\ Go(SysTask, "receive") /\ UNCHANGED vars
  /\ UNCHANGED critical

SysTaskStep ==
  \/ /\ \/ ReceiveStep(SysTask, "receive", AnySource, Blank, "switch")
        \/ /\ buffer[SysTask].body = "get ticks"
           /\ SendStep(SysTask, "switch", buffer[SysTask].source, Answer, "receive")
     /\ UNCHANGED critical
  \/ at[SysTask] = "switch" /\ buffer[SysTask].body # "get ticks" /\ Critical

SysTaskRuns == SysTaskStep /\ UNCHANGED <<served, commands, disk, irq>>

--------------------------------------------------------------------------------
(* fs_task, and the processes that wait: process_B and process_C.             *)

FsTaskStep ==
  \/ SendStep(FsTask, "open", HddTask, "open", "opened?")
  \/ ReceiveStep(FsTask, "opened?", HddTask, "open", "opened")
  \/ at[FsTask] = "opened" /\ Go(FsTask, "loop") /\ UNCHANGED vars

\* delay: get_ticks over and over.
TickerStep(p) ==
  \/ AskTicks(p, "ask", "answer")
  \/ AwaitTicks(p, "answer", "answered")
  \/ at[p] = "answered" /\ Go(p, "ask") /\ UNCHANGED vars

OthersRun(p) ==
  /\ \/ p = FsTask /\ FsTaskStep
     \/ p \in Ticker /\ TickerStep(p)
  /\ UNCHANGED <<served, commands, disk, irq, critical>>

--------------------------------------------------------------------------------
(* hdd_task: MSG_DEV_OPEN.                                                    *)

\* The first open identifies the drive and reads its tables, one command each.
Switch ==
  /\ at[HddTask] = "switch" /\ buffer[HddTask].body = "open"
  /\ served' = buffer[HddTask].source
  /\ commands' \in 2 .. 1 + MaxTables
  /\ Go(HddTask, "t")
  /\ UNCHANGED <<vars, disk, irq, critical>>

SwitchFails ==
  /\ at[HddTask] = "switch" /\ buffer[HddTask].body # "open"
  /\ Critical
  /\ UNCHANGED <<served, commands, disk, irq>>

\* get_status asks for the ticks once to begin with and before every look.
DriverCalls ==
  /\ \/ ReceiveStep(HddTask, "receive", AnySource, Blank, "switch")
     \/ AskTicks(HddTask, "t", "t?")
     \/ AwaitTicks(HddTask, "t?", "busy")
     \/ AskTicks(HddTask, "busy", "busy?")
     \/ AwaitTicks(HddTask, "busy?", "look")
     \/ ReceiveStep(HddTask, "wait", Interrupt, Blank, "data")
     \/ SendStep(HddTask, "reply", served, "open", "receive")
  /\ UNCHANGED <<served, commands, disk, irq, critical>>

\* The time is looked at before the status is, so a driver kept from the processor
\* for HDD_TIMEOUT would stop with an idle disk too.  An assumption about timing: the
\* other processes never keep it that long, some ten seconds.
MayTimeOut == disk # "idle"

\* The time and then the status, whose register withdraws the interrupt.
Look ==
  /\ at[HddTask] = "look"
  /\ \/ MayTimeOut /\ Critical /\ UNCHANGED irq
     \/ /\ irq' = FALSE
        /\ Go(HddTask, IF disk = "idle" THEN "command" ELSE "busy")
        /\ UNCHANGED <<vars, critical>>
  /\ UNCHANGED <<served, commands, disk>>

\* (Mutant) the interrupt of the command is not waited for.
CommandUnawaited ==
  /\ at[HddTask] = "command"
  /\ disk' = "busy" /\ irq' = FALSE
  /\ Go(HddTask, "data")
  /\ UNCHANGED <<vars, served, commands, critical>>

Command ==
  /\ at[HddTask] = "command"
  /\ disk' = "busy" /\ irq' = FALSE
  /\ Go(HddTask, "wait")
  /\ UNCHANGED <<vars, served, commands, critical>>

\* read_port, and on to the next command or the answer.
Data ==
  /\ at[HddTask] = "data"
  /\ commands' = commands - 1
  /\ Go(HddTask, IF commands = 1 THEN "reply" ELSE "t")
  /\ UNCHANGED <<vars, served, disk, irq, critical>>

HddTaskRuns == Switch \/ SwitchFails \/ DriverCalls \/ Look \/ Command \/ Data

--------------------------------------------------------------------------------
(* The machine.                                                               *)

\* The disk has done what it was told (external).
DiskDone ==
  /\ disk = "busy"
  /\ disk' = "idle" /\ irq' = TRUE
  /\ UNCHANGED <<vars, at, served, commands, critical>>

Interrupted ==
  /\ irq
  /\ irq' = FALSE
  /\ DiskInterrupt
  /\ UNCHANGED <<at, served, commands, disk, critical>>

Program(p) ==
  /\ pc = "user" /\ process_ready = p
  /\ \/ p = SysTask /\ SysTaskRuns
     \/ p = HddTask /\ HddTaskRuns
     \/ OthersRun(p)

Kernel ==
  /\ SendAssert \/ SendLatch \/ SendSource \/ SendBody \/ SendNull \/ SendWake
       \/ RecvCollect \/ RecvWait \/ Block
  /\ UNCHANGED programVars

Chosen(p) == (Schedule(p) \/ ClockSwitch(p)) /\ UNCHANGED programVars

SystemNext ==
  /\ ~critical
  /\ \/ \E p \in Proc : Program(p) \/ Chosen(p)
     \/ Kernel \/ DiskDone \/ Interrupted

SystemSpec == SystemInit /\ [][SystemNext]_systemVars

--------------------------------------------------------------------------------
(* Properties.                                                                *)

Running(p) == pc = "user" /\ process_ready = p /\ ~critical

\* Whoever comes back from a receive has the message it waited for, whatever was
\* sent, queued and interrupted meanwhile: the ticks from sys_task, the answer to
\* its open from hdd_task, and for the driver the interrupt of its command.
RepliesFit ==
  /\ \A p \in Ticker : Running(p) /\ at[p] = "answered" =>
       buffer[p] = [source |-> SysTask, body |-> "ticks"]
  /\ Running(HddTask) /\ at[HddTask] \in {"busy", "look"} =>
       buffer[HddTask] = [source |-> SysTask, body |-> "ticks"]
  /\ Running(HddTask) /\ at[HddTask] = "data" =>
       buffer[HddTask] = [source |-> Interrupt, body |-> HwInt] /\ disk = "idle"
  /\ Running(FsTask) /\ at[FsTask] = "opened" =>
       buffer[FsTask] = [source |-> HddTask, body |-> "open"]

\* The system stops in one way only: the disk interrupt meets the driver between
\* setting its flag and block's assertion.  No task is sent a message it does not
\* know, nobody sends into a cycle, no poll of the disk times out.
StopsOnlyInWindow == ~critical /\ fault \in {"none", "block_flags"}

\* What keeps q from staying where it is: it can run, or the disk will wake it.
Moves(q) ==
  \/ flags[q] = {}
  \/ /\ q = HddTask /\ recv_from[q] = Interrupt
     /\ irq \/ disk = "busy"

\* The driver has gone to sleep on the interrupt it has already recorded.
Asleep ==
  "RECVING" \in flags[HddTask] /\ recv_from[HddTask] = Interrupt /\ have_int_msg[HddTask]

\* Where one comes to from p, in n steps at most, by asking who waits for whom.
Behind(p) ==
  LET upTo[n \in 0 .. NumProc] ==
        IF n = 0 THEN p
        ELSE LET q == upTo[n - 1]
             IN IF q \notin Proc \/ Moves(q) THEN q ELSE DependsOn(q)
  IN upTo[NumProc]

\* No request is lost: following who waits for whom from a process with a request
\* out, one comes to somebody who moves.  Only an open may hang, behind a driver
\* asleep on its interrupt; whoever asks for the ticks gets them even then.
RequestsHeld ==
  pc # "halted" =>
    \A p \in Ticker \cup {FsTask, HddTask} :
      \/ Behind(p) \in Proc /\ Moves(Behind(p))
      \/ Behind(p) = Interrupt /\ Asleep /\ p \notin Ticker
      \/ p = HddTask /\ at[p] = "switch" /\ recv_from[p] = AnySource

================================================================================
