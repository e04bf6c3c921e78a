------------------------------- MODULE Scheduler -------------------------------
(******************************************************************************)
(* Which process runs: process_schedule (kernel/process.c), the clock         *)
(* interrupt that charges ticks and calls it (clock_int_handler in            *)
(* kernel/interrupt.c) and block, which calls it too (kernel/message.c).      *)
(*                                                                            *)
(* process_schedule scans the process table with interrupts on.  Called from  *)
(* block, inside a system call, it can be interrupted by the clock, which     *)
(* then charges whatever process_ready is at that moment: the process that    *)
(* blocked, or the best candidate so far.  Called from the clock handler it   *)
(* can not: the handler's own line is masked.  The disk interrupt can make    *)
(* the driver runnable at any point.  So the scan is modelled one test at a   *)
(* time.  The clock period is 10 ms and one pass over the table takes          *)
(* microseconds, so at most one tick falls into a pass (variable ticked).     *)
(* What a system call does is left open, but for the two things that   *)
(* matter here: it may wake other processes and it may block its caller.      *)
(******************************************************************************)
EXTENDS Integers

CONSTANTS
  NumProc,       \* TOTAL_TASK_CNT
  NumTasks,      \* the first processes are ring 1 tasks, the rest ring 3
  TaskPriority,  \* priority of a ring 1 task: 15
  UserPriority,  \* priority of a ring 3 process: 5
  HddTask,       \* the process the disk interrupt wakes
  MaxDebt        \* bound of the model: ticks are not counted below -MaxDebt

ASSUME NumProcAssumption == NumProc \in Nat \ {0}

Proc == 0 .. NumProc - 1

ASSUME PriorityAssumption ==
  /\ NumTasks \in Nat
  /\ TaskPriority \in Nat \ {0}
  /\ UserPriority \in Nat \ {0}
ASSUME HddTaskAssumption == HddTask \in Proc
ASSUME MaxDebtAssumption == MaxDebt \in Nat \ {0}

Priority(p) == IF p < NumTasks THEN TaskPriority ELSE UserPriority

VARIABLES
  ticks,          \* process -> the clock ticks left to it
  runnable,       \* process -> whether its flags are 0
  process_ready,  \* the process that runs, or that the scan prefers so far
  pc,             \* "run" in user mode, "call" in a system call, else in the scan
  caller,         \* who called process_schedule: "clock", "block", or "none"
  biggest_tick,   \* the ticks of the best candidate so far
  cursor,         \* the next process the scan or the reset looks at
  ticked          \* the clock has interrupted this pass over the table

vars == <<ticks, runnable, process_ready, pc, caller, biggest_tick, cursor, ticked>>

Init ==
  /\ ticks = [p \in Proc |-> Priority(p)]
  /\ runnable = [p \in Proc |-> TRUE]
  /\ process_ready = 0
  /\ pc = "run"
  /\ caller = "none"
  /\ biggest_tick = 0
  /\ cursor = 0
  /\ ticked = FALSE

--------------------------------------------------------------------------------
(* process_schedule.                                                          *)

StartScan(who) ==
  /\ pc' = "test"
  /\ caller' = who
  /\ biggest_tick' = 0
  /\ cursor' = 0
  /\ ticked' = FALSE

\* Mutants of Better: blocked processes compete too; the comparison is lost.
BetterThoughBlocked(p) == ticks[p] > biggest_tick
BetterIfAny(p) == runnable[p] /\ ticks[p] > 0

\* The candidate that replaces the best one so far.
Better(p) == runnable[p] /\ ticks[p] > biggest_tick

ScanTest ==
  /\ pc = "test"
  /\ cursor < NumProc
  /\ IF Better(cursor) THEN pc' = "take" /\ UNCHANGED cursor
                       ELSE cursor' = cursor + 1 /\ UNCHANGED pc
  /\ UNCHANGED <<ticks, runnable, process_ready, caller, biggest_tick, ticked>>

\* biggest_tick reads the ticks again; a clock tick may have come in between.
ScanTake ==
  /\ pc = "take"
  /\ biggest_tick' = ticks[cursor]
  /\ process_ready' = cursor
  /\ cursor' = cursor + 1
  /\ pc' = "test"
  /\ UNCHANGED <<ticks, runnable, caller, ticked>>

\* A candidate with ticks left was found: it runs when the kernel is left.
ScanFound ==
  /\ pc = "test"
  /\ cursor = NumProc
  /\ biggest_tick # 0
  /\ pc' = "run"
  /\ caller' = "none"
  /\ biggest_tick' = 0
  /\ cursor' = 0
  /\ ticked' = FALSE
  /\ UNCHANGED <<ticks, runnable, process_ready>>

\* Nobody runnable has ticks left: all of them get their priority.
ScanFailed ==
  /\ pc = "test"
  /\ cursor = NumProc
  /\ biggest_tick = 0
  /\ pc' = "reset"
  /\ cursor' = 0
  /\ UNCHANGED <<ticks, runnable, process_ready, caller, biggest_tick, ticked>>

\* Mutant of Refill: the priority is added to what is left.
RefillAdds(p) == IF runnable[p] THEN ticks[p] + Priority(p) ELSE ticks[p]

Refill(p) == IF runnable[p] THEN Priority(p) ELSE ticks[p]

Reset ==
  /\ pc = "reset"
  /\ cursor < NumProc
  /\ ticks' = [ticks EXCEPT ![cursor] = Refill(cursor)]
  /\ cursor' = cursor + 1
  /\ UNCHANGED <<runnable, process_ready, pc, caller, biggest_tick, ticked>>

ScanAgain ==
  /\ pc = "reset"
  /\ cursor = NumProc
  /\ pc' = "test"
  /\ cursor' = 0
  /\ ticked' = FALSE
  /\ UNCHANGED <<ticks, runnable, process_ready, caller, biggest_tick>>

--------------------------------------------------------------------------------
(* The clock.                                                                 *)

\* Mutant of Charged: the running process is not charged.
ChargedNobody(p) == ticks

Charged(p) ==
  [ticks EXCEPT ![p] = IF @ > -MaxDebt THEN @ - 1 ELSE @]

\* From user mode (int_reenter is 0): charge, and reschedule at zero.
ClockUser ==
  /\ pc = "run"
  /\ ticks' = Charged(process_ready)
  /\ IF ticks'[process_ready] > 0
     THEN UNCHANGED <<pc, caller, biggest_tick, cursor, ticked>>
     ELSE StartScan("clock")
  /\ UNCHANGED <<runnable, process_ready>>

\* During a system call (int_reenter is not 0): charge only.
ClockNested ==
  /\ pc # "run"
  /\ caller # "clock"
  /\ ~ticked
  /\ ticks' = Charged(process_ready)
  /\ ticked' = (pc # "call")
  /\ UNCHANGED <<runnable, process_ready, pc, caller, biggest_tick, cursor>>

--------------------------------------------------------------------------------
(* System calls and the disk.                                                 *)

SysCall ==
  /\ pc = "run"
  /\ pc' = "call"
  /\ UNCHANGED <<ticks, runnable, process_ready, caller, biggest_tick, cursor, ticked>>

SysReturn ==
  /\ pc = "call"
  /\ pc' = "run"
  /\ UNCHANGED <<ticks, runnable, process_ready, caller, biggest_tick, cursor, ticked>>

\* The call completes the message another process waits for.
Wake(q) ==
  /\ pc = "call"
  /\ ~runnable[q]
  /\ runnable' = [runnable EXCEPT ![q] = TRUE]
  /\ UNCHANGED <<ticks, process_ready, pc, caller, biggest_tick, cursor, ticked>>

\* The caller sets one of its flags and calls block.
Block ==
  /\ pc = "call"
  /\ runnable' = [runnable EXCEPT ![process_ready] = FALSE]
  /\ StartScan("block")
  /\ UNCHANGED <<ticks, process_ready>>

\* The disk interrupt completes the receive the driver waits in.
DiskWake ==
  /\ ~runnable[HddTask]
  /\ runnable' = [runnable EXCEPT ![HddTask] = TRUE]
  /\ UNCHANGED <<ticks, process_ready, pc, caller, biggest_tick, cursor, ticked>>

--------------------------------------------------------------------------------

Schedule == ScanTest \/ ScanTake \/ ScanFound \/ ScanFailed \/ Reset \/ ScanAgain

Next ==
  \/ Schedule
  \/ ClockUser
  \/ ClockNested
  \/ SysCall
  \/ SysReturn
  \/ \E q \in Proc : Wake(q)
  \/ Block
  \/ DiskWake

\* The processor executes the scan and returns from a call; the clock reaches
\* user mode again and again, however often the running process makes calls.
Fairness ==
  /\ WF_vars(Schedule)
  /\ WF_vars(SysReturn \/ Block)
  /\ SF_vars(ClockUser)

Spec == Init /\ [][Next]_vars
FairSpec == Spec /\ Fairness

--------------------------------------------------------------------------------
(* Properties.                                                                *)

\* Every variable keeps its type, and no process has more ticks than priority.
TypeOK ==
  /\ ticks \in [Proc -> Int]
  /\ \A p \in Proc : ticks[p] \in -MaxDebt .. Priority(p)
  /\ runnable \in [Proc -> BOOLEAN]
  /\ process_ready \in Proc
  /\ pc \in {"run", "call", "test", "take", "reset"}
  /\ caller \in {"none", "clock", "block"}
  /\ biggest_tick \in Int
  /\ cursor \in 0 .. NumProc
  /\ ticked \in BOOLEAN

\* Whoever runs, in user mode or in a system call before it blocks, is runnable,
\* although the scan keeps its choice in process_ready while it is not yet made
\* and interrupts wake and charge processes under it.
RunningIsRunnable == pc \in {"run", "call"} => runnable[process_ready]

\* The scan never prefers a process to one it has passed with more ticks; only a
\* driver that was woken behind the cursor can have more.
PassedHaveNoMore ==
  pc \in {"test", "take"} =>
    \A q \in Proc :
      q < cursor /\ runnable[q] /\ q # HddTask => ticks[q] <= biggest_tick

\* Whoever is chosen by the clock has ticks left and as many as any process that
\* could have been chosen.
ClockChoosesMost ==
  [][ScanFound /\ caller = "clock" =>
       /\ ticks[process_ready] > 0
       /\ \A q \in Proc \ {HddTask} : runnable[q] => ticks[q] <= ticks[process_ready]]_vars

\* Nobody starves: a process that stays runnable runs again and again.
NoStarvation ==
  \A p \in Proc :
    <>[]runnable[p] => []<>(pc = "run" /\ process_ready = p)

--------------------------------------------------------------------------------
(* The inductive invariant of SchedulerProofs.                                *)

\* Outside the scan its variables are at rest; inside it has a caller, and a
\* scan the clock handler made is not interrupted by the clock.
ScanOK ==
  /\ pc \in {"run", "call"} <=> caller = "none"
  /\ pc \in {"run", "call", "reset"} => biggest_tick = 0
  /\ pc = "take" => cursor < NumProc
  /\ caller = "clock" => ~ticked

\* biggest_tick is never negative, and the candidate it stands for is runnable;
\* in the clock handler it is also exactly what the candidate has.
CandidateOK ==
  /\ biggest_tick >= 0
  /\ biggest_tick # 0 => runnable[process_ready]
  /\ biggest_tick # 0 /\ caller = "clock" => ticks[process_ready] = biggest_tick

\* Between the comparison and the assignment one tick may be charged to the
\* process about to be taken, so that it is no longer better, but never worse.
TakeOK ==
  pc = "take" =>
    /\ runnable[cursor]
    /\ ticks[cursor] >= biggest_tick
    /\ ~ticked => ticks[cursor] > biggest_tick

IInv ==
  TypeOK /\ ScanOK /\ RunningIsRunnable /\ CandidateOK /\ TakeOK /\ PassedHaveNoMore

================================================================================
