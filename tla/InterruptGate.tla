----------------------------- MODULE InterruptGate -----------------------------
(******************************************************************************)
(* The way into the kernel and out of it: _save, restart_process, the         *)
(* hw_int_master and hw_int_slaver stubs and sys_call                         *)
(* (kernel/gas/interrupt.s), with what the handlers they call may do to       *)
(* process_ready (clock_int_handler, process_schedule).                       *)
(*                                                                            *)
(* There is one kernel stack and no lock: that handlers nest properly rests   *)
(* on int_reenter, on the line a handler masks in the 8259, on the interrupt  *)
(* flag and on the clock handler's early return.  The model keeps these four  *)
(* apart.  Steps between which the processor takes no interrupt in any case   *)
(* (the pushes of _save, the two pops and iret) are one step.                 *)
(*                                                                            *)
(* A ring 0 int 0x90 happens only on the way to a halt (an assertion or       *)
(* CRITICAL inside the kernel) and is left out.                               *)
(******************************************************************************)
EXTENDS Integers, Sequences, FiniteSets

CONSTANTS
  Proc,     \* the processes
  First,    \* proc_table[0], which runs first
  Irq,      \* the interrupt lines with a handler: clock, keyboard, disk
  Clock,    \* IRQ_CLOCK
  Call,     \* int 0x90
  Boot,     \* init_process_main, which leaves through restart_process
  Kernel    \* the kernel stack, as a place registers are saved in

ASSUME FirstAssumption == First \in Proc
ASSUME ClockAssumption == Clock \in Irq
ASSUME KindsAssumption ==
  /\ Call \notin Irq /\ Boot \notin Irq /\ Call # Boot
  /\ Kernel \notin Proc

VARIABLES
  stack,          \* activations of kernel code, the one that executes last
  int_reenter,
  interrupts,     \* the interrupt flag
  mask,           \* the lines masked in the 8259
  process_ready,
  regs,           \* process -> the registers in its table entry
  cpu,            \* the registers of the process in user mode
  esp0            \* whose table entry tss.esp0 and the local descriptors are

vars == <<stack, int_reenter, interrupts, mask, process_ready, regs, cpu, esp0>>

\* Registers: whose they are, and in %eax a value of its own, the number of the
\* call it makes, or the result of the call of some process.
Context == [of : Proc \cup {Kernel}, eax : {"value", "request"} \cup Proc]

\* What runs, where it saved the registers of what it interrupted, whether it
\* returns to restart_process or to restart_re_enter, the process a call is made
\* for, and the next thing it does.
Activation ==
  [what   : Irq \cup {Call, Boot},
   home   : Proc \cup {Kernel},
   outer  : BOOLEAN,
   caller : Proc,
   at     : {"mask", "sti", "args", "body", "result", "cli", "unmask", "ret", "iret"}]

UserMode == stack = <<>>
Top == stack[Len(stack)]
Lower == SubSeq(stack, 1, Len(stack) - 1)
Moved(at) == Append(Lower, [Top EXCEPT !.at = at])

\* init_process_main has set int_reenter to 0 and calls restart_process.
Init ==
  /\ stack = <<[what |-> Boot, home |-> Kernel, outer |-> TRUE, caller |-> First, at |-> "ret"]>>
  /\ int_reenter = 0
  /\ interrupts = FALSE
  /\ mask = Irq \ {Clock}
  /\ process_ready = First
  /\ regs = [p \in Proc |-> [of |-> p, eax |-> "value"]]
  /\ cpu = [of |-> First, eax |-> "value"]
  /\ esp0 = First

--------------------------------------------------------------------------------
(* Into the kernel.                                                           *)

\* Where the processor pushes: through tss.esp0 from user mode, else where %esp
\* points, which is a table entry once restart_process has loaded it.
SaveArea ==
  IF UserMode THEN esp0
  ELSE IF Top.at = "iret" /\ Top.outer THEN process_ready
  ELSE Kernel

\* Mutant of Outermost: the test of _save is for a nested entry.
OutermostIfNested == int_reenter + 1 > 0

\* _save found int_reenter at 0: the kernel stack starts again at StackTop.
Outermost == int_reenter + 1 = 0

\* The gate clears the interrupt flag; _save saves and counts.
Enter(what, eax, at) ==
  LET act == [what |-> what, home |-> SaveArea, outer |-> Outermost,
              caller |-> process_ready, at |-> at]
  IN /\ interrupts' = FALSE
     /\ int_reenter' = int_reenter + 1
     /\ stack' = IF Outermost THEN <<act>> ELSE Append(stack, act)
     /\ regs' = IF SaveArea = Kernel THEN regs
                ELSE [regs EXCEPT ![SaveArea] =
                        [of |-> IF UserMode THEN cpu.of ELSE Kernel, eax |-> eax]]

Interrupt(k) ==
  /\ interrupts
  /\ k \notin mask
  /\ Enter(k, cpu.eax, "mask")
  /\ UNCHANGED <<mask, process_ready, cpu, esp0>>

SysCall ==
  /\ UserMode
  /\ Enter(Call, "request", "sti")
  /\ UNCHANGED <<mask, process_ready, cpu, esp0>>

--------------------------------------------------------------------------------
(* The stubs.                                                                 *)

\* Mutant of Masked: the line is left open.
MaskedNot(k) == mask

Masked(k) == mask \cup {k}

\* The handler's own line is masked, the end of the interrupt signalled.
MaskLine ==
  /\ ~UserMode
  /\ Top.at = "mask"
  /\ mask' = Masked(Top.what)
  /\ stack' = Moved("sti")
  /\ UNCHANGED <<int_reenter, interrupts, process_ready, regs, cpu, esp0>>

Sti ==
  /\ ~UserMode
  /\ Top.at = "sti"
  /\ interrupts' = TRUE
  /\ stack' = Moved(IF Top.what = Call THEN "args" ELSE "body")
  /\ UNCHANGED <<int_reenter, mask, process_ready, regs, cpu, esp0>>

\* sys_call pushes process_ready as the last argument, with interrupts on.
PushCaller ==
  /\ ~UserMode
  /\ Top.at = "args"
  /\ stack' = Append(Lower, [Top EXCEPT !.caller = process_ready, !.at = "body"])
  /\ UNCHANGED <<int_reenter, interrupts, mask, process_ready, regs, cpu, esp0>>

\* Mutant of MaySchedule: the clock handler does not look at int_reenter.
MayScheduleNested == Top.what \in {Call, Clock}

\* A call that blocks schedules; the clock handler does if it is not nested.
MaySchedule == Top.what = Call \/ (Top.what = Clock /\ int_reenter = 0)

\* process_schedule takes another process; it may do so several times.
Schedule(p) ==
  /\ ~UserMode
  /\ Top.at = "body"
  /\ MaySchedule
  /\ p # process_ready
  /\ process_ready' = p
  /\ UNCHANGED <<stack, int_reenter, interrupts, mask, regs, cpu, esp0>>

\* The handler returns to the stub.
BodyDone ==
  /\ ~UserMode
  /\ Top.at = "body"
  /\ stack' = Moved(IF Top.what = Call THEN "result" ELSE "cli")
  /\ UNCHANGED <<int_reenter, interrupts, mask, process_ready, regs, cpu, esp0>>

\* Mutant of ResultHome: the result goes to the process that runs next.
ResultToReady == process_ready

\* %esi was saved across the call: it still points to the caller's registers.
ResultHome == Top.home

StoreResult ==
  /\ ~UserMode
  /\ Top.at = "result"
  /\ ResultHome \in Proc
  /\ regs' = [regs EXCEPT ![ResultHome].eax = Top.caller]
  /\ stack' = Moved("cli")
  /\ UNCHANGED <<int_reenter, interrupts, mask, process_ready, cpu, esp0>>

\* Mutant of FlagAfterCli: the cli before the return is missing.
FlagStaysSet == TRUE

FlagAfterCli == FALSE

Cli ==
  /\ ~UserMode
  /\ Top.at = "cli"
  /\ interrupts' = FlagAfterCli
  /\ stack' = Moved(IF Top.what = Call THEN "ret" ELSE "unmask")
  /\ UNCHANGED <<int_reenter, mask, process_ready, regs, cpu, esp0>>

\* Mutant of Unmasked: the line stays masked.
UnmaskedNot(k) == mask

Unmasked(k) == mask \ {k}

UnmaskLine ==
  /\ ~UserMode
  /\ Top.at = "unmask"
  /\ mask' = Unmasked(Top.what)
  /\ stack' = Moved("ret")
  /\ UNCHANGED <<int_reenter, interrupts, process_ready, regs, cpu, esp0>>

--------------------------------------------------------------------------------
(* Out of the kernel.                                                         *)

NextEsp0 == process_ready

\* restart_process: %esp into the table entry, local descriptors, tss.esp0.
RestartProcess ==
  /\ ~UserMode
  /\ Top.at = "ret"
  /\ Top.outer
  /\ esp0' = NextEsp0
  /\ int_reenter' = int_reenter - 1
  /\ stack' = Moved("iret")
  /\ UNCHANGED <<interrupts, mask, process_ready, regs, cpu>>

\* The registers are popped from the table entry and the process goes on.
IretToProcess ==
  /\ ~UserMode
  /\ Top.at = "iret"
  /\ Top.outer
  /\ cpu' = regs[process_ready]
  /\ stack' = <<>>
  /\ interrupts' = TRUE
  /\ UNCHANGED <<int_reenter, mask, process_ready, regs, esp0>>

\* restart_re_enter: what was interrupted in the kernel goes on.
RestartReEnter ==
  /\ ~UserMode
  /\ Top.at = "ret"
  /\ ~Top.outer
  /\ int_reenter' = int_reenter - 1
  /\ stack' = Lower
  /\ interrupts' = TRUE
  /\ UNCHANGED <<mask, process_ready, regs, cpu, esp0>>

\* A task at the start installs a handler and enables its line (enable_irq).
EnableLine(k) ==
  /\ UserMode
  /\ k \in mask
  /\ mask' = mask \ {k}
  /\ UNCHANGED <<stack, int_reenter, interrupts, process_ready, regs, cpu, esp0>>

--------------------------------------------------------------------------------

\* The kernel code that executes, but for the choice of the scan.
Advance ==
  \/ MaskLine \/ Sti \/ PushCaller \/ BodyDone \/ StoreResult \/ Cli \/ UnmaskLine
  \/ RestartProcess \/ IretToProcess \/ RestartReEnter

Next ==
  \/ \E k \in Irq : Interrupt(k) \/ EnableLine(k)
  \/ SysCall
  \/ \E p \in Proc : Schedule(p)
  \/ Advance

Spec == Init /\ [][Next]_vars

\* Handlers take microseconds and lines interrupt at most every few
\* milliseconds: interrupts never keep interrupted code from going on for ever.
\* A call may: its process_schedule goes on until somebody is runnable.
InCall == ~UserMode /\ Top.what = Call /\ Top.at = "body"
Fairness ==
  \A d \in 1 .. Cardinality(Irq) + 1 : SF_vars(Advance /\ ~InCall /\ Len(stack) = d)
FairSpec == Spec /\ Fairness

--------------------------------------------------------------------------------
(* Properties.                                                                *)

\* Every variable keeps its type; in particular the table entries and user mode
\* hold registers of processes, never of interrupted kernel code.
TypeOK ==
  /\ stack \in Seq(Activation)
  /\ int_reenter \in Int
  /\ interrupts \in BOOLEAN
  /\ mask \in SUBSET Irq
  /\ process_ready \in Proc
  /\ regs \in [Proc -> Context]
  /\ cpu \in Context
  /\ cpu.of \in Proc /\ \A p \in Proc : regs[p].of \in Proc
  /\ esp0 \in Proc

\* int_reenter counts the activations on the kernel stack, from -1 in user mode,
\* and exactly the lowest saved a process and leaves through restart_process.
DepthIsCounted ==
  /\ int_reenter = IF ~UserMode /\ Top.at = "iret" THEN -1 ELSE Len(stack) - 1
  /\ \A i \in 1 .. Len(stack) :
       /\ stack[i].outer <=> i = 1
       /\ stack[i].what # Boot => (stack[i].home \in Proc <=> i = 1)

\* No handler interrupts itself: a line is on the stack at most once, and calls
\* are made only from user mode.
NotReentered ==
  \A i, j \in 1 .. Len(stack) : stack[i].what = stack[j].what => i = j

\* A call runs for the process whose registers it saved, although interrupts are
\* on before sys_call reads process_ready.
CallIsForCaller ==
  \A i \in 1 .. Len(stack) :
    stack[i].what = Call => stack[i].caller = stack[i].home

\* Nobody changes process_ready under code that was interrupted in the kernel:
\* a process switch happens only with a single activation on the stack.
SwitchOnlyOutermost ==
  [][process_ready' # process_ready => Len(stack) = 1 /\ stack' = stack]_vars

\* Whoever resumes gets the registers it left with, and in %eax what it left
\* there or the result of its own call, never another's and never none.
ResumedAsLeft ==
  [][IretToProcess =>
       /\ cpu'.of = process_ready
       /\ cpu'.eax \in {"value", process_ready}
       /\ esp0 = process_ready]_vars

\* A line whose handler is running is opened again.
LineComesBack ==
  \A k \in Irq :
    (\E i \in 1 .. Len(stack) : stack[i].what = k) ~> (k \notin mask)

================================================================================
