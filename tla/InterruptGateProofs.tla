--------------------------- MODULE InterruptGateProofs ---------------------------
(******************************************************************************)
(* Interrupts nest properly for any number of lines and processes: no handler *)
(* interrupts itself, a call is made for whoever makes it, processes are      *)
(* switched only under the outermost entry, and whoever resumes gets its own  *)
(* registers.                                                                 *)
(******************************************************************************)
EXTENDS InterruptGate, SequenceTheorems, TLAPS

--------------------------------------------------------------------------------
(* The inductive invariant.                                                   *)

\* Where an activation can be interrupted: its interrupts are on.
Open == {"args", "body", "result", "cli"}

\* Where the stub of a line, sys_call and the boot code can be.
InStub(a) ==
  /\ a.what \in Irq => a.at \in {"mask", "sti", "body", "cli", "unmask", "ret", "iret"}
  /\ a.what = Call => a.at \in {"sti", "args", "body", "result", "cli", "ret", "iret"}
  /\ a.what = Boot => a.at \in {"ret", "iret"}

\* An activation by itself: only the lowest saves a process and returns to one, and a
\* line is masked while its handler may be interrupted.
ActivationOK(a, lowest) ==
  /\ InStub(a)
  /\ a.outer <=> lowest
  /\ a.what # Boot => (a.home \in Proc <=> lowest)
  /\ a.what \notin Irq \/ a.at = "iret" => lowest
  /\ a.what \in Irq /\ a.at \in {"sti", "body", "cli", "unmask"} => a.what \in mask
  /\ a.what = Call => a.caller = a.home
  /\ lowest /\ a.what # Boot /\ a.at \in {"mask", "sti", "args"} => a.home = process_ready

StackOK ==
  \A i \in 1 .. Len(stack) :
    /\ ActivationOK(stack[i], i = 1)
    /\ i < Len(stack) => stack[i].at \in Open

CountOK ==
  /\ int_reenter = IF ~UserMode /\ Top.at = "iret" THEN -1 ELSE Len(stack) - 1
  /\ interrupts => UserMode \/ Top.at \in Open

\* A process whose call has no result yet.
Pending(p) ==
  /\ ~UserMode /\ stack[1].what = Call /\ stack[1].home = p
  /\ stack[1].at \in {"sti", "args", "body", "result"}

RegsOK ==
  /\ UserMode => cpu.of = process_ready
  /\ UserMode \/ Top.at = "iret" => esp0 = process_ready
  /\ cpu.eax \in {"value", cpu.of}
  /\ \A p \in Proc : regs[p].of = p /\ (regs[p].eax \in {"value", p} \/ Pending(p))

GateInv == TypeOK /\ StackOK /\ NotReentered /\ CountOK /\ RegsOK

LEMMA GateInitInv == Init => GateInv
<1> SUFFICES ASSUME Init PROVE GateInv
  OBVIOUS
<1> DEFINE a == [what |-> Boot, home |-> Kernel, outer |-> TRUE, caller |-> First, at |-> "ret"]
<1>1. a \in Activation /\ stack = <<a>>
  BY FirstAssumption DEF Init, Activation
<1>2. stack \in Seq(Activation) /\ Len(stack) = 1 /\ stack[1] = a /\ Top = a /\ ~UserMode
  BY <1>1 DEF Top, UserMode
<1>3. TypeOK
  <2>1. cpu \in Context /\ cpu.of \in Proc /\ \A p \in Proc : regs[p].of \in Proc
    BY FirstAssumption DEF Init, Context
  <2>2. regs \in [Proc -> Context]
    BY DEF Init, Context
  <2>3. stack \in Seq(Activation)
    BY <1>2
  <2>4. int_reenter \in Int /\ mask \in SUBSET Irq
    BY SMT DEF Init
  <2>6. interrupts \in BOOLEAN
    BY Zenon DEF Init
  <2>5. process_ready \in Proc /\ esp0 \in Proc
    BY FirstAssumption DEF Init
  <2> QED
    BY <2>1, <2>2, <2>3, <2>4, <2>5, <2>6 DEF TypeOK
<1>4. StackOK
  BY <1>2, KindsAssumption DEF StackOK, ActivationOK, InStub
<1>5. NotReentered /\ CountOK /\ RegsOK
  BY <1>2 DEF Init, NotReentered, CountOK, RegsOK
<1> QED
  BY <1>3, <1>4, <1>5 DEF GateInv

\* The stack without its last activation.
LEMMA LowerPart ==
  ASSUME stack \in Seq(Activation), Len(stack) \in Nat \ {0}
  PROVE  /\ Lower \in Seq(Activation) /\ Len(Lower) = Len(stack) - 1
         /\ \A i \in 1 .. Len(stack) - 1 : Lower[i] = stack[i]
<1> DEFINE m == Len(stack) - 1
<1>1. m \in Int /\ 1 \in Int /\ \A i \in 1 .. m : stack[i] \in Activation
  OBVIOUS
<1>2. Lower = SubSeq(stack, 1, m)
  BY DEF Lower
<1> HIDE DEF m
<1>3. /\ SubSeq(stack, 1, m) \in Seq(Activation)
      /\ Len(SubSeq(stack, 1, m)) = IF 1 <= m THEN m - 1 + 1 ELSE 0
      /\ \A i \in 1 .. m - 1 + 1 : SubSeq(stack, 1, m)[i] = stack[1 + i - 1]
  BY <1>1, SubSeqProperties, SMTT(30)
<1>4. m >= 0
  BY DEF m
<1>5. Lower \in Seq(Activation) /\ Len(Lower) = m
  BY <1>1, <1>2, <1>3, <1>4
<1>6. ASSUME NEW i \in 1 .. m PROVE Lower[i] = stack[i]
  BY <1>1, <1>2, <1>3
<1> QED
  BY <1>5, <1>6 DEF m

\* The stack, with another activation in the place of its last.
LEMMA TopReplaced ==
  ASSUME stack \in Seq(Activation), ~UserMode, NEW a \in Activation, stack' = Append(Lower, a)
  PROVE  /\ stack' \in Seq(Activation) /\ Len(stack') = Len(stack) /\ ~UserMode'
         /\ Len(stack) \in Nat \ {0} /\ Top \in Activation /\ Top = stack[Len(stack)]
         /\ Top' = a /\ stack'[Len(stack)] = a
         /\ \A i \in 1 .. Len(stack) - 1 : stack'[i] = stack[i]
<1>1. Len(stack) \in Nat \ {0}
  <2>1. Len(stack) \in Nat /\ stack # <<>>
    BY LenProperties DEF UserMode
  <2> QED
    BY <2>1, EmptySeq
<1>2. Top \in Activation /\ Top = stack[Len(stack)]
  BY <1>1 DEF Top
<1>3. /\ Lower \in Seq(Activation) /\ Len(Lower) = Len(stack) - 1
      /\ \A i \in 1 .. Len(stack) - 1 : Lower[i] = stack[i]
  BY <1>1, LowerPart
<1>5. stack' \in Seq(Activation) /\ Len(stack') = Len(stack)
  BY <1>1, <1>3, AppendProperties
<1>6. stack'[Len(stack)] = a
  BY <1>1, <1>3
<1>7. \A i \in 1 .. Len(stack) - 1 : stack'[i] = stack[i]
  BY <1>1, <1>3
<1>8. Top' = a /\ ~UserMode'
  BY <1>1, <1>5, <1>6 DEF Top, UserMode
<1> QED
  BY <1>1, <1>2, <1>5, <1>6, <1>7, <1>8

\* A step of the kernel code that executes: the stack stays as it should be if the
\* activation that makes it does, and no other's line is opened.
LEMMA TopMoves ==
  ASSUME GateInv, ~UserMode, NEW a \in Activation, stack' = Append(Lower, a),
         a.what = Top.what, ActivationOK(a, Len(stack) = 1)', UNCHANGED process_ready,
         \A k \in mask : k # Top.what => k \in mask'
  PROVE  /\ stack' \in Seq(Activation) /\ StackOK' /\ NotReentered'
         /\ ~UserMode' /\ Top' = a /\ Len(stack') = Len(stack) /\ Top \in Activation
         /\ Len(stack) \in Nat \ {0} /\ Top = stack[Len(stack)] /\ ActivationOK(Top, Len(stack) = 1)
         /\ stack'[1] = IF Len(stack) = 1 THEN a ELSE stack[1]
<1> DEFINE n == Len(stack)
<1>1. stack \in Seq(Activation)
  BY DEF GateInv, TypeOK
<1>2. /\ stack' \in Seq(Activation) /\ Len(stack') = n /\ ~UserMode'
      /\ n \in Nat \ {0} /\ Top \in Activation /\ Top = stack[n] /\ Top' = a /\ stack'[n] = a
      /\ \A i \in 1 .. n - 1 : stack'[i] = stack[i]
  BY <1>1, TopReplaced
<1> HIDE DEF n
<1>3. ASSUME NEW i \in 1 .. n PROVE stack'[i].what = stack[i].what
  <2>1. i = n \/ i \in 1 .. n - 1
    BY <1>2
  <2> QED
    BY <1>2, <2>1
<1>4. NotReentered'
  BY <1>2, <1>3 DEF GateInv, NotReentered, n
<1>5. \A i \in 1 .. n : ActivationOK(stack[i], i = 1) /\ (i < n => stack[i].at \in Open)
  BY DEF GateInv, StackOK, n
<1>6. ASSUME NEW i \in 1 .. n - 1
      PROVE  ActivationOK(stack[i], i = 1)' /\ stack'[i].at \in Open
  <2>1. stack'[i] = stack[i] /\ i \in 1 .. n /\ i # n /\ n \in 1 .. n
    BY <1>2
  <2>2. stack[i].what # Top.what
    BY <1>2, <2>1 DEF GateInv, NotReentered, n
  <2>3. ActivationOK(stack[i], i = 1) /\ stack[i].at \in Open
    BY <1>5, <2>1
  <2> QED
    BY <2>1, <2>2, <2>3 DEF ActivationOK
<1>7. StackOK'
  <2>1. ASSUME NEW i \in 1 .. n
        PROVE  ActivationOK(stack[i], i = 1)' /\ (i < n => stack'[i].at \in Open)
    <3>1. i \in 1 .. n - 1 \/ i = n
      BY <1>2
    <3>2. ASSUME i = n PROVE ActivationOK(stack[i], i = 1)' /\ (i < n => stack'[i].at \in Open)
      <4>1. ActivationOK(a, n = 1)'
        BY DEF n
      <4> QED
        BY <1>2, <3>2, <4>1 DEF ActivationOK
    <3> QED
      BY <1>2, <1>6, <3>1, <3>2
  <2> QED
    BY <1>2, <2>1 DEF StackOK
<1>8. ActivationOK(Top, n = 1)
  BY <1>2, <1>5
<1>9. stack'[1] = IF n = 1 THEN a ELSE stack[1]
  BY <1>2
<1> QED
  BY <1>2, <1>4, <1>7, <1>8, <1>9 DEF n

\* What is known of the activation that executes.
LEMMA TopIs ==
  ASSUME GateInv, ~UserMode
  PROVE  /\ stack \in Seq(Activation) /\ Len(stack) \in Nat \ {0}
         /\ Top \in Activation /\ Top = stack[Len(stack)] /\ ActivationOK(Top, Len(stack) = 1)
         /\ Len(stack) = 1 => stack[1] = Top
<1>1. stack \in Seq(Activation) /\ Len(stack) \in Nat
  BY LenProperties DEF GateInv, TypeOK
<1>2. Len(stack) \in Nat \ {0}
  BY <1>1, EmptySeq DEF UserMode
<1>3. Top = stack[Len(stack)] /\ Top \in Activation
  BY <1>1, <1>2 DEF Top
<1>4. ActivationOK(stack[Len(stack)], Len(stack) = 1)
  <2>1. Len(stack) \in 1 .. Len(stack)
    BY <1>2
  <2> QED
    BY <2>1, Zenon DEF GateInv, StackOK
<1> QED
  BY <1>1, <1>2, <1>3, <1>4

Places == {"mask", "sti", "args", "body", "result", "cli", "unmask", "ret", "iret"}

\* Where a call has no result yet.
Unanswered == {"sti", "args", "body", "result"}

\* The kernel code that executes goes from one place to the next.
LEMMA MovedIs ==
  ASSUME NEW a \in Activation, NEW at \in Places
  PROVE  LET b == [a EXCEPT !.at = at]
         IN /\ b \in Activation /\ b.what = a.what /\ b.home = a.home /\ b.outer = a.outer
            /\ b.caller = a.caller /\ b.at = at
BY DEF Activation, Places

\* A step of the kernel code that executes, which leaves the saved registers alone.
LEMMA StepKeeps ==
  ASSUME GateInv, ~UserMode, NEW a \in Activation, stack' = Append(Lower, a),
         a.what = Top.what, a.home = Top.home, ActivationOK(a, Len(stack) = 1)',
         UNCHANGED <<process_ready, regs, cpu>>,
         mask' \in SUBSET Irq, \A k \in mask : k # Top.what => k \in mask',
         int_reenter' = IF a.at = "iret" THEN -1 ELSE Len(stack) - 1,
         interrupts' \in BOOLEAN, interrupts' => a.at \in Open,
         esp0' \in Proc, a.at = "iret" => esp0' = process_ready,
         Top.what = Call /\ Top.at \in Unanswered => a.at \in Unanswered
  PROVE  GateInv'
<1>1. /\ stack' \in Seq(Activation) /\ StackOK' /\ NotReentered'
      /\ ~UserMode' /\ Top' = a /\ Len(stack') = Len(stack)
      /\ Len(stack) \in Nat \ {0} /\ Top = stack[Len(stack)]
      /\ stack'[1] = IF Len(stack) = 1 THEN a ELSE stack[1]
  BY TopMoves
<1>2. CountOK'
  BY <1>1, SMT DEF CountOK
<1>3. ASSUME NEW p \in Proc, Pending(p) PROVE Pending(p)'
  BY <1>1, <1>3 DEF Pending, Unanswered
<1>4. RegsOK'
  BY <1>1, <1>3 DEF GateInv, RegsOK
<1>5. TypeOK'
  <2>1. int_reenter' \in Int
    BY <1>1
  <2> QED
    BY <1>1, <2>1 DEF GateInv, TypeOK
<1> QED
  BY <1>1, <1>2, <1>4, <1>5 DEF GateInv

\* The same when it only goes on to the next place.
LEMMA MoveKeeps ==
  ASSUME GateInv, ~UserMode, NEW at \in Places, stack' = Moved(at),
         UNCHANGED <<process_ready, regs, cpu>>,
         mask' \in SUBSET Irq, \A k \in mask : k # Top.what => k \in mask',
         Top.what \in Irq => at \in {"mask", "sti", "body", "cli", "unmask", "ret", "iret"},
         Top.what = Call => at \in {"sti", "args", "body", "result", "cli", "ret", "iret"},
         Top.what = Boot => at \in {"ret", "iret"},
         Top.what \in Irq /\ at \in {"sti", "body", "cli", "unmask"} => Top.what \in mask',
         at \in {"mask", "sti", "args"} => Top.at \in {"mask", "sti", "args"},
         int_reenter' = IF at = "iret" THEN -1 ELSE Len(stack) - 1,
         interrupts' \in BOOLEAN, interrupts' => at \in Open,
         esp0' \in Proc, at = "iret" => Top.outer /\ esp0' = process_ready,
         Top.what = Call /\ Top.at \in Unanswered => at \in Unanswered
  PROVE  GateInv'
<1>1. Top \in Activation /\ ActivationOK(Top, Len(stack) = 1) /\ stack \in Seq(Activation)
  BY TopIs
<1>2. PICK a \in Activation :
         /\ a.what = Top.what /\ a.home = Top.home /\ a.outer = Top.outer
         /\ a.caller = Top.caller /\ a.at = at /\ stack' = Append(Lower, a)
  BY <1>1, MovedIs DEF Moved
<1>3. Len(stack') = Len(stack)
  BY <1>1, <1>2, TopReplaced
<1>4. ActivationOK(a, Len(stack) = 1)'
  BY <1>1, <1>2, <1>3 DEF ActivationOK, InStub
<1> QED
  BY <1>2, <1>4, StepKeeps

--------------------------------------------------------------------------------
(* The stubs keep it.                                                         *)

LEMMA MaskLineKeeps == GateInv /\ MaskLine => GateInv'
<1> SUFFICES ASSUME GateInv, MaskLine PROVE GateInv'
  OBVIOUS
<1>1. ~UserMode /\ Top.at = "mask" /\ stack' = Moved("sti") /\ mask' = mask \cup {Top.what}
  BY DEF MaskLine, Masked
<1>2. UNCHANGED <<int_reenter, interrupts, process_ready, regs, cpu, esp0>>
  BY DEF MaskLine
<1>3. Top.what \in Irq /\ Top.what # Call /\ Top.what # Boot
  BY <1>1, TopIs, KindsAssumption DEF ActivationOK, InStub, Activation
<1>4. mask' \in SUBSET Irq /\ esp0' \in Proc /\ interrupts' \in BOOLEAN
  BY <1>1, <1>2, <1>3, Zenon DEF GateInv, TypeOK
<1>5. int_reenter = Len(stack) - 1 /\ ~interrupts
  BY <1>1 DEF GateInv, CountOK, Open
<1> QED
  BY <1>1, <1>2, <1>3, <1>4, <1>5, MoveKeeps DEF Places

\* The lines, the flag and the addresses keep their types.
LEMMA TypesOf == GateInv => /\ mask \in SUBSET Irq /\ esp0 \in Proc /\ process_ready \in Proc
                            /\ interrupts \in BOOLEAN
BY Zenon DEF GateInv, TypeOK

LEMMA StiKeeps == GateInv /\ Sti => GateInv'
<1> SUFFICES ASSUME GateInv, Sti PROVE GateInv'
  OBVIOUS
<1>1. ~UserMode /\ Top.at = "sti" /\ UNCHANGED <<int_reenter, mask, process_ready, regs, cpu, esp0>>
  BY DEF Sti
<1>2. interrupts' = TRUE
  BY DEF Sti
<1>3. interrupts' \in BOOLEAN
  BY <1>2, Zenon
<1>4. /\ Top.what # Boot /\ (Top.what \in Irq => Top.what \in mask /\ Top.what # Call)
      /\ int_reenter = Len(stack) - 1
  BY <1>1, TopIs, KindsAssumption DEF ActivationOK, InStub, GateInv, CountOK
<1>5. CASE Top.what = Call
  <2>1. stack' = Moved("args") /\ Top.what \notin Irq
    BY <1>5, KindsAssumption DEF Sti
  <2> QED
    BY <1>1, <1>2, <1>3, <1>4, <1>5, <2>1, TypesOf, MoveKeeps DEF Places, Unanswered, Open
<1>6. CASE Top.what # Call
  <2>1. stack' = Moved("body")
    BY <1>6 DEF Sti
  <2> QED
    BY <1>1, <1>2, <1>3, <1>4, <1>6, <2>1, TypesOf, MoveKeeps DEF Places, Unanswered, Open
<1> QED
  BY <1>5, <1>6

\* The process sys_call reads is the one that called: nobody has switched since.
LEMMA PushCallerKeeps == GateInv /\ PushCaller => GateInv'
<1> SUFFICES ASSUME GateInv, PushCaller PROVE GateInv'
  OBVIOUS
<1>1. /\ ~UserMode /\ Top.at = "args"
      /\ UNCHANGED <<int_reenter, interrupts, mask, process_ready, regs, cpu, esp0>>
  BY DEF PushCaller
<1>2. /\ Top \in Activation /\ ActivationOK(Top, Len(stack) = 1) /\ stack \in Seq(Activation)
  BY <1>1, TopIs
<1>3. Top.what = Call /\ Len(stack) = 1 /\ Top.home = process_ready
  BY <1>2, <1>1, KindsAssumption DEF ActivationOK, InStub, Activation
<1>4. PICK a \in Activation :
         /\ a.what = Top.what /\ a.home = Top.home /\ a.outer = Top.outer
         /\ a.caller = process_ready /\ a.at = "body" /\ stack' = Append(Lower, a)
  BY <1>2, TypesOf DEF PushCaller, Activation
<1>5. Len(stack') = Len(stack)
  BY <1>1, <1>2, <1>4, TopReplaced
<1>6. ActivationOK(a, Len(stack) = 1)'
  BY <1>1, <1>2, <1>3, <1>4, <1>5, KindsAssumption DEF ActivationOK, InStub
<1>7. int_reenter = Len(stack) - 1
  BY <1>1 DEF GateInv, CountOK
<1> QED
  BY <1>1, <1>3, <1>4, <1>6, <1>7, TypesOf, StepKeeps DEF Unanswered, Open

LEMMA BodyDoneKeeps == GateInv /\ BodyDone => GateInv'
<1> SUFFICES ASSUME GateInv, BodyDone PROVE GateInv'
  OBVIOUS
<1>1. /\ ~UserMode /\ Top.at = "body"
      /\ UNCHANGED <<int_reenter, interrupts, mask, process_ready, regs, cpu, esp0>>
  BY DEF BodyDone
<1>2. /\ Top.what # Boot /\ (Top.what \in Irq => Top.what \in mask /\ Top.what # Call)
      /\ int_reenter = Len(stack) - 1
  BY <1>1, TopIs, KindsAssumption DEF ActivationOK, InStub, GateInv, CountOK
<1>3. CASE Top.what = Call
  <2>1. stack' = Moved("result") /\ Top.what \notin Irq
    BY <1>3, KindsAssumption DEF BodyDone
  <2> QED
    BY <1>1, <1>2, <1>3, <2>1, TypesOf, MoveKeeps DEF Places, Unanswered, Open
<1>4. CASE Top.what # Call
  <2>1. stack' = Moved("cli")
    BY <1>4 DEF BodyDone
  <2> QED
    BY <1>1, <1>2, <1>4, <2>1, TypesOf, MoveKeeps DEF Places, Unanswered, Open
<1> QED
  BY <1>3, <1>4

LEMMA CliKeeps == GateInv /\ Cli => GateInv'
<1> SUFFICES ASSUME GateInv, Cli PROVE GateInv'
  OBVIOUS
<1>1. /\ ~UserMode /\ Top.at = "cli" /\ UNCHANGED <<int_reenter, mask, process_ready, regs, cpu, esp0>>
  BY DEF Cli
<1>2. interrupts' = FALSE
  BY DEF Cli, FlagAfterCli
<1>3. interrupts' \in BOOLEAN
  BY <1>2, Zenon
<1>4. /\ Top.what # Boot /\ (Top.what \in Irq => Top.what \in mask /\ Top.what # Call)
      /\ int_reenter = Len(stack) - 1
  BY <1>1, TopIs, KindsAssumption DEF ActivationOK, InStub, GateInv, CountOK
<1>5. CASE Top.what = Call
  <2>1. stack' = Moved("ret") /\ Top.what \notin Irq
    BY <1>5, KindsAssumption DEF Cli
  <2> QED
    BY <1>1, <1>2, <1>3, <1>4, <1>5, <2>1, TypesOf, MoveKeeps DEF Places, Unanswered, Open
<1>6. CASE Top.what # Call
  <2>1. stack' = Moved("unmask")
    BY <1>6 DEF Cli
  <2> QED
    BY <1>1, <1>2, <1>3, <1>4, <1>6, <2>1, TypesOf, MoveKeeps DEF Places, Unanswered, Open
<1> QED
  BY <1>5, <1>6

LEMMA UnmaskLineKeeps == GateInv /\ UnmaskLine => GateInv'
<1> SUFFICES ASSUME GateInv, UnmaskLine PROVE GateInv'
  OBVIOUS
<1>1. /\ ~UserMode /\ Top.at = "unmask" /\ stack' = Moved("ret") /\ mask' = mask \ {Top.what}
      /\ UNCHANGED <<int_reenter, interrupts, process_ready, regs, cpu, esp0>>
  BY DEF UnmaskLine, Unmasked
<1>2. Top.what \in Irq /\ Top.what # Call /\ Top.what # Boot /\ int_reenter = Len(stack) - 1
  BY <1>1, TopIs, KindsAssumption DEF ActivationOK, InStub, GateInv, CountOK, Activation
<1>3. mask' \in SUBSET Irq /\ \A k \in mask : k # Top.what => k \in mask'
  BY <1>1, TypesOf
<1>4. ~interrupts
  BY <1>1 DEF GateInv, CountOK, Open
<1> QED
  BY <1>1, <1>2, <1>3, <1>4, TypesOf, MoveKeeps DEF Places

LEMMA RestartProcessKeeps == GateInv /\ RestartProcess => GateInv'
<1> SUFFICES ASSUME GateInv, RestartProcess PROVE GateInv'
  OBVIOUS
<1>1. /\ ~UserMode /\ Top.at = "ret" /\ Top.outer /\ stack' = Moved("iret")
      /\ esp0' = process_ready /\ int_reenter' = int_reenter - 1
      /\ UNCHANGED <<interrupts, mask, process_ready, regs, cpu>>
  BY DEF RestartProcess, NextEsp0
<1>2. /\ Top.what \in Irq => Top.what # Call
      /\ Len(stack) = 1 /\ int_reenter = 0 /\ ~interrupts
  BY <1>1, TopIs, KindsAssumption DEF ActivationOK, InStub, GateInv, CountOK, Open
<1>3. int_reenter' = -1
  BY <1>1, <1>2
<1> QED
  BY <1>1, <1>2, <1>3, TypesOf, MoveKeeps DEF Places, Unanswered

\* The result goes to the caller, whose call is then answered.
LEMMA StoreResultKeeps == GateInv /\ StoreResult => GateInv'
<1> SUFFICES ASSUME GateInv, StoreResult PROVE GateInv'
  OBVIOUS
<1>1. /\ ~UserMode /\ Top.at = "result" /\ Top.home \in Proc /\ stack' = Moved("cli")
      /\ regs' = [regs EXCEPT ![Top.home].eax = Top.caller]
      /\ UNCHANGED <<int_reenter, interrupts, mask, process_ready, cpu, esp0>>
  BY DEF StoreResult, ResultHome
<1>2. /\ Top \in Activation /\ ActivationOK(Top, Len(stack) = 1) /\ stack \in Seq(Activation)
      /\ Len(stack) = 1 => stack[1] = Top
  BY <1>1, TopIs
<1>3. Top.what = Call /\ Len(stack) = 1 /\ Top.caller = Top.home
  BY <1>1, <1>2, KindsAssumption DEF ActivationOK, InStub, Activation
<1>4. PICK a \in Activation :
         /\ a.what = Top.what /\ a.home = Top.home /\ a.outer = Top.outer
         /\ a.caller = Top.caller /\ a.at = "cli" /\ stack' = Append(Lower, a)
  BY <1>1, <1>2, MovedIs DEF Moved, Places
<1>5. Len(stack') = Len(stack)
  BY <1>1, <1>2, <1>4, TopReplaced
<1>6. ActivationOK(a, Len(stack) = 1)'
  BY <1>1, <1>2, <1>3, <1>4, <1>5, KindsAssumption DEF ActivationOK, InStub
<1>7. /\ stack' \in Seq(Activation) /\ StackOK' /\ NotReentered' /\ ~UserMode' /\ Top' = a
  BY <1>1, <1>4, <1>6, TopMoves
<1>8. CountOK'
  BY <1>1, <1>3, <1>4, <1>5, <1>7, SMT DEF GateInv, CountOK, Open
<1>9. /\ regs \in [Proc -> Context]
      /\ \A p \in Proc : regs[p].of = p /\ (regs[p].eax \in {"value", p} \/ Pending(p))
  BY DEF GateInv, TypeOK, RegsOK
<1>10. ASSUME NEW p \in Proc
       PROVE  regs'[p] \in Context /\ regs'[p].of = p /\ regs'[p].eax \in {"value", p}
  <2>1. CASE p = Top.home
    BY <1>1, <1>3, <1>9, <2>1 DEF Context
  <2>2. CASE p # Top.home
    <3>1. ~Pending(p)
      BY <1>2, <1>3, <2>2 DEF Pending
    <3> QED
      BY <1>1, <1>9, <2>2, <3>1
  <2> QED
    BY <2>1, <2>2
<1>11. RegsOK'
  BY <1>1, <1>4, <1>7, <1>10 DEF GateInv, RegsOK
<1>12. TypeOK'
  <2>1. regs' \in [Proc -> Context]
    BY <1>1, <1>9, <1>10
  <2> QED
    BY <1>1, <1>7, <1>10, <2>1 DEF GateInv, TypeOK
<1> QED
  BY <1>7, <1>8, <1>11, <1>12 DEF GateInv

\* Only the outermost schedules.
LEMMA OnlyOutermostSchedules ==
  ASSUME GateInv, NEW p \in Proc, Schedule(p)
  PROVE  Len(stack) = 1 /\ Top = stack[1] /\ Top.at = "body"
<1>1. /\ ~UserMode /\ Top.at = "body"
      /\ Top.what = Call \/ (Top.what = Clock /\ int_reenter = 0)
  BY DEF Schedule, MaySchedule
<1>2. /\ ActivationOK(Top, Len(stack) = 1) /\ Len(stack) \in Nat \ {0}
      /\ int_reenter = Len(stack) - 1
  BY <1>1, TopIs DEF GateInv, CountOK
<1>3. Len(stack) = 1
  <2>1. CASE Top.what = Call
    BY <1>2, <2>1, KindsAssumption, Zenon DEF ActivationOK
  <2>2. CASE int_reenter = 0
    BY <1>2, <2>2
  <2> QED
    BY <1>1, <2>1, <2>2
<1> QED
  BY <1>1, <1>3, TopIs

LEMMA ScheduleKeeps == ASSUME GateInv, NEW p \in Proc, Schedule(p) PROVE GateInv'
<1>1. /\ ~UserMode /\ process_ready' = p
      /\ UNCHANGED <<stack, int_reenter, interrupts, mask, regs, cpu, esp0>>
  BY DEF Schedule
<1>2. Len(stack) = 1 /\ Top = stack[1] /\ Top.at = "body"
  BY OnlyOutermostSchedules
<1>3. ASSUME NEW i \in 1 .. Len(stack) PROVE ActivationOK(stack[i], i = 1)'
  <2>1. i = 1 /\ ActivationOK(stack[i], i = 1)
    BY <1>2 DEF GateInv, StackOK
  <2> QED
    BY <1>1, <1>2, <2>1 DEF ActivationOK
<1>4. StackOK'
  BY <1>1, <1>2, <1>3 DEF StackOK
<1>5. TypeOK' /\ NotReentered' /\ CountOK'
  BY <1>1 DEF GateInv, TypeOK, NotReentered, CountOK, Top, UserMode
<1>6. RegsOK'
  BY <1>1, <1>2 DEF GateInv, RegsOK, Pending, Top, UserMode
<1> QED
  BY <1>4, <1>5, <1>6 DEF GateInv

--------------------------------------------------------------------------------
(* Into the kernel and out of it.                                             *)

\* From user mode the entry is the outermost, saves the process that runs and starts
\* the kernel stack again.
LEMMA EnterFromUser ==
  ASSUME GateInv, UserMode, NEW what \in Irq \cup {Call}, NEW eax, NEW at \in Places,
         Enter(what, eax, at), UNCHANGED <<mask, process_ready, cpu, esp0>>,
         what \in Irq => at = "mask" /\ eax = cpu.eax,
         what = Call => at = "sti" /\ eax = "request"
  PROVE  GateInv'
<1>1. stack = <<>> /\ Len(stack) = 0 /\ int_reenter = -1
  BY EmptySeq DEF GateInv, CountOK, UserMode
<1>2. Outermost /\ SaveArea = process_ready /\ cpu.of = process_ready /\ process_ready \in Proc
  BY <1>1, SMT DEF Outermost, SaveArea, GateInv, RegsOK, TypeOK, UserMode
<1>3. PICK a \in Activation :
         /\ a.what = what /\ a.home = process_ready /\ a.outer = TRUE
         /\ a.caller = process_ready /\ a.at = at /\ stack' = <<a>>
  BY <1>2 DEF Enter, Activation, Places
<1>4. stack' \in Seq(Activation) /\ Len(stack') = 1 /\ stack'[1] = a /\ Top' = a /\ ~UserMode'
  BY <1>3 DEF Top, UserMode
<1>5. /\ process_ready # Kernel /\ interrupts' = FALSE /\ int_reenter' = 0
      /\ regs' = [regs EXCEPT ![process_ready] = [of |-> process_ready, eax |-> eax]]
  <2>1. process_ready # Kernel
    BY <1>2, KindsAssumption
  <2>2. int_reenter' = 0 /\ interrupts' = FALSE
    BY <1>1 DEF Enter
  <2> QED
    BY <1>2, <2>1, <2>2 DEF Enter
<1>6. StackOK'
  BY <1>2, <1>3, <1>4, KindsAssumption DEF StackOK, ActivationOK, InStub
<1>7. NotReentered'
  BY <1>4 DEF NotReentered
<1>8. CountOK'
  <2>1. at # "iret"
    BY KindsAssumption
  <2> QED
    BY <1>3, <1>4, <1>5, <2>1, SMT DEF CountOK
<1>9. /\ regs \in [Proc -> Context] /\ cpu \in Context /\ cpu.eax \in {"value", cpu.of}
      /\ \A p \in Proc : regs[p].of = p /\ regs[p].eax \in {"value", p}
  BY DEF GateInv, TypeOK, RegsOK, Pending
<1>10. ASSUME NEW p \in Proc
       PROVE  /\ regs'[p] \in Context /\ regs'[p].of = p
              /\ regs'[p].eax \in {"value", p} \/ Pending(p)'
  <2>1. CASE p # process_ready
    BY <1>2, <1>5, <1>9, <2>1
  <2>2. CASE p = process_ready
    <3>1. regs'[p] = [of |-> process_ready, eax |-> eax]
      BY <1>2, <1>5, <1>9, <2>2
    <3>2. CASE what = Call
      BY <1>2, <1>3, <1>4, <2>2, <3>1, <3>2 DEF Context, Pending
    <3>3. CASE what \in Irq
      BY <1>2, <1>9, <2>2, <3>1, <3>3 DEF Context
    <3> QED
      BY <3>2, <3>3
  <2> QED
    BY <2>1, <2>2
<1>11. RegsOK'
  <2>1. at # "iret"
    BY KindsAssumption
  <2> QED
    BY <1>3, <1>4, <1>9, <1>10, <2>1 DEF RegsOK
<1>12. TypeOK'
  <2>1. regs' \in [Proc -> Context]
    BY <1>5, <1>9, <1>10
  <2>2. interrupts' \in BOOLEAN
    BY <1>5, Zenon
  <2> QED
    BY <1>4, <1>5, <1>10, <2>1, <2>2 DEF GateInv, TypeOK
<1> QED
  BY <1>6, <1>7, <1>8, <1>11, <1>12 DEF GateInv

LEMMA SysCallKeeps == GateInv /\ SysCall => GateInv'
<1> SUFFICES ASSUME GateInv, SysCall PROVE GateInv'
  OBVIOUS
<1> QED
  BY EnterFromUser, KindsAssumption DEF SysCall, Places

\* In the kernel only handlers are interrupted whose own line is masked, so the
\* line is a new one; the entry is nested and saves no process.
LEMMA InterruptKeeps == ASSUME GateInv, NEW k \in Irq, Interrupt(k) PROVE GateInv'
<1>1. /\ interrupts /\ k \notin mask /\ Enter(k, cpu.eax, "mask")
      /\ UNCHANGED <<mask, process_ready, cpu, esp0>> /\ k # Call /\ k # Boot
  BY KindsAssumption DEF Interrupt
<1>2. CASE UserMode
  BY <1>1, <1>2, EnterFromUser DEF Places
<1>3. CASE ~UserMode
  <2>0. PICK n \in Nat : n = Len(stack)
    BY LenProperties DEF GateInv, TypeOK
  <2>1. /\ stack \in Seq(Activation) /\ n \in Nat \ {0} /\ Top \in Activation /\ Top = stack[n]
        /\ n = 1 => stack[1] = Top
    BY <1>3, <2>0, TopIs
  <2>2. Top.at \in Open /\ int_reenter = n - 1
    BY <1>1, <1>3, <2>0 DEF GateInv, CountOK, Open
  <2>3. ~Outermost /\ SaveArea = Kernel
    BY <1>3, <2>1, <2>2 DEF Outermost, SaveArea, Open
  <2>4. PICK a \in Activation :
           /\ a.what = k /\ a.home = Kernel /\ a.outer = FALSE
           /\ a.at = "mask" /\ stack' = Append(stack, a)
    <3>1. Outermost = FALSE
      BY <2>3, Zenon DEF Outermost
    <3>2. stack' = Append(stack, [what |-> k, home |-> Kernel, outer |-> FALSE,
                                  caller |-> process_ready, at |-> "mask"])
      BY <1>1, <2>3, <3>1 DEF Enter
    <3> QED
      BY <3>2, TypesOf DEF Activation
  <2>5. UNCHANGED regs /\ interrupts' = FALSE /\ int_reenter' = n
    BY <1>1, <2>1, <2>2, <2>3 DEF Enter
  <2>6. /\ stack' \in Seq(Activation) /\ Len(stack') = n + 1 /\ stack'[n + 1] = a
        /\ \A i \in 1 .. n : stack'[i] = stack[i]
    BY <2>0, <2>1, <2>4, AppendProperties
  <2>7. stack' # <<>> /\ ~UserMode' /\ Top' = a
    BY <2>1, <2>4, <2>6, AppendProperties DEF UserMode, Top
  <2>8. \A i \in 1 .. n : ActivationOK(stack[i], i = 1) /\ stack[i].at \in Open
    BY <2>0, <2>1, <2>2 DEF GateInv, StackOK
  <2>9. ASSUME NEW i \in 1 .. n PROVE stack'[i].what # k
    BY <1>1, <2>6, <2>8 DEF ActivationOK, InStub, Open
  <2>10. NotReentered'
    <3>1. \A i, j \in 1 .. n : stack'[i].what = stack'[j].what => i = j
      BY <2>0, <2>6 DEF GateInv, NotReentered
    <3>2. \A i \in 1 .. n + 1 : i \in 1 .. n \/ i = n + 1
      BY <2>1
    <3> QED
      BY <2>4, <2>6, <2>9, <3>1, <3>2 DEF NotReentered
  <2>11. StackOK'
    <3>1. ASSUME NEW i \in 1 .. n PROVE ActivationOK(stack[i], i = 1)' /\ stack'[i].at \in Open
      BY <1>1, <2>6, <2>8 DEF ActivationOK
    <3>2. ActivationOK(stack[n + 1], n + 1 = 1)'
      BY <1>1, <2>1, <2>4, <2>6, KindsAssumption DEF ActivationOK, InStub
    <3>3. ASSUME NEW i \in 1 .. n + 1
          PROVE  ActivationOK(stack[i], i = 1)' /\ (i < n + 1 => stack'[i].at \in Open)
      <4>1. i \in 1 .. n \/ i = n + 1
        BY <2>1
      <4>2. ASSUME i = n + 1 PROVE ActivationOK(stack[i], i = 1)' /\ ~(i < n + 1)
        BY <2>1, <3>2, <4>2
      <4> QED
        BY <3>1, <4>1, <4>2
    <3> QED
      BY <2>6, <3>3 DEF StackOK
  <2>12. CountOK'
    BY <2>0, <2>1, <2>4, <2>5, <2>6, <2>7, SMT DEF CountOK
  <2>13. ASSUME NEW p \in Proc, Pending(p) PROVE Pending(p)'
    BY <2>1, <2>6, <2>7, <2>13 DEF Pending
  <2>14. RegsOK'
    BY <1>1, <2>4, <2>5, <2>7, <2>13 DEF GateInv, RegsOK
  <2>15. TypeOK'
    <3>1. interrupts' \in BOOLEAN
      BY <2>5, Zenon
    <3>2. int_reenter' \in Int
      BY <2>1, <2>5
    <3> QED
      BY <1>1, <2>5, <2>6, <3>1, <3>2 DEF GateInv, TypeOK
  <2> QED
    BY <2>10, <2>11, <2>12, <2>14, <2>15 DEF GateInv
<1> QED
  BY <1>2, <1>3

\* What is left in the table entry of whoever resumes: its own registers, and no call
\* that waits for its result.
LEMMA ResumedKeepsItsOwn ==
  ASSUME GateInv, IretToProcess
  PROVE  cpu'.of = process_ready /\ cpu'.eax \in {"value", process_ready} /\ esp0 = process_ready
<1>1. ~UserMode /\ Top.at = "iret" /\ Top.outer /\ cpu' = regs[process_ready]
  BY DEF IretToProcess
<1>2. stack[1] = Top
  BY <1>1, TopIs DEF ActivationOK
<1>3. ~Pending(process_ready)
  BY <1>1, <1>2 DEF Pending
<1> QED
  BY <1>1, <1>3, TypesOf DEF GateInv, RegsOK

LEMMA IretToProcessKeeps == GateInv /\ IretToProcess => GateInv'
<1> SUFFICES ASSUME GateInv, IretToProcess PROVE GateInv'
  OBVIOUS
<1>1. /\ ~UserMode /\ Top.at = "iret" /\ Top.outer /\ stack' = <<>> /\ interrupts' = TRUE
      /\ UNCHANGED <<int_reenter, mask, process_ready, regs, esp0>> /\ cpu' = regs[process_ready]
  BY DEF IretToProcess
<1>2. stack[1] = Top /\ stack' \in Seq(Activation) /\ Len(stack') = 0 /\ UserMode'
  BY <1>1, TopIs, EmptySeq DEF ActivationOK, UserMode
<1>3. StackOK' /\ NotReentered'
  BY <1>2 DEF StackOK, NotReentered
<1>4. CountOK'
  BY <1>1, <1>2 DEF GateInv, CountOK
<1>5. \A p \in Proc : ~Pending(p)
  BY <1>1, <1>2 DEF Pending
<1>6. RegsOK'
  BY <1>1, <1>2, <1>5, ResumedKeepsItsOwn DEF GateInv, RegsOK
<1>7. TypeOK'
  <2>1. interrupts' \in BOOLEAN
    BY <1>1, Zenon
  <2>2. cpu' \in Context /\ cpu'.of \in Proc
    BY <1>1, TypesOf, ResumedKeepsItsOwn DEF GateInv, TypeOK
  <2> QED
    BY <1>1, <1>2, <2>1, <2>2 DEF GateInv, TypeOK
<1> QED
  BY <1>3, <1>4, <1>6, <1>7 DEF GateInv

LEMMA RestartReEnterKeeps == GateInv /\ RestartReEnter => GateInv'
<1> SUFFICES ASSUME GateInv, RestartReEnter PROVE GateInv'
  OBVIOUS
<1>1. /\ ~UserMode /\ Top.at = "ret" /\ ~Top.outer /\ stack' = Lower /\ interrupts' = TRUE
      /\ int_reenter' = int_reenter - 1 /\ UNCHANGED <<mask, process_ready, regs, cpu, esp0>>
  BY DEF RestartReEnter
<1>2. PICK n \in Nat : n = Len(stack)
  BY LenProperties DEF GateInv, TypeOK
<1>3. stack \in Seq(Activation) /\ n > 1 /\ int_reenter = n - 1
  <2>1. /\ stack \in Seq(Activation) /\ Len(stack) \in Nat \ {0} /\ Len(stack) # 1
        /\ int_reenter = Len(stack) - 1
    BY <1>1, TopIs DEF ActivationOK, GateInv, CountOK
  <2> QED
    BY <1>2, <2>1
<1>4. PICK m \in Nat : m = n - 1 /\ m >= 1
  BY <1>3
<1>5. /\ stack' \in Seq(Activation) /\ Len(stack') = m
      /\ \A i \in 1 .. m : stack'[i] = stack[i] /\ i \in 1 .. n /\ i < n
  BY <1>1, <1>2, <1>3, <1>4, LowerPart
<1>6. ~UserMode' /\ Top' = stack[m] /\ stack'[1] = stack[1] /\ m \in 1 .. m /\ 1 \in 1 .. m
  <2>1. stack' # <<>>
    BY <1>4, <1>5, EmptySeq
  <2> QED
    BY <1>4, <1>5, <2>1 DEF UserMode, Top
<1>7. \A i \in 1 .. m : ActivationOK(stack[i], i = 1) /\ stack[i].at \in Open
  BY <1>2, <1>5 DEF GateInv, StackOK
<1>8. StackOK'
  <2>1. ASSUME NEW i \in 1 .. m PROVE ActivationOK(stack[i], i = 1)' /\ stack'[i].at \in Open
    BY <1>1, <1>5, <1>7 DEF ActivationOK
  <2> QED
    BY <1>5, <2>1 DEF StackOK
<1>9. NotReentered'
  BY <1>2, <1>5 DEF GateInv, NotReentered
<1>10. Top'.at \in Open
  BY <1>6, <1>7
<1>11. CountOK'
  BY <1>1, <1>3, <1>4, <1>5, <1>6, <1>10, SMT DEF CountOK, Open
<1>12. RegsOK'
  <2>1. ASSUME NEW p \in Proc, Pending(p) PROVE Pending(p)'
    BY <1>6, <2>1 DEF Pending
  <2> QED
    BY <1>1, <1>6, <1>10, <2>1 DEF GateInv, RegsOK, Open
<1>13. TypeOK'
  <2>1. interrupts' \in BOOLEAN
    BY <1>1, Zenon
  <2>2. int_reenter' \in Int
    BY <1>1, <1>3
  <2> QED
    BY <1>1, <1>5, <2>1, <2>2 DEF GateInv, TypeOK
<1> QED
  BY <1>8, <1>9, <1>11, <1>12, <1>13 DEF GateInv

LEMMA EnableLineKeeps == ASSUME GateInv, NEW k \in Irq, EnableLine(k) PROVE GateInv'
<1>1. /\ UserMode /\ mask' = mask \ {k}
      /\ UNCHANGED <<stack, int_reenter, interrupts, process_ready, regs, cpu, esp0>>
  BY DEF EnableLine
<1>2. Len(stack) = 0
  BY <1>1, EmptySeq DEF UserMode
<1>3. StackOK' /\ NotReentered'
  BY <1>1, <1>2 DEF StackOK, NotReentered
<1>4. TypeOK' /\ CountOK' /\ RegsOK'
  BY <1>1 DEF GateInv, TypeOK, CountOK, RegsOK, UserMode, Top, Pending
<1> QED
  BY <1>3, <1>4 DEF GateInv

--------------------------------------------------------------------------------
(* The theorems.                                                              *)

LEMMA GateKeeps == GateInv /\ [Next]_vars => GateInv'
<1> SUFFICES ASSUME GateInv, [Next]_vars PROVE GateInv'
  OBVIOUS
<1>1. CASE Next
  <2>1. CASE \E k \in Irq : Interrupt(k) \/ EnableLine(k)
    BY <2>1, InterruptKeeps, EnableLineKeeps
  <2>2. CASE SysCall
    BY <2>2, SysCallKeeps
  <2>3. CASE \E p \in Proc : Schedule(p)
    BY <2>3, ScheduleKeeps
  <2>4. CASE Advance
    BY <2>4, MaskLineKeeps, StiKeeps, PushCallerKeeps, BodyDoneKeeps, StoreResultKeeps,
       CliKeeps, UnmaskLineKeeps, RestartProcessKeeps, IretToProcessKeeps, RestartReEnterKeeps
       DEF Advance
  <2> QED
    BY <1>1, <2>1, <2>2, <2>3, <2>4 DEF Next
<1>2. CASE UNCHANGED vars
  <2>1. StackOK' /\ NotReentered'
    BY <1>2 DEF GateInv, vars, StackOK, NotReentered, ActivationOK
  <2>2. TypeOK' /\ CountOK' /\ RegsOK'
    BY <1>2 DEF GateInv, vars, TypeOK, CountOK, RegsOK, UserMode, Top, Pending
  <2> QED
    BY <2>1, <2>2 DEF GateInv
<1> QED
  BY <1>1, <1>2

\* The interrupt flag, the masked lines, int_reenter and the kernel stack agree as the
\* stubs of interrupt.s rely on, for any number of lines and processes.
THEOREM GateInductive == Spec => []GateInv
<1>1. Init => GateInv
  BY GateInitInv
<1>2. GateInv /\ [Next]_vars => GateInv'
  BY GateKeeps
<1> QED
  BY <1>1, <1>2, PTL DEF Spec

\* The table entries and user mode hold registers of processes, never of interrupted
\* kernel code.
THEOREM TypeOKEver == Spec => []TypeOK
<1>1. GateInv => TypeOK
  BY DEF GateInv
<1> QED
  BY <1>1, GateInductive, PTL

\* int_reenter is the number of entries on the kernel stack less one, and only the
\* lowest of them returns to a process: _save's test for a nested entry is right.
THEOREM DepthIsCountedEver == Spec => []DepthIsCounted
<1>1. GateInv => DepthIsCounted
  <2> SUFFICES ASSUME GateInv PROVE DepthIsCounted
    OBVIOUS
  <2>1. int_reenter = IF ~UserMode /\ Top.at = "iret" THEN -1 ELSE Len(stack) - 1
    BY DEF GateInv, CountOK
  <2>2. ASSUME NEW i \in 1 .. Len(stack)
        PROVE  /\ stack[i].outer <=> i = 1
               /\ stack[i].what # Boot => (stack[i].home \in Proc <=> i = 1)
    BY Zenon DEF GateInv, StackOK, ActivationOK
  <2> QED
    BY <2>1, <2>2 DEF DepthIsCounted
<1> QED
  BY <1>1, GateInductive, PTL

\* A handler is not entered again before it has returned, although it runs with
\* interrupts on, because the stub masks its line first.
THEOREM NotReenteredEver == Spec => []NotReentered
<1>1. GateInv => NotReentered
  BY DEF GateInv
<1> QED
  BY <1>1, GateInductive, PTL

\* sys_call reads process_ready with interrupts on and yet finds who made the call.
THEOREM CallIsForCallerEver == Spec => []CallIsForCaller
<1>1. GateInv => CallIsForCaller
  BY DEF GateInv, StackOK, ActivationOK, CallIsForCaller
<1> QED
  BY <1>1, GateInductive, PTL

\* Whoever resumes has the registers it left with and in %eax its own value or result.
THEOREM ResumedAsLeftEver == Spec => ResumedAsLeft
<1>1. GateInv /\ [Next]_vars
        => [IretToProcess => /\ cpu'.of = process_ready
                             /\ cpu'.eax \in {"value", process_ready}
                             /\ esp0 = process_ready]_vars
  BY ResumedKeepsItsOwn
<1> QED
  BY <1>1, GateInductive, PTL DEF Spec, ResumedAsLeft

\* process_ready never changes under code that was interrupted in the kernel: the clock
\* handler's early return is what a nested clock interrupt needs.
THEOREM SwitchOnlyOutermostEver == Spec => SwitchOnlyOutermost
<1>1. GateInv /\ [Next]_vars
        => [process_ready' # process_ready => Len(stack) = 1 /\ stack' = stack]_vars
  <2> SUFFICES ASSUME GateInv, Next, process_ready' # process_ready
               PROVE  Len(stack) = 1 /\ stack' = stack
    OBVIOUS
  <2>1. PICK p \in Proc : Schedule(p)
    BY DEF Next, Interrupt, EnableLine, SysCall, Advance, MaskLine, Sti, PushCaller, BodyDone,
           StoreResult, Cli, UnmaskLine, RestartProcess, IretToProcess, RestartReEnter
  <2> QED
    BY <2>1, OnlyOutermostSchedules DEF Schedule
<1> QED
  BY <1>1, GateInductive, PTL DEF Spec, SwitchOnlyOutermost

================================================================================
