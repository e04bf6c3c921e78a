---------------------------- MODULE SchedulerProofs ----------------------------
(******************************************************************************)
(* Proofs, for any number of processes and any priorities, that the scheduler *)
(* keeps its inductive invariant IInv and so what the runs check.             *)
(******************************************************************************)
EXTENDS Scheduler, TLAPS

LEMMA Numbers ==
  /\ NumProc \in Nat /\ NumProc > 0 /\ 0 \in Proc /\ 0 \in 0 .. NumProc
  /\ \A p \in Proc : p \in Nat /\ p < NumProc /\ ~(p < 0) /\ p + 1 \in 0 .. NumProc
  /\ \A c \in 0 .. NumProc : c < NumProc => c \in Proc
  /\ \A p \in Proc : Priority(p) \in Nat \ {0} /\ Priority(p) \in -MaxDebt .. Priority(p)
  /\ MaxDebt \in Nat \ {0} /\ HddTask \in Proc
  BY NumProcAssumption, PriorityAssumption, HddTaskAssumption, MaxDebtAssumption
  DEF Proc, Priority

\* A tick takes one from the process charged, or nothing at the bound.
LEMMA ChargedFacts ==
  ASSUME TypeOK, NEW p \in Proc
  PROVE  /\ Charged(p) \in [Proc -> Int]
         /\ \A q \in Proc : Charged(p)[q] \in -MaxDebt .. Priority(q)
         /\ \A q \in Proc : Charged(p)[q] \in {ticks[q], ticks[q] - 1}
  BY Numbers DEF TypeOK, Charged

LEMMA InitIInv == Init => IInv
<1> SUFFICES ASSUME Init PROVE IInv
  OBVIOUS
<1>1. runnable \in [Proc -> BOOLEAN] /\ \A p \in Proc : runnable[p]
  BY Zenon DEF Init
<1>2. ticks \in [Proc -> Int] /\ \A p \in Proc : ticks[p] \in -MaxDebt .. Priority(p)
  BY Numbers DEF Init
<1>3. TypeOK
  <2>1. ticked \in BOOLEAN /\ pc \in {"run"} /\ caller \in {"none"} /\ process_ready = 0
    BY Zenon DEF Init
  <2>2. biggest_tick \in Int /\ cursor \in 0 .. NumProc
    BY Numbers DEF Init
  <2> QED BY <1>1, <1>2, <2>1, <2>2, Numbers DEF TypeOK
<1>4. ScanOK
  BY DEF Init, ScanOK
<1>5. RunningIsRunnable
  BY <1>1, Numbers DEF Init, RunningIsRunnable
<1>6. CandidateOK
  BY DEF Init, CandidateOK
<1>7. TakeOK /\ PassedHaveNoMore
  BY DEF Init, TakeOK, PassedHaveNoMore
<1> QED BY <1>3, <1>4, <1>5, <1>6, <1>7 DEF IInv

--------------------------------------------------------------------------------
(* The scan.                                                                  *)

LEMMA ScanTestStep == IInv /\ ScanTest => IInv'
<1> SUFFICES ASSUME IInv, ScanTest PROVE IInv'
  OBVIOUS
<1> USE Numbers DEF IInv, ScanTest
<1>1. cursor \in Proc
  BY DEF TypeOK
<1>2. CASE Better(cursor)
  BY <1>1, <1>2 DEF Better, TypeOK, ScanOK, RunningIsRunnable, CandidateOK, TakeOK,
                    PassedHaveNoMore
<1>3. CASE ~Better(cursor)
  <2>1. TypeOK' /\ ScanOK' /\ RunningIsRunnable' /\ CandidateOK' /\ TakeOK'
    BY <1>1, <1>3 DEF TypeOK, ScanOK, RunningIsRunnable, CandidateOK, TakeOK
  <2>2. PassedHaveNoMore'
    <3> SUFFICES ASSUME NEW q \in Proc, q < cursor + 1, runnable[q], q # HddTask
                 PROVE  ticks[q] <= biggest_tick
      BY <1>3 DEF PassedHaveNoMore
    <3>1. CASE q = cursor
      BY <1>1, <1>3, <3>1 DEF Better, TypeOK
    <3>2. CASE q < cursor
      BY <3>2 DEF PassedHaveNoMore
    <3> QED BY <1>1, <3>1, <3>2
  <2> QED BY <2>1, <2>2
<1> QED BY <1>2, <1>3

LEMMA ScanTakeStep == IInv /\ ScanTake => IInv'
<1> SUFFICES ASSUME IInv, ScanTake PROVE IInv'
  OBVIOUS
<1> USE Numbers DEF IInv, ScanTake
<1>1. cursor \in Proc /\ biggest_tick' >= biggest_tick /\ runnable[cursor]
  BY DEF ScanOK, TakeOK, TypeOK
<1>2. TypeOK' /\ ScanOK' /\ RunningIsRunnable' /\ TakeOK'
  BY <1>1 DEF TypeOK, ScanOK, RunningIsRunnable, TakeOK
<1>3. CandidateOK'
  BY <1>1 DEF TypeOK, CandidateOK
<1>4. PassedHaveNoMore'
  <2> SUFFICES ASSUME NEW q \in Proc, q < cursor + 1, runnable[q], q # HddTask
               PROVE  ticks[q] <= ticks[cursor]
    BY DEF PassedHaveNoMore
  <2>1. CASE q = cursor
    BY <2>1 DEF TypeOK
  <2>2. CASE q < cursor
    BY <1>1, <2>2 DEF PassedHaveNoMore, TypeOK
  <2> QED BY <1>1, <2>1, <2>2
<1> QED BY <1>2, <1>3, <1>4

LEMMA ScanFoundStep == IInv /\ ScanFound => IInv'
<1> SUFFICES ASSUME IInv, ScanFound PROVE IInv'
  OBVIOUS
<1>1. TypeOK'
  <2>1. ticked' \in BOOLEAN /\ pc' \in {"run"} /\ caller' \in {"none"}
    BY Zenon DEF ScanFound
  <2>2. biggest_tick' \in Int /\ cursor' \in 0 .. NumProc
    BY Numbers DEF ScanFound
  <2> QED BY <2>1, <2>2 DEF IInv, TypeOK, ScanFound
<1>2. ScanOK' BY DEF IInv, ScanOK, ScanFound
<1>3. RunningIsRunnable' BY DEF IInv, CandidateOK, RunningIsRunnable, ScanFound
<1>4. CandidateOK' BY DEF CandidateOK, ScanFound
<1>5. TakeOK' /\ PassedHaveNoMore' BY DEF TakeOK, PassedHaveNoMore, ScanFound
<1> QED BY <1>1, <1>2, <1>3, <1>4, <1>5 DEF IInv

LEMMA ScanFailedStep == IInv /\ ScanFailed => IInv'
  BY Numbers DEF IInv, ScanFailed, TypeOK, ScanOK, RunningIsRunnable, CandidateOK, TakeOK,
                 PassedHaveNoMore

LEMMA ResetStep == IInv /\ Reset => IInv'
<1> SUFFICES ASSUME IInv, Reset PROVE IInv'
  OBVIOUS
<1> USE Numbers DEF IInv, Reset
<1>1. cursor \in Proc /\ Refill(cursor) \in -MaxDebt .. Priority(cursor)
  BY DEF TypeOK, Refill
<1>2. TypeOK'
  BY <1>1 DEF TypeOK
<1> QED BY <1>1, <1>2 DEF TypeOK, ScanOK, RunningIsRunnable, CandidateOK, TakeOK,
                          PassedHaveNoMore

LEMMA ScanAgainStep == IInv /\ ScanAgain => IInv'
  BY Numbers DEF IInv, ScanAgain, TypeOK, ScanOK, RunningIsRunnable, CandidateOK, TakeOK,
                 PassedHaveNoMore

LEMMA ScheduleStep == IInv /\ Schedule => IInv'
  BY ScanTestStep, ScanTakeStep, ScanFoundStep, ScanFailedStep, ResetStep, ScanAgainStep
  DEF Schedule

--------------------------------------------------------------------------------
(* The clock.                                                                 *)

LEMMA ClockUserStep == IInv /\ ClockUser => IInv'
<1> SUFFICES ASSUME IInv, ClockUser PROVE IInv'
  OBVIOUS
<1> USE Numbers DEF IInv, ClockUser
<1>1. process_ready \in Proc /\ TypeOK
  BY DEF TypeOK
<1>2. ticks' \in [Proc -> Int] /\ \A q \in Proc : ticks'[q] \in -MaxDebt .. Priority(q)
  BY <1>1, ChargedFacts
<1>3. CASE UNCHANGED <<pc, caller, biggest_tick, cursor, ticked>>
  BY <1>2, <1>3 DEF TypeOK, ScanOK, RunningIsRunnable, CandidateOK, TakeOK, PassedHaveNoMore
<1>4. CASE StartScan("clock")
  BY <1>2, <1>4 DEF StartScan, TypeOK, ScanOK, RunningIsRunnable, CandidateOK, TakeOK,
                    PassedHaveNoMore
<1> QED BY <1>3, <1>4

\* A tick that falls into the scan takes away from what passed processes have
\* and takes at most what made the candidate the better one.
LEMMA ClockNestedStep == IInv /\ ClockNested => IInv'
<1> SUFFICES ASSUME IInv, ClockNested PROVE IInv'
  OBVIOUS
<1> USE Numbers DEF IInv, ClockNested
<1>1. process_ready \in Proc /\ TypeOK
  BY DEF TypeOK
<1>2. /\ ticks' \in [Proc -> Int]
      /\ \A q \in Proc : ticks'[q] \in -MaxDebt .. Priority(q)
      /\ \A q \in Proc : ticks'[q] \in {ticks[q], ticks[q] - 1}
  BY <1>1, ChargedFacts
<1>3. TypeOK'
  BY <1>2 DEF TypeOK
<1>4. ScanOK' /\ RunningIsRunnable' /\ CandidateOK'
  BY DEF ScanOK, RunningIsRunnable, CandidateOK
<1>5. TakeOK'
  <2> SUFFICES ASSUME pc = "take"
               PROVE  runnable[cursor] /\ ticks'[cursor] >= biggest_tick /\ ticked'
    BY DEF TakeOK
  <2>1. cursor \in Proc /\ runnable[cursor] /\ ticks[cursor] > biggest_tick
    BY DEF TypeOK, ScanOK, TakeOK
  <2> QED BY <1>2, <2>1 DEF TypeOK
<1>6. PassedHaveNoMore'
  <2> SUFFICES ASSUME pc \in {"test", "take"},
                      NEW q \in Proc, q < cursor, runnable[q], q # HddTask
               PROVE  ticks'[q] <= biggest_tick
    BY DEF PassedHaveNoMore
  <2>1. ticks[q] <= biggest_tick
    BY DEF PassedHaveNoMore
  <2> QED BY <1>2, <2>1 DEF TypeOK
<1> QED BY <1>3, <1>4, <1>5, <1>6

--------------------------------------------------------------------------------
(* System calls and the disk.                                                 *)

LEMMA CallStep == IInv /\ (SysCall \/ SysReturn) => IInv'
  BY Numbers DEF IInv, SysCall, SysReturn, TypeOK, ScanOK, RunningIsRunnable, CandidateOK,
                 TakeOK, PassedHaveNoMore

LEMMA WakeStep == ASSUME IInv, NEW p \in Proc, Wake(p) PROVE IInv'
  BY Numbers DEF IInv, Wake, TypeOK, ScanOK, RunningIsRunnable, CandidateOK, TakeOK,
                 PassedHaveNoMore

LEMMA BlockStep == IInv /\ Block => IInv'
<1> SUFFICES ASSUME IInv, Block PROVE IInv'
  OBVIOUS
<1>1. runnable' \in [Proc -> BOOLEAN]
  BY Zenon DEF IInv, TypeOK, Block
<1>2. TypeOK'
  <2>1. ticked' \in BOOLEAN /\ pc' \in {"test"} /\ caller' \in {"block"}
    BY Zenon DEF Block, StartScan
  <2>2. biggest_tick' \in Int /\ cursor' \in 0 .. NumProc
    BY Numbers DEF Block, StartScan
  <2> QED BY <1>1, <2>1, <2>2 DEF IInv, TypeOK, Block
<1>3. ScanOK' BY DEF Block, StartScan, ScanOK
<1>4. RunningIsRunnable' BY DEF Block, StartScan, RunningIsRunnable
<1>5. CandidateOK' BY DEF Block, StartScan, CandidateOK
<1>6. TakeOK' /\ PassedHaveNoMore' BY Numbers DEF Block, StartScan, TakeOK, PassedHaveNoMore
<1> QED BY <1>2, <1>3, <1>4, <1>5, <1>6 DEF IInv

LEMMA DiskWakeStep == IInv /\ DiskWake => IInv'
  BY Numbers DEF IInv, DiskWake, TypeOK, ScanOK, RunningIsRunnable, CandidateOK, TakeOK,
                 PassedHaveNoMore

LEMMA StutterStep == IInv /\ UNCHANGED vars => IInv'
  BY DEF IInv, vars, TypeOK, ScanOK, RunningIsRunnable, CandidateOK, TakeOK, PassedHaveNoMore

LEMMA StepIInv == IInv /\ [Next]_vars => IInv'
  BY ScheduleStep, ClockUserStep, ClockNestedStep, CallStep, WakeStep, BlockStep,
     DiskWakeStep, StutterStep
  DEF Next

--------------------------------------------------------------------------------

\* The scheduler keeps IInv: its scan may be interrupted anywhere.
THEOREM Inductive == Spec => []IInv
  BY InitIInv, StepIInv, PTL DEF Spec

\* Every variable of the scheduler keeps its type, and no process gets more
\* ticks than its priority.
THEOREM TypeCorrect == Spec => []TypeOK
<1>1. IInv => TypeOK BY DEF IInv
<1> QED BY <1>1, Inductive, PTL

\* Whoever process_schedule leaves in process_ready is runnable, for any number
\* of processes: interrupts may charge and wake processes while it scans.
THEOREM RunningStaysRunnable == Spec => []RunningIsRunnable
<1>1. IInv => RunningIsRunnable BY DEF IInv
<1> QED BY <1>1, Inductive, PTL

\* The scan never prefers a process to one it passed with more ticks.
THEOREM NobodyPassedOver == Spec => []PassedHaveNoMore
<1>1. IInv => PassedHaveNoMore BY DEF IInv
<1> QED BY <1>1, Inductive, PTL

\* The clock handler chooses a process with ticks left and the most of them.
THEOREM ClockIsFair == Spec => ClockChoosesMost
<1> DEFINE Most == ScanFound /\ caller = "clock" =>
                     /\ ticks[process_ready] > 0
                     /\ \A q \in Proc \ {HddTask} :
                          runnable[q] => ticks[q] <= ticks[process_ready]
<1>1. IInv /\ [Next]_vars => [Most]_vars
  <2> SUFFICES ASSUME IInv, ScanFound, caller = "clock"
               PROVE  /\ ticks[process_ready] > 0
                      /\ \A q \in Proc \ {HddTask} :
                           runnable[q] => ticks[q] <= ticks[process_ready]
    OBVIOUS
  <2>1. ticks[process_ready] = biggest_tick /\ biggest_tick > 0
    BY DEF IInv, ScanFound, CandidateOK, TypeOK
  <2>2. \A q \in Proc \ {HddTask} : runnable[q] => ticks[q] <= biggest_tick
    BY Numbers DEF IInv, ScanFound, PassedHaveNoMore
  <2> QED BY <2>1, <2>2
<1>2. ClockChoosesMost <=> [][Most]_vars
  BY DEF ClockChoosesMost
<1> HIDE DEF Most
<1>3. Spec => [][Most]_vars
  BY <1>1, Inductive, PTL DEF Spec
<1> QED BY <1>2, <1>3

================================================================================
