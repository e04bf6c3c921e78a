--------------------------------- MODULE Machine ---------------------------------
(******************************************************************************)
(* The machine from reset on: the boot sector and the loader (module Loader), *)
(* the kernel's entry (kernel/gas/entry.s), which sets up the interrupts,     *)
(* the tables and the processes (modules Vectors and Segments), and then the  *)
(* programs (module System).                                                  *)
(******************************************************************************)
EXTENDS System, Loader, Vectors, Segments

machineVars == <<systemVars, loadVars, vectorVars, segmentVars>>

MachineInit == SystemInit /\ LoadInit /\ VectorsInit /\ SegmentsInit

Loads == LoadNext /\ UNCHANGED <<systemVars, vectorVars, segmentVars>>

\* _start: init_pm_env sets up interrupts and then segments, init_process_main the
\* processes and then the clock.
EntersVectors ==
  /\ stage = "entry"
  /\ \/ ProgramControllers
     \/ FillTables
     \/ prepared = "processes" /\ Prepare("kernel")
  /\ UNCHANGED <<systemVars, loadVars, segmentVars>>

EntersSegments ==
  /\ stage = "entry" /\ Filled
  /\ SegmentsNext
  /\ UNCHANGED <<systemVars, loadVars, vectorVars>>

\* The tasks run, console_task and hdd_task for their lines first.  Nothing else that
\* anybody does looks at these, so it is put before the rest.
PreparesLine ==
  /\ stage = "entry"
  /\ Prepare("console") \/ Prepare("hdd")
  /\ UNCHANGED <<systemVars, loadVars, segmentVars>>

\* Nothing of what was loaded and set up changes from here on, and none of it is
\* carried along: the programs run once, not once for every floppy.
Starts ==
  /\ stage = "entry" /\ \A who \in DOMAIN prepares : Prepared(who)
  /\ stage' = "up" /\ step' = "done" /\ prepared' = "started" /\ written' = 0
  /\ floppy' = {} /\ bios' = {} /\ headers' = {} /\ memory' = {} /\ image' = {}
  /\ dir_left' = 0 /\ index' = 0 /\ bx' = 0
  /\ MCRNumber' = 0 /\ MemSize' = 0 /\ PageTblCnt' = 0 /\ range' = 0
  /\ chips' = {} /\ idt' = {} /\ irq_table' = {} /\ prepares' = {}
  /\ gdt' = {} /\ ldt' = {} /\ ldt_sel' = {} /\ rpl' = {} /\ esp' = {}
  /\ next' = 0 /\ selector_ldt' = 0 /\ top_stack' = 0
  /\ UNCHANGED systemVars

Runs == stage = "up" /\ SystemNext /\ UNCHANGED <<loadVars, vectorVars, segmentVars>>

MachineNext ==
  Loads \/ EntersVectors \/ EntersSegments \/ PreparesLine \/ Starts \/ Runs

MachineSpec == MachineInit /\ [][MachineNext]_machineVars

================================================================================
