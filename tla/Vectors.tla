--------------------------------- MODULE Vectors ---------------------------------
(******************************************************************************)
(* How an interrupt finds its handler: init_8259a programs the two interrupt  *)
(* controllers, the tables of kernel/interrupt.c and kernel/exception.c are   *)
(* filled, and the clock, the console task and the disk task register their   *)
(* handlers and open their lines, the tasks in any order.                     *)
(******************************************************************************)
EXTENDS Integers, Sequences

Line == 0 .. 15
IRQ_CLOCK == 0
IRQ_KEYBOARD == 1
IRQ_M_TO_S == 2
IRQ_AT == 14

INT_VECTOR_IRQ0 == 32
INT_VECTOR_IRQ8 == 40
INT_VECTOR_SYS_CALL == 144

Chip == {"master", "slave"}

VARIABLES
  chips,      \* what each 8259 was told (external)
  written,    \* how much of init_8259a and of what follows is done
  idt,        \* vector -> whose code, and the privilege that may raise it
  irq_table,  \* line -> handler
  prepares    \* who registers a handler -> what it has done for that

vectorVars == <<chips, written, idt, irq_table, prepares>>

--------------------------------------------------------------------------------
(* The controllers.                                                           *)

Bits(value) == {i \in 0 .. 7 : (value \div 2 ^ i) % 2 = 1}

\* A byte to the mask port means what the ones before it make it mean (external).
Told(c, port, value) ==
  IF port = "ctrl" THEN [c EXCEPT !.expects = "ICW2", !.masked = {}]
  ELSE CASE c.expects = "ICW2" -> [c EXCEPT !.expects = "ICW3", !.base = value]
         [] c.expects = "ICW3" -> [c EXCEPT !.expects = "ICW4", !.cascade = value]
         [] c.expects = "ICW4" -> [c EXCEPT !.expects = "OCW1"]
         [] OTHER -> [c EXCEPT !.masked = Bits(value)]

ChipOf(line) == IF line < 8 THEN "master" ELSE "slave"
InputOf(line) == line % 8
VectorOf(line) == chips[ChipOf(line)].base + InputOf(line)

\* An interrupt on this line comes to the processor; those of the slave go through
\* the input of the master that both were told (external).
Reaches(line) ==
  /\ \A c \in Chip : chips[c].expects = "OCW1"
  /\ InputOf(line) \notin chips[ChipOf(line)].masked
  /\ ChipOf(line) = "slave" =>
       /\ chips["slave"].cascade \notin chips["master"].masked
       /\ chips["master"].cascade = 2 ^ chips["slave"].cascade

\* init_8259a, byte for byte.
Programming ==
  LET both(port, to_master, to_slave) ==
        <<<<"master", port, to_master>>, <<"slave", port, to_slave>>>>
  IN both("ctrl", 17, 17) \o both("mask", INT_VECTOR_IRQ0, INT_VECTOR_IRQ8)
       \o both("mask", 4, 2) \o both("mask", 1, 1) \o both("mask", 255, 255)

ProgramControllers ==
  /\ written < Len(Programming)
  /\ LET byte == Programming[written + 1]
     IN chips' = [chips EXCEPT ![byte[1]] = Told(@, byte[2], byte[3])]
  /\ written' = written + 1
  /\ UNCHANGED <<idt, irq_table, prepares>>

--------------------------------------------------------------------------------
(* The tables.                                                                *)

PRI_KRNL == 0
PRI_USER == 3
NoGate == <<"none", 0, PRI_KRNL>>

\* init_hw_exception_idt, init_hw_interrupt_idt and init_sw_interrupt_idt.
Gate(vector) ==
  CASE vector \in {3, 4} -> <<"exception", vector, PRI_USER>>
    [] vector \in 0 .. 19 \ {3, 4} -> <<"exception", vector, PRI_KRNL>>
    [] vector \in INT_VECTOR_IRQ0 .. INT_VECTOR_IRQ0 + 7 ->
         <<"hw_int", vector - INT_VECTOR_IRQ0, PRI_KRNL>>
    [] vector \in INT_VECTOR_IRQ8 .. INT_VECTOR_IRQ8 + 7 ->
         <<"hw_int", vector - INT_VECTOR_IRQ8 + 8, PRI_KRNL>>
    [] vector = INT_VECTOR_SYS_CALL -> <<"sys_call", 0, PRI_USER>>
    [] OTHER -> NoGate

VectorsInit ==
  /\ chips = [c \in Chip |-> [expects |-> "none", base |-> 0, cascade |-> 0, masked |-> 0 .. 7]]
  /\ written = 0
  /\ idt = [v \in 0 .. 255 |-> NoGate]
  /\ irq_table = [line \in Line |-> "none"]
  /\ prepares = [kernel |-> 0, console |-> 0, hdd |-> 0]

Filled == written > Len(Programming)

FillTables ==
  /\ written = Len(Programming)
  /\ written' = written + 1
  /\ irq_table' = [line \in Line |-> "dummy_irq_handler"]
  /\ idt' = [v \in 0 .. 255 |-> Gate(v)]
  /\ UNCHANGED <<chips, prepares>>

--------------------------------------------------------------------------------
(* Handlers.                                                                  *)

set_irq_handler(line, handler) == <<<<"disable", line, "">>, <<"store", line, handler>>>>
enable_irq(line) == <<<<"enable", line, "">>>>

\* (Mutant) the line is opened before the handler is there.
PreparationEager(who) ==
  CASE who = "kernel" -> enable_irq(IRQ_CLOCK) \o set_irq_handler(IRQ_CLOCK, "clock")
    [] who = "console" -> enable_irq(IRQ_KEYBOARD) \o set_irq_handler(IRQ_KEYBOARD, "keyboard")
    [] who = "hdd" -> enable_irq(IRQ_M_TO_S) \o enable_irq(IRQ_AT) \o set_irq_handler(IRQ_AT, "hdd")

\* init_clock, init_keyboard and hdd_init.
Preparation(who) ==
  CASE who = "kernel" -> set_irq_handler(IRQ_CLOCK, "clock") \o enable_irq(IRQ_CLOCK)
    [] who = "console" -> set_irq_handler(IRQ_KEYBOARD, "keyboard") \o enable_irq(IRQ_KEYBOARD)
    [] who = "hdd" -> set_irq_handler(IRQ_AT, "hdd") \o enable_irq(IRQ_M_TO_S) \o enable_irq(IRQ_AT)

Prepared(who) == prepares[who] = Len(Preparation(who))

\* One step of it; disable_irq and enable_irq read and write the mask of one
\* controller with interrupts off.
Prepare(who) ==
  LET now == Preparation(who)[prepares[who] + 1]
      line == now[2]
      mask(masked) == chips' = [chips EXCEPT ![ChipOf(line)].masked = masked]
      masked == chips[ChipOf(line)].masked
  IN /\ Filled /\ ~Prepared(who)
     /\ who # "kernel" => Prepared("kernel")
     /\ \/ now[1] = "disable" /\ mask(masked \cup {InputOf(line)}) /\ UNCHANGED irq_table
        \/ now[1] = "enable" /\ mask(masked \ {InputOf(line)}) /\ UNCHANGED irq_table
        \/ now[1] = "store" /\ irq_table' = [irq_table EXCEPT ![line] = now[3]] /\ UNCHANGED chips
     /\ prepares' = [prepares EXCEPT ![who] = @ + 1]
     /\ UNCHANGED <<written, idt>>

VectorsNext == ProgramControllers \/ FillTables \/ \E who \in DOMAIN prepares : Prepare(who)

VectorsSpec == VectorsInit /\ [][VectorsNext]_vectorVars

--------------------------------------------------------------------------------
(* Properties.                                                                *)

\* From when interrupts may come on, one that comes to the processor arrives at the
\* code of its own line, and that has a handler: with the wrong byte to a
\* controller, or in the wrong order, or a line opened early, it would be an
\* exception's code or the dummy's.  Who has opened its line is heard.
LinesReachHandlers ==
  Filled =>
    /\ \A line \in Line \ {IRQ_M_TO_S} : Reaches(line) =>
         /\ idt[VectorOf(line)] = <<"hw_int", line, PRI_KRNL>>
         /\ irq_table[line] # "dummy_irq_handler"
    /\ Prepared("kernel") => Reaches(IRQ_CLOCK)
    /\ Prepared("console") => Reaches(IRQ_KEYBOARD)
    /\ Prepared("hdd") => Reaches(IRQ_AT)

================================================================================
