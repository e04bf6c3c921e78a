--------------------------------- MODULE Segments ---------------------------------
(******************************************************************************)
(* Segmentation (kernel/core.c, init_process_main in kernel/process.c): the   *)
(* descriptor of every process's own table, the segments in it and the        *)
(* selectors the process starts with; and vir_to_linear, which looks them up. *)
(******************************************************************************)
EXTENDS Integers

CONSTANTS
  Half,            \* values of 16 bits of an address or a limit
  Byte,            \* values of 8 bits of an address
  GDT_SIZE,        \* entries of the global table
  NumSegmented,    \* TOTAL_TASK_CNT
  RING1_TASK_CNT,  \* the first of them are tasks
  LdtAddress,      \* process -> where its table lies
  TssAddress,
  StackSize,       \* process -> stack_size in r1_task_table and r3_task_table
  STACK_SIZE       \* the size of task_stack, the sum of them

Segmented == 0 .. NumSegmented - 1
AddressSpace == Half * Byte * Byte
Address == 0 .. AddressSpace - 1

INDEX_TSS == 4
INDEX_LDT_FIRST == 5
INDEX_LDT_C == 0
INDEX_LDT_RW == 1

ASSUME SegmentsAssumption ==
  /\ Half \in Nat /\ Half > 107 /\ Byte \in Nat \ {0}
  /\ NumSegmented \in Nat \ {0} /\ GDT_SIZE \in Nat
  /\ INDEX_LDT_FIRST + NumSegmented <= GDT_SIZE
  /\ LdtAddress \in [Segmented -> Address] /\ TssAddress \in Address
  /\ StackSize \in [Segmented -> Nat \ {0}] /\ STACK_SIZE \in Nat
  /\ RING1_TASK_CNT \in Nat

--------------------------------------------------------------------------------
(* Descriptors.                                                               *)

\* The fields of a DESCRIPTOR; attr1 is its type with the privilege at bits 5 and 6.
Descriptor ==
  [limit_low : 0 .. Half - 1, base_low : 0 .. Half - 1, base_mid : 0 .. Byte - 1,
   attr1 : 0 .. 255, limit_high_attr2 : 0 .. 255, base_high : 0 .. Byte - 1]

DA_LDT == 130
DA_386TSS == 137
DA_C == 152
DA_DRW == 146

\* init_descriptor, its shifts one behind the other.  The mask of limit_high_attr2 is
\* outside the or: of the upper bits of the limit nothing is left.
init_descriptor(base, limit, attr) ==
  [limit_low |-> limit % Half,
   base_low |-> base % Half,
   base_mid |-> (base \div Half) % Byte,
   attr1 |-> attr % 256,
   limit_high_attr2 |-> 16 * (((attr \div 256) % 256) \div 16),
   base_high |-> ((base \div Half) \div Byte) % Byte]

\* seg2phys and ldt_linear_addr.
BaseOf(d) == d.base_high * (Half * Byte) + d.base_mid * Half + d.base_low

\* The limit the processor sees, and the privilege.
LimitOf(d) == (d.limit_high_attr2 % 16) * Half + d.limit_low
PrivilegeOf(d) == (d.attr1 \div 32) % 4

\* The loader's flat segments: four gigabytes from 0, counted in pages.
Flat(attr) ==
  [limit_low |-> Half - 1, base_low |-> 0, base_mid |-> 0, attr1 |-> attr,
   limit_high_attr2 |-> 207, base_high |-> 0]
Video ==
  [limit_low |-> Half - 1, base_low |-> 753664 % Half, base_mid |-> (753664 \div Half) % Byte,
   attr1 |-> 242, limit_high_attr2 |-> 0, base_high |-> 0]
Empty ==
  [limit_low |-> 0, base_low |-> 0, base_mid |-> 0, attr1 |-> 0,
   limit_high_attr2 |-> 0, base_high |-> 0]

FLAT_C == 1
FLAT_RW == 2
LoaderGdt == <<Flat(154), Flat(146), Video>>

--------------------------------------------------------------------------------

VARIABLES
  gdt,       \* index -> descriptor
  ldt,       \* process -> its two descriptors
  ldt_sel,   \* process -> the selector of its table, as an index
  rpl,       \* process -> the privilege in its segment registers
  esp,       \* process -> its stack pointer, from task_stack on
  next, selector_ldt, top_stack,  \* in init_process_main: i and what goes with it
  prepared   \* how far the kernel is: "nothing", "tables", "processes", "started"

segmentVars == <<gdt, ldt, ldt_sel, rpl, esp, next, selector_ldt, top_stack, prepared>>

SegmentsInit ==
  /\ gdt = [i \in 0 .. GDT_SIZE - 1 |-> Empty]
  /\ ldt = [p \in Segmented |-> [i \in {INDEX_LDT_C, INDEX_LDT_RW} |-> Empty]]
  /\ ldt_sel = [p \in Segmented |-> 0] /\ rpl = [p \in Segmented |-> 0]
  /\ esp = [p \in Segmented |-> 0]
  /\ next = 0 /\ selector_ldt = INDEX_LDT_FIRST /\ top_stack = STACK_SIZE
  /\ prepared = "nothing"

\* The loader's table with its empty first entry, in the place of the kernel's.
CopiedGdt == [i \in DOMAIN gdt |-> IF i \in 1 .. 3 THEN LoaderGdt[i] ELSE gdt[i]]

\* vir2phys(seg2phys(SELECTOR_KERNEL_DS), address).
PhysicalIn(table, address) == (BaseOf(table[FLAT_RW]) + address) % AddressSpace

\* The p-th process's entry of the global table.
LdtIndex(p) == INDEX_LDT_FIRST + p

\* init_pm_env: the table is copied, then init_ldt_descs and init_tss fill it.
InitPmEnv ==
  /\ prepared = "nothing"
  /\ gdt' = [i \in DOMAIN gdt |->
       IF i = INDEX_TSS
       THEN init_descriptor(PhysicalIn(CopiedGdt, TssAddress), 107, DA_386TSS)
       ELSE IF \E p \in Segmented : i = LdtIndex(p)
       THEN LET p == CHOOSE q \in Segmented : i = LdtIndex(q)
            IN init_descriptor(PhysicalIn(CopiedGdt, LdtAddress[p]), 15, DA_LDT)
       ELSE CopiedGdt[i]]
  /\ prepared' = "tables"
  /\ UNCHANGED <<ldt, ldt_sel, rpl, esp, next, selector_ldt, top_stack>>

\* PRI_TASK and PRI_USER.
Privilege(p) == IF p < RING1_TASK_CNT THEN 1 ELSE 3

\* Mutant of NextSelector: the selector is not moved on.
SelectorStuck == selector_ldt

\* selector_ldt += 1 << 3
NextSelector == selector_ldt + 1

\* init_process_main, for one process: the flat segments, but with its privilege.
InitProcess ==
  /\ prepared = "tables"
  /\ ldt' = [ldt EXCEPT ![next] =
       [i \in {INDEX_LDT_C, INDEX_LDT_RW} |->
          IF i = INDEX_LDT_C THEN [gdt[FLAT_C] EXCEPT !.attr1 = DA_C + 32 * Privilege(next)]
          ELSE [gdt[FLAT_RW] EXCEPT !.attr1 = DA_DRW + 32 * Privilege(next)]]]
  /\ ldt_sel' = [ldt_sel EXCEPT ![next] = selector_ldt]
  /\ rpl' = [rpl EXCEPT ![next] = Privilege(next)]
  /\ esp' = [esp EXCEPT ![next] = top_stack]
  /\ top_stack' = top_stack - StackSize[next]
  /\ selector_ldt' = NextSelector
  /\ next' = next + 1
  /\ prepared' = IF next' = NumSegmented THEN "processes" ELSE "tables"
  /\ UNCHANGED gdt

SegmentsNext == InitPmEnv \/ InitProcess

SegmentsSpec == SegmentsInit /\ [][SegmentsNext]_segmentVars

\* vir_to_linear(p, address).
vir_to_linear(p, address) == (BaseOf(ldt[p][INDEX_LDT_RW]) + address) % AddressSpace

--------------------------------------------------------------------------------
(* Properties.                                                                *)

\* A process is entered with segments of its own: its selector names a descriptor of
\* its table that no other process has, both segments there may be loaded with the
\* privilege it runs at, addresses in them are linear ones, which vir_to_linear
\* asserts, and its stack, of the size the task table asks for, overlaps no other.
OwnTable(p) ==
  /\ BaseOf(gdt[ldt_sel[p]]) = LdtAddress[p] /\ LimitOf(gdt[ldt_sel[p]]) = 15
  /\ \A q \in Segmented \ {p} : ldt_sel[q] # ldt_sel[p]

OwnPrivilege(p) ==
  \A i \in {INDEX_LDT_C, INDEX_LDT_RW} : PrivilegeOf(ldt[p][i]) = rpl[p] /\ BaseOf(ldt[p][i]) = 0

OwnStack(p) ==
  /\ esp[p] <= STACK_SIZE
  /\ \A q \in Segmented \ {p} :
       esp[p] <= esp[q] - StackSize[q] \/ esp[q] <= esp[p] - StackSize[p]

SegmentsAreOwn ==
  prepared = "processes" =>
    \A p \in Segmented :
      /\ OwnTable(p) /\ OwnPrivilege(p) /\ OwnStack(p)
      /\ \A a \in {LdtAddress[p], TssAddress} : vir_to_linear(p, a) = a
      /\ BaseOf(gdt[INDEX_TSS]) = TssAddress

================================================================================
