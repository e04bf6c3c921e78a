-------------------------------- MODULE Partition --------------------------------
(******************************************************************************)
(* Devices and partitions of the disk driver (kernel/hdd.c, fs.h): which      *)
(* entry of hdd_info a minor device number stands for, and how the first open *)
(* of the drive fills hdd_info from the partition tables on the disk.         *)
(*                                                                            *)
(* The tables are external: they are laid out from "layout", which says for   *)
(* each of the primary slots what is there.  Reading one table is one step of *)
(* the walk; what the driver computes before the next read belongs to it.     *)
(******************************************************************************)
EXTENDS Lib

CONSTANTS
  NR_PART_PER_DRIVE,  \* primary partitions of a drive
  NR_SUB_PER_PART,    \* logical partitions the driver keeps of an extended one
  MAX_DRIVES,
  Layouts,            \* the disks looked at: sets of functions slot -> Slot
  Span                \* sectors from one primary partition on them to the next

MINOR_hd1a == 16
NR_SUB_PER_DRIVE == NR_SUB_PER_PART * NR_PART_PER_DRIVE
NR_PRIM_PER_DRIVE == NR_PART_PER_DRIVE + 1
MAX_PRIM == MAX_DRIVES * NR_PRIM_PER_DRIVE - 1

PartSlot == 0 .. NR_PART_PER_DRIVE - 1

\* An extended partition holds a chain of logical ones; the last may point back.
Slot == [kind : {"none", "plain", "extended"}, chain : Nat \ {0}, back : BOOLEAN]

ASSUME GeometryAssumption ==
  /\ NR_PART_PER_DRIVE \in Nat \ {0} /\ NR_SUB_PER_PART \in Nat \ {0}
  /\ MAX_DRIVES \in Nat \ {0} /\ MAX_PRIM < MINOR_hd1a
ASSUME LayoutAssumption ==
  /\ Span \in Nat
  /\ \A layout \in Layouts : \A s \in PartSlot :
       DOMAIN layout = PartSlot /\ layout[s] \in Slot /\ 2 * layout[s].chain < Span

NO_PART == 0
EXT_PART == 5
SomePart == 131    \* any other system id

--------------------------------------------------------------------------------
(* Minor device numbers.                                                      *)

\* DEV_TO_DRV
DriveOf(dev) ==
  IF dev <= MAX_PRIM THEN Quot(dev, NR_PRIM_PER_DRIVE)
  ELSE Quot(dev - MINOR_hd1a, NR_SUB_PER_DRIVE)

\* The entry of hdd_info[DriveOf(dev)] that a read, a write or an io control uses.
EntryOf(dev) ==
  IF dev < MAX_PRIM THEN [table |-> "primary", index |-> dev]
  ELSE [table |-> "logical", index |-> Rem(dev - MINOR_hd1a, NR_SUB_PER_DRIVE)]

\* The minors of a drive in the picture in fs.h, and the entry each is drawn at.
Drawn(drive) ==
  [dev : {drive * NR_PRIM_PER_DRIVE + p : p \in 0 .. NR_PART_PER_DRIVE},
   at : {"primary"}]
  \cup
  [dev : {MINOR_hd1a + drive * NR_SUB_PER_DRIVE + l : l \in 0 .. NR_SUB_PER_DRIVE - 1},
   at : {"logical"}]

DrawnEntry(drive, d) ==
  [table |-> d.at,
   index |-> IF d.at = "primary" THEN d.dev - drive * NR_PRIM_PER_DRIVE
             ELSE d.dev - MINOR_hd1a - drive * NR_SUB_PER_DRIVE]

--------------------------------------------------------------------------------
(* Commands of a read or a write.                                             *)

SECTOR_SIZE == 512

\* sect_num for byte pos of a partition that starts at base (a uint32_t).
SectorOf(base, pos) == Unsigned((pos \div SECTOR_SIZE) + base)

\* HDD_CMD: the block number in bytes, with bits 24 to 27 in the device register.
MAKE_CMD_DEVICE(lba, drv, highest) == 160 + 64 * lba + 16 * drv + (highest % 16)
CommandFor(drive, sector, cnt) ==
  [n_sector |-> ((cnt + SECTOR_SIZE - 1) \div SECTOR_SIZE) % 256,
   lba_low |-> sector % 256,
   lba_mid |-> (sector \div 256) % 256,
   lba_high |-> (sector \div 65536) % 256,
   device |-> MAKE_CMD_DEVICE(1, drive, (sector \div 16777216) % 256)]

\* left after some turns of the loop over the sectors, and whether it goes on.
LeftAfter(cnt, turns) == Signed(cnt - SECTOR_SIZE * turns)
LoopsOn(cnt, turns) == LeftAfter(cnt, turns) # 0

--------------------------------------------------------------------------------
(* The tables on the disk (external).                                         *)

Base(slot) == (slot + 1) * Span

PartEntry(id, start, count) == [system_id |-> id, starting_sector |-> start, sector_cnt |-> count]

PrimaryTable(layout) ==
  [s \in PartSlot |->
     CASE layout[s].kind = "none" -> PartEntry(NO_PART, 0, 0)
       [] layout[s].kind = "plain" -> PartEntry(SomePart, Base(s), Span)
       [] layout[s].kind = "extended" -> PartEntry(EXT_PART, Base(s), Span)]

\* The k-th table of an extended partition lies two sectors behind the one before;
\* its first entry is a logical partition, its second the way to the next table,
\* counted from the start of the extended partition.
ExtendedTable(layout, s, k) ==
  <<PartEntry(SomePart, 1, 1),
    IF k < layout[s].chain - 1 THEN PartEntry(EXT_PART, 2 * (k + 1), 2)
    ELSE IF layout[s].back THEN PartEntry(EXT_PART, 0, 2)
    ELSE PartEntry(NO_PART, 0, 0)>>

TableAt(layout, sector) ==
  LET s == (sector \div Span) - 1
  IN ExtendedTable(layout, s, (sector - Base(s)) \div 2)

\* The tables the driver gets to see.
TablesOf(layout) ==
  LET seen[s \in -1 .. NR_PART_PER_DRIVE - 1] ==
        IF s = -1 THEN 1
        ELSE seen[s - 1] +
             (IF layout[s].kind # "extended" THEN 0
              ELSE IF layout[s].back \/ layout[s].chain > NR_SUB_PER_PART THEN NR_SUB_PER_PART
              ELSE layout[s].chain)
  IN seen[NR_PART_PER_DRIVE - 1]

--------------------------------------------------------------------------------
(* handle_partition.                                                          *)

VARIABLES
  layout,           \* what is on the disk
  walk,             \* where handle_partition stands
  slot,             \* i of the loop over the primary table
  sub,              \* i of the loop over the chain
  next_sub_sector,
  primary, logical  \* of hdd_info[0]

walkVars == <<layout, walk, slot, sub, next_sub_sector, primary, logical>>

Info(base, count) == [base |-> base, sec_cnt |-> count]

\* hdd_init clears hdd_info.
WalkInit ==
  /\ layout \in Layouts
  /\ walk = "idle" /\ slot = 0 /\ sub = 0 /\ next_sub_sector = 0
  /\ primary = [p \in 0 .. NR_PART_PER_DRIVE |-> Info(0, 0)]
  /\ logical = [l \in 0 .. NR_SUB_PER_DRIVE - 1 |-> Info(0, 0)]

\* handle_identify: entry 0 is the whole drive.
WalkIdentify(size, first) ==
  /\ primary' = [primary EXCEPT ![0] = Info(0, size)]
  /\ walk' = IF first THEN "primary" ELSE walk
  /\ UNCHANGED <<layout, slot, sub, next_sub_sector, logical>>

\* From slot s on, e is the first extended slot, or the end of the table.
StopsAt(s, e) ==
  /\ \A f \in s .. e - 1 : layout[f].kind # "extended"
  /\ e < NR_PART_PER_DRIVE => layout[e].kind = "extended"

\* The loop over the primary table goes on from slot s: the entries up to the next
\* extended one are filled, then its chain is read.
LoopFrom(s) ==
  \E e \in s .. NR_PART_PER_DRIVE :
    LET table == PrimaryTable(layout)
    IN /\ StopsAt(s, e)
       /\ primary' = [p \in DOMAIN primary |->
             IF p - 1 \in s .. e /\ table[p - 1].system_id # NO_PART
             THEN Info(table[p - 1].starting_sector, table[p - 1].sector_cnt)
             ELSE primary[p]]
       /\ slot' = e /\ sub' = 0
       /\ IF e < NR_PART_PER_DRIVE
          THEN walk' = "extended" /\ next_sub_sector' = table[e].starting_sector
          ELSE walk' = "read" /\ next_sub_sector' = 0

ReadPrimary ==
  /\ walk = "primary"
  /\ LoopFrom(0)
  /\ UNCHANGED <<layout, logical>>

\* j, from the minor handle_partition calls itself with, and sub_signature.
ExtendedIndex == Rem(slot + 1, NR_PRIM_PER_DRIVE)
SubSignature == (ExtendedIndex - 1) * NR_SUB_PER_PART

\* Mutant of NextTable: the next table is looked for behind the present one.
NextTableRelative(start) == next_sub_sector + start

NextTable(start) == primary[ExtendedIndex].base + start

\* The entry is filled before the end of the chain is tested.
ReadExtended ==
  /\ walk = "extended"
  /\ LET table == TableAt(layout, next_sub_sector)
     IN /\ logical' = [logical EXCEPT ![SubSignature + sub] =
              Info(next_sub_sector + table[1].starting_sector, table[1].sector_cnt)]
        /\ IF table[2].system_id = NO_PART \/ sub + 1 = NR_SUB_PER_PART
           THEN LoopFrom(slot + 1)
           ELSE /\ sub' = sub + 1 /\ next_sub_sector' = NextTable(table[2].starting_sector)
                /\ UNCHANGED <<walk, slot, primary>>
  /\ UNCHANGED layout

--------------------------------------------------------------------------------
(* print_hdd_identify and print_hdd_info.                                     *)

\* "HDD size: %dMB" is computed in ints.
SizeShown(sectors) == Quot(Signed(Signed(sectors) * 512), 1000000)

\* A line: what it is about, its base and its count, each in hexadecimal.
Line(table, i, info) ==
  [table |-> table, number |-> Formatted(i, 10, 0),
   base |-> Formatted(Signed(info.base), 16, 0), count |-> Formatted(Signed(info.sec_cnt), 16, 0)]

\* print_hdd_info: empty logical entries are passed over.
InfoLines ==
  {Line("primary", p, primary[p]) : p \in DOMAIN primary} \cup
  {Line("logical", l, logical[l]) : l \in {k \in DOMAIN logical : logical[k].sec_cnt # 0}}

--------------------------------------------------------------------------------
(* What the layout says (no code).                                            *)

\* The entry that belongs into hdd_info: of a chain that runs back, or on for too
\* long, the driver keeps the first NR_SUB_PER_PART.
LaidPrimary(p, size) ==
  IF p = 0 THEN Info(0, size)
  ELSE IF layout[p - 1].kind = "none" THEN Info(0, 0)
  ELSE Info(Base(p - 1), Span)

LaidLogical(l) ==
  LET s == l \div NR_SUB_PER_PART
      k == l % NR_SUB_PER_PART
  IN IF layout[s].kind # "extended" \/ (k >= layout[s].chain /\ ~layout[s].back)
     THEN Info(0, 0)
     ELSE Info(Base(s) + 2 * (k % layout[s].chain) + 1, 1)

================================================================================
