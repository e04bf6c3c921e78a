--------------------------------- MODULE HddOpen ---------------------------------
(******************************************************************************)
(* The disk driver with what it reads: the protocol of module Hdd, in which   *)
(* the sectors that the first open reads are the partition tables that        *)
(* handle_partition asks for in module Partition, and print_hdd_info prints   *)
(* what has come of them before the open is answered.                         *)
(******************************************************************************)
EXTENDS Hdd, Partition

CONSTANT DiskSize   \* the sectors the disk names in its identification

ASSUME DiskSizeAssumption == DiskSize \in Nat

\* Sector numbers and counts are uint32_t, on the disk and in hdd_info; an index is an int.
ASSUME WidthAssumption ==
  /\ DiskSize < 2 * SignBit /\ (NR_PART_PER_DRIVE + 1) * Span < 2 * SignBit
  /\ NR_PART_PER_DRIVE < SignBit /\ NR_SUB_PER_DRIVE <= SignBit

VARIABLE printed    \* the lines of print_hdd_info

openVars == <<vars, walkVars, printed>>

OpenInit == Init /\ WalkInit /\ printed = {}

--------------------------------------------------------------------------------

\* How many tables there are to read, Hdd leaves open; here the disk says it.
OpenIdentified ==
  /\ Identified
  /\ WalkIdentify(DiskSize, FirstOpen)
  /\ FirstOpen => tables' = TablesOf(layout)
  /\ UNCHANGED printed

OpenTableRead ==
  /\ TableRead
  /\ ReadPrimary \/ ReadExtended
  /\ UNCHANGED printed

\* Mutant of OpenPrint: it prints before the last table is read.
OpenPrintEarly ==
  /\ pc = "busy?" /\ walk = "extended" /\ printed = {}
  /\ printed' = InfoLines
  /\ UNCHANGED <<vars, walkVars>>

OpenPrint ==
  /\ pc = "reply" /\ walk = "read"
  /\ printed' = InfoLines
  /\ walk' = "idle"
  /\ UNCHANGED <<vars, layout, slot, sub, next_sub_sector, primary, logical>>

\* The answer, once hdd_open has returned.
OpenReply == walk = "idle" /\ Reply /\ UNCHANGED <<walkVars, printed>>

OpenNext ==
  \/ OpenIdentified \/ OpenTableRead \/ OpenPrint \/ OpenReply
  \/ /\ (\E c \in Client : Ask(c)) \/ DiskReady \/ Handler \/ Protocol
     /\ UNCHANGED <<walkVars, printed>>

OpenSpec == OpenInit /\ [][OpenNext]_openVars

\* As in Hdd; the driver's own work goes on, too.
OpenFairSpec ==
  /\ OpenSpec
  /\ WF_vars(DiskReady) /\ WF_vars(Handler)
  /\ WF_openVars(OpenIdentified \/ OpenTableRead \/ OpenPrint \/ OpenReply
                 \/ (Protocol /\ UNCHANGED <<walkVars, printed>>))
  /\ \A c \in Client : SF_vars(pc \in {"block any", "wait any"} /\ asking[c] # None /\ Serve(c))

--------------------------------------------------------------------------------
(* Properties.                                                                *)

\* hdd_io_control copies this entry out; reads and writes start from its base.
Geometry(dev) ==
  LET e == EntryOf(dev)
  IN IF e.table = "primary" THEN primary[e.index] ELSE logical[e.index]

Laid(d) ==
  LET e == DrawnEntry(0, d)
  IN IF e.table = "primary" THEN LaidPrimary(e.index, DiskSize) ELSE LaidLogical(e.index)

\* Once the drive is open, each of its minors stands for the partition that fs.h
\* draws it as and the disk has there, whatever is in the slots: no chain of
\* logical partitions, not one that is too long or runs in a circle, spoils the
\* entries of another slot or keeps the open from ending.
MinorsAreLayout ==
  open_cnt > 0 /\ walk = "idle" => \A d \in Drawn(0) : Geometry(d.dev) = Laid(d)

Shown(line) ==
  [table |-> line.table, index |-> ReadBack(line.number, 10),
   base |-> Unsigned(ReadBack(line.base, 16)), sec_cnt |-> Unsigned(ReadBack(line.count, 16))]

\* The numbers of a line are written in digits, but for a sector number or count of
\* 2^31, which is not: itoa_base cannot negate the smallest int.
InDigits(line) ==
  /\ Legible(line.number, 10)
  /\ \A n \in {line.base, line.count} : Legible(n, 16) <=> Unsigned(ReadBack(n, 16)) # SignBit

\* What print_hdd_info prints tells the partitions of the disk, the negative
\* numbers it makes of large sector numbers read back in two's complement.
PrintedIsLayout ==
  printed # {} =>
    /\ \A line \in printed : InDigits(line)
    /\ {Shown(line) : line \in printed} =
         {[table |-> "primary", index |-> p, base |-> LaidPrimary(p, DiskSize).base,
           sec_cnt |-> LaidPrimary(p, DiskSize).sec_cnt] : p \in 0 .. NR_PART_PER_DRIVE}
         \cup
         {[table |-> "logical", index |-> l, base |-> LaidLogical(l).base,
           sec_cnt |-> LaidLogical(l).sec_cnt] :
             l \in {k \in 0 .. NR_SUB_PER_DRIVE - 1 : LaidLogical(k).sec_cnt # 0}}

================================================================================
