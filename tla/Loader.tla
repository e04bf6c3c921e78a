---------------------------------- MODULE Loader ----------------------------------
(******************************************************************************)
(* From reset to the kernel: the boot sector (boot/boot.s) looks for          *)
(* LOADER.BIN on the floppy and loads it, the loader (boot/loader.s) asks the *)
(* BIOS for the memory, loads KERNEL.BIN the same way, maps the memory and    *)
(* copies the kernel to where it is linked.  Interrupts do nothing here, so   *)
(* every routine is a step, and reading the floppy one step for each sector.  *)
(*                                                                            *)
(* External are the floppy, with its FAT12, and the memory map of the BIOS.   *)
(******************************************************************************)
EXTENDS Integers, Sequences

CONSTANTS
  RootDirSectors,   \* sectors of the root directory
  DirEntries,       \* entries in one of them
  SegmentSectors,   \* sectors in 64 KB, after which the offset of a load wraps
  MapRoom,          \* ranges of memory that fit into MemChkBuf
  TableSpan,        \* memory that one page table maps
  AddressTop,       \* 4 GB
  Floppies,         \* the floppies looked at
  MemoryMaps,       \* the memory maps looked at
  Kernels           \* the kernels looked at

Elements(s) == {s[i] : i \in DOMAIN s}

\* A floppy: the names in its root directory and the clusters of each file, which are
\* no other file's.
FloppyType(f) ==
  /\ DOMAIN f.dir = 1 .. RootDirSectors * DirEntries
  /\ Elements(f.dir) \cap {"LOADER  BIN", "KERNEL  BIN"} \subseteq DOMAIN f.clusters
  /\ \A name \in DOMAIN f.clusters : f.clusters[name] \in Seq(2 .. 4086) /\ f.clusters[name] # <<>>
  /\ \A name, other \in DOMAIN f.clusters :
       \A i \in DOMAIN f.clusters[name], j \in DOMAIN f.clusters[other] :
         f.clusters[name][i] = f.clusters[other][j] => name = other /\ i = j

\* A range of memory: its base and length, in low words, and whether it lies above
\* 4 GB; type 1 is memory the system may use.
Range == [above : BOOLEAN, base : 0 .. AddressTop - 1, length : 0 .. AddressTop - 1, type : Nat]

\* A kernel: its program headers, each eight words, as they lie in the file.
TYPE == 1
OFFSET == 2
VADDR == 3
FILESZ == 5
HeaderWords == 8

ASSUME LoaderAssumption ==
  /\ {RootDirSectors, DirEntries, SegmentSectors, MapRoom, TableSpan, AddressTop} \subseteq Nat \ {0}
  /\ \A f \in Floppies : FloppyType(f)
  /\ \A m \in MemoryMaps : m.ranges \in Seq(Range) /\ m.carry \in BOOLEAN
  /\ \A k \in Kernels : \A i \in DOMAIN k : DOMAIN k[i] = 1 .. HeaderWords

VARIABLES
  stage,       \* who runs: "boot", "loader", the kernel from "entry" on
  step,        \* and what it does
  floppy,      \* the floppy in the drive (external)
  bios,        \* the memory map (external)
  headers,     \* the program headers of the kernel on it (external)
  dir_left,    \* gRootDirSizeForLoop
  index,       \* cluster that is loaded next
  bx,          \* where to, in sectors
  memory,      \* offset -> the sector of the floppy that was read there
  MCRNumber, MemSize, PageTblCnt,
  range,       \* the range of memory that is counted next
  image        \* where the kernel is linked -> what of the file was copied there

loadVars == <<stage, step, floppy, bios, headers, dir_left, index, bx, memory,
              MCRNumber, MemSize, PageTblCnt, range, image>>

Nothing == [k \in 0 .. SegmentSectors - 1 |-> 0]

LoadInit ==
  /\ stage = "boot" /\ step = "search"
  /\ floppy \in Floppies /\ bios \in MemoryMaps /\ headers \in Kernels
  /\ dir_left = RootDirSectors /\ index = 0 /\ bx = 0 /\ memory = Nothing
  /\ MCRNumber = 0 /\ MemSize = 0 /\ PageTblCnt = 0 /\ range = 0 /\ image = {}

--------------------------------------------------------------------------------
(* The floppy.                                                                *)

\* The FAT: behind each cluster of a file the next one, or that it is the last
\* (external).
Fat(f) ==
  [n \in Nat |->
     IF \E name \in DOMAIN f.clusters : n \in Elements(f.clusters[name])
     THEN LET name == CHOOSE x \in DOMAIN f.clusters : n \in Elements(f.clusters[x])
              k == CHOOSE i \in DOMAIN f.clusters[name] : f.clusters[name][i] = n
          IN IF k = Len(f.clusters[name]) THEN 4095 ELSE f.clusters[name][k + 1]
     ELSE 0]

\* Two of its entries of twelve bits share three bytes (external).
FatByte(fat, b) ==
  LET even == 2 * (b \div 3)
  IN CASE b % 3 = 0 -> fat[even] % 256
       [] b % 3 = 1 -> (fat[even] \div 256) + 16 * (fat[even + 1] % 16)
       [] OTHER -> fat[even + 1] \div 16

\* GetFATEntry: of the word at byte n * 3 / 2, the upper bits for an odd n.
GetFATEntry(fat, n) ==
  LET b == (n * 3) \div 2
      word == FatByte(fat, b) + 256 * FatByte(fat, b + 1)
  IN (IF n % 2 = 1 THEN word \div 16 ELSE word) % 4096

\* Where FAT12 has cluster n on a floppy: behind the boot sector, two FATs of nine
\* sectors and fourteen of root directory; clusters are counted from 2 (external).
FatSector(n) == 1 + 2 * 9 + 14 + (n - 2)

\* Mutant of SectorOfCluster: clusters are counted from 0.
SectorOfClusterFromZero(n) == n + 14 + 19

\* RootDirSectors and DeltaSecNo are added.
SectorOfCluster(n) == n + 14 + 17

\* The sector that the BIOS reads for a cylinder, a head and a sector of the track, of
\* two heads and eighteen sectors (external).
BiosSector(cylinder, head, sector) == (cylinder * 2 + head) * 18 + sector - 1

\* ReadSector: what it asks the BIOS for, again until it succeeds.
CylinderOf(n) == (n \div 18) \div 2
HeadOf(n) == (n \div 18) % 2
SectorOnTrack(n) == (n % 18) + 1
ReadSector(n) == BiosSector(CylinderOf(n), HeadOf(n), SectorOnTrack(n))

--------------------------------------------------------------------------------
(* Looking for a file and loading it, the same in boot.s and in loader.s.     *)

Wanted == IF stage = "boot" THEN "LOADER  BIN" ELSE "KERNEL  BIN"

\* The entries of the sector of the root directory that is looked at.
InSector == {i \in DOMAIN floppy.dir : (i - 1) \div DirEntries = RootDirSectors - dir_left}

Search ==
  /\ stage \in {"boot", "loader"} /\ step = "search" /\ dir_left > 0
  /\ dir_left' = dir_left - 1
  /\ IF \E i \in InSector : floppy.dir[i] = Wanted
     THEN /\ index' = floppy.clusters[Wanted][1]
          /\ step' = "load" /\ bx' = 0 /\ memory' = Nothing
     ELSE UNCHANGED <<index, step, bx, memory>>
  /\ UNCHANGED <<stage, floppy, bios, headers, MCRNumber, MemSize, PageTblCnt, range, image>>

\* no_loader, no_kernel: the machine stays where it is.
NotFound ==
  /\ stage \in {"boot", "loader"} /\ step = "search" /\ dir_left = 0
  /\ step' = "not found"
  /\ UNCHANGED <<stage, floppy, bios, headers, dir_left, index, bx, memory,
                 MCRNumber, MemSize, PageTblCnt, range, image>>

\* LOADER.BIN goes to 0x100 of its segment, so that the last sector of the segment
\* would cross the end of 64 KB, which a BIOS refuses (external).
Crosses == stage = "boot" /\ bx = SegmentSectors - 1

\* ReadSector asks for it again and again.
SectorRefused ==
  /\ step = "load" /\ Crosses
  /\ step' = "astray"
  /\ UNCHANGED <<stage, floppy, bios, headers, dir_left, index, bx, memory,
                 MCRNumber, MemSize, PageTblCnt, range, image>>

\* The sector is read first; the end of the chain is only 0xfff.
LoadSector ==
  LET next == GetFATEntry(Fat(floppy), index)
  IN /\ stage \in {"boot", "loader"} /\ step = "load" /\ ~Crosses
     /\ memory' = [memory EXCEPT ![bx] = ReadSector(SectorOfCluster(index))]
     /\ IF next = 4095 THEN step' = "loaded" /\ UNCHANGED <<index, bx>>
        ELSE index' = next /\ bx' = (bx + 1) % SegmentSectors /\ UNCHANGED step
     /\ UNCHANGED <<stage, floppy, bios, headers, dir_left, MCRNumber, MemSize, PageTblCnt, range, image>>

\* A kernel that fills more than its segment has overwritten its own beginning.
Intact == memory[0] = SectorOfCluster(floppy.clusters[Wanted][1])

--------------------------------------------------------------------------------
(* The loader.                                                                *)

\* boot.s jumps to the loader, which asks the BIOS first; with the carry flag the
\* BIOS refuses, or says in another way that there is no more: all is forgotten.
\* Nothing ends the loop where MemChkBuf ends; what a longer map overwrites, strings,
\* the stack and then code, is not followed.
EnterLoader ==
  /\ stage = "boot" /\ step = "loaded"
  /\ IF Len(bios.ranges) <= MapRoom
     THEN /\ stage' = "loader" /\ step' = "search" /\ dir_left' = RootDirSectors
          /\ MCRNumber' = IF bios.carry THEN 0 ELSE Len(bios.ranges)
     ELSE step' = "astray" /\ UNCHANGED <<stage, dir_left, MCRNumber>>
  /\ UNCHANGED <<floppy, bios, headers, index, bx, memory, MemSize, PageTblCnt,
                 range, image>>

\* ShowMemInfo counts with loop: from 0 it goes round 2^32 times, over whatever is
\* in memory.
ShowMemInfo ==
  /\ stage = "loader" /\ step = "loaded"
  /\ IF MCRNumber = 0 THEN step' = "astray" /\ UNCHANGED range
     ELSE step' = "sizing" /\ range' = 1
  /\ UNCHANGED <<stage, floppy, bios, headers, dir_left, index, bx, memory,
                 MCRNumber, MemSize, PageTblCnt, image>>

\* The end of a range, the high words left out.
EndOf(r) == (r.base + r.length) % AddressTop

\* (Mutant) the size known so far is not looked at.
CountsLast(r) == r.type = 1

Counts(r) == r.type = 1 /\ EndOf(r) >= MemSize

\* CalculateMemSize, for one range after the other.
CalculateMemSize ==
  LET r == bios.ranges[range]
  IN /\ stage = "loader" /\ step = "sizing"
     /\ MemSize' = IF Counts(r) THEN EndOf(r) ELSE MemSize
     /\ range' = range + 1
     /\ step' = IF range = MCRNumber THEN "sized" ELSE "sizing"
     /\ UNCHANGED <<stage, floppy, bios, headers, dir_left, index, bx, memory,
                    MCRNumber, PageTblCnt, image>>

\* SetupPageMechanism: as many tables as the memory needs, each page to itself.
SetupPages ==
  /\ stage = "loader" /\ step = "sized"
  /\ PageTblCnt' = (MemSize \div TableSpan) + (IF MemSize % TableSpan = 0 THEN 0 ELSE 1)
  /\ step' = IF PageTblCnt' = 0 THEN "astray" ELSE "paged"
  /\ UNCHANGED <<stage, floppy, bios, headers, dir_left, index, bx, memory,
                 MCRNumber, MemSize, range, image>>

\* add $20, %esi: five words, not eight.
HeaderStep == 5

\* The w-th word behind the first header.
Word(w) == headers[(w \div HeaderWords) + 1][(w % HeaderWords) + 1]

\* InitKernel: the bytes in the file of every segment whose type is not 0 are
\* copied; what it has beyond them in memory is not cleared.
Copied(k) ==
  LET field(f) == Word(k * HeaderStep + f - 1)
  IN IF field(TYPE) = 0 THEN {}
     ELSE {<<field(VADDR) + i, field(OFFSET) + i>> : i \in 0 .. field(FILESZ) - 1}

InitKernel ==
  /\ stage = "loader" /\ step = "paged"
  /\ IF Intact
     THEN image' = UNION {Copied(k) : k \in 0 .. Len(headers) - 1} /\ stage' = "entry" /\ UNCHANGED step
     ELSE step' = "astray" /\ UNCHANGED <<image, stage>>
  /\ UNCHANGED <<floppy, bios, headers, dir_left, index, bx, memory,
                 MCRNumber, MemSize, PageTblCnt, range>>

LoadNext ==
  \/ Search \/ NotFound \/ LoadSector \/ SectorRefused
  \/ EnterLoader \/ ShowMemInfo \/ CalculateMemSize \/ SetupPages \/ InitKernel

--------------------------------------------------------------------------------
(* Properties.                                                                *)

\* When a file is loaded, its sectors lie one behind the other in memory as its
\* chain of clusters has them, wherever on the floppy and in whatever order, as long
\* as they fit into the segment.
LoadedIsFile ==
  step = "loaded" =>
    LET clusters == floppy.clusters[Wanted]
    IN Len(clusters) <= SegmentSectors =>
         \A k \in 1 .. Len(clusters) : memory[k - 1] = FatSector(clusters[k])

\* The kernel, if it starts, does so with every byte of usable memory that ends below
\* 4 GB mapped, ...
MemoryMapped ==
  stage = "entry" =>
    \A i \in DOMAIN bios.ranges :
      LET r == bios.ranges[i]
      IN r.type = 1 /\ ~r.above /\ r.base + r.length < AddressTop =>
           r.base + r.length <= PageTblCnt * TableSpan

\* ... and with its loadable segments, and nothing else, where they are linked.
SegmentsPlaced ==
  stage = "entry" =>
    image = UNION {{<<headers[i][VADDR] + b, headers[i][OFFSET] + b>> :
                      b \in 0 .. headers[i][FILESZ] - 1} :
                    i \in {j \in DOMAIN headers : headers[j][TYPE] = 1}}

KernelIsPlaced == MemoryMapped /\ SegmentsPlaced

LoadSpec == LoadInit /\ [][LoadNext]_loadVars

================================================================================
