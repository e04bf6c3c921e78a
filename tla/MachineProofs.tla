------------------------------- MODULE MachineProofs -------------------------------
(******************************************************************************)
(* What the boot sector and the loader load is the file, wherever its         *)
(* clusters lie, and the kernel starts with its memory mapped, for any        *)
(* floppies and any memory maps.  Every process starts with segments, a       *)
(* privilege and a stack of its own, for any number of processes.             *)
(* An interrupt line that is open has its own gate and a handler.             *)
(*                                                                            *)
(* The programs on top of the kernel get the messages they wait for, stop in  *)
(* one way only and lose no request, for any number of processes that ask     *)
(* for the ticks.                                                             *)
(******************************************************************************)
EXTENDS Machine, IpcProofs, WellFoundedInduction

--------------------------------------------------------------------------------
(* Reading the FAT and the floppy.                                            *)

\* The twelve bits of an entry of the FAT, and the entries that are clusters.
Entries == 0 .. 4095
Clusters == 2 .. 4086

\* GetFATEntry finds the twelve bits of an even and of an odd entry.
LEMMA EntryIsRead ==
  ASSUME NEW fat, \A m \in Nat : fat[m] \in Entries, NEW n \in Nat
  PROVE  GetFATEntry(fat, n) = fat[n]
<1>1. CASE n % 2 = 0
  <2>1. PICK k \in Nat : n = 2 * k
    <3>1. n \div 2 \in Nat /\ n = 2 * (n \div 2)
      BY <1>1
    <3> QED
      BY <3>1
  <2>2. /\ (n * 3) \div 2 = 3 * k /\ (3 * k) % 3 = 0 /\ (3 * k) \div 3 = k
        /\ (3 * k + 1) % 3 = 1 /\ (3 * k + 1) \div 3 = k
    BY <2>1
  <2> DEFINE f == fat[2 * k]
             g == fat[2 * k + 1]
  <2>3. f \in Entries /\ g \in Entries
    <3>1. 2 * k \in Nat /\ 2 * k + 1 \in Nat
      BY <2>1
    <3> QED
      BY <3>1
  <2>4. FatByte(fat, 3 * k) = f % 256 /\ FatByte(fat, 3 * k + 1) = (f \div 256) + 16 * (g % 16)
    BY <2>2 DEF FatByte
  <2>5. GetFATEntry(fat, n) = ((f % 256) + 256 * ((f \div 256) + 16 * (g % 16))) % 4096
    <3>1. GetFATEntry(fat, n) = (FatByte(fat, 3 * k) + 256 * FatByte(fat, 3 * k + 1)) % 4096
      BY <1>1, <2>1, <2>2 DEF GetFATEntry
    <3> QED
      BY <2>4, <3>1
  <2> HIDE DEF f, g
  <2>6. ((f % 256) + 256 * ((f \div 256) + 16 * (g % 16))) % 4096 = f
    BY <2>3, SMTT(60) DEF Entries
  <2> QED
    BY <2>1, <2>5, <2>6 DEF f
<1>2. CASE n % 2 = 1
  <2>1. PICK k \in Nat : n = 2 * k + 1
    <3>1. n \div 2 \in Nat /\ n = 2 * (n \div 2) + 1
      BY <1>2
    <3> QED
      BY <3>1
  <2>2. /\ (n * 3) \div 2 = 3 * k + 1 /\ 3 * k + 1 + 1 = 3 * k + 2
        /\ (3 * k + 1) % 3 = 1 /\ (3 * k + 1) \div 3 = k
        /\ (3 * k + 2) % 3 = 2 /\ (3 * k + 2) \div 3 = k
    BY <2>1
  <2> DEFINE f == fat[2 * k]
             g == fat[2 * k + 1]
  <2>3. f \in Entries /\ g \in Entries
    <3>1. 2 * k \in Nat /\ 2 * k + 1 \in Nat
      BY <2>1
    <3> QED
      BY <3>1
  <2>4. /\ FatByte(fat, 3 * k + 1) = (f \div 256) + 16 * (g % 16)
        /\ FatByte(fat, 3 * k + 2) = g \div 16
    BY <2>2 DEF FatByte
  <2>5. GetFATEntry(fat, n)
          = (((f \div 256) + 16 * (g % 16) + 256 * (g \div 16)) \div 16) % 4096
    <3>1. GetFATEntry(fat, n)
            = ((FatByte(fat, 3 * k + 1) + 256 * FatByte(fat, 3 * k + 2)) \div 16) % 4096
      BY <1>2, <2>1, <2>2 DEF GetFATEntry
    <3> QED
      BY <2>4, <3>1
  <2> HIDE DEF f, g
  <2>6. (((f \div 256) + 16 * (g % 16) + 256 * (g \div 16)) \div 16) % 4096 = g
    BY <2>3, SMTT(60) DEF Entries
  <2> QED
    BY <2>1, <2>5, <2>6 DEF g
<1>3. n % 2 \in 0 .. 1
  OBVIOUS
<1> QED
  BY <1>1, <1>2, <1>3

\* Cylinder, head and sector of the track are those of the sector that is meant, which
\* is the cluster's.
LEMMA SectorIsRead ==
  ASSUME NEW n \in Nat
  PROVE  ReadSector(SectorOfCluster(n)) = FatSector(n)
<1>1. SectorOfCluster(n) = n + 31 /\ FatSector(n) = n + 31
  BY DEF SectorOfCluster, FatSector
<1>2. ASSUME NEW s \in Nat PROVE ReadSector(s) = s
  BY DEF ReadSector, BiosSector, CylinderOf, HeadOf, SectorOnTrack
<1> QED
  BY <1>1, <1>2

\* What is assumed of a floppy, one fact by one.
LEMMA FloppyFacts ==
  ASSUME NEW f \in Floppies
  PROVE  /\ DOMAIN f.dir = 1 .. RootDirSectors * DirEntries
         /\ Elements(f.dir) \cap {"LOADER  BIN", "KERNEL  BIN"} \subseteq DOMAIN f.clusters
         /\ \A x \in DOMAIN f.clusters : f.clusters[x] \in Seq(Clusters) /\ f.clusters[x] # <<>>
         /\ \A x, y \in DOMAIN f.clusters :
              \A i \in DOMAIN f.clusters[x], j \in DOMAIN f.clusters[y] :
                f.clusters[x][i] = f.clusters[y][j] => x = y /\ i = j
<1>1. FloppyType(f)
  BY LoaderAssumption
<1> QED
  BY <1>1, Zenon DEF FloppyType, Clusters

\* The FAT leads from cluster to cluster of a file.
LEMMA ChainIsFollowed ==
  ASSUME NEW f \in Floppies, NEW name \in DOMAIN f.clusters, NEW k \in DOMAIN f.clusters[name]
  PROVE  Fat(f)[f.clusters[name][k]]
           = IF k = Len(f.clusters[name]) THEN 4095 ELSE f.clusters[name][k + 1]
<1> DEFINE cs == f.clusters
           n == cs[name][k]
           owner == CHOOSE x \in DOMAIN cs : n \in Elements(cs[x])
           place == CHOOSE i \in DOMAIN cs[owner] : cs[owner][i] = n
<1>1. n \in Elements(cs[name])
  BY DEF Elements
<1>2. owner \in DOMAIN cs /\ n \in Elements(cs[owner])
  <2> HIDE DEF n, cs
  <2> QED
    BY <1>1 DEF cs
<1>3. PICK m \in DOMAIN cs[owner] : cs[owner][m] = n
  <2> HIDE DEF owner, cs, n
  <2> QED
    BY <1>2 DEF Elements
<1>4. owner = name
  <2> HIDE DEF owner
  <2> QED
    BY <1>2, <1>3, FloppyFacts
<1>5. place = k
  <2>1. place = CHOOSE j \in DOMAIN cs[name] : cs[name][j] = n
    <3> HIDE DEF owner, cs, n
    <3> QED
      BY <1>4
  <2>2. \A j \in DOMAIN cs[name] : cs[name][j] = n => j = k
    <3>1. \A x, y \in DOMAIN cs :
             \A i \in DOMAIN cs[x], j \in DOMAIN cs[y] : cs[x][i] = cs[y][j] => x = y /\ i = j
      BY FloppyFacts, Zenon
    <3>2. name \in DOMAIN cs /\ k \in DOMAIN cs[name]
      OBVIOUS
    <3> HIDE DEF cs
    <3> QED
      BY <3>1, <3>2
  <2>3. cs[name][k] = n
    OBVIOUS
  <2>4. k \in DOMAIN cs[name]
    OBVIOUS
  <2> HIDE DEF place, n, cs
  <2>5. place \in DOMAIN cs[name] /\ cs[name][place] = n
    BY <2>1, <2>3, <2>4, Zenon
  <2> QED
    BY <2>2, <2>5
<1>6. n \in Nat
  <2>1. cs[name] \in Seq(Clusters)
    BY FloppyFacts
  <2>2. n \in Clusters
    BY <2>1
  <2> HIDE DEF n
  <2> QED
    BY <2>2 DEF Clusters
<1>7. Fat(f)[n] = IF place = Len(cs[owner]) THEN 4095 ELSE cs[owner][place + 1]
  <2>1. \E x \in DOMAIN f.clusters : n \in Elements(f.clusters[x])
    BY <1>1
  <2> HIDE DEF n
  <2> QED
    BY <1>6, <2>1 DEF Fat
<1> HIDE DEF owner, place
<1> QED
  BY <1>4, <1>5, <1>7

LEMMA ClustersAreEntries ==
  Clusters \subseteq Entries /\ 4095 \notin Clusters /\ 0 \in Entries /\ 4095 \in Entries
<1>1. ASSUME NEW c \in Clusters PROVE c \in Entries /\ c # 4095
  <2>1. c \in Int /\ 2 <= c /\ c <= 4086
    BY DEF Clusters
  <2> QED
    BY <2>1 DEF Entries
<1>2. 0 \in Entries /\ 4095 \in Entries
  BY DEF Entries
<1> QED
  BY <1>1, <1>2

\* Every entry of the FAT has twelve bits.
LEMMA FatType ==
  ASSUME NEW f \in Floppies
  PROVE  \A n \in Nat : Fat(f)[n] \in Entries
<1>1. ASSUME NEW n \in Nat PROVE Fat(f)[n] \in Entries
  <2>1. CASE \E x \in DOMAIN f.clusters : n \in Elements(f.clusters[x])
    <3>1. PICK x \in DOMAIN f.clusters : n \in Elements(f.clusters[x])
      BY <2>1
    <3>2. PICK k \in DOMAIN f.clusters[x] : f.clusters[x][k] = n
      BY <3>1 DEF Elements
    <3>3. f.clusters[x] \in Seq(Clusters)
      BY FloppyFacts
    <3>4. k # Len(f.clusters[x]) => f.clusters[x][k + 1] \in Entries
      <4> DEFINE C == f.clusters[x]
      <4>1. C \in Seq(Clusters) /\ k \in DOMAIN C
        BY <3>3
      <4> HIDE DEF C
      <4>2. k # Len(C) => C[k + 1] \in Clusters
        BY <4>1
      <4> QED
        BY <4>2, ClustersAreEntries DEF C
    <3>5. Fat(f)[f.clusters[x][k]] = IF k = Len(f.clusters[x]) THEN 4095 ELSE f.clusters[x][k + 1]
      BY ChainIsFollowed
    <3> QED
      BY <3>2, <3>4, <3>5, ClustersAreEntries
  <2>2. CASE ~ \E x \in DOMAIN f.clusters : n \in Elements(f.clusters[x])
    <3>1. Fat(f)[n] = 0
      BY <2>2 DEF Fat
    <3> QED
      BY <3>1, ClustersAreEntries
  <2> QED
    BY <2>1, <2>2
<1> QED
  BY <1>1

\* So does the loader's reading of it.
LEMMA NextIsFound ==
  ASSUME NEW f \in Floppies, NEW name \in DOMAIN f.clusters, NEW k \in DOMAIN f.clusters[name]
  PROVE  /\ f.clusters[name][k] \in Nat
         /\ GetFATEntry(Fat(f), f.clusters[name][k])
              = IF k = Len(f.clusters[name]) THEN 4095 ELSE f.clusters[name][k + 1]
         /\ k # Len(f.clusters[name]) => f.clusters[name][k + 1] # 4095
<1> DEFINE C == f.clusters[name]
<1>1. C \in Seq(Clusters)
  BY FloppyFacts
<1>2. C[k] \in Clusters /\ (k # Len(C) => C[k + 1] \in Clusters)
  <2> HIDE DEF C
  <2> QED
    BY <1>1 DEF C
<1> DEFINE n == C[k]
<1>3. n \in Nat
  <2>1. n \in Clusters
    BY <1>2
  <2> HIDE DEF n
  <2> QED
    BY <2>1 DEF Clusters
<1>4. GetFATEntry(Fat(f), n) = Fat(f)[n]
  <2> HIDE DEF n
  <2> QED
    BY <1>3, FatType, EntryIsRead
<1>5. Fat(f)[n] = IF k = Len(C) THEN 4095 ELSE C[k + 1]
  BY ChainIsFollowed
<1>6. k # Len(C) => C[k + 1] # 4095
  <2> HIDE DEF C
  <2> QED
    BY <1>2, ClustersAreEntries
<1>7. n \in Nat /\ GetFATEntry(Fat(f), n) = IF k = Len(C) THEN 4095 ELSE C[k + 1]
  <2> HIDE DEF C, n
  <2> QED
    BY <1>3, <1>4, <1>5
<1> QED
  BY <1>6, <1>7

--------------------------------------------------------------------------------
(* The inductive invariant.  While a file is loaded, index is one of its      *)
(* clusters and, if the file fits, everything up to there is in memory; while *)
(* the memory is counted, the ranges up to range lie below MemSize.           *)

File == floppy.clusters[Wanted]
Fits == Len(File) <= SegmentSectors
InMemory(n) == Fits => \A j \in 1 .. n : memory[j - 1] = FatSector(File[j])

LoadOK ==
  step = "load" =>
    /\ stage \in {"boot", "loader"} /\ Wanted \in DOMAIN floppy.clusters
    /\ \E k \in DOMAIN File : index = File[k] /\ (Fits => bx = k - 1) /\ InMemory(k - 1)

LoadedOK == step = "loaded" => InMemory(Len(File))

Usable(r) == r.type = 1 /\ ~r.above /\ r.base + r.length < AddressTop
Counted(n) ==
  \A i \in DOMAIN bios.ranges :
    i <= n /\ Usable(bios.ranges[i]) => bios.ranges[i].base + bios.ranges[i].length <= MemSize

SizeOK ==
  /\ MemSize \in Nat
  /\ stage = "loader" => MCRNumber \in {0, Len(bios.ranges)}
  /\ step = "sizing" =>
       stage = "loader" /\ MCRNumber = Len(bios.ranges) /\ range \in DOMAIN bios.ranges /\ Counted(range - 1)
  /\ step = "sized" => Counted(Len(bios.ranges))
  /\ step = "paged" \/ stage = "entry" =>
       Counted(Len(bios.ranges)) /\ PageTblCnt \in Nat /\ MemSize <= PageTblCnt * TableSpan

LoaderInv ==
  /\ floppy \in Floppies /\ bios \in MemoryMaps
  /\ DOMAIN memory = 0 .. SegmentSectors - 1
  /\ stage \in {"boot", "loader", "entry"}
  /\ stage = "entry" => step = "paged"
  /\ LoadOK /\ LoadedOK /\ SizeOK

LEMMA LoadInitInv == LoadInit => LoaderInv
BY LoaderAssumption DEF LoadInit, LoaderInv, LoadOK, LoadedOK, SizeOK, Nothing

\* The search ends at a file of the floppy, with nothing of it in memory.
LEMMA SearchKeeps ==
  ASSUME LoaderInv, Search
  PROVE  LoaderInv'
<1>1. /\ stage \in {"boot", "loader"} /\ floppy \in Floppies /\ MemSize \in Nat
      /\ UNCHANGED <<stage, floppy, bios, MCRNumber, MemSize>>
      /\ stage = "loader" => MCRNumber \in {0, Len(bios.ranges)}
  BY DEF LoaderInv, SizeOK, Search
<1>2. CASE \E i \in InSector : floppy.dir[i] = Wanted
  <2>1. step' = "load" /\ index' = File[1] /\ bx' = 0 /\ memory' = Nothing
    BY <1>2 DEF Search, File
  <2>2. Wanted \in DOMAIN floppy.clusters
    <3>1. Wanted \in Elements(floppy.dir)
      BY <1>2 DEF InSector, Elements
    <3>2. Wanted \in {"LOADER  BIN", "KERNEL  BIN"}
      BY DEF Wanted
    <3> QED
      BY <1>1, <3>1, <3>2, FloppyFacts
  <2>3. 1 \in DOMAIN File
    <3>1. File \in Seq(Clusters) /\ File # <<>>
      BY <1>1, <2>2, FloppyFacts DEF File
    <3> HIDE DEF File
    <3> QED
      BY <3>1
  <2>4. File' = File /\ Fits' = Fits /\ Wanted' = Wanted
    BY <1>1 DEF File, Fits, Wanted
  <2>5. LoadOK'
    <3>1. InMemory(1 - 1)'
      BY DEF InMemory
    <3>2. index' = File'[1] /\ bx' = 1 - 1 /\ 1 \in DOMAIN File'
      BY <2>1, <2>3, <2>4
    <3> HIDE DEF File, Fits, InMemory
    <3> QED
      BY <1>1, <2>2, <2>4, <3>1, <3>2 DEF LoadOK
  <2> QED
    BY <1>1, <2>1, <2>5 DEF LoaderInv, LoadedOK, SizeOK, Nothing
<1>3. CASE ~ \E i \in InSector : floppy.dir[i] = Wanted
  <2>1. step' = "search" /\ memory' = memory
    BY <1>3 DEF Search
  <2> QED
    BY <1>1, <2>1 DEF LoaderInv, LoadOK, LoadedOK, SizeOK
<1> QED
  BY <1>2, <1>3

\* A sector goes behind those of the clusters before it.
LEMMA LoadSectorKeeps ==
  ASSUME LoaderInv, LoadSector
  PROVE  LoaderInv'
<1> DEFINE C == floppy.clusters[Wanted]
<1>1. /\ stage \in {"boot", "loader"} /\ floppy \in Floppies
      /\ Wanted \in DOMAIN floppy.clusters /\ DOMAIN memory = 0 .. SegmentSectors - 1
      /\ UNCHANGED <<stage, floppy, bios, MCRNumber, MemSize>>
      /\ MemSize \in Nat /\ (stage = "loader" => MCRNumber \in {0, Len(bios.ranges)})
      /\ step' \in {"load", "loaded"} /\ step = "load"
  BY DEF LoaderInv, SizeOK, LoadOK, LoadSector
<1>2. PICK k \in DOMAIN C : index = C[k] /\ (Fits => bx = k - 1) /\ InMemory(k - 1)
  BY <1>1 DEF LoaderInv, LoadOK, File
<1>3. C \in Seq(Clusters) /\ k \in 1 .. Len(C) /\ Len(C) \in Nat
  <2>1. C \in Seq(Clusters)
    BY <1>1, FloppyFacts
  <2> HIDE DEF C
  <2> QED
    BY <2>1
<1>4. /\ index \in Nat /\ GetFATEntry(Fat(floppy), index) = IF k = Len(C) THEN 4095 ELSE C[k + 1]
      /\ k # Len(C) => C[k + 1] # 4095
  BY <1>1, <1>2, NextIsFound
<1>5. memory' = [memory EXCEPT ![bx] = FatSector(index)]
  <2>1. memory' = [memory EXCEPT ![bx] = ReadSector(SectorOfCluster(index))]
    BY DEF LoadSector
  <2>2. ReadSector(SectorOfCluster(index)) = FatSector(index)
    BY <1>4, SectorIsRead
  <2> QED
    BY <2>1, <2>2
<1>6. File = C /\ File' = C /\ Wanted' = Wanted /\ Fits' = Fits
  BY <1>1 DEF File, Fits, Wanted
<1>7. SegmentSectors \in Nat \ {0}
  BY LoaderAssumption
<1> HIDE DEF C
<1>8. Fits => bx = k - 1 /\ k <= SegmentSectors /\ (k # Len(C) => k < SegmentSectors)
  BY <1>2, <1>3, <1>6, <1>7 DEF Fits
<1>9. InMemory(k)'
  <2> SUFFICES ASSUME Fits, NEW j \in 1 .. k PROVE memory'[j - 1] = FatSector(C[j])
    BY <1>6 DEF InMemory
  <2>1. j - 1 \in DOMAIN memory /\ j \in Nat
    BY <1>1, <1>3, <1>7, <1>8
  <2>2. CASE j = k
    BY <1>2, <1>5, <1>8, <2>1, <2>2
  <2>3. CASE j # k
    <3>1. j \in 1 .. k - 1 /\ j - 1 # bx
      BY <1>3, <1>8, <2>1, <2>3
    <3>2. memory[j - 1] = FatSector(C[j])
      BY <1>2, <1>6, <3>1 DEF InMemory
    <3> HIDE DEF FatSector
    <3> QED
      BY <1>5, <2>1, <3>1, <3>2
  <2> QED
    BY <2>2, <2>3
<1>10. CASE k = Len(C)
  <2>1. step' = "loaded"
    BY <1>4, <1>10 DEF LoadSector
  <2> QED
    BY <1>1, <1>5, <1>6, <1>9, <1>10, <2>1 DEF LoaderInv, LoadOK, LoadedOK, SizeOK
<1>11. CASE k # Len(C)
  <2>1. step' = "load" /\ index' = C[k + 1] /\ bx' = (bx + 1) % SegmentSectors
    BY <1>1, <1>4, <1>11 DEF LoadSector
  <2>2. k + 1 \in DOMAIN C
    BY <1>3, <1>11
  <2>3. Fits => bx' = (k + 1) - 1
    <3>1. ASSUME NEW m \in Nat, m < SegmentSectors PROVE m % SegmentSectors = m
      BY <1>7, <3>1
    <3> QED
      BY <1>3, <1>8, <1>11, <2>1, <3>1
  <2>4. InMemory((k + 1) - 1)'
    <3>1. (k + 1) - 1 = k
      BY <1>3
    <3> QED
      BY <1>9, <3>1
  <2>5. LoadOK'
    <3> DEFINE n == k + 1
    <3>1. n \in DOMAIN C /\ index' = C[n] /\ (Fits => bx' = n - 1) /\ InMemory(n - 1)'
      BY <2>1, <2>2, <2>3, <2>4
    <3> HIDE DEF n, InMemory, Fits, File, Wanted
    <3> QED
      BY <1>1, <1>6, <2>1, <3>1 DEF LoadOK
  <2> QED
    BY <1>1, <1>5, <2>1, <2>5 DEF LoaderInv, LoadedOK, SizeOK
<1> QED
  BY <1>10, <1>11


\* MemSize never gets smaller, and no range that is counted ends above it.
LEMMA CalculateMemSizeKeeps ==
  ASSUME LoaderInv, CalculateMemSize
  PROVE  LoaderInv'
<1> DEFINE r == bios.ranges[range]
           ranges == bios.ranges
<1>1. /\ stage = "loader" /\ step = "sizing" /\ floppy \in Floppies /\ bios \in MemoryMaps
      /\ MCRNumber = Len(ranges) /\ range \in DOMAIN ranges /\ Counted(range - 1) /\ MemSize \in Nat
      /\ UNCHANGED <<stage, floppy, bios, memory, MCRNumber>>
      /\ DOMAIN memory = 0 .. SegmentSectors - 1
  BY DEF LoaderInv, SizeOK, CalculateMemSize
<1>2. /\ MemSize' = IF Counts(r) THEN EndOf(r) ELSE MemSize
      /\ range' = range + 1 /\ step' = IF range = Len(ranges) THEN "sized" ELSE "sizing"
  BY <1>1 DEF CalculateMemSize
<1>3. ranges \in Seq(Range) /\ AddressTop \in Nat \ {0}
  BY <1>1, LoaderAssumption
<1>4. r \in Range /\ range \in 1 .. Len(ranges) /\ Len(ranges) \in Nat
  <2> HIDE DEF ranges
  <2> QED
    BY <1>1, <1>3 DEF ranges
<1> HIDE DEF r, ranges
<1>5. EndOf(r) \in Nat /\ (Usable(r) => EndOf(r) = r.base + r.length)
  <2>1. r.base \in Nat /\ r.length \in Nat
    BY <1>3, <1>4 DEF Range
  <2>2. ASSUME NEW a \in Nat PROVE a % AddressTop \in Nat /\ (a < AddressTop => a % AddressTop = a)
    BY <1>3
  <2>3. r.base + r.length \in Nat
    BY <2>1
  <2> QED
    BY <2>2, <2>3 DEF EndOf, Usable
<1>6. MemSize' \in Nat /\ MemSize <= MemSize' /\ (r.type = 1 => EndOf(r) <= MemSize')
  BY <1>1, <1>2, <1>5 DEF Counts
<1>7. ASSUME NEW i \in DOMAIN ranges, i <= range, Usable(ranges[i])
      PROVE  ranges[i].base + ranges[i].length <= MemSize'
  <2>1. i \in Nat /\ ranges[i] \in Range
    BY <1>3, <1>4
  <2>2. CASE i = range
    <3>1. ranges[i] = r
      BY <2>2 DEF r, ranges
    <3> QED
      BY <1>5, <1>6, <1>7, <3>1 DEF Usable
  <2>3. CASE i # range
    <3>1. i <= range - 1
      BY <1>4, <1>7, <2>1, <2>3
    <3>2. ranges[i].base + ranges[i].length <= MemSize
      BY <1>1, <1>7, <3>1 DEF Counted, ranges
    <3>3. ranges[i].base \in Nat /\ ranges[i].length \in Nat
      BY <1>3, <2>1 DEF Range
    <3> DEFINE end == ranges[i].base + ranges[i].length
    <3>4. end \in Nat
      BY <3>3
    <3> HIDE DEF end
    <3> QED
      BY <1>1, <1>6, <3>2, <3>4 DEF end
  <2> QED
    BY <2>2, <2>3
<1>8. Counted(range - 1)' /\ (range = Len(ranges) => Counted(Len(bios.ranges))')
  <2>1. range' - 1 = range /\ bios'.ranges = ranges
    BY <1>1, <1>2, <1>4 DEF ranges
  <2> QED
    BY <1>7, <2>1 DEF Counted, ranges
<1>9. range # Len(ranges) => range' \in DOMAIN bios'.ranges
  <2> SUFFICES ASSUME range # Len(ranges) PROVE range + 1 \in DOMAIN ranges
    BY <1>1, <1>2 DEF ranges
  <2> QED
    BY <1>3, <1>4
<1>10. SizeOK'
  BY <1>1, <1>2, <1>6, <1>8, <1>9 DEF SizeOK, ranges
<1> QED
  BY <1>1, <1>2, <1>10 DEF LoaderInv, LoadOK, LoadedOK

\* There are page tables for all of the memory that was counted.
LEMMA SetupPagesKeeps ==
  ASSUME LoaderInv, SetupPages
  PROVE  LoaderInv'
<1>1. /\ stage = "loader" /\ step = "sized" /\ step' \in {"astray", "paged"}
      /\ Counted(Len(bios.ranges)) /\ MemSize \in Nat /\ TableSpan \in Nat \ {0}
      /\ UNCHANGED <<stage, floppy, bios, memory, MCRNumber, MemSize>>
  BY LoaderAssumption DEF LoaderInv, SizeOK, SetupPages
<1>2. PageTblCnt' \in Nat /\ MemSize <= PageTblCnt' * TableSpan
  <2> DEFINE q == MemSize \div TableSpan
             m == MemSize % TableSpan
  <2>1. q \in Nat /\ m \in 0 .. TableSpan - 1 /\ MemSize = q * TableSpan + m
    BY <1>1
  <2>2. PageTblCnt' = q + (IF m = 0 THEN 0 ELSE 1)
    BY DEF SetupPages
  <2> HIDE DEF q, m
  <2>3. (q + 1) * TableSpan = q * TableSpan + TableSpan /\ q * TableSpan \in Nat
    BY <1>1, <2>1
  <2> QED
    BY <1>1, <2>1, <2>2, <2>3
<1>3. Counted(Len(bios.ranges))'
  BY <1>1 DEF Counted
<1> QED
  BY <1>1, <1>2, <1>3 DEF LoaderInv, LoadOK, LoadedOK, SizeOK

\* The other steps load and count nothing.
LEMMA OthersKeep ==
  ASSUME LoaderInv, NotFound \/ SectorRefused \/ EnterLoader \/ ShowMemInfo \/ InitKernel \/ UNCHANGED loadVars
  PROVE  LoaderInv'
<1>1. ASSUME NotFound PROVE LoaderInv'
  BY <1>1 DEF NotFound, LoaderInv, LoadOK, LoadedOK, SizeOK
<1>2. ASSUME SectorRefused PROVE LoaderInv'
  BY <1>2 DEF SectorRefused, LoaderInv, LoadOK, LoadedOK, SizeOK
<1>3. ASSUME EnterLoader PROVE LoaderInv'
  BY <1>3 DEF EnterLoader, LoaderInv, LoadOK, LoadedOK, SizeOK
<1>4. ASSUME ShowMemInfo PROVE LoaderInv'
  <2>1. CASE MCRNumber = 0
    BY <1>4, <2>1 DEF ShowMemInfo, LoaderInv, LoadOK, LoadedOK, SizeOK
  <2>2. CASE MCRNumber # 0
    <3>1. /\ stage = "loader" /\ MCRNumber = Len(bios.ranges) /\ bios \in MemoryMaps
          /\ range' = 1 /\ step' = "sizing"
          /\ UNCHANGED <<stage, floppy, bios, memory, MCRNumber, MemSize>>
      BY <1>4, <2>2 DEF ShowMemInfo, LoaderInv, SizeOK
    <3>2. range' \in DOMAIN bios'.ranges /\ Counted(range - 1)'
      <4>1. bios.ranges \in Seq(Range) /\ Len(bios.ranges) # 0
        BY <2>2, <3>1, LoaderAssumption
      <4>2. 1 \in DOMAIN bios.ranges /\ DOMAIN bios.ranges \subseteq Nat \ {0}
        BY <4>1
      <4> QED
        BY <3>1, <4>2 DEF Counted
    <3> QED
      BY <3>1, <3>2 DEF LoaderInv, LoadOK, LoadedOK, SizeOK
  <2> QED
    BY <2>1, <2>2
<1>5. ASSUME InitKernel PROVE LoaderInv'
  <2>1. /\ stage = "loader" /\ step = "paged" /\ step' \in {"astray", "paged"}
        /\ stage' \in {"loader", "entry"} /\ (stage' = "entry" => step' = "paged")
        /\ UNCHANGED <<floppy, bios, memory, MCRNumber, MemSize, PageTblCnt>>
    BY <1>5 DEF InitKernel
  <2>2. Counted(Len(bios.ranges))'
    BY <2>1 DEF LoaderInv, SizeOK, Counted
  <2> QED
    BY <2>1, <2>2 DEF LoaderInv, LoadOK, LoadedOK, SizeOK
<1>6. ASSUME UNCHANGED loadVars PROVE LoaderInv'
  BY <1>6 DEF loadVars, LoaderInv, LoadOK, LoadedOK, SizeOK, InMemory, Fits, File, Wanted, Counted
<1> QED
  BY <1>1, <1>2, <1>3, <1>4, <1>5, <1>6

--------------------------------------------------------------------------------
(* The theorems.                                                              *)

LEMMA LoaderStepKeeps ==
  ASSUME LoaderInv, [LoadNext]_loadVars
  PROVE  LoaderInv'
BY SearchKeeps, LoadSectorKeeps, CalculateMemSizeKeeps, SetupPagesKeeps, OthersKeep
   DEF LoadNext

\* The invariant holds in every state of the loader.
THEOREM LoaderInductive == LoadSpec => []LoaderInv
BY LoaderStepKeeps, LoadInitInv, PTL DEF LoadSpec

LEMMA InvLoadedIsFile == LoaderInv => LoadedIsFile
BY DEF LoaderInv, LoadedOK, LoadedIsFile, InMemory, Fits, File

\* For any floppy, a file that fits into its segment lies in memory, sector for
\* sector, when it is loaded (boot.s load_loader, loader.s load_kernel).
THEOREM LoadedIsFileEver == LoadSpec => []LoadedIsFile
BY InvLoadedIsFile, LoaderInductive, PTL

LEMMA InvMemoryMapped == LoaderInv => MemoryMapped
<1> SUFFICES ASSUME LoaderInv, stage = "entry", NEW i \in DOMAIN bios.ranges, Usable(bios.ranges[i])
             PROVE  bios.ranges[i].base + bios.ranges[i].length <= PageTblCnt * TableSpan
  BY DEF MemoryMapped, Usable
<1> DEFINE r == bios.ranges[i]
<1>1. r.base + r.length <= MemSize /\ MemSize \in Nat
  <2>1. bios.ranges \in Seq(Range)
    BY LoaderAssumption DEF LoaderInv
  <2>2. i <= Len(bios.ranges)
    BY <2>1
  <2> QED
    BY <2>2 DEF LoaderInv, SizeOK, Counted
<1>2. r.base \in Nat /\ r.length \in Nat
  <2>1. bios.ranges \in Seq(Range)
    BY LoaderAssumption DEF LoaderInv
  <2>2. r \in Range
    BY <2>1
  <2> HIDE DEF r
  <2> QED
    BY <2>2, LoaderAssumption DEF Range
<1>3. /\ PageTblCnt \in Nat /\ TableSpan \in Nat /\ MemSize <= PageTblCnt * TableSpan
  BY LoaderAssumption DEF LoaderInv, SizeOK
<1> DEFINE mapped == PageTblCnt * TableSpan
<1>4. mapped \in Nat
  BY <1>3
<1> HIDE DEF mapped, r
<1> QED
  BY <1>1, <1>2, <1>3, <1>4 DEF mapped, r

\* For any memory map, all usable memory that ends below 4 GB is mapped when the
\* kernel starts (loader.s CalculateMemSize and SetupPageMechanism).
THEOREM MemoryMappedEver == LoadSpec => []MemoryMapped
BY InvMemoryMapped, LoaderInductive, PTL

\* What the header of the only segment says is what is copied.
LEMMA OneSegment ==
  ASSUME NEW k, headers = <<k>>, DOMAIN k = 1 .. HeaderWords, k[TYPE] \in {0, 1}
  PROVE  UNION {Copied(n) : n \in 0 .. Len(headers) - 1}
           = UNION {{<<headers[i][VADDR] + b, headers[i][OFFSET] + b>> :
                       b \in 0 .. headers[i][FILESZ] - 1} :
                     i \in {j \in DOMAIN headers : headers[j][TYPE] = 1}}
<1>1. Len(headers) = 1 /\ DOMAIN headers = {1} /\ headers[1] = k
  OBVIOUS
<1>2. ASSUME NEW w \in 0 .. 7 PROVE Word(w) = k[w + 1]
  <2>1. w \div 8 = 0 /\ w % 8 = w
    OBVIOUS
  <2> QED
    BY <1>1, <2>1 DEF Word, HeaderWords
<1>3. Word(0) = k[1] /\ Word(1) = k[2] /\ Word(2) = k[3] /\ Word(4) = k[5]
  BY <1>2
<1>4. Copied(0) = IF k[1] = 0 THEN {} ELSE {<<k[3] + b, k[2] + b>> : b \in 0 .. k[5] - 1}
  <2>1. /\ 0 * HeaderStep + TYPE - 1 = 0 /\ 0 * HeaderStep + OFFSET - 1 = 1
        /\ 0 * HeaderStep + VADDR - 1 = 2 /\ 0 * HeaderStep + FILESZ - 1 = 4
    BY DEF HeaderStep, TYPE, VADDR, OFFSET, FILESZ
  <2>2. /\ Word(0 * HeaderStep + TYPE - 1) = k[1] /\ Word(0 * HeaderStep + OFFSET - 1) = k[2]
        /\ Word(0 * HeaderStep + VADDR - 1) = k[3] /\ Word(0 * HeaderStep + FILESZ - 1) = k[5]
    BY <1>3, <2>1
  <2> QED
    BY <2>2, Zenon DEF Copied
<1>5. UNION {Copied(n) : n \in 0 .. Len(headers) - 1} = Copied(0)
  <2>1. 0 .. Len(headers) - 1 = {0}
    BY <1>1
  <2> QED
    BY <2>1
<1>6. {j \in DOMAIN headers : headers[j][TYPE] = 1} = IF k[1] = 1 THEN {1} ELSE {}
  BY <1>1 DEF TYPE
<1>7. /\ k[1] = 0 \/ k[1] = 1
      /\ headers[1][VADDR] = k[3] /\ headers[1][OFFSET] = k[2] /\ headers[1][FILESZ] = k[5]
  BY <1>1 DEF TYPE, VADDR, OFFSET, FILESZ
<1>8. CASE k[1] = 0
  BY <1>4, <1>5, <1>6, <1>8
<1>9. CASE k[1] = 1
  <2>1. Copied(0) = {<<headers[1][VADDR] + b, headers[1][OFFSET] + b>> : b \in 0 .. headers[1][FILESZ] - 1}
    BY <1>4, <1>7, <1>9
  <2>2. {j \in DOMAIN headers : headers[j][TYPE] = 1} = {1}
    BY <1>6, <1>9
  <2> DEFINE Segment(i) == {<<headers[i][VADDR] + b, headers[i][OFFSET] + b>> :
                              b \in 0 .. headers[i][FILESZ] - 1}
             Loadable == {j \in DOMAIN headers : headers[j][TYPE] = 1}
  <2>3. Copied(0) = Segment(1) /\ Loadable = {1}
    BY <2>1, <2>2
  <2>4. UNION {Segment(i) : i \in Loadable} = Segment(1)
    <3> HIDE DEF Segment, Loadable
    <3> QED
      BY <2>3
  <2> QED
    BY <1>5, <2>3, <2>4, Zenon
<1> QED
  BY <1>7, <1>8, <1>9

\* A kernel that is one loadable segment is, when it starts, where it is linked, and
\* all its memory is mapped (loader.s InitKernel, whose step from header to header is
\* not that of the table).
THEOREM KernelIsPlacedEver ==
  ASSUME \A k \in Kernels : k = <<k[1]>> /\ k[1][TYPE] \in {0, 1}
  PROVE  LoadSpec => []KernelIsPlaced
<1> DEFINE PlacedInv == headers \in Kernels /\ SegmentsPlaced
<1>1. LoadInit => PlacedInv
  BY DEF LoadInit, SegmentsPlaced
<1>2. PlacedInv /\ [LoadNext]_loadVars => PlacedInv'
  <2> SUFFICES ASSUME PlacedInv, [LoadNext]_loadVars PROVE PlacedInv'
    OBVIOUS
  <2>1. CASE InitKernel /\ stage' = "entry"
    <3>1. PICK k : headers = <<k>> /\ DOMAIN k = 1 .. HeaderWords /\ k[TYPE] \in {0, 1}
      <4>1. headers = <<headers[1]>> /\ headers[1][TYPE] \in {0, 1}
        OBVIOUS
      <4>2. 1 \in DOMAIN headers
        BY <4>1
      <4>3. DOMAIN headers[1] = 1 .. HeaderWords
        BY <4>2, LoaderAssumption
      <4> QED
        BY <4>1, <4>3
    <3>2. headers' = headers /\ image' = UNION {Copied(n) : n \in 0 .. Len(headers) - 1}
      BY <2>1 DEF InitKernel
    <3> QED
      BY <3>1, <3>2, OneSegment DEF SegmentsPlaced
  <2>2. CASE ~(InitKernel /\ stage' = "entry")
    <3>1. headers' = headers /\ (stage' = "entry" => stage = "entry" /\ image' = image)
      BY <2>2 DEF LoadNext, Search, NotFound, LoadSector, SectorRefused, Crosses, EnterLoader, ShowMemInfo,
                  CalculateMemSize, SetupPages, InitKernel, loadVars
    <3> QED
      BY <3>1 DEF SegmentsPlaced
  <2> QED
    BY <2>1, <2>2
<1> QED
  BY <1>1, <1>2, MemoryMappedEver, PTL DEF LoadSpec, KernelIsPlaced

--------------------------------------------------------------------------------
(* What a shift and a mask leave.                                              *)

LEMMA DivMod ==
  ASSUME NEW a \in Nat, NEW b \in Nat \ {0}
  PROVE  /\ a \div b \in Nat /\ a % b \in 0 .. b - 1
         /\ a = b * (a \div b) + (a % b)
OBVIOUS

LEMMA TimesMonotone ==
  ASSUME NEW a \in Nat, NEW b \in Nat, NEW c \in Nat, b <= c
  PROVE  a * b <= a * c
<1>1. PICK d \in Nat : c = b + d
  <2>1. c - b \in Nat /\ c = b + (c - b)
    OBVIOUS
  <2> QED
    BY <2>1
<1>2. a * c = a * b + a * d /\ a * d \in Nat /\ a * b \in Nat
  BY <1>1
<1> QED
  BY <1>2

LEMMA DivBelow ==
  ASSUME NEW a \in Nat, NEW b \in Nat \ {0}, NEW c \in Nat, a < b * c
  PROVE  a \div b < c
<1> DEFINE q == a \div b
<1>1. q \in Nat /\ b * q <= a
  BY DivMod
<1>2. SUFFICES ASSUME c <= q PROVE FALSE
  BY <1>1
<1>3. b * c <= b * q
  BY <1>1, <1>2, TimesMonotone
<1>4. b * c \in Nat /\ b * q \in Nat
  BY <1>1
<1> QED
  BY <1>1, <1>3, <1>4

LEMMA ModSmall ==
  ASSUME NEW b \in Nat \ {0}, NEW a \in 0 .. b - 1
  PROVE  a % b = a
OBVIOUS

\* What init_descriptor cuts into three, seg2phys puts together again.
LEMMA BaseIsKept ==
  ASSUME NEW base \in Address, NEW limit, NEW attr
  PROVE  BaseOf(init_descriptor(base, limit, attr)) = base
<1> DEFINE q == base \div Half
           r == q \div Byte
<1>1. /\ Half \in Nat \ {0} /\ Byte \in Nat \ {0} /\ base \in Nat
      /\ Byte * Byte \in Nat /\ base < Half * (Byte * Byte)
  <2>1. Half \in Nat \ {0} /\ Byte \in Nat \ {0}
    BY SegmentsAssumption
  <2>2. Half * Byte * Byte = Half * (Byte * Byte) /\ Byte * Byte \in Nat /\ Half * Byte * Byte \in Nat
    BY <2>1
  <2> QED
    BY <2>1, <2>2 DEF Address, AddressSpace
<1>2. q \in Nat /\ base % Half \in Nat /\ base = Half * q + (base % Half) /\ q < Byte * Byte
  <2>1. base % Half \in 0 .. Half - 1 /\ q \in Nat /\ base = Half * q + (base % Half)
    BY <1>1, DivMod
  <2>2. q < Byte * Byte
    BY <1>1, DivBelow
  <2> QED
    BY <1>1, <2>1, <2>2
<1>3. r \in Nat /\ q % Byte \in Nat /\ q = Byte * r + (q % Byte) /\ r < Byte
  <2> HIDE DEF q
  <2>1. q % Byte \in 0 .. Byte - 1 /\ q \div Byte \in Nat /\ q = Byte * (q \div Byte) + (q % Byte)
    BY <1>1, <1>2, DivMod
  <2>2. q \div Byte < Byte
    BY <1>1, <1>2, DivBelow
  <2> QED
    BY <1>1, <2>1, <2>2
<1>4. r % Byte = r
  <2> HIDE DEF r
  <2> QED
    BY <1>1, <1>3, ModSmall
<1>5. BaseOf(init_descriptor(base, limit, attr))
        = r * (Half * Byte) + (q % Byte) * Half + (base % Half)
  BY <1>4 DEF BaseOf, init_descriptor
<1>6. r * (Half * Byte) + (q % Byte) * Half = Half * q
  <2>1. ASSUME NEW x \in Nat, NEW y \in Nat, NEW z \in Nat, z = Byte * x + y
        PROVE  x * (Half * Byte) + y * Half = Half * z
    <3>1. Half * z = Half * (Byte * x) + Half * y
      BY <1>1, <2>1
    <3>2. Half * (Byte * x) = x * (Half * Byte) /\ Half * y = y * Half
      BY <1>1
    <3> QED
      BY <3>1, <3>2
  <2> HIDE DEF q, r
  <2> QED
    BY <1>2, <1>3, <2>1
<1> QED
  BY <1>2, <1>5, <1>6

\* The limit of a table is kept too: it needs no upper bits.
LEMMA SmallLimitIsKept ==
  ASSUME NEW base \in Address, NEW limit \in 0 .. 107, NEW attr \in 0 .. 255
  PROVE  LimitOf(init_descriptor(base, limit, attr)) = limit
<1> DEFINE d == init_descriptor(base, limit, attr)
<1>1. Half \in Nat \ {0} /\ limit \in 0 .. Half - 1
  BY SegmentsAssumption
<1>2. limit % Half = limit
  BY <1>1, ModSmall
<1>3. d.limit_low = limit /\ d.limit_high_attr2 = 0
  BY <1>2 DEF init_descriptor
<1>4. LimitOf(d) = 0 * Half + limit
  BY <1>3 DEF LimitOf
<1> QED
  BY <1>1, <1>4

--------------------------------------------------------------------------------
(* The inductive invariant.                                                   *)

\* Once filled, the global table has every process's table in an entry of its own.
TablesOK ==
  prepared # "nothing" =>
    /\ \A p \in Segmented :
         BaseOf(gdt[LdtIndex(p)]) = LdtAddress[p] /\ LimitOf(gdt[LdtIndex(p)]) = 15
    /\ BaseOf(gdt[INDEX_TSS]) = TssAddress
    /\ gdt[FLAT_C] = Flat(154) /\ gdt[FLAT_RW] = Flat(146)

\* How far the loop of init_process_main is.
LoopOK ==
  /\ next \in 0 .. NumSegmented
  /\ selector_ldt = INDEX_LDT_FIRST + next
  /\ top_stack \in Int /\ top_stack <= STACK_SIZE
  /\ prepared \in {"nothing", "tables", "processes"}
  /\ prepared = "nothing" => next = 0
  /\ prepared = "tables" => next < NumSegmented
  /\ prepared = "processes" => next = NumSegmented

Shapes ==
  /\ gdt = [i \in 0 .. GDT_SIZE - 1 |-> gdt[i]]
  /\ ldt = [p \in Segmented |-> ldt[p]]
  /\ ldt_sel = [p \in Segmented |-> ldt_sel[p]]
  /\ rpl = [p \in Segmented |-> rpl[p]]
  /\ esp = [p \in Segmented |-> esp[p]]

\* A process the loop has been at, and two of them.
DoneOK(p) ==
  /\ ldt_sel[p] = LdtIndex(p)
  /\ OwnPrivilege(p)
  /\ esp[p] \in Int /\ esp[p] <= STACK_SIZE /\ top_stack <= esp[p] - StackSize[p]

BelowOK(p, q) == p < q => esp[q] <= esp[p] - StackSize[p]

SegmentsInv ==
  /\ TablesOK /\ LoopOK /\ Shapes
  /\ \A p \in 0 .. next - 1 : DoneOK(p)
  /\ \A p, q \in 0 .. next - 1 : BelowOK(p, q)

LEMMA SegmentsInitInv == SegmentsInit => SegmentsInv
<1> SUFFICES ASSUME SegmentsInit PROVE SegmentsInv
  OBVIOUS
<1>1. LoopOK
  BY SegmentsAssumption DEF SegmentsInit, LoopOK, INDEX_LDT_FIRST
<1>2. TablesOK /\ Shapes
  BY DEF SegmentsInit, TablesOK, Shapes
<1>3. 0 .. next - 1 = {}
  BY DEF SegmentsInit
<1> QED
  BY <1>1, <1>2, <1>3 DEF SegmentsInv

\* The flat segments start at 0: what is linked at an address lies there.
LEMMA FlatIsFlat ==
  ASSUME NEW attr \in Nat, NEW a \in Address
  PROVE  BaseOf(Flat(attr)) = 0 /\ (BaseOf(Flat(attr)) + a) % AddressSpace = a
<1>1. BaseOf(Flat(attr)) = 0 * (Half * Byte) + 0 * Half + 0
  BY DEF BaseOf, Flat
<1>2. Half * Byte \in Nat /\ Half \in Nat
  <2>1. Half \in Nat /\ Byte \in Nat
    BY SegmentsAssumption
  <2> QED
    BY <2>1
<1>3. BaseOf(Flat(attr)) = 0
  BY <1>1, <1>2
<1>4. AddressSpace \in Nat \ {0} /\ a \in 0 .. AddressSpace - 1
  <2>1. Half * Byte * Byte \in Nat
    BY <1>2, SegmentsAssumption
  <2> QED
    BY <2>1 DEF Address, AddressSpace
<1>5. a % AddressSpace = a
  BY <1>4, ModSmall
<1> QED
  BY <1>3, <1>4, <1>5

\* init_pm_env fills the global table.
LEMMA InitPmEnvKeeps ==
  ASSUME SegmentsInv, InitPmEnv
  PROVE  SegmentsInv'
<1> USE DEF INDEX_TSS, INDEX_LDT_FIRST, FLAT_C, FLAT_RW
<1>1. /\ prepared = "nothing" /\ prepared' = "tables"
      /\ UNCHANGED <<ldt, ldt_sel, rpl, esp, next, selector_ldt, top_stack>>
  BY DEF InitPmEnv
<1>2. gdt' = [i \in DOMAIN gdt |-> gdt'[i]] /\ DOMAIN gdt = 0 .. GDT_SIZE - 1
  BY DEF InitPmEnv, SegmentsInv, Shapes
<1>3. GDT_SIZE \in Nat /\ NumSegmented \in Nat \ {0} /\ 5 + NumSegmented <= GDT_SIZE
  BY SegmentsAssumption
<1>4. CopiedGdt[FLAT_C] = Flat(154) /\ CopiedGdt[FLAT_RW] = Flat(146)
  <2>1. LoaderGdt[1] = Flat(154) /\ LoaderGdt[2] = Flat(146)
    BY DEF LoaderGdt
  <2> QED
    BY <1>2, <1>3, <2>1 DEF CopiedGdt
<1>5. \A a \in Address : PhysicalIn(CopiedGdt, a) = a
  BY <1>4, FlatIsFlat DEF PhysicalIn
<1>6. \A p \in Segmented : gdt'[LdtIndex(p)] = init_descriptor(LdtAddress[p], 15, DA_LDT)
  <2> TAKE p \in Segmented
  <2>1. p \in 0 .. NumSegmented - 1 /\ LdtIndex(p) = 5 + p /\ LdtIndex(p) \in DOMAIN gdt
    BY <1>2, <1>3 DEF Segmented, LdtIndex
  <2>2. \A q \in Segmented : LdtIndex(p) = LdtIndex(q) <=> q = p
    BY <2>1 DEF Segmented, LdtIndex
  <2>3. (CHOOSE q \in Segmented : LdtIndex(p) = LdtIndex(q)) = p
    BY <2>2
  <2>4. LdtAddress[p] \in Address
    BY SegmentsAssumption
  <2> QED
    <3>1. gdt'[LdtIndex(p)] =
            init_descriptor(PhysicalIn(CopiedGdt,
                              LdtAddress[CHOOSE q \in Segmented : LdtIndex(p) = LdtIndex(q)]),
                            15, DA_LDT)
      BY <2>1 DEF InitPmEnv
    <3> QED
      BY <1>5, <2>3, <2>4, <3>1
<1>7. gdt'[INDEX_TSS] = init_descriptor(TssAddress, 107, DA_386TSS)
  <2>1. TssAddress \in Address /\ INDEX_TSS \in DOMAIN gdt
    BY <1>2, <1>3, SegmentsAssumption
  <2> QED
    BY <1>5, <2>1 DEF InitPmEnv
<1>8. gdt'[FLAT_C] = Flat(154) /\ gdt'[FLAT_RW] = Flat(146)
  <2>1. \A p \in Segmented : LdtIndex(p) > 4
    BY <1>3 DEF Segmented, LdtIndex
  <2>2. FLAT_C \in DOMAIN gdt /\ FLAT_RW \in DOMAIN gdt
    BY <1>2, <1>3
  <2> QED
    BY <1>4, <2>1, <2>2 DEF InitPmEnv
<1>9. TablesOK'
  <2>1. \A p \in Segmented : LdtAddress[p] \in Address
    BY SegmentsAssumption
  <2>2. TssAddress \in Address
    BY SegmentsAssumption
  <2>3. \A p \in Segmented : BaseOf(gdt'[LdtIndex(p)]) = LdtAddress[p]
    <3> TAKE p \in Segmented
    <3>1. BaseOf(init_descriptor(LdtAddress[p], 15, DA_LDT)) = LdtAddress[p]
      BY <2>1, BaseIsKept
    <3>2. gdt'[LdtIndex(p)] = init_descriptor(LdtAddress[p], 15, DA_LDT)
      BY <1>6
    <3> QED
      BY <3>1, <3>2, Zenon
  <2>4. \A p \in Segmented : LimitOf(gdt'[LdtIndex(p)]) = 15
    <3> TAKE p \in Segmented
    <3> DEFINE limit == 15
    <3>1. limit \in 0 .. 107 /\ DA_LDT \in 0 .. 255
      BY DEF DA_LDT
    <3>2. gdt'[LdtIndex(p)] = init_descriptor(LdtAddress[p], limit, DA_LDT)
      BY <1>6
    <3> HIDE DEF limit
    <3>3. LimitOf(init_descriptor(LdtAddress[p], limit, DA_LDT)) = limit
      BY <2>1, <3>1, SmallLimitIsKept, Zenon
    <3> QED
      BY <3>2, <3>3, Zenon DEF limit
  <2>5. BaseOf(gdt'[INDEX_TSS]) = TssAddress
    BY <1>7, <2>2, BaseIsKept
  <2> QED
    BY <1>8, <2>3, <2>4, <2>5 DEF TablesOK, BaseOf, LimitOf, LdtIndex
<1>10. LoopOK' /\ next = 0
  BY <1>1, <1>3 DEF SegmentsInv, LoopOK
<1>11. Shapes'
  BY <1>1, <1>2 DEF SegmentsInv, Shapes
<1> QED
  BY <1>1, <1>9, <1>10, <1>11 DEF SegmentsInv

\* The privileges in the attributes are those in the segment registers.
LEMMA PrivilegeIsKept ==
  ASSUME NEW p \in Segmented
  PROVE  /\ Privilege(p) \in Nat
         /\ ((DA_C + 32 * Privilege(p)) \div 32) % 4 = Privilege(p)
         /\ ((DA_DRW + 32 * Privilege(p)) \div 32) % 4 = Privilege(p)
<1>1. CASE Privilege(p) = 1
  BY <1>1 DEF DA_C, DA_DRW
<1>2. CASE Privilege(p) = 3
  BY <1>2 DEF DA_C, DA_DRW
<1> QED
  BY <1>1, <1>2 DEF Privilege

\* init_process_main gives the next process its own.
LEMMA InitProcessKeeps ==
  ASSUME SegmentsInv, InitProcess
  PROVE  SegmentsInv'
<1> DEFINE C == [gdt[FLAT_C] EXCEPT !.attr1 = DA_C + 32 * Privilege(next)]
           D == [gdt[FLAT_RW] EXCEPT !.attr1 = DA_DRW + 32 * Privilege(next)]
<1>1. /\ prepared = "tables" /\ next \in 0 .. NumSegmented - 1 /\ next \in Segmented
      /\ next' = next + 1 /\ selector_ldt = INDEX_LDT_FIRST + next
      /\ selector_ldt' = selector_ldt + 1 /\ top_stack' = top_stack - StackSize[next]
      /\ top_stack \in Int /\ top_stack <= STACK_SIZE /\ gdt' = gdt
      /\ StackSize[next] \in Nat \ {0} /\ NumSegmented \in Nat
  BY SegmentsAssumption DEF InitProcess, NextSelector, SegmentsInv, LoopOK, Segmented
<1>2. LoopOK'
  BY <1>1, SegmentsAssumption DEF InitProcess, SegmentsInv, LoopOK, INDEX_LDT_FIRST
<1>3. TablesOK'
  BY <1>1 DEF InitProcess, SegmentsInv, TablesOK, BaseOf, LimitOf
<1>4. /\ ldt'[next] = [i \in {INDEX_LDT_C, INDEX_LDT_RW} |-> IF i = INDEX_LDT_C THEN C ELSE D]
      /\ ldt_sel'[next] = selector_ldt /\ rpl'[next] = Privilege(next) /\ esp'[next] = top_stack
      /\ Shapes'
  BY <1>1 DEF InitProcess, SegmentsInv, Shapes
<1>5. \A p \in Segmented \ {next} :
        ldt'[p] = ldt[p] /\ ldt_sel'[p] = ldt_sel[p] /\ rpl'[p] = rpl[p] /\ esp'[p] = esp[p]
  BY <1>1 DEF InitProcess, SegmentsInv, Shapes
<1>6. 0 .. next' - 1 = (0 .. next - 1) \cup {next} /\ 0 .. next - 1 \subseteq Segmented \ {next}
  BY <1>1 DEF Segmented
<1>7. \A p \in 0 .. next - 1 : DoneOK(p)'
  <2> TAKE p \in 0 .. next - 1
  <2>1. DoneOK(p) /\ p \in Segmented \ {next}
    BY <1>6 DEF SegmentsInv
  <2>2. OwnPrivilege(p)'
    BY <1>5, <2>1 DEF DoneOK, OwnPrivilege, PrivilegeOf, BaseOf
  <2>3. /\ ldt_sel'[p] = LdtIndex(p) /\ esp'[p] = esp[p]
        /\ esp[p] \in Int /\ esp[p] <= STACK_SIZE /\ top_stack <= esp[p] - StackSize[p]
    BY <1>5, <2>1 DEF DoneOK
  <2>4. StackSize[p] \in Nat /\ STACK_SIZE \in Nat
    BY <2>1, SegmentsAssumption
  <2>5. top_stack' <= esp'[p] - StackSize[p]
    BY <1>1, <2>3, <2>4
  <2> QED
    BY <2>2, <2>3, <2>5 DEF DoneOK, LdtIndex
<1>8. ASSUME NEW n \in Segmented, n = next PROVE DoneOK(n)'
  <2>1. gdt[FLAT_C] = Flat(154) /\ gdt[FLAT_RW] = Flat(146)
    BY <1>1 DEF SegmentsInv, TablesOK
  <2>2. /\ C.attr1 = DA_C + 32 * Privilege(next) /\ D.attr1 = DA_DRW + 32 * Privilege(next)
        /\ BaseOf(C) = BaseOf(Flat(154)) /\ BaseOf(D) = BaseOf(Flat(146))
    BY <2>1 DEF Flat, BaseOf
  <2>3. Address # {} /\ BaseOf(Flat(154)) = 0 /\ BaseOf(Flat(146)) = 0
    <3>1. TssAddress \in Address
      BY SegmentsAssumption
    <3> QED
      BY <3>1, FlatIsFlat
  <2>4. PrivilegeOf(C) = Privilege(next) /\ PrivilegeOf(D) = Privilege(next)
    BY <1>1, <2>2, PrivilegeIsKept DEF PrivilegeOf
  <2>5. ldt'[next][INDEX_LDT_C] = C /\ ldt'[next][INDEX_LDT_RW] = D
    BY <1>4 DEF INDEX_LDT_C, INDEX_LDT_RW
  <2>6. BaseOf(C) = 0 /\ BaseOf(D) = 0
    BY <2>2, <2>3
  <2>7. OwnPrivilege(n)'
    <3> HIDE DEF C, D
    <3>1. ldt'[n][INDEX_LDT_C] = C /\ ldt'[n][INDEX_LDT_RW] = D /\ rpl'[n] = Privilege(next)
      BY <1>4, <1>8, <2>5
    <3> QED
      BY <2>4, <2>6, <3>1 DEF OwnPrivilege, PrivilegeOf, BaseOf
  <2>8. ldt_sel'[n] = LdtIndex(n)
    BY <1>1, <1>4, <1>8 DEF LdtIndex
  <2>9. esp'[n] \in Int /\ esp'[n] <= STACK_SIZE /\ top_stack' <= esp'[n] - StackSize[n]
    BY <1>1, <1>4, <1>8
  <2> QED
    BY <2>7, <2>8, <2>9 DEF DoneOK, LdtIndex
<1>9. \A p, q \in 0 .. next' - 1 : BelowOK(p, q)'
  <2> TAKE p, q \in 0 .. next' - 1
  <2>1. CASE p \in 0 .. next - 1 /\ q \in 0 .. next - 1
    <3>1. BelowOK(p, q) /\ esp'[p] = esp[p] /\ esp'[q] = esp[q]
      BY <1>5, <1>6, <2>1 DEF SegmentsInv
    <3> QED
      BY <3>1 DEF BelowOK
  <2>2. CASE p \in 0 .. next - 1 /\ q = next
    <3>1. DoneOK(p) /\ esp'[p] = esp[p] /\ esp'[q] = top_stack
      BY <1>4, <1>5, <1>6, <2>2 DEF SegmentsInv
    <3> QED
      BY <3>1 DEF DoneOK, BelowOK
  <2>3. CASE p = next
    <3>1. ~(p < q)
      BY <1>1, <2>3
    <3> QED
      BY <3>1 DEF BelowOK
  <2> QED
    BY <1>6, <2>1, <2>2, <2>3
<1>10. \A p \in 0 .. next' - 1 : DoneOK(p)'
  BY <1>1, <1>6, <1>7, <1>8
<1> QED
  BY <1>2, <1>3, <1>4, <1>9, <1>10 DEF SegmentsInv

LEMMA SegmentsStutterKeep ==
  ASSUME SegmentsInv, UNCHANGED segmentVars
  PROVE  SegmentsInv'
<1>1. /\ gdt' = gdt /\ ldt' = ldt /\ ldt_sel' = ldt_sel /\ rpl' = rpl /\ esp' = esp
      /\ next' = next /\ selector_ldt' = selector_ldt /\ top_stack' = top_stack
      /\ prepared' = prepared
  BY DEF segmentVars
<1>2. TablesOK' /\ LoopOK' /\ Shapes'
  BY <1>1 DEF SegmentsInv, TablesOK, LoopOK, Shapes, BaseOf, LimitOf, LdtIndex
<1>3. \A p \in 0 .. next - 1 : DoneOK(p)'
  BY <1>1 DEF SegmentsInv, DoneOK, OwnPrivilege, PrivilegeOf, BaseOf, LdtIndex
<1>4. \A p, q \in 0 .. next - 1 : BelowOK(p, q)'
  BY <1>1 DEF SegmentsInv, BelowOK
<1> QED
  BY <1>1, <1>2, <1>3, <1>4 DEF SegmentsInv

LEMMA SegmentsStepKeeps ==
  ASSUME SegmentsInv, [SegmentsNext]_segmentVars
  PROVE  SegmentsInv'
BY InitPmEnvKeeps, InitProcessKeeps, SegmentsStutterKeep DEF SegmentsNext

\* The loop of init_process_main, and with it every reachable state, keeps what the
\* processes so far have to themselves.
THEOREM SegmentsInductive == SegmentsSpec => []SegmentsInv
BY SegmentsStepKeeps, SegmentsInitInv, PTL DEF SegmentsSpec

LEMMA InvSegmentsAreOwn == SegmentsInv => SegmentsAreOwn
<1> SUFFICES ASSUME SegmentsInv, prepared = "processes", NEW p \in Segmented
             PROVE  /\ OwnTable(p) /\ OwnPrivilege(p) /\ OwnStack(p)
                    /\ \A a \in {LdtAddress[p], TssAddress} : vir_to_linear(p, a) = a
                    /\ BaseOf(gdt[INDEX_TSS]) = TssAddress
  BY DEF SegmentsAreOwn
<1>1. Segmented = 0 .. next - 1 /\ \A q \in Segmented : q \in Int
  BY DEF SegmentsInv, LoopOK, Segmented
<1>2. \A q \in Segmented : DoneOK(q)
  BY <1>1 DEF SegmentsInv
<1>3. OwnTable(p)
  <2>1. BaseOf(gdt[LdtIndex(p)]) = LdtAddress[p] /\ LimitOf(gdt[LdtIndex(p)]) = 15
    BY DEF SegmentsInv, TablesOK
  <2>2. \A q \in Segmented \ {p} : ldt_sel[q] # ldt_sel[p]
    BY <1>1, <1>2 DEF DoneOK, LdtIndex, INDEX_LDT_FIRST
  <2> QED
    BY <1>2, <2>1, <2>2 DEF DoneOK, OwnTable
<1>4. OwnStack(p)
  <2>1. \A q \in Segmented : BelowOK(p, q) /\ BelowOK(q, p)
    BY <1>1 DEF SegmentsInv
  <2>2. ASSUME NEW q \in Segmented \ {p}
        PROVE  esp[p] <= esp[q] - StackSize[q] \/ esp[q] <= esp[p] - StackSize[p]
    <3>1. p < q \/ q < p
      BY <1>1
    <3> QED
      BY <2>1, <3>1 DEF BelowOK
  <2> QED
    BY <1>2, <2>2 DEF OwnStack, DoneOK
<1>5. ASSUME NEW a \in Address PROVE vir_to_linear(p, a) = a
  <2>1. BaseOf(ldt[p][INDEX_LDT_RW]) = 0 /\ BaseOf(Flat(146)) = 0
    BY <1>2, FlatIsFlat DEF DoneOK, OwnPrivilege
  <2>2. (BaseOf(Flat(146)) + a) % AddressSpace = a
    BY FlatIsFlat
  <2> QED
    BY <2>1, <2>2 DEF vir_to_linear
<1>6. LdtAddress[p] \in Address /\ TssAddress \in Address
  BY SegmentsAssumption
<1> QED
  BY <1>2, <1>3, <1>4, <1>5, <1>6 DEF DoneOK, SegmentsInv, TablesOK

\* Every process is entered with segments, a privilege and a stack of its own
\* (init_pm_env and init_process_main).
THEOREM SegmentsAreOwnEver == SegmentsSpec => []SegmentsAreOwn
BY InvSegmentsAreOwn, SegmentsInductive, PTL

--------------------------------------------------------------------------------
(* What every process is doing.                                               *)

\* The call a process is in, if any, and with whom: between its steps, or blocked.
Home == <<"home", Null>>
Sends(d) == <<"send", d>>
Receives(s) == <<"receive", s>>

Doing ==
  [p \in Proc |->
     IF process_ready = p /\ pc \in SendPoint THEN Sends(peer)
     ELSE IF process_ready = p /\ pc = "recv" THEN Receives(peer)
     ELSE IF "SENDING" \in flags[p] THEN Sends(send_to[p])
     ELSE IF "RECVING" \in flags[p] THEN Receives(recv_from[p])
     ELSE Home]

Mail(s, b) == [source |-> s, body |-> b]

Clients == Ticker \cup {HddTask}
Request == "get ticks"
Reply == "ticks"

\* Where a process stands that asks for the ticks: behind the request, behind the answer.
Asking == {"answer", "t?", "busy?"}
Getting == {"answered", "busy", "look"}

\* q has asked and waits for the ticks, or is going to.
AwaitsTicks(q) ==
  \/ at[q] \in Asking /\ Doing[q] = Home
  \/ at[q] \in Getting /\ Doing[q] = Receives(SysTask)

\* sys_task has taken the request of q and has not got rid of its answer.
Serves(q) ==
  \/ at[SysTask] = "switch" /\ Doing[SysTask] = Home /\ buffer[SysTask] = Mail(q, Request)
  \/ at[SysTask] = "receive" /\ Doing[SysTask] = Sends(q)

\* A client by itself, and sys_task.
ClientOK(q) ==
  /\ at[q] \in Asking =>
       \/ Doing[q] = Sends(SysTask) /\ buffer[q] = Mail(q, Request)
       \/ Doing[q] = Home /\ Serves(q)
  /\ at[q] \in Getting =>
       \/ Doing[q] = Receives(SysTask) /\ Serves(q)
       \/ Doing[q] = Home /\ buffer[q] = Mail(SysTask, Reply)

SysTaskOK ==
  \/ at[SysTask] = "receive" /\ Doing[SysTask] = Home
  \/ at[SysTask] = "switch" /\ Doing[SysTask] = Receives(AnySource)
  \/ at[SysTask] = "receive" /\ buffer[SysTask] = Mail(SysTask, Reply)
       /\ \E q \in Clients : Doing[SysTask] = Sends(q) /\ AwaitsTicks(q)
  \/ at[SysTask] = "switch" /\ Doing[SysTask] = Home
       /\ \E q \in Clients : buffer[SysTask] = Mail(q, Request) /\ AwaitsTicks(q)

TickerOK(p) ==
  /\ at[p] \in {"ask", "answer", "answered"}
  /\ at[p] = "ask" => Doing[p] = Home

\* fs_task and the driver.
AwaitsOpen ==
  \/ at[FsTask] = "opened?" /\ Doing[FsTask] = Home
  \/ at[FsTask] = "opened" /\ Doing[FsTask] = Receives(HddTask)

Working == {"t", "t?", "busy", "busy?", "look", "command", "wait", "data", "reply"}

Opens ==
  \/ at[HddTask] = "switch" /\ Doing[HddTask] = Home /\ buffer[HddTask] = Mail(FsTask, "open")
  \/ at[HddTask] \in Working
  \/ at[HddTask] = "receive" /\ Doing[HddTask] = Sends(FsTask)

FsTaskOK ==
  \/ at[FsTask] \in {"open", "loop"} /\ Doing[FsTask] = Home
  \/ at[FsTask] = "opened?" /\ Doing[FsTask] = Sends(HddTask)
       /\ buffer[FsTask] = Mail(FsTask, "open")
  \/ AwaitsOpen /\ Opens
  \/ at[FsTask] = "opened" /\ Doing[FsTask] = Home
       /\ buffer[FsTask] = Mail(HddTask, "open")

\* The disk works on the command, has interrupted, or the interrupt is recorded.
Quiet == disk = "idle" /\ ~irq /\ ~have_int_msg[HddTask]
Commanded ==
  \/ disk = "busy" /\ ~irq /\ ~have_int_msg[HddTask]
  \/ disk = "idle" /\ irq /\ ~have_int_msg[HddTask]
  \/ disk = "idle" /\ ~irq /\ have_int_msg[HddTask]

HddTaskOK ==
  /\ at[HddTask] \in Working => served = FsTask /\ AwaitsOpen
  /\ \/ at[HddTask] \in {"t", "command", "reply"} /\ Doing[HddTask] = Home /\ Quiet
     \/ at[HddTask] \in {"t?", "busy", "busy?", "look"} /\ Quiet
     \/ at[HddTask] = "wait" /\ Doing[HddTask] = Home /\ Commanded
     \/ at[HddTask] = "data" /\ Doing[HddTask] = Receives(Interrupt) /\ Commanded
     \/ at[HddTask] = "data" /\ Doing[HddTask] = Home /\ Quiet
          /\ buffer[HddTask] = Mail(Interrupt, HwInt)
     \/ at[HddTask] = "switch" /\ Doing[HddTask] = Receives(AnySource) /\ Quiet
     \/ at[HddTask] = "switch" /\ Doing[HddTask] = Home /\ Quiet /\ AwaitsOpen
          /\ buffer[HddTask] = Mail(FsTask, "open")
     \/ at[HddTask] = "receive" /\ Doing[HddTask] = Home /\ Quiet
     \/ at[HddTask] = "receive" /\ Doing[HddTask] = Sends(FsTask) /\ Quiet /\ AwaitsOpen
          /\ buffer[HddTask] = Mail(HddTask, "open")

Labels ==
  {"loop", "ask", "answer", "answered", "open", "opened?", "opened", "receive", "switch"}
    \cup Working

ProgramsOK ==
  /\ at \in [Proc -> Labels]
  /\ \A q \in Clients : ClientOK(q)
  /\ SysTaskOK
  /\ \A p \in Ticker : TickerOK(p)
  /\ FsTaskOK
  /\ HddTaskOK
  /\ \A p \in Proc \ ({SysTask, FsTask} \cup Clients) : at[p] = "loop" /\ Doing[p] = Home

\* The driver is handed a message as undisturbed as anybody else.
HandOver ==
  pc \in SendPoint =>
    /\ Accepts(peer, process_ready)
    /\ pc # "send_wake" => msg[peer]
    /\ pc \in {"send_source", "send_body"} => latched
    /\ pc = "send_body" => buffer[peer].source = buffer[process_ready].source
    /\ pc \in {"send_null", "send_wake"} => buffer[peer] = buffer[process_ready]

OnlyDriverInterrupted == \A p \in Proc \ {HddTask} : ~have_int_msg[p]

SystemInv ==
  /\ IInv
  /\ OnlyDriverInterrupted
  /\ StopsOnlyInWindow
  /\ pc # "halted" => ProgramsOK /\ HandOver

--------------------------------------------------------------------------------
(* Who is who.                                                                *)

LEMMA Roles ==
  /\ SysTask \in Proc /\ HddTask \in Proc /\ FsTask \in Proc /\ Ticker \subseteq Proc
  /\ SysTask # HddTask /\ SysTask # FsTask /\ HddTask # FsTask
  /\ SysTask \notin Ticker /\ HddTask \notin Ticker /\ FsTask \notin Ticker
  /\ Clients \subseteq Proc /\ HddTask \in Clients
  /\ SysTask \notin Clients /\ FsTask \notin Clients
  /\ {"open", Request, Reply} \subseteq Payload
BY ProgramsAssumption, HddTaskAssumption DEF Clients, Request, Reply

LEMMA Calls ==
  /\ \A d : Sends(d) # Home /\ Receives(d) # Home
  /\ \A d, e : /\ Sends(d) # Receives(e)
               /\ Sends(d) = Sends(e) => d = e
               /\ Receives(d) = Receives(e) => d = e
BY DEF Sends, Receives, Home

LEMMA Mails ==
  /\ \A s, b, t, c : Mail(s, b) = Mail(t, c) => s = t /\ b = c
  /\ \A s, b : Mail(s, b).source = s /\ Mail(s, b).body = b
BY DEF Mail

--------------------------------------------------------------------------------
(* What a step leaves alone.                                                  *)

\* p goes on with what it is doing.  What a receiver's buffer holds is nothing yet.
Same(p) ==
  /\ at'[p] = at[p] /\ Doing'[p] = Doing[p]
  /\ (\A s : Doing[p] # Receives(s)) => buffer'[p] = buffer[p]

SameDisk == UNCHANGED <<served, disk, irq, have_int_msg[HddTask]>>

LEMMA AwaitingStays ==
  ASSUME NEW q, AwaitsTicks(q), Same(q)
  PROVE  AwaitsTicks(q)'
BY DEF AwaitsTicks, Same

LEMMA ServingStays ==
  ASSUME NEW q, Serves(q), Same(SysTask)
  PROVE  Serves(q)'
BY Calls DEF Serves, Same

LEMMA ClientStays ==
  ASSUME NEW q, ClientOK(q), Same(q), Serves(q) => Serves(q)'
  PROVE  ClientOK(q)'
BY Calls DEF ClientOK, Same

\* sys_task's part, if it and the client it serves go on.
LEMMA SysTaskStays ==
  ASSUME SysTaskOK, Same(SysTask), \A q \in Clients : AwaitsTicks(q) => AwaitsTicks(q)'
  PROVE  SysTaskOK'
<1>1. /\ at'[SysTask] = at[SysTask] /\ Doing'[SysTask] = Doing[SysTask]
      /\ (\A s : Doing[SysTask] # Receives(s)) => buffer'[SysTask] = buffer[SysTask]
  BY DEF Same
<1>2. CASE at[SysTask] = "receive" /\ Doing[SysTask] = Home
  BY <1>1, <1>2 DEF SysTaskOK
<1>3. CASE at[SysTask] = "switch" /\ Doing[SysTask] = Receives(AnySource)
  BY <1>1, <1>3 DEF SysTaskOK
<1>4. CASE /\ at[SysTask] = "receive" /\ buffer[SysTask] = Mail(SysTask, Reply)
           /\ \E q \in Clients : Doing[SysTask] = Sends(q) /\ AwaitsTicks(q)
  <2>1. PICK q \in Clients : Doing[SysTask] = Sends(q) /\ AwaitsTicks(q)
    BY <1>4
  <2>2. buffer'[SysTask] = buffer[SysTask] /\ AwaitsTicks(q)'
    BY <1>1, <2>1, Calls
  <2> QED
    BY <1>1, <1>4, <2>1, <2>2 DEF SysTaskOK
<1>5. CASE /\ at[SysTask] = "switch" /\ Doing[SysTask] = Home
           /\ \E q \in Clients : buffer[SysTask] = Mail(q, Request) /\ AwaitsTicks(q)
  <2>1. PICK q \in Clients : buffer[SysTask] = Mail(q, Request) /\ AwaitsTicks(q)
    BY <1>5
  <2>2. buffer'[SysTask] = buffer[SysTask] /\ AwaitsTicks(q)'
    BY <1>1, <1>5, <2>1, Calls
  <2> QED
    BY <1>1, <1>5, <2>1, <2>2 DEF SysTaskOK
<1> QED
  BY <1>2, <1>3, <1>4, <1>5 DEF SysTaskOK

LEMMA FsTaskStays ==
  ASSUME FsTaskOK, Same(FsTask), Opens => Opens'
  PROVE  FsTaskOK'
BY Calls DEF FsTaskOK, AwaitsOpen, Same

LEMMA HddTaskStays ==
  ASSUME HddTaskOK, Same(HddTask), SameDisk, AwaitsOpen => AwaitsOpen'
  PROVE  HddTaskOK'
<1>1. /\ served' = served /\ Quiet' = Quiet /\ Commanded' = Commanded
  BY DEF SameDisk, Quiet, Commanded
<1>2. at'[HddTask] = at[HddTask] /\ Doing'[HddTask] = Doing[HddTask]
  BY DEF Same
<1>3. (\A s : Doing[HddTask] # Receives(s)) => buffer'[HddTask] = buffer[HddTask]
  BY DEF Same
<1> QED
  BY <1>1, <1>2, <1>3, Calls DEF HddTaskOK

LEMMA OpeningStays ==
  ASSUME Opens, Same(HddTask)
  PROVE  Opens'
BY Calls DEF Opens, Same

LEMMA OpenAwaitedStays ==
  ASSUME AwaitsOpen, Same(FsTask)
  PROVE  AwaitsOpen'
BY DEF AwaitsOpen, Same

TickersOK == \A p \in Ticker : TickerOK(p)
IdlersOK == \A p \in Proc \ ({SysTask, FsTask} \cup Clients) : at[p] = "loop" /\ Doing[p] = Home

\* Everybody who goes on keeps his part.
LEMMA NobodyMoves ==
  ASSUME ProgramsOK, \A p \in Proc : Same(p), SameDisk, at' \in [Proc -> Labels]
  PROVE  ProgramsOK'
<1>1. \A q \in Clients : ClientOK(q)'
  BY Roles, ClientStays, ServingStays DEF ProgramsOK
<1>2. SysTaskOK'
  BY Roles, SysTaskStays, AwaitingStays DEF ProgramsOK
<1>3. \A p \in Ticker : TickerOK(p)'
  BY Roles DEF ProgramsOK, TickerOK, Same
<1>4. FsTaskOK' /\ HddTaskOK'
  BY Roles, FsTaskStays, HddTaskStays, OpeningStays, OpenAwaitedStays DEF ProgramsOK
<1>5. \A p \in Proc \ ({SysTask, FsTask} \cup Clients) : at'[p] = "loop" /\ Doing'[p] = Home
  BY DEF ProgramsOK, Same
<1> QED
  BY <1>1, <1>2, <1>3, <1>4, <1>5 DEF ProgramsOK

--------------------------------------------------------------------------------
(* What a step moves.                                                         *)

Programs == {SysTask, FsTask} \cup Clients

\* If only the processes of M move, this is what has to be seen to.
LEMMA OnlyMove ==
  ASSUME ProgramsOK, at' \in [Proc -> Labels],
         NEW M \in SUBSET Programs, \A p \in Proc \ M : Same(p),
         \A q \in Clients : q \in M => ClientOK(q)',
         \A q \in Clients : q \notin M => (Serves(q) => Serves(q)'),
         \A p \in Ticker : p \in M => TickerOK(p)',
         SysTask \in M => SysTaskOK',
         SysTask \notin M => \A q \in Clients : q \in M => (AwaitsTicks(q) => AwaitsTicks(q)'),
         FsTask \in M => FsTaskOK',
         FsTask \notin M /\ HddTask \in M => (Opens => Opens'),
         HddTask \in M => HddTaskOK',
         HddTask \notin M => SameDisk /\ (FsTask \in M => (AwaitsOpen => AwaitsOpen'))
  PROVE  ProgramsOK'
<1>1. \A q \in Clients : ClientOK(q)'
  <2> SUFFICES ASSUME NEW q \in Clients PROVE ClientOK(q)'
    OBVIOUS
  <2>1. CASE q \in M
    BY <2>1
  <2>2. CASE q \notin M
    <3>1. ClientOK(q) /\ Same(q)
      BY <2>2, Roles DEF ProgramsOK
    <3> QED
      BY <2>2, <3>1, ClientStays
  <2> QED
    BY <2>1, <2>2
<1>2. SysTaskOK'
  <2>1. CASE SysTask \notin M
    <3>1. SysTaskOK /\ Same(SysTask)
      BY <2>1, Roles DEF ProgramsOK
    <3>2. \A q \in Clients : AwaitsTicks(q) => AwaitsTicks(q)'
      BY <2>1, Roles, AwaitingStays
    <3> QED
      BY <3>1, <3>2, SysTaskStays
  <2> QED
    BY <2>1
<1>3. \A p \in Ticker : TickerOK(p)'
  BY Roles DEF ProgramsOK, TickerOK, Same
<1>4. FsTaskOK'
  <2>1. CASE FsTask \notin M
    <3>1. FsTaskOK /\ Same(FsTask)
      BY <2>1, Roles DEF ProgramsOK
    <3>2. Opens => Opens'
      BY <2>1, Roles, OpeningStays
    <3> QED
      BY <3>1, <3>2, FsTaskStays
  <2> QED
    BY <2>1
<1>5. HddTaskOK'
  <2>1. CASE HddTask \notin M
    <3>1. HddTaskOK /\ Same(HddTask) /\ SameDisk
      BY <2>1, Roles DEF ProgramsOK
    <3>2. AwaitsOpen => AwaitsOpen'
      BY <2>1, Roles, OpenAwaitedStays
    <3> QED
      BY <3>1, <3>2, HddTaskStays
  <2> QED
    BY <2>1
<1>6. \A p \in Proc \ ({SysTask, FsTask} \cup Clients) : at'[p] = "loop" /\ Doing'[p] = Home
  <2> SUFFICES ASSUME NEW p \in Proc \ ({SysTask, FsTask} \cup Clients)
               PROVE  at'[p] = "loop" /\ Doing'[p] = Home
    OBVIOUS
  <2>1. Same(p)
    BY DEF Programs
  <2> QED
    BY <2>1 DEF ProgramsOK, Same
<1> QED
  BY <1>1, <1>2, <1>3, <1>4, <1>5, <1>6 DEF ProgramsOK

\* p moves on to the label next, and is doing what then.
Moved(p, label, what) ==
  /\ at' = [at EXCEPT ![p] = label]
  /\ Doing'[p] = what
  /\ \A o \in Proc \ {p} : Doing'[o] = Doing[o] /\ buffer'[o] = buffer[o]

LEMMA MovedFacts ==
  ASSUME at \in [Proc -> Labels], NEW p \in Proc, NEW label \in Labels, NEW what,
         Moved(p, label, what)
  PROVE  /\ at' \in [Proc -> Labels] /\ at'[p] = label
         /\ \A o \in Proc \ {p} : Same(o)
BY DEF Moved, Same


\* One of them moves alone.
LEMMA TickerMoves ==
  ASSUME ProgramsOK, at' \in [Proc -> Labels], SameDisk,
         NEW p \in Ticker, \A o \in Proc \ {p} : Same(o),
         ClientOK(p)', TickerOK(p)', AwaitsTicks(p) => AwaitsTicks(p)'
  PROVE  ProgramsOK'
<1> DEFINE M == {p}
<1>1. M \in SUBSET Programs /\ HddTask \notin M /\ FsTask \notin M /\ SysTask \notin M
  BY Roles DEF Programs, Clients
<1>2. \A o \in Proc \ M : Same(o)
  OBVIOUS
<1>3. \A q \in Clients : q \in M => ClientOK(q)' /\ (AwaitsTicks(q) => AwaitsTicks(q)')
  OBVIOUS
<1>4. \A q \in Ticker : q \in M => TickerOK(q)'
  OBVIOUS
<1>5. \A q \in Clients : Serves(q) => Serves(q)'
  BY <1>1, <1>2, Roles, ServingStays
<1> HIDE DEF M
<1> QED
  BY <1>1, <1>2, <1>3, <1>4, <1>5, OnlyMove

LEMMA FsTaskMoves ==
  ASSUME ProgramsOK, at' \in [Proc -> Labels], SameDisk,
         \A o \in Proc \ {FsTask} : Same(o),
         FsTaskOK', AwaitsOpen => AwaitsOpen'
  PROVE  ProgramsOK'
<1> DEFINE M == {FsTask}
<1>1. M \in SUBSET Programs /\ HddTask \notin M /\ FsTask \in M /\ SysTask \notin M
  BY Roles DEF Programs
<1>2. \A o \in Proc \ M : Same(o)
  OBVIOUS
<1>3. \A q \in Clients : q \notin M
  BY Roles
<1>4. \A q \in Ticker : q \notin M
  BY Roles
<1>5. \A q \in Clients : Serves(q) => Serves(q)'
  BY <1>1, <1>2, Roles, ServingStays
<1> HIDE DEF M
<1> QED
  BY <1>1, <1>2, <1>3, <1>4, <1>5, OnlyMove

LEMMA HddTaskMoves ==
  ASSUME ProgramsOK, at' \in [Proc -> Labels],
         \A o \in Proc \ {HddTask} : Same(o),
         ClientOK(HddTask)', HddTaskOK', Opens => Opens',
         AwaitsTicks(HddTask) => AwaitsTicks(HddTask)'
  PROVE  ProgramsOK'
<1> DEFINE M == {HddTask}
<1>1. M \in SUBSET Programs /\ HddTask \in M /\ FsTask \notin M /\ SysTask \notin M
  BY Roles DEF Programs
<1>2. \A o \in Proc \ M : Same(o)
  OBVIOUS
<1>3. \A q \in Clients : q \in M => ClientOK(q)' /\ (AwaitsTicks(q) => AwaitsTicks(q)')
  OBVIOUS
<1>4. \A q \in Ticker : q \notin M
  BY Roles
<1>5. \A q \in Clients : Serves(q) => Serves(q)'
  BY <1>1, <1>2, Roles, ServingStays
<1> HIDE DEF M
<1> QED
  BY <1>1, <1>2, <1>3, <1>4, <1>5, OnlyMove

LEMMA SysTaskMoves ==
  ASSUME ProgramsOK, at' \in [Proc -> Labels], SameDisk,
         \A o \in Proc \ {SysTask} : Same(o),
         SysTaskOK', \A q \in Clients : Serves(q) => Serves(q)'
  PROVE  ProgramsOK'
<1> DEFINE M == {SysTask}
<1>1. M \in SUBSET Programs /\ HddTask \notin M /\ FsTask \notin M /\ SysTask \in M
  BY Roles DEF Programs
<1>2. \A o \in Proc \ M : Same(o)
  OBVIOUS
<1>3. \A q \in Clients : q \notin M
  BY Roles
<1>4. \A q \in Ticker : q \notin M
  BY Roles
<1> HIDE DEF M
<1> QED
  BY <1>1, <1>2, <1>3, <1>4, OnlyMove

--------------------------------------------------------------------------------
(* Who asks for the ticks.                                                    *)

\* Of whoever can ask, none waits for an answer already.
LEMMA AskerIsFree ==
  ASSUME NEW q, at[q] \in {"ask", "t", "busy"}, Doing[q] = Home
  PROVE  ~AwaitsTicks(q)
BY Calls DEF AwaitsTicks, Asking, Getting

\* A ticker, or the driver, asks sys_task.
LEMMA TickerAsks ==
  ASSUME ProgramsOK, SameDisk, NEW p \in Ticker, at[p] = "ask", Doing[p] = Home,
         Moved(p, "answer", Sends(SysTask)), buffer'[p] = Mail(p, Request)
  PROVE  ProgramsOK'
<1>1. at' \in [Proc -> Labels] /\ at'[p] = "answer" /\ \A o \in Proc \ {p} : Same(o)
  BY Roles, MovedFacts DEF ProgramsOK, Labels
<1>2. Doing'[p] = Sends(SysTask)
  BY DEF Moved
<1>3. ClientOK(p)' /\ TickerOK(p)'
  BY <1>1, <1>2 DEF ClientOK, TickerOK, Asking, Getting
<1>4. ~AwaitsTicks(p)
  BY AskerIsFree
<1> QED
  BY <1>1, <1>3, <1>4, TickerMoves

LEMMA DriverAsks ==
  ASSUME ProgramsOK, SameDisk, Doing[HddTask] = Home, NEW label,
         <<at[HddTask], label>> \in {<<"t", "t?">>, <<"busy", "busy?">>},
         Moved(HddTask, label, Sends(SysTask)), buffer'[HddTask] = Mail(HddTask, Request)
  PROVE  ProgramsOK'
<1>0. /\ at[HddTask] \in {"t", "busy"} /\ label \in {"t?", "busy?"}
  OBVIOUS
<1>1. at' \in [Proc -> Labels] /\ at'[HddTask] = label /\ \A o \in Proc \ {HddTask} : Same(o)
  BY <1>0, Roles, MovedFacts DEF ProgramsOK, Labels, Working
<1>2. Doing'[HddTask] = Sends(SysTask)
  BY DEF Moved
<1>3. ClientOK(HddTask)'
  BY <1>0, <1>1, <1>2 DEF ClientOK, Asking, Getting
<1>4. ~AwaitsTicks(HddTask)
  BY <1>0, AskerIsFree
<1>5. Opens'
  BY <1>0, <1>1 DEF Opens, Working
<1>6. Quiet /\ served = FsTask /\ AwaitsOpen
  BY <1>0 DEF ProgramsOK, HddTaskOK, Working
<1>7. Quiet' /\ served' = FsTask
  BY <1>6 DEF Quiet, SameDisk
<1>8. AwaitsOpen'
  BY <1>1, <1>6, Roles, OpenAwaitedStays
<1>9. HddTaskOK'
  BY <1>0, <1>1, <1>7, <1>8 DEF HddTaskOK
<1> QED
  BY <1>1, <1>3, <1>4, <1>5, <1>9, HddTaskMoves

\* It asks, and then waits for the answer.
LEMMA TickerAwaits ==
  ASSUME ProgramsOK, SameDisk, NEW p \in Ticker, at[p] = "answer", Doing[p] = Home,
         Moved(p, "answered", Receives(SysTask))
  PROVE  ProgramsOK'
<1>1. at' \in [Proc -> Labels] /\ at'[p] = "answered" /\ \A o \in Proc \ {p} : Same(o)
  BY Roles, MovedFacts DEF ProgramsOK, Labels
<1>2. Doing'[p] = Receives(SysTask)
  BY DEF Moved
<1>3. Serves(p)
  BY Calls, Roles DEF ProgramsOK, ClientOK, Asking, Clients
<1>4. Serves(p)'
  BY <1>1, <1>3, Roles, ServingStays
<1>5. ClientOK(p)' /\ TickerOK(p)' /\ AwaitsTicks(p)'
  BY <1>1, <1>2, <1>4 DEF ClientOK, TickerOK, AwaitsTicks, Asking, Getting
<1> QED
  BY <1>1, <1>5, TickerMoves

LEMMA DriverAwaits ==
  ASSUME ProgramsOK, SameDisk, Doing[HddTask] = Home, NEW label,
         <<at[HddTask], label>> \in {<<"t?", "busy">>, <<"busy?", "look">>},
         Moved(HddTask, label, Receives(SysTask))
  PROVE  ProgramsOK'
<1>0. /\ at[HddTask] \in {"t?", "busy?"} /\ label \in {"busy", "look"}
  OBVIOUS
<1>1. at' \in [Proc -> Labels] /\ at'[HddTask] = label /\ \A o \in Proc \ {HddTask} : Same(o)
  BY <1>0, Roles, MovedFacts DEF ProgramsOK, Labels, Working
<1>2. Doing'[HddTask] = Receives(SysTask)
  BY DEF Moved
<1>3. Serves(HddTask)
  BY <1>0, Calls, Roles DEF ProgramsOK, ClientOK, Asking
<1>4. Serves(HddTask)'
  BY <1>1, <1>3, Roles, ServingStays
<1>5. ClientOK(HddTask)' /\ AwaitsTicks(HddTask)'
  BY <1>0, <1>1, <1>2, <1>4 DEF ClientOK, AwaitsTicks, Asking, Getting
<1>6. Opens'
  BY <1>0, <1>1 DEF Opens, Working
<1>7. Quiet /\ served = FsTask /\ AwaitsOpen
  BY <1>0 DEF ProgramsOK, HddTaskOK, Working
<1>8. Quiet' /\ served' = FsTask
  BY <1>7 DEF Quiet, SameDisk
<1>9. AwaitsOpen'
  BY <1>1, <1>7, Roles, OpenAwaitedStays
<1>10. HddTaskOK'
  BY <1>0, <1>1, <1>8, <1>9 DEF HddTaskOK
<1> QED
  BY <1>1, <1>5, <1>6, <1>10, HddTaskMoves

--------------------------------------------------------------------------------
(* sys_task.                                                                  *)

LEMMA SysTaskReceives ==
  ASSUME ProgramsOK, SameDisk, at[SysTask] = "receive", Doing[SysTask] = Home,
         Moved(SysTask, "switch", Receives(AnySource))
  PROVE  ProgramsOK'
<1>1. at' \in [Proc -> Labels] /\ at'[SysTask] = "switch" /\ \A o \in Proc \ {SysTask} : Same(o)
  BY Roles, MovedFacts DEF ProgramsOK, Labels
<1>2. SysTaskOK'
  BY <1>1 DEF SysTaskOK, Moved
<1>3. \A q \in Clients : ~Serves(q)
  BY Calls DEF Serves
<1> QED
  BY <1>1, <1>2, <1>3, SysTaskMoves

\* It has a request, of somebody who waits for the answer.
LEMMA RequestTaken ==
  ASSUME ProgramsOK, at[SysTask] = "switch", Doing[SysTask] = Home
  PROVE  \E q \in Clients : buffer[SysTask] = Mail(q, Request) /\ AwaitsTicks(q)
BY Calls DEF ProgramsOK, SysTaskOK

LEMMA SysTaskAnswers ==
  ASSUME ProgramsOK, SameDisk, at[SysTask] = "switch", Doing[SysTask] = Home,
         Moved(SysTask, "receive", Sends(buffer[SysTask].source)),
         buffer'[SysTask] = Mail(SysTask, Reply)
  PROVE  ProgramsOK'
<1>1. at' \in [Proc -> Labels] /\ at'[SysTask] = "receive" /\ \A o \in Proc \ {SysTask} : Same(o)
  BY Roles, MovedFacts DEF ProgramsOK, Labels
<1>2. PICK q \in Clients : buffer[SysTask] = Mail(q, Request) /\ AwaitsTicks(q)
  BY RequestTaken
<1>3. Doing'[SysTask] = Sends(q)
  BY <1>2, Mails DEF Moved
<1>4. AwaitsTicks(q)'
  BY <1>1, <1>2, Roles, AwaitingStays
<1>5. SysTaskOK'
  BY <1>1, <1>3, <1>4 DEF SysTaskOK
<1>6. \A o \in Clients : Serves(o) => Serves(o)'
  BY <1>1, <1>2, <1>3, Mails DEF Serves
<1> QED
  BY <1>1, <1>5, <1>6, SysTaskMoves

--------------------------------------------------------------------------------
(* fs_task.                                                                   *)

LEMMA FsTaskOpens ==
  ASSUME ProgramsOK, SameDisk, at[FsTask] = "open", Doing[FsTask] = Home,
         Moved(FsTask, "opened?", Sends(HddTask)), buffer'[FsTask] = Mail(FsTask, "open")
  PROVE  ProgramsOK'
<1>1. at' \in [Proc -> Labels] /\ at'[FsTask] = "opened?" /\ \A o \in Proc \ {FsTask} : Same(o)
  BY Roles, MovedFacts DEF ProgramsOK, Labels
<1>2. FsTaskOK'
  BY <1>1 DEF FsTaskOK, Moved
<1>3. ~AwaitsOpen
  BY DEF AwaitsOpen
<1> QED
  BY <1>1, <1>2, <1>3, FsTaskMoves

LEMMA FsTaskAwaits ==
  ASSUME ProgramsOK, SameDisk, at[FsTask] = "opened?", Doing[FsTask] = Home,
         Moved(FsTask, "opened", Receives(HddTask))
  PROVE  ProgramsOK'
<1>1. at' \in [Proc -> Labels] /\ at'[FsTask] = "opened" /\ \A o \in Proc \ {FsTask} : Same(o)
  BY Roles, MovedFacts DEF ProgramsOK, Labels
<1>2. Opens
  BY Calls DEF ProgramsOK, FsTaskOK
<1>3. Opens'
  BY <1>1, <1>2, Roles, OpeningStays
<1>4. AwaitsOpen'
  BY <1>1 DEF AwaitsOpen, Moved
<1>5. FsTaskOK'
  BY <1>3, <1>4 DEF FsTaskOK
<1> QED
  BY <1>1, <1>4, <1>5, FsTaskMoves

\* What it does between two calls in memory of its own.
LEMMA FsTaskEnds ==
  ASSUME ProgramsOK, SameDisk, at[FsTask] = "opened", Doing[FsTask] = Home,
         Moved(FsTask, "loop", Home)
  PROVE  ProgramsOK'
<1>1. at' \in [Proc -> Labels] /\ at'[FsTask] = "loop" /\ \A o \in Proc \ {FsTask} : Same(o)
  BY Roles, MovedFacts DEF ProgramsOK, Labels
<1>2. FsTaskOK'
  BY <1>1 DEF FsTaskOK, Moved
<1>3. ~AwaitsOpen
  BY Calls DEF AwaitsOpen
<1> QED
  BY <1>1, <1>2, <1>3, FsTaskMoves

LEMMA TickerGoesOn ==
  ASSUME ProgramsOK, SameDisk, NEW p \in Ticker, at[p] = "answered", Doing[p] = Home,
         Moved(p, "ask", Home)
  PROVE  ProgramsOK'
<1>1. at' \in [Proc -> Labels] /\ at'[p] = "ask" /\ \A o \in Proc \ {p} : Same(o)
  BY Roles, MovedFacts DEF ProgramsOK, Labels
<1>2. ClientOK(p)' /\ TickerOK(p)'
  BY <1>1 DEF ClientOK, TickerOK, Moved, Asking, Getting
<1>3. ~AwaitsTicks(p)
  BY Calls DEF AwaitsTicks, Asking, Getting
<1> QED
  BY <1>1, <1>2, <1>3, TickerMoves

--------------------------------------------------------------------------------
(* hdd_task.                                                                  *)

\* The driver does something else than asking for the ticks.
LEMMA DriverMoves ==
  ASSUME ProgramsOK, NEW label \in Labels, NEW what, Moved(HddTask, label, what),
         Doing[HddTask] = Home, at[HddTask] \notin Asking, label \notin Asking \cup Getting,
         HddTaskOK', Opens => Opens'
  PROVE  ProgramsOK'
<1>1. at' \in [Proc -> Labels] /\ at'[HddTask] = label /\ \A o \in Proc \ {HddTask} : Same(o)
  BY Roles, MovedFacts DEF ProgramsOK
<1>2. ClientOK(HddTask)'
  BY <1>1 DEF ClientOK, Asking, Getting
<1>3. ~AwaitsTicks(HddTask)
  BY Calls DEF AwaitsTicks, Asking, Getting
<1> QED
  BY <1>1, <1>2, <1>3, HddTaskMoves

LEMMA DriverReceives ==
  ASSUME ProgramsOK, SameDisk, at[HddTask] = "receive", Doing[HddTask] = Home,
         Moved(HddTask, "switch", Receives(AnySource))
  PROVE  ProgramsOK'
<1>1. Quiet
  BY Calls DEF ProgramsOK, HddTaskOK
<1>2. Quiet'
  BY <1>1 DEF Quiet, SameDisk
<1>3. at'[HddTask] = "switch" /\ Doing'[HddTask] = Receives(AnySource)
  BY Roles DEF ProgramsOK, Moved
<1>4. HddTaskOK'
  BY <1>2, <1>3 DEF HddTaskOK, Working
<1>5. ~Opens
  BY Calls DEF Opens, Working
<1> QED
  BY <1>4, <1>5, DriverMoves DEF Labels, Asking, Getting

\* The request it has is fs_task's open.
LEMMA OpenTaken ==
  ASSUME ProgramsOK, at[HddTask] = "switch", Doing[HddTask] = Home
  PROVE  Quiet /\ AwaitsOpen /\ buffer[HddTask] = Mail(FsTask, "open")
BY Calls DEF ProgramsOK, HddTaskOK

LEMMA DriverSwitches ==
  ASSUME ProgramsOK, UNCHANGED <<disk, irq, have_int_msg[HddTask]>>,
         at[HddTask] = "switch", Doing[HddTask] = Home,
         served' = buffer[HddTask].source, Moved(HddTask, "t", Home)
  PROVE  ProgramsOK'
<1>1. Quiet /\ AwaitsOpen /\ served' = FsTask
  BY OpenTaken, Mails
<1>2. Quiet'
  BY <1>1 DEF Quiet
<1>3. at'[HddTask] = "t" /\ Doing'[HddTask] = Home /\ Same(FsTask)
  BY Roles, MovedFacts DEF ProgramsOK, Moved, Labels, Working
<1>4. AwaitsOpen'
  BY <1>1, <1>3, OpenAwaitedStays
<1>5. HddTaskOK'
  BY <1>1, <1>2, <1>3, <1>4 DEF HddTaskOK
<1>6. Opens'
  BY <1>3 DEF Opens, Working
<1> QED
  BY <1>5, <1>6, DriverMoves DEF Labels, Asking, Getting, Working

\* At work it goes from one step to the next while fs_task waits.
LEMMA DriverWorks ==
  ASSUME ProgramsOK, served' = served, at[HddTask] \in Working \ Asking, Doing[HddTask] = Home,
         NEW label \in Working \ (Asking \cup Getting), NEW what, Moved(HddTask, label, what),
         \/ label \in {"t", "command", "reply"} /\ what = Home /\ Quiet'
         \/ label = "wait" /\ what = Home /\ Commanded'
         \/ label = "data" /\ what = Receives(Interrupt) /\ Commanded'
         \/ label = "data" /\ what = Home /\ Quiet' /\ buffer'[HddTask] = Mail(Interrupt, HwInt)
  PROVE  ProgramsOK'
<1>1. served' = FsTask /\ AwaitsOpen
  BY DEF ProgramsOK, HddTaskOK
<1>2. label \in Labels
  BY DEF Labels
<1>3. at'[HddTask] = label /\ Doing'[HddTask] = what /\ Same(FsTask)
  BY <1>2, Roles, MovedFacts DEF ProgramsOK, Moved
<1>4. AwaitsOpen'
  BY <1>1, <1>3, OpenAwaitedStays
<1>5. HddTaskOK'
  BY <1>1, <1>3, <1>4 DEF HddTaskOK
<1>6. Opens'
  BY <1>3 DEF Opens
<1> QED
  BY <1>2, <1>5, <1>6, DriverMoves

LEMMA DriverReplies ==
  ASSUME ProgramsOK, SameDisk, at[HddTask] = "reply", Doing[HddTask] = Home,
         Moved(HddTask, "receive", Sends(FsTask)), buffer'[HddTask] = Mail(HddTask, "open")
  PROVE  ProgramsOK'
<1>1. Quiet /\ AwaitsOpen
  BY DEF ProgramsOK, HddTaskOK, Working
<1>2. Quiet'
  BY <1>1 DEF Quiet, SameDisk
<1>3. at'[HddTask] = "receive" /\ Doing'[HddTask] = Sends(FsTask) /\ Same(FsTask)
  BY Roles, MovedFacts DEF ProgramsOK, Moved, Labels
<1>4. AwaitsOpen'
  BY <1>1, <1>3, OpenAwaitedStays
<1>5. HddTaskOK'
  BY <1>2, <1>3, <1>4 DEF HddTaskOK, Working
<1>6. Opens'
  BY <1>3 DEF Opens
<1> QED
  BY <1>5, <1>6, DriverMoves DEF Labels, Asking, Getting

--------------------------------------------------------------------------------
(* A message goes from s to d, and both are out of their calls.               *)

Handed(s, d) ==
  /\ Doing[s] = Sends(d) /\ Doing[d] \in {Receives(s), Receives(AnySource)}
  /\ Doing'[s] = Home /\ Doing'[d] = Home
  /\ buffer'[s] = buffer[s] /\ buffer'[d] = buffer[s]
  /\ \A o \in Proc \ {s, d} : Doing'[o] = Doing[o] /\ buffer'[o] = buffer[o]
  /\ at' = at

\* There are four ways a message can go.
LEMMA Ways ==
  ASSUME ProgramsOK, NEW s \in Proc, NEW d \in Proc, Doing[s] = Sends(d)
  PROVE  \/ /\ s \in Clients /\ d = SysTask
            /\ at[s] \in Asking /\ buffer[s] = Mail(s, Request)
         \/ /\ s = SysTask /\ d \in Clients
            /\ at[s] = "receive" /\ AwaitsTicks(d) /\ buffer[s] = Mail(SysTask, Reply)
         \/ /\ s = FsTask /\ d = HddTask
            /\ at[s] = "opened?" /\ buffer[s] = Mail(FsTask, "open")
         \/ /\ s = HddTask /\ d = FsTask
            /\ at[s] = "receive" /\ Quiet /\ AwaitsOpen /\ buffer[s] = Mail(HddTask, "open")
<1>1. CASE s \in Clients /\ at[s] \in Asking \cup Getting
  BY <1>1, Calls DEF ProgramsOK, ClientOK
<1>2. CASE s \in Ticker /\ at[s] \notin Asking \cup Getting
  BY <1>2, Calls DEF ProgramsOK, TickerOK, Asking, Getting
<1>3. CASE s = HddTask /\ at[s] \notin Asking \cup Getting
  BY <1>3, Calls DEF ProgramsOK, HddTaskOK, Asking, Getting
<1>4. CASE s = SysTask
  BY <1>4, Calls DEF ProgramsOK, SysTaskOK
<1>5. CASE s = FsTask
  BY <1>5, Calls DEF ProgramsOK, FsTaskOK, AwaitsOpen
<1>6. CASE s \notin Clients \cup {SysTask, FsTask}
  BY <1>6, Calls DEF ProgramsOK
<1> QED
  BY <1>1, <1>2, <1>3, <1>4, <1>5, <1>6 DEF Clients

\* What is left as it was.
LEMMA HandedFacts ==
  ASSUME ProgramsOK, NEW s \in Proc, NEW d \in Proc, Handed(s, d)
  PROVE  /\ s # d /\ at' \in [Proc -> Labels]
         /\ \A o \in Proc \ {s, d} : Same(o)
<1>1. Doing[s] # Doing[d]
  BY Calls DEF Handed
<1> QED
  BY <1>1 DEF Handed, Same, ProgramsOK

LEMMA RequestHanded ==
  ASSUME ProgramsOK, SameDisk, NEW q \in Clients, Handed(q, SysTask),
         at[q] \in Asking, buffer[q] = Mail(q, Request)
  PROVE  ProgramsOK'
<1> DEFINE M == {q, SysTask}
<1>1. /\ M \in SUBSET Programs /\ q \in Proc /\ SysTask \in Proc /\ q # SysTask
      /\ FsTask \notin M /\ SysTask \in M
  BY Roles DEF Programs
<1>2. at' \in [Proc -> Labels] /\ \A o \in Proc \ M : Same(o)
  BY <1>1, HandedFacts
<1>3. /\ at' = at /\ Doing'[q] = Home /\ Doing'[SysTask] = Home
      /\ buffer'[SysTask] = Mail(q, Request)
  BY DEF Handed
<1>4. at[SysTask] = "switch"
  BY Calls DEF ProgramsOK, SysTaskOK, Handed
<1>5. AwaitsTicks(q)' /\ Serves(q)'
  BY <1>3, <1>4 DEF AwaitsTicks, Serves
<1>6. ClientOK(q)'
  BY <1>3, <1>5 DEF ClientOK, Asking, Getting
<1>7. SysTaskOK'
  BY <1>3, <1>4, <1>5 DEF SysTaskOK
<1>8. \A o \in Clients : ~Serves(o)
  BY Calls DEF Serves, Handed
<1>9. \A p \in Ticker : p \in M => TickerOK(p)'
  <2>1. q \in Ticker => TickerOK(q)
    BY DEF ProgramsOK
  <2> QED
    BY <1>3, <2>1, Roles DEF TickerOK
<1>10. HddTask \in M => HddTaskOK' /\ (Opens => Opens')
  <2> SUFFICES ASSUME q = HddTask PROVE HddTaskOK' /\ (Opens => Opens')
    BY Roles
  <2>1. at[HddTask] \in {"t?", "busy?"} /\ at[HddTask] \in Working
    BY Roles DEF ProgramsOK, HddTaskOK, Asking, Working
  <2>2. Quiet /\ served = FsTask /\ AwaitsOpen /\ HddTask # SysTask /\ FsTask \notin M
    BY <1>1, <2>1, Roles DEF ProgramsOK, HddTaskOK
  <2>3. Quiet' /\ served' = FsTask
    BY <2>2 DEF Quiet, SameDisk
  <2>4. AwaitsOpen'
    BY <1>2, <2>2, Roles, OpenAwaitedStays
  <2> QED
    BY <1>3, <2>1, <2>3, <2>4 DEF HddTaskOK, Opens
<1>11. \A o \in Clients : o \in M => ClientOK(o)'
  BY <1>6, Roles
<1> HIDE DEF M
<1> QED
  BY <1>1, <1>2, <1>7, <1>8, <1>9, <1>10, <1>11, OnlyMove

LEMMA TicksHanded ==
  ASSUME ProgramsOK, SameDisk, NEW q \in Clients, Handed(SysTask, q),
         at[SysTask] = "receive", AwaitsTicks(q), buffer[SysTask] = Mail(SysTask, Reply)
  PROVE  ProgramsOK'
<1> DEFINE M == {SysTask, q}
<1>1. /\ M \in SUBSET Programs /\ q \in Proc /\ SysTask \in Proc /\ q # SysTask
      /\ FsTask \notin M /\ SysTask \in M
  BY Roles DEF Programs
<1>2. at' \in [Proc -> Labels] /\ \A o \in Proc \ M : Same(o)
  BY <1>1, HandedFacts
<1>3. /\ at' = at /\ Doing'[q] = Home /\ Doing'[SysTask] = Home
      /\ buffer'[q] = Mail(SysTask, Reply)
  BY DEF Handed
<1>4. at[q] \in Getting
  BY Calls DEF AwaitsTicks, Handed
<1>5. ClientOK(q)'
  BY <1>3, <1>4 DEF ClientOK, Asking, Getting
<1>6. SysTaskOK'
  BY <1>3 DEF SysTaskOK
<1>7. \A o \in Clients : o \notin M => ~Serves(o)
  BY Calls DEF Serves, Handed
<1>8. \A p \in Ticker : p \in M => TickerOK(p)'
  <2>1. q \in Ticker => TickerOK(q)
    BY DEF ProgramsOK
  <2> QED
    BY <1>3, <2>1, Roles DEF TickerOK
<1>9. HddTask \in M => HddTaskOK' /\ (Opens => Opens')
  <2> SUFFICES ASSUME q = HddTask PROVE HddTaskOK' /\ (Opens => Opens')
    BY Roles
  <2>1. at[HddTask] \in {"busy", "look"} /\ at[HddTask] \in Working
    BY <1>4, Roles DEF ProgramsOK, HddTaskOK, Getting, Working
  <2>2. Quiet /\ served = FsTask /\ AwaitsOpen /\ HddTask # SysTask /\ FsTask \notin M
    BY <1>1, <2>1, Roles DEF ProgramsOK, HddTaskOK
  <2>3. Quiet' /\ served' = FsTask
    BY <2>2 DEF Quiet, SameDisk
  <2>4. AwaitsOpen'
    BY <1>2, <2>2, Roles, OpenAwaitedStays
  <2> QED
    BY <1>3, <2>1, <2>3, <2>4 DEF HddTaskOK, Opens
<1>10. \A o \in Clients : o \in M => ClientOK(o)'
  BY <1>5, Roles
<1> HIDE DEF M
<1> QED
  BY <1>1, <1>2, <1>6, <1>7, <1>8, <1>9, <1>10, OnlyMove

LEMMA OpenHanded ==
  ASSUME ProgramsOK, SameDisk, Handed(FsTask, HddTask),
         at[FsTask] = "opened?", buffer[FsTask] = Mail(FsTask, "open")
  PROVE  ProgramsOK'
<1> DEFINE M == {FsTask, HddTask}
<1>1. M \in SUBSET Programs /\ SysTask \notin M
  BY Roles DEF Programs
<1>2. at' \in [Proc -> Labels] /\ \A o \in Proc \ M : Same(o)
  BY Roles, HandedFacts
<1>3. /\ at' = at /\ Doing'[FsTask] = Home /\ Doing'[HddTask] = Home
      /\ buffer'[HddTask] = Mail(FsTask, "open")
  BY DEF Handed
<1>4. at[HddTask] \notin Asking \cup Getting
  BY Calls, Roles, Distinct DEF ProgramsOK, ClientOK, Handed
<1>5. at[HddTask] = "switch" /\ Quiet
  BY <1>4, Calls, Roles, Distinct DEF ProgramsOK, HddTaskOK, Handed, Asking, Getting
<1>6. Quiet'
  BY <1>5 DEF Quiet, SameDisk
<1>7. AwaitsOpen' /\ Opens'
  BY <1>3, <1>5 DEF AwaitsOpen, Opens
<1>8. FsTaskOK' /\ HddTaskOK'
  BY <1>3, <1>5, <1>6, <1>7 DEF FsTaskOK, HddTaskOK, Working
<1>9. ClientOK(HddTask)' /\ ~AwaitsTicks(HddTask)
  BY <1>3, <1>5 DEF ClientOK, AwaitsTicks, Asking, Getting
<1>10. \A q \in Clients : Serves(q) => Serves(q)'
  BY <1>1, <1>2, Roles, ServingStays
<1>11. /\ \A p \in Ticker : p \notin M
       /\ \A q \in Clients : q \in M => ClientOK(q)' /\ ~AwaitsTicks(q)
       /\ HddTask \in M /\ FsTask \in M
  BY <1>9, Roles
<1> HIDE DEF M
<1> QED
  BY <1>1, <1>2, <1>8, <1>10, <1>11, OnlyMove

LEMMA OpenedHanded ==
  ASSUME ProgramsOK, SameDisk, Handed(HddTask, FsTask),
         at[HddTask] = "receive", Quiet, AwaitsOpen, buffer[HddTask] = Mail(HddTask, "open")
  PROVE  ProgramsOK'
<1> DEFINE M == {HddTask, FsTask}
<1>1. M \in SUBSET Programs /\ SysTask \notin M
  BY Roles DEF Programs
<1>2. at' \in [Proc -> Labels] /\ \A o \in Proc \ M : Same(o)
  BY Roles, HandedFacts
<1>3. /\ at' = at /\ Doing'[FsTask] = Home /\ Doing'[HddTask] = Home
      /\ buffer'[FsTask] = Mail(HddTask, "open")
  BY DEF Handed
<1>4. at[FsTask] = "opened"
  BY Calls DEF AwaitsOpen, Handed
<1>5. Quiet'
  BY DEF Quiet, SameDisk
<1>6. FsTaskOK' /\ HddTaskOK'
  BY <1>3, <1>4, <1>5 DEF FsTaskOK, HddTaskOK, Working
<1>7. ClientOK(HddTask)' /\ ~AwaitsTicks(HddTask)
  BY <1>3 DEF ClientOK, AwaitsTicks, Asking, Getting
<1>8. \A q \in Clients : Serves(q) => Serves(q)'
  BY <1>1, <1>2, Roles, ServingStays
<1>9. /\ \A p \in Ticker : p \notin M
      /\ \A q \in Clients : q \in M => ClientOK(q)' /\ ~AwaitsTicks(q)
      /\ HddTask \in M /\ FsTask \in M
  BY <1>7, Roles
<1> HIDE DEF M
<1> QED
  BY <1>1, <1>2, <1>6, <1>8, <1>9, OnlyMove

LEMMA MessageHanded ==
  ASSUME ProgramsOK, SameDisk, NEW s \in Proc, NEW d \in Proc, Handed(s, d)
  PROVE  ProgramsOK'
<1>1. Doing[s] = Sends(d)
  BY DEF Handed
<1> QED
  BY <1>1, Ways, RequestHanded, TicksHanded, OpenHanded, OpenedHanded

--------------------------------------------------------------------------------
(* The disk.                                                                  *)

\* It has done what it was told, and nobody else does anything.
\* Nobody moves but the interrupt, from the disk to the kernel or from there to the
\* driver, if that waits for one.
LEMMA InterruptMoves ==
  ASSUME ProgramsOK, at' = at, served' = served,
         \A p \in Proc \ {HddTask} : Same(p),
         at[HddTask] \in {"wait", "data"}, Doing'[HddTask] \in {Home, Doing[HddTask]},
         Doing'[HddTask] = Doing[HddTask] => Commanded',
         Doing'[HddTask] # Doing[HddTask] =>
           Quiet' /\ buffer'[HddTask] = Mail(Interrupt, HwInt),
         Commanded
  PROVE  ProgramsOK'
<1>1. AwaitsOpen /\ served' = FsTask /\ at[HddTask] \in Working
  BY DEF ProgramsOK, HddTaskOK, Working
<1>2. AwaitsOpen'
  BY <1>1, Roles, OpenAwaitedStays
<1>3. \/ at[HddTask] = "wait" /\ Doing[HddTask] = Home
      \/ at[HddTask] = "data" /\ Doing[HddTask] = Receives(Interrupt)
  BY DEF ProgramsOK, HddTaskOK, Quiet, Commanded
<1>4. HddTaskOK'
  BY <1>1, <1>2, <1>3, Calls DEF HddTaskOK
<1>5. Opens'
  BY <1>1 DEF Opens
<1>6. ClientOK(HddTask)' /\ ~AwaitsTicks(HddTask)
  BY DEF ClientOK, AwaitsTicks, Asking, Getting
<1>7. at' \in [Proc -> Labels]
  BY DEF ProgramsOK
<1> QED
  BY <1>4, <1>5, <1>6, <1>7, HddTaskMoves

\* An interrupt comes, or is still to come, only for a command.
LEMMA InterruptIsAwaited ==
  ASSUME ProgramsOK, disk = "busy" \/ irq
  PROVE  at[HddTask] \in {"wait", "data"} /\ Commanded
BY DEF ProgramsOK, HddTaskOK, Quiet

--------------------------------------------------------------------------------
(* What the kernel's steps are to the programs.                               *)

\* The call of a process blocked in it.
Blocked(p) ==
  IF "SENDING" \in flags[p] THEN Sends(send_to[p])
  ELSE IF "RECVING" \in flags[p] THEN Receives(recv_from[p])
  ELSE Home

LEMMA DoingIs ==
  ASSUME NEW p \in Proc
  PROVE  /\ process_ready # p \/ pc \notin SendPoint \cup {"recv"} => Doing[p] = Blocked(p)
         /\ process_ready = p /\ pc \in SendPoint => Doing[p] = Sends(peer)
         /\ process_ready = p /\ pc = "recv" => Doing[p] = Receives(peer)
<1>1. "recv" \notin SendPoint
  BY DEF SendPoint
<1> QED
  BY <1>1 DEF Doing, Blocked

\* Whoever runs in user mode is in no call.
LEMMA RunnerIsHome ==
  ASSUME IInv, pc = "user"
  PROVE  /\ process_ready \in Proc /\ flags[process_ready] = {}
         /\ \A p \in Proc : Doing[p] = Blocked(p)
         /\ Doing[process_ready] = Home
<1>1. process_ready \in Proc /\ flags[process_ready] = {}
  BY DEF IInv, TypeOK, CallOK
<1>2. \A p \in Proc : Doing[p] = Blocked(p)
  BY DoingIs DEF SendPoint
<1>3. Blocked(process_ready) = Home
  BY <1>1 DEF Blocked
<1> QED
  BY <1>1, <1>2, <1>3

\* A send: the caller is in its call, with its message, and whoever it meets stays.
LEMMA Sent ==
  ASSUME IInv, NEW dest \in Proc, NEW m \in Payload, NEW label,
         SendMeet(dest, m) \/ SendQueue(dest, m), Go(process_ready, label)
  PROVE  /\ Moved(process_ready, label, Sends(dest))
         /\ buffer'[process_ready] = Mail(process_ready, m)
         /\ HandOver' /\ UNCHANGED <<have_int_msg, fault>>
<1> DEFINE p == process_ready
<1>1. /\ pc = "user" /\ p \in Proc /\ flags[p] = {} /\ process_ready' = p
      /\ \A o \in Proc : Doing[o] = Blocked(o)
  BY RunnerIsHome DEF SendMeet, SendQueue, SendCall, Goto
<1>2. /\ buffer' = [buffer EXCEPT ![p] = Mail(p, m)]
      /\ buffer \in [Proc -> Message]
  BY DEF SendMeet, SendQueue, SendCall, Mail, IInv, TypeOK
<1>3. UNCHANGED <<have_int_msg, fault>>
  BY DEF SendMeet, SendQueue, Goto, procVars
<1>4. CASE SendMeet(dest, m)
  <2>1. /\ pc' = "send_assert" /\ peer' = dest /\ UNCHANGED <<flags, msg, send_to, recv_from>>
        /\ Accepts(dest, p)
    BY <1>4 DEF SendMeet, procVars
  <2>2. Doing'[p] = Sends(dest)
    BY <1>1, <2>1 DEF Doing, SendPoint
  <2>3. \A o \in Proc \ {p} : Doing'[o] = Blocked(o)
    BY <1>1, <2>1 DEF Doing, Blocked
  <2>4. msg[dest]
    BY <1>1, <2>1 DEF IInv, BlockedIsReachable, Accepts
  <2>5. HandOver'
    BY <1>1, <2>1, <2>4 DEF HandOver, Accepts
  <2> QED
    BY <1>1, <1>2, <1>3, <2>2, <2>3, <2>5 DEF Moved, Go
<1>5. CASE SendQueue(dest, m)
  <2>1. /\ pc' = "block" /\ recv_from' = recv_from
        /\ flags' = [flags EXCEPT ![p] = @ \cup {"SENDING"}]
        /\ send_to' = [send_to EXCEPT ![p] = dest]
        /\ flags \in [Proc -> SUBSET Flag] /\ send_to \in [Proc -> Proc \cup {NoTask}]
    BY <1>5 DEF SendQueue, Goto, IInv, TypeOK
  <2>2. Doing'[p] = Sends(dest)
    BY <1>1, <2>1 DEF Doing, SendPoint
  <2>3. \A o \in Proc \ {p} : Doing'[o] = Blocked(o)
    BY <1>1, <2>1 DEF Doing, Blocked
  <2>4. HandOver'
    BY <2>1 DEF HandOver, SendPoint
  <2> QED
    BY <1>1, <1>2, <1>3, <2>2, <2>3, <2>4 DEF Moved, Go
<1> QED
  BY <1>4, <1>5

\* A receive that has no interrupt to take.
LEMMA Received ==
  ASSUME IInv, NEW src, NEW m, NEW label, ReceiveProceed(src, m), Go(process_ready, label)
  PROVE  /\ Moved(process_ready, label, Receives(src))
         /\ HandOver' /\ UNCHANGED <<have_int_msg, fault>>
<1> DEFINE p == process_ready
<1>1. /\ pc = "user" /\ p \in Proc /\ flags[p] = {} /\ process_ready' = p
      /\ \A o \in Proc : Doing[o] = Blocked(o)
  BY RunnerIsHome DEF ReceiveProceed, ReceiveCall
<1>2. /\ buffer' = [buffer EXCEPT ![p] = [source |-> p, body |-> m]]
      /\ buffer \in [Proc -> Message] /\ pc' = "recv" /\ peer' = src
      /\ UNCHANGED <<flags, send_to, recv_from, have_int_msg, fault>>
  BY DEF ReceiveProceed, IInv, TypeOK, procVars
<1>3. Doing'[p] = Receives(src)
  BY <1>1, <1>2 DEF Doing, SendPoint
<1>4. \A o \in Proc \ {p} : Doing'[o] = Blocked(o)
  BY <1>1, <1>2 DEF Doing, Blocked
<1>5. HandOver'
  BY <1>2 DEF HandOver, SendPoint
<1> QED
  BY <1>1, <1>2, <1>3, <1>4, <1>5 DEF Moved, Go

\* A receive that takes the interrupt recorded.
LEMMA ReceivedInterrupt ==
  ASSUME IInv, NEW src, NEW label, ReceiveInterrupt(src), Go(process_ready, label)
  PROVE  /\ have_int_msg[process_ready] /\ Moved(process_ready, label, Home)
         /\ buffer'[process_ready] = Mail(Interrupt, HwInt)
         /\ have_int_msg' = [have_int_msg EXCEPT ![process_ready] = FALSE]
         /\ HandOver' /\ UNCHANGED fault
<1> DEFINE p == process_ready
<1>1. /\ pc = "user" /\ p \in Proc /\ flags[p] = {}
      /\ Doing[p] = Home /\ \A o \in Proc : Doing[o] = Blocked(o)
  BY RunnerIsHome DEF ReceiveInterrupt, ReceiveCall
<1>2. /\ buffer' = [buffer EXCEPT ![p] = Mail(Interrupt, HwInt)]
      /\ buffer \in [Proc -> Message]
      /\ have_int_msg' = [have_int_msg EXCEPT ![p] = FALSE]
      /\ have_int_msg[p]
      /\ UNCHANGED <<flags, send_to, recv_from, process_ready, pc, fault>>
  BY DEF ReceiveInterrupt, IntRecorded, IInv, TypeOK, callVars, Mail
<1>3. \A o \in Proc : Doing'[o] = Blocked(o)
  BY <1>1, <1>2 DEF Doing, Blocked, SendPoint
<1>4. HandOver'
  BY <1>1, <1>2 DEF HandOver, SendPoint
<1> QED
  BY <1>1, <1>2, <1>3, <1>4 DEF Moved, Go

\* A step of the program alone.
LEMMA Ran ==
  ASSUME IInv, HandOver, pc = "user", UNCHANGED vars, NEW label, Go(process_ready, label)
  PROVE  Moved(process_ready, label, Home) /\ HandOver'
<1>1. Doing' = Doing /\ HandOver' /\ buffer' = buffer
  BY DEF Doing, HandOver, Accepts, vars, procVars, callVars
<1> QED
  BY <1>1, RunnerIsHome DEF Moved, Go

--------------------------------------------------------------------------------
(* Nobody sends into a cycle.                                                 *)

LEMMA NoDeadLock ==
  ASSUME NEW p \in Proc, NEW dest \in Proc, NEW S \in SUBSET Proc, dest \in S,
         Closed(S, SendEdge), \A q \in S : SendEdge[q] # p
  PROVE  ~DeadLock(p, dest)
BY DEF DeadLock, Chain

\* The edges dead_lock follows are those of the processes that send.
LEMMA EdgesAreSends ==
  ASSUME IInv, pc = "user", NEW q \in Proc
  PROVE  /\ SendEdge[q] \in Proc => Doing[q] = Sends(SendEdge[q])
         /\ SendEdge[q] \notin Proc => SendEdge[q] = Null
<1>1. Doing[q] = Blocked(q)
  BY RunnerIsHome
<1>2. "SENDING" \in flags[q] => send_to[q] \in Proc
  BY DEF IInv, BlockedIsReachable
<1> QED
  BY <1>1, <1>2, Distinct DEF SendEdge, Blocked

\* Whoever waits for the ticks sends to nobody, and sys_task only to such a one.
LEMMA AwaitingSendsNothing ==
  ASSUME IInv, pc = "user", NEW q \in Proc, AwaitsTicks(q)
  PROVE  SendEdge[q] = Null
BY EdgesAreSends, Calls DEF AwaitsTicks

LEMMA SysTaskSendsToAwaiting ==
  ASSUME IInv, ProgramsOK, pc = "user", SendEdge[SysTask] \in Proc
  PROVE  SendEdge[SysTask] \in Clients /\ AwaitsTicks(SendEdge[SysTask])
<1>1. Doing[SysTask] = Sends(SendEdge[SysTask])
  BY Roles, EdgesAreSends
<1> QED
  BY <1>1, Roles, Calls, Ways

\* To sys_task everybody may send who awaits no ticks himself.
LEMMA NoCycleToSysTask ==
  ASSUME IInv, ProgramsOK, pc = "user", NEW p \in Proc, ~AwaitsTicks(p)
  PROVE  ~DeadLock(p, SysTask)
<1> DEFINE S == {SysTask} \cup {q \in Clients : AwaitsTicks(q)}
<1>1. S \in SUBSET Proc /\ SysTask \in S
  BY Roles
<1>2. \A q \in S : SendEdge[q] \in Proc => q = SysTask /\ SendEdge[q] \in S /\ SendEdge[q] # p
  BY <1>1, AwaitingSendsNothing, SysTaskSendsToAwaiting, Distinct
<1>3. \A q \in S : SendEdge[q] # p
  BY <1>2
<1>4. Closed(S, SendEdge)
  BY <1>2 DEF Closed
<1> QED
  BY <1>1, <1>3, <1>4, NoDeadLock

\* To somebody who sends nothing everybody may send.
LEMMA NoCycleToIdle ==
  ASSUME NEW p \in Proc, NEW dest \in Proc, SendEdge[dest] = Null
  PROVE  ~DeadLock(p, dest)
<1>1. Closed({dest}, SendEdge) /\ \A q \in {dest} : SendEdge[q] # p
  BY Distinct DEF Closed
<1> QED
  BY <1>1, NoDeadLock

\* fs_task may send to the driver until it has done so.
LEMMA NoCycleToDriver ==
  ASSUME IInv, ProgramsOK, pc = "user", ~AwaitsOpen
  PROVE  ~DeadLock(FsTask, HddTask)
<1> DEFINE S == {HddTask, SysTask} \cup {q \in Clients : AwaitsTicks(q)}
<1>1. S \in SUBSET Proc /\ HddTask \in S /\ FsTask \notin S
  BY Roles
<1>2. SendEdge[HddTask] \in Proc => SendEdge[HddTask] = SysTask
  <2> SUFFICES ASSUME SendEdge[HddTask] \in Proc PROVE SendEdge[HddTask] = SysTask
    OBVIOUS
  <2>1. Doing[HddTask] = Sends(SendEdge[HddTask])
    BY Roles, EdgesAreSends
  <2> QED
    BY <2>1, Roles, Ways
<1>3. \A q \in S : SendEdge[q] \in Proc => SendEdge[q] \in S
  BY <1>1, <1>2, AwaitingSendsNothing, SysTaskSendsToAwaiting, Distinct
<1>4. \A q \in S : SendEdge[q] # FsTask
  BY <1>1, <1>3, Roles
<1>5. Closed(S, SendEdge)
  BY <1>3 DEF Closed
<1> QED
  BY <1>1, <1>4, <1>5, Roles, NoDeadLock

LEMMA SendsMeetOrQueue ==
  ASSUME NEW dest, NEW m, SendTo(dest, m), ~DeadLock(process_ready, dest)
  PROVE  SendMeet(dest, m) \/ SendQueue(dest, m)
BY DEF SendTo, SendDeadLock

--------------------------------------------------------------------------------
(* The kernel's own steps.                                                    *)

LEMMA HandingOver ==
  ASSUME IInv, HandOver, pc \in SendPoint
  PROVE  /\ process_ready \in Proc /\ peer \in Proc /\ peer # process_ready
         /\ flags[process_ready] = {} /\ flags[peer] = {"RECVING"}
         /\ recv_from[peer] \in {process_ready, AnySource}
         /\ Doing[process_ready] = Sends(peer) /\ Doing[peer] = Receives(recv_from[peer])
<1>1. /\ process_ready \in Proc /\ peer \in Proc /\ peer # process_ready
      /\ flags[process_ready] = {} /\ flags[peer] = {"RECVING"}
      /\ recv_from[peer] \in {process_ready, AnySource}
  BY DEF IInv, TypeOK, CallOK, HandOver, Accepts
<1>2. Doing[process_ready] = Sends(peer)
  BY <1>1, DoingIs
<1>3. Doing[peer] = Blocked(peer)
  BY <1>1, DoingIs
<1> QED
  BY <1>1, <1>2, <1>3 DEF Blocked

\* Steps between which the programs are where they were.
LEMMA CopyKeeps ==
  ASSUME IInv, ProgramsOK, HandOver, UNCHANGED programVars,
         SendAssert \/ SendLatch \/ SendSource \/ SendBody \/ SendNull
  PROVE  ProgramsOK' /\ HandOver' /\ UNCHANGED <<have_int_msg, fault>>
<1>1. pc \in SendPoint /\ pc # "send_wake"
  BY DEF SendAssert, SendLatch, SendSource, SendBody, SendNull, SendPoint
<1>2. /\ process_ready \in Proc /\ peer \in Proc /\ peer # process_ready
      /\ recv_from[peer] \in {process_ready, AnySource} /\ flags[peer] = {"RECVING"}
      /\ Doing[peer] = Receives(recv_from[peer])
  BY <1>1, HandingOver
<1>3. msg[peer] /\ buffer \in [Proc -> Message] /\ msg \in [Proc -> BOOLEAN]
  BY <1>1 DEF HandOver, IInv, TypeOK
<1>4. /\ UNCHANGED <<flags, recv_from, send_to, have_int_msg, process_ready, peer, fault>>
      /\ pc' \in SendPoint
  BY <1>3 DEF SendAssert, SendLatch, SendSource, SendBody, SendNull, Goto, SendPoint,
              procVars
<1>5. Doing' = Doing
  BY <1>1, <1>4 DEF Doing
<1>6. \A o \in Proc \ {peer} : buffer'[o] = buffer[o]
  BY <1>2, <1>3 DEF SendAssert, SendLatch, SendSource, SendBody, SendNull
<1>7. at' = at /\ SameDisk
  BY <1>4 DEF programVars, SameDisk
<1>8. \A o \in Proc : Same(o)
  BY <1>2, <1>5, <1>6, <1>7 DEF Same
<1>9. ProgramsOK'
  BY <1>7, <1>8, NobodyMoves DEF ProgramsOK
<1>10. HandOver'
  <2>1. Accepts(peer, process_ready)'
    BY <1>2, <1>4 DEF Accepts
  <2>2. CASE SendAssert
    BY <1>2, <1>3, <1>4, <2>1, <2>2 DEF SendAssert, Goto, procVars, HandOver
  <2>3. CASE SendLatch
    BY <1>2, <1>3, <1>4, <2>1, <2>3 DEF SendLatch, procVars, HandOver
  <2>4. CASE SendSource
    <3>1. latched /\ pc' = "send_body" /\ UNCHANGED <<latched, msg>>
      BY <1>1, <2>4 DEF HandOver, SendSource, Goto, procVars
    <3>2. buffer' = [buffer EXCEPT ![peer].source = buffer[process_ready].source]
      BY <2>4, <3>1 DEF SendSource
    <3>3. buffer'[peer].source = buffer'[process_ready].source
      BY <1>2, <1>3, <3>2 DEF Message
    <3> QED
      BY <1>3, <1>4, <2>1, <3>1, <3>3 DEF HandOver
  <2>5. CASE SendBody
    <3>1. /\ latched /\ pc' = "send_null" /\ UNCHANGED <<latched, msg>>
          /\ buffer[peer].source = buffer[process_ready].source
      BY <1>1, <2>5 DEF HandOver, SendBody, Goto, procVars
    <3>2. buffer' = [buffer EXCEPT ![peer].body = buffer[process_ready].body]
      BY <2>5, <3>1 DEF SendBody
    <3>3. buffer'[peer] = buffer'[process_ready]
      BY <1>2, <1>3, <3>1, <3>2 DEF Message
    <3> QED
      BY <1>3, <1>4, <2>1, <3>1, <3>3 DEF HandOver
  <2>6. CASE SendNull
    <3>1. buffer[peer] = buffer[process_ready] /\ pc' = "send_wake" /\ buffer' = buffer
      BY <1>1, <2>6 DEF HandOver, SendNull, Goto
    <3> QED
      BY <1>4, <2>1, <3>1 DEF HandOver
  <2> QED
    BY <2>2, <2>3, <2>4, <2>5, <2>6
<1> QED
  BY <1>4, <1>9, <1>10

LEMMA WakeKeeps ==
  ASSUME IInv, ProgramsOK, HandOver, UNCHANGED programVars, SendWake
  PROVE  ProgramsOK' /\ HandOver' /\ UNCHANGED <<have_int_msg, fault>>
<1> DEFINE s == process_ready
           d == peer
<1>1. /\ s \in Proc /\ d \in Proc /\ d # s /\ flags[s] = {} /\ flags[d] = {"RECVING"}
      /\ recv_from[d] \in {s, AnySource}
      /\ Doing[s] = Sends(d) /\ Doing[d] = Receives(recv_from[d])
  BY HandingOver DEF SendWake, SendPoint
<1>2. flags' = [flags EXCEPT ![d] = {}] /\ flags \in [Proc -> SUBSET Flag]
  BY <1>1 DEF SendWake, FlagsWithout, IInv, TypeOK
<1>3. /\ pc' = "user" /\ process_ready' = s /\ pc = "send_wake"
      /\ recv_from' = [recv_from EXCEPT ![d] = NoTask]
      /\ UNCHANGED <<send_to, buffer, have_int_msg, fault>>
  BY <1>1, <1>2 DEF SendWake, Unblock, Dispatch, IInv, TypeOK
<1>4. Doing'[s] = Home /\ Doing'[d] = Home
  BY <1>1, <1>2, <1>3 DEF Doing, SendPoint
<1>5. \A o \in Proc \ {s, d} : Doing'[o] = Doing[o]
  BY <1>1, <1>2, <1>3 DEF Doing, SendPoint, IInv, TypeOK
<1>6. buffer[d] = buffer[s]
  BY <1>3 DEF HandOver, SendPoint
<1>7. at' = at /\ SameDisk
  BY <1>3 DEF programVars, SameDisk
<1>8. Handed(s, d)
  BY <1>1, <1>3, <1>4, <1>5, <1>6, <1>7 DEF Handed
<1>9. ProgramsOK'
  BY <1>1, <1>7, <1>8, MessageHanded
<1> QED
  BY <1>3, <1>9 DEF HandOver, SendPoint

LEMMA CollectKeeps ==
  ASSUME IInv, ProgramsOK, UNCHANGED programVars, RecvCollect
  PROVE  ProgramsOK' /\ HandOver' /\ UNCHANGED <<have_int_msg, fault>>
<1> DEFINE d == process_ready
           s == Sender(process_ready, peer)
<1>1. pc = "recv" /\ s \in BlockedOn(d) /\ current_send[d] # Null
  BY SenderIsBlocked DEF RecvCollect
<1>2. Collect(d, s)
  BY <1>1 DEF RecvCollect
<1>3. /\ d \in Proc /\ s \in Proc /\ flags[d] = {} /\ flags[s] = {"SENDING"} /\ s # d
      /\ send_to[s] = d /\ peer \in ReceiveSources(d)
  BY <1>1 DEF BlockedOn, IInv, BlockedIsReachable, CallOK, TypeOK, Flag
<1>4. flags' = [flags EXCEPT ![s] = {}] /\ flags \in [Proc -> SUBSET Flag]
  BY <1>2, <1>3 DEF Collect, FlagsWithout, IInv, TypeOK
<1>5. /\ pc' = "user" /\ process_ready' = d /\ UNCHANGED <<recv_from, have_int_msg, fault>>
      /\ send_to' = [send_to EXCEPT ![s] = NoTask]
      /\ buffer' = [buffer EXCEPT ![d] = buffer[s]] /\ buffer \in [Proc -> Message]
  BY <1>2, <1>3, <1>4 DEF Collect, Unblock, Dispatch, IInv, TypeOK
<1>6. Doing[s] = Sends(d) /\ Doing[d] = Receives(peer)
  BY <1>1, <1>3, DoingIs DEF Blocked
<1>7. peer \in {s, AnySource}
  BY <1>1, <1>3, Distinct DEF Sender
<1> HIDE DEF s, d
<1>8. Doing'[s] = Home /\ Doing'[d] = Home
  BY <1>3, <1>4, <1>5 DEF Doing, SendPoint
<1>9. \A o \in Proc \ {s, d} : Doing'[o] = Doing[o]
  BY <1>1, <1>3, <1>4, <1>5 DEF d, Doing, SendPoint, IInv, TypeOK
<1>10. at' = at /\ SameDisk
  BY <1>5 DEF programVars, SameDisk
<1>11. Handed(s, d)
  BY <1>3, <1>5, <1>6, <1>7, <1>8, <1>9, <1>10 DEF Handed
<1>12. ProgramsOK'
  BY <1>3, <1>10, <1>11, MessageHanded
<1> QED
  BY <1>5, <1>12 DEF HandOver, SendPoint

\* The receiver blocks, and processes are switched: nothing the programs could tell.
LEMMA WaitKeeps ==
  ASSUME IInv, ProgramsOK, UNCHANGED programVars,
         RecvWait \/ \E q \in Proc : Schedule(q) \/ ClockSwitch(q)
  PROVE  ProgramsOK' /\ HandOver' /\ UNCHANGED <<have_int_msg, fault>>
<1>1. UNCHANGED <<have_int_msg, buffer, fault>> /\ pc' \in {"block", "user"}
  BY DEF RecvWait, Schedule, ClockSwitch, Goto, Dispatch, procVars
<1>2. Doing' = Doing
  <2>1. CASE RecvWait
    <3>1. /\ pc = "recv" /\ pc' = "block" /\ process_ready' = process_ready
          /\ flags' = [flags EXCEPT ![process_ready] = @ \cup {"RECVING"}]
          /\ recv_from' = [recv_from EXCEPT ![process_ready] = peer]
          /\ send_to' = send_to /\ flags[process_ready] = {} /\ process_ready \in Proc
          /\ flags \in [Proc -> SUBSET Flag]
          /\ recv_from \in [Proc -> Proc \cup {AnySource, NoTask, Interrupt}]
      BY <2>1 DEF RecvWait, Goto, IInv, CallOK, TypeOK
    <3>2. \A p \in Proc : Doing'[p] = Doing[p]
      BY <3>1 DEF Doing, SendPoint
    <3> QED
      BY <3>2 DEF Doing
  <2>2. CASE \E q \in Proc : Schedule(q) \/ ClockSwitch(q)
    <3>1. pc \in {"user", "schedule"} /\ pc' = "user" /\ UNCHANGED <<flags, send_to, recv_from>>
      BY <2>2 DEF Schedule, ClockSwitch, Dispatch, procVars
    <3> QED
      BY <3>1 DEF Doing, SendPoint
  <2> QED
    BY <2>1, <2>2
<1>3. at' = at /\ SameDisk
  BY <1>1 DEF programVars, SameDisk
<1>4. \A p \in Proc : Same(p)
  BY <1>1, <1>2, <1>3 DEF Same
<1> QED
  BY <1>1, <1>3, <1>4, NobodyMoves DEF ProgramsOK, HandOver, SendPoint

\* The assertion of block is the one that can fail.
LEMMA BlockKeeps ==
  ASSUME IInv, ProgramsOK, UNCHANGED programVars, Block
  PROVE  /\ pc' # "halted" => ProgramsOK' /\ HandOver'
         /\ have_int_msg' = have_int_msg /\ fault' \in {fault, "block_flags"}
<1>1. /\ pc = "block" /\ pc' \in {"schedule", "halted"}
      /\ UNCHANGED <<flags, send_to, recv_from, have_int_msg, buffer, process_ready>>
      /\ fault' \in {fault, "block_flags"}
  BY DEF Block, Goto, Halt, procVars
<1>2. Doing' = Doing
  BY <1>1 DEF Doing, SendPoint
<1>3. at' = at /\ SameDisk
  BY <1>1 DEF programVars, SameDisk
<1>4. \A p \in Proc : Same(p)
  BY <1>1, <1>2, <1>3 DEF Same
<1> QED
  BY <1>1, <1>3, <1>4, NobodyMoves DEF ProgramsOK, HandOver, SendPoint

LEMMA KernelKeeps ==
  ASSUME IInv, ProgramsOK, HandOver, Kernel \/ \E q \in Proc : Chosen(q)
  PROVE  /\ pc' # "halted" => ProgramsOK' /\ HandOver'
         /\ have_int_msg' = have_int_msg /\ fault' \in {fault, "block_flags"}
         /\ critical' = critical
<1>1. UNCHANGED programVars
  BY DEF Kernel, Chosen
<1>2. critical' = critical
  BY <1>1 DEF programVars
<1> QED
  BY <1>1, <1>2, CopyKeeps, WakeKeeps, CollectKeeps, WaitKeeps, BlockKeeps DEF Kernel, Chosen

--------------------------------------------------------------------------------
(* The disk and its interrupt.                                                *)

LEMMA DiskDoneKeeps ==
  ASSUME ProgramsOK, HandOver, DiskDone
  PROVE  /\ ProgramsOK' /\ HandOver'
         /\ UNCHANGED <<have_int_msg, fault, critical>>
<1>1. /\ UNCHANGED <<have_int_msg, fault, critical, buffer, at, served>>
      /\ disk = "busy" /\ disk' = "idle" /\ irq' = TRUE
  BY DEF DiskDone, vars, procVars, callVars
<1>2. Doing' = Doing /\ HandOver'
  BY DEF Doing, HandOver, Accepts, DiskDone, vars, procVars, callVars
<1>3. at[HddTask] \in {"wait", "data"} /\ Commanded
  BY <1>1, InterruptIsAwaited
<1>4. Commanded'
  BY <1>1, <1>3 DEF Commanded
<1>5. \A p \in Proc : Same(p)
  BY <1>1, <1>2 DEF Same
<1> QED
  BY <1>1, <1>2, <1>3, <1>4, <1>5, InterruptMoves

\* A receiver that waits for the interrupt has its buffer with the kernel.
LEMMA DriverIsReachable ==
  ASSUME IInv, ProgramsOK, HandOver, at[HddTask] \in {"wait", "data"}, Commanded,
         "RECVING" \in flags[HddTask], recv_from[HddTask] \in {Interrupt, AnySource}
  PROVE  /\ flags[HddTask] = {"RECVING"} /\ recv_from[HddTask] = Interrupt
         /\ Doing[HddTask] = Receives(Interrupt) /\ msg[HddTask]
         /\ pc \in SendPoint => HddTask \notin {process_ready, peer}
         /\ ~ (pc = "recv" /\ process_ready = HddTask)
<1>1. flags[HddTask] = {"RECVING"}
  BY Roles DEF IInv, TypeOK, BlockedIsReachable, Flag
<1>2. ~ (process_ready = HddTask /\ pc \in SendPoint \cup {"recv"})
  BY <1>1 DEF IInv, CallOK, SendPoint
<1>3. Doing[HddTask] = Receives(recv_from[HddTask])
  BY <1>1, <1>2, Roles, DoingIs DEF Blocked
<1>4. recv_from[HddTask] = Interrupt
  BY <1>3, Calls DEF ProgramsOK, HddTaskOK, Quiet, Commanded
<1>5. pc \in SendPoint => peer # HddTask
  BY <1>4, HandingOver, Distinct
<1>6. msg[HddTask]
  BY <1>1, <1>5, Roles DEF IInv, BlockedIsReachable, SendPoint
<1> QED
  BY <1>1, <1>2, <1>3, <1>4, <1>5, <1>6

LEMMA InterruptedKeeps ==
  ASSUME IInv, ProgramsOK, HandOver, Interrupted
  PROVE  /\ pc' # "halted" => ProgramsOK' /\ HandOver'
         /\ \A p \in Proc \ {HddTask} : have_int_msg'[p] = have_int_msg[p]
         /\ UNCHANGED <<fault, critical>>
<1>1. irq /\ ~irq' /\ UNCHANGED <<at, served, disk, critical>> /\ DiskInterrupt
  BY DEF Interrupted
<1>2. at[HddTask] \in {"wait", "data"} /\ Commanded
  BY <1>1, InterruptIsAwaited
<1>3. disk = "idle" /\ ~have_int_msg[HddTask]
  BY <1>1, <1>2 DEF Commanded
<1>4. have_int_msg \in [Proc -> BOOLEAN] /\ buffer \in [Proc -> Message]
  BY DEF IInv, TypeOK
<1>5. CASE "RECVING" \in flags[HddTask] /\ recv_from[HddTask] \in {Interrupt, AnySource}
  <2>1. /\ flags[HddTask] = {"RECVING"} /\ recv_from[HddTask] = Interrupt
        /\ Doing[HddTask] = Receives(Interrupt) /\ msg[HddTask]
        /\ pc \in SendPoint => HddTask \notin {process_ready, peer}
        /\ ~ (pc = "recv" /\ process_ready = HddTask)
    BY <1>2, <1>5, DriverIsReachable
  <2>2. flags' = [flags EXCEPT ![HddTask] = {}] /\ flags \in [Proc -> SUBSET Flag]
    BY <1>1, <1>5, <2>1, Roles DEF DiskInterrupt, FlagsWithout, IInv, TypeOK
  <2>3. /\ buffer' = [buffer EXCEPT ![HddTask] = Mail(Interrupt, HwInt)]
        /\ msg' = [msg EXCEPT ![HddTask] = FALSE]
        /\ have_int_msg' = [have_int_msg EXCEPT ![HddTask] = FALSE]
        /\ recv_from' = [recv_from EXCEPT ![HddTask] = NoTask]
        /\ send_to' = send_to
    BY <1>1, <1>5, <2>1 DEF DiskInterrupt, Mail
  <2>4. UNCHANGED callVars
    BY <1>1, <1>5, <2>2, Roles DEF DiskInterrupt, Unblock
  <2>5. UNCHANGED <<process_ready, pc, peer, latched, fault>>
    BY <2>4 DEF callVars
  <2>6. Doing'[HddTask] = Home
    BY <2>1, <2>2, <2>5, Roles DEF Doing
  <2>7. \A p \in Proc \ {HddTask} : Doing'[p] = Doing[p]
    BY <2>2, <2>3, <2>5 DEF Doing, IInv, TypeOK
  <2>8. \A p \in Proc \ {HddTask} : Same(p) /\ have_int_msg'[p] = have_int_msg[p]
    BY <1>1, <1>4, <2>3, <2>7 DEF Same
  <2>9. buffer'[HddTask] = Mail(Interrupt, HwInt) /\ ~have_int_msg'[HddTask]
    BY <1>4, <2>3, Roles
  <2>10. Quiet'
    BY <1>1, <1>3, <2>9 DEF Quiet
  <2>11. Doing'[HddTask] # Doing[HddTask]
    BY <2>1, <2>6, Calls
  <2>12. ProgramsOK'
    BY <1>1, <1>2, <2>6, <2>8, <2>9, <2>10, <2>11, InterruptMoves
  <2>13. HandOver'
    <3> SUFFICES ASSUME pc \in SendPoint PROVE HandOver'
      BY <2>5 DEF HandOver
    <3>1. peer \in Proc \ {HddTask} /\ process_ready \in Proc \ {HddTask}
      BY <2>1, HandingOver
    <3>2. /\ \A p \in Proc \ {HddTask} :
               /\ flags'[p] = flags[p] /\ recv_from'[p] = recv_from[p]
               /\ msg'[p] = msg[p] /\ buffer'[p] = buffer[p]
      BY <2>2, <2>3 DEF IInv, TypeOK
    <3> QED
      BY <2>5, <3>1, <3>2 DEF HandOver, Accepts
  <2> QED
    BY <1>1, <2>5, <2>8, <2>12, <2>13
<1>6. CASE ~ ("RECVING" \in flags[HddTask] /\ recv_from[HddTask] \in {Interrupt, AnySource})
  <2>1. /\ have_int_msg' = [have_int_msg EXCEPT ![HddTask] = TRUE]
        /\ UNCHANGED <<flags, msg, recv_from, send_to, buffer, callVars>>
    BY <1>1, <1>6 DEF DiskInterrupt
  <2>2. Doing' = Doing /\ HandOver'
    BY <2>1 DEF Doing, HandOver, Accepts, callVars
  <2>3. have_int_msg'[HddTask] /\ \A p \in Proc \ {HddTask} : have_int_msg'[p] = have_int_msg[p]
    BY <1>4, <2>1, Roles
  <2>4. Commanded'
    BY <1>1, <1>3, <2>3 DEF Commanded
  <2>5. \A p \in Proc : Same(p)
    BY <1>1, <2>1, <2>2 DEF Same
  <2>6. ProgramsOK'
    BY <1>1, <1>2, <2>2, <2>4, <2>5, InterruptMoves
  <2> QED
    BY <1>1, <2>1, <2>2, <2>3, <2>6 DEF callVars
<1> QED
  BY <1>5, <1>6

--------------------------------------------------------------------------------
(* The programs' steps.                                                       *)

Kept == ProgramsOK' /\ HandOver' /\ OnlyDriverInterrupted' /\ UNCHANGED <<fault, critical>>

\* Only the driver takes an interrupt.
LEMMA OthersReceive ==
  ASSUME IInv, OnlyDriverInterrupted, process_ready # HddTask,
         NEW src, NEW m, NEW label, ReceiveFrom(src, m), Go(process_ready, label)
  PROVE  /\ Moved(process_ready, label, Receives(src))
         /\ HandOver' /\ UNCHANGED <<have_int_msg, fault>>
<1>1. ~ReceiveInterrupt(src)
  BY DEF ReceiveInterrupt, IntRecorded, OnlyDriverInterrupted, IInv, TypeOK
<1> QED
  BY <1>1, Received DEF ReceiveFrom

\* The one who runs asks for the ticks, or waits for the answer.
LEMMA Asks ==
  ASSUME IInv, ProgramsOK, OnlyDriverInterrupted, NEW q \in Clients, process_ready = q,
         NEW here \in {"ask", "t", "busy"}, NEW label, AskTicks(q, here, label)
  PROVE  /\ at[q] = here /\ Doing[q] = Home /\ Moved(q, label, Sends(SysTask))
         /\ buffer'[q] = Mail(q, Request)
         /\ HandOver' /\ UNCHANGED <<have_int_msg, fault>>
<1>1. at[q] = here /\ SendTo(SysTask, Request) /\ Go(q, label)
  BY DEF AskTicks, SendStep, Request
<1>2. pc = "user"
  BY <1>1 DEF SendTo, SendDeadLock, SendMeet, SendQueue, SendCall
<1>3. Doing[q] = Home
  BY <1>2, RunnerIsHome
<1>4. ~DeadLock(q, SysTask)
  BY <1>1, <1>2, <1>3, Roles, AskerIsFree, NoCycleToSysTask
<1>5. SendMeet(SysTask, Request) \/ SendQueue(SysTask, Request)
  BY <1>1, <1>4, SendsMeetOrQueue
<1> QED
  BY <1>1, <1>3, <1>5, Roles, Sent

LEMMA TickerKeeps ==
  ASSUME IInv, ProgramsOK, HandOver, OnlyDriverInterrupted, pc = "user",
         NEW p \in Ticker, process_ready = p, TickerStep(p),
         UNCHANGED <<served, commands, disk, irq, critical>>
  PROVE  Kept
<1>1. p \in Clients /\ p # HddTask /\ p \in Proc
  BY Roles DEF Clients
<1>2. have_int_msg' = have_int_msg => SameDisk /\ OnlyDriverInterrupted'
  BY DEF SameDisk, OnlyDriverInterrupted
<1>3. Doing[p] = Home
  BY RunnerIsHome
<1>4. CASE AskTicks(p, "ask", "answer")
  BY <1>1, <1>2, <1>4, Asks, TickerAsks DEF Kept
<1>5. CASE AwaitTicks(p, "answer", "answered")
  <2>1. at[p] = "answer" /\ ReceiveFrom(SysTask, Request) /\ Go(p, "answered")
    BY <1>5 DEF AwaitTicks, ReceiveStep, Request
  <2>2. /\ Moved(p, "answered", Receives(SysTask))
        /\ HandOver' /\ UNCHANGED <<have_int_msg, fault>>
    BY <1>1, <2>1, OthersReceive
  <2> QED
    BY <1>2, <1>3, <2>1, <2>2, TickerAwaits DEF Kept
<1>6. CASE at[p] = "answered" /\ Go(p, "ask") /\ UNCHANGED vars
  <2>1. Moved(p, "ask", Home) /\ HandOver'
    BY <1>6, Ran
  <2>2. UNCHANGED <<have_int_msg, fault>>
    BY <1>6 DEF vars, procVars, callVars
  <2> QED
    BY <1>2, <1>3, <1>6, <2>1, <2>2, TickerGoesOn DEF Kept
<1> QED
  BY <1>4, <1>5, <1>6 DEF TickerStep

LEMMA FsTaskKeeps ==
  ASSUME IInv, ProgramsOK, HandOver, OnlyDriverInterrupted, pc = "user",
         process_ready = FsTask, FsTaskStep, UNCHANGED <<served, commands, disk, irq, critical>>
  PROVE  Kept
<1>1. have_int_msg' = have_int_msg => SameDisk /\ OnlyDriverInterrupted'
  BY DEF SameDisk, OnlyDriverInterrupted
<1>2. Doing[FsTask] = Home
  BY RunnerIsHome
<1>3. CASE SendStep(FsTask, "open", HddTask, "open", "opened?")
  <2>1. at[FsTask] = "open" /\ SendTo(HddTask, "open") /\ Go(FsTask, "opened?")
    BY <1>3 DEF SendStep
  <2>2. ~DeadLock(FsTask, HddTask)
    BY <2>1, NoCycleToDriver DEF AwaitsOpen
  <2>3. /\ Moved(FsTask, "opened?", Sends(HddTask)) /\ buffer'[FsTask] = Mail(FsTask, "open")
        /\ HandOver' /\ UNCHANGED <<have_int_msg, fault>>
    BY <2>1, <2>2, Roles, SendsMeetOrQueue, Sent
  <2> QED
    BY <1>1, <1>2, <2>1, <2>3, FsTaskOpens DEF Kept
<1>4. CASE ReceiveStep(FsTask, "opened?", HddTask, "open", "opened")
  <2>1. at[FsTask] = "opened?" /\ ReceiveFrom(HddTask, "open") /\ Go(FsTask, "opened")
    BY <1>4 DEF ReceiveStep
  <2>2. /\ Moved(FsTask, "opened", Receives(HddTask))
        /\ HandOver' /\ UNCHANGED <<have_int_msg, fault>>
    BY <2>1, Roles, OthersReceive
  <2> QED
    BY <1>1, <1>2, <2>1, <2>2, FsTaskAwaits DEF Kept
<1>5. CASE at[FsTask] = "opened" /\ Go(FsTask, "loop") /\ UNCHANGED vars
  <2>1. Moved(FsTask, "loop", Home) /\ HandOver'
    BY <1>5, Ran
  <2>2. UNCHANGED <<have_int_msg, fault>>
    BY <1>5 DEF vars, procVars, callVars
  <2> QED
    BY <1>1, <1>2, <1>5, <2>1, <2>2, FsTaskEnds DEF Kept
<1> QED
  BY <1>3, <1>4, <1>5 DEF FsTaskStep

LEMMA SysTaskKeeps ==
  ASSUME IInv, ProgramsOK, HandOver, OnlyDriverInterrupted, pc = "user",
         process_ready = SysTask, SysTaskRuns
  PROVE  Kept
<1>1. have_int_msg' = have_int_msg => SameDisk /\ OnlyDriverInterrupted'
  BY DEF SysTaskRuns, SameDisk, OnlyDriverInterrupted
<1>2. Doing[SysTask] = Home
  BY RunnerIsHome
<1>3. CASE ReceiveStep(SysTask, "receive", AnySource, Blank, "switch") /\ UNCHANGED critical
  <2>1. at[SysTask] = "receive" /\ ReceiveFrom(AnySource, Blank) /\ Go(SysTask, "switch")
    BY <1>3 DEF ReceiveStep
  <2>2. /\ Moved(SysTask, "switch", Receives(AnySource))
        /\ HandOver' /\ UNCHANGED <<have_int_msg, fault>>
    BY <2>1, Roles, OthersReceive
  <2> QED
    BY <1>1, <1>2, <1>3, <2>1, <2>2, SysTaskReceives DEF Kept
<1>4. CASE /\ SendStep(SysTask, "switch", buffer[SysTask].source, Answer, "receive")
           /\ UNCHANGED critical
  <2>1. /\ at[SysTask] = "switch" /\ SendTo(buffer[SysTask].source, Reply)
        /\ Go(SysTask, "receive")
    BY <1>4 DEF SendStep, Answer, Reply
  <2>2. PICK q \in Clients : buffer[SysTask] = Mail(q, Request) /\ AwaitsTicks(q)
    BY <1>2, <2>1, RequestTaken
  <2>3. buffer[SysTask].source = q /\ q \in Proc
    BY <2>2, Mails, Roles
  <2>4. ~DeadLock(SysTask, q)
    BY <2>2, <2>3, Roles, AwaitingSendsNothing, NoCycleToIdle
  <2>5. SendMeet(q, Reply) \/ SendQueue(q, Reply)
    BY <2>1, <2>3, <2>4, SendsMeetOrQueue
  <2>6. /\ Moved(SysTask, "receive", Sends(q)) /\ buffer'[SysTask] = Mail(SysTask, Reply)
        /\ HandOver' /\ UNCHANGED <<have_int_msg, fault>>
    BY <2>1, <2>3, <2>5, Roles, Sent
  <2> QED
    BY <1>1, <1>2, <1>4, <2>1, <2>3, <2>6, SysTaskAnswers DEF Kept
<1>5. CASE at[SysTask] = "switch" /\ buffer[SysTask].body # "get ticks" /\ Critical
  <2>1. PICK q \in Clients : buffer[SysTask] = Mail(q, Request)
    BY <1>2, <1>5, RequestTaken
  <2>2. buffer[SysTask].body = Request
    BY <2>1, Mails
  <2> QED
    BY <1>5, <2>2 DEF Request
<1>6. CASE /\ \/ ReceiveStep(SysTask, "receive", AnySource, Blank, "switch")
              \/ SendStep(SysTask, "switch", buffer[SysTask].source, Answer, "receive")
           /\ UNCHANGED critical
  BY <1>3, <1>4, <1>6
<1> QED
  BY <1>5, <1>6 DEF SysTaskRuns, SysTaskStep

--------------------------------------------------------------------------------
(* hdd_task's steps.                                                          *)

LEMMA DriverCallsKeep ==
  ASSUME IInv, ProgramsOK, HandOver, OnlyDriverInterrupted, pc = "user",
         process_ready = HddTask, DriverCalls
  PROVE  Kept
<1>1. UNCHANGED <<served, commands, disk, irq, critical>>
  BY DEF DriverCalls
<1>2. have_int_msg' = have_int_msg => SameDisk /\ OnlyDriverInterrupted'
  BY <1>1 DEF SameDisk, OnlyDriverInterrupted
<1>3. Doing[HddTask] = Home
  BY RunnerIsHome
<1>4. CASE ReceiveStep(HddTask, "receive", AnySource, Blank, "switch")
  <2>1. at[HddTask] = "receive" /\ ReceiveFrom(AnySource, Blank) /\ Go(HddTask, "switch")
    BY <1>4 DEF ReceiveStep
  <2>2. Quiet
    BY <1>3, <2>1, Calls DEF ProgramsOK, HddTaskOK
  <2>3. ReceiveProceed(AnySource, Blank)
    BY <2>1, <2>2 DEF ReceiveFrom, ReceiveInterrupt, IntRecorded, Quiet
  <2>4. /\ Moved(HddTask, "switch", Receives(AnySource))
        /\ HandOver' /\ UNCHANGED <<have_int_msg, fault>>
    BY <2>1, <2>3, Received
  <2> QED
    BY <1>1, <1>2, <1>3, <2>1, <2>4, DriverReceives DEF Kept
<1>5. CASE AskTicks(HddTask, "t", "t?") \/ AskTicks(HddTask, "busy", "busy?")
  <2>1. PICK here, label : /\ <<here, label>> \in {<<"t", "t?">>, <<"busy", "busy?">>}
                          /\ AskTicks(HddTask, here, label)
    BY <1>5
  <2>2. here \in {"ask", "t", "busy"}
    BY <2>1
  <2>3. /\ at[HddTask] = here /\ Moved(HddTask, label, Sends(SysTask))
        /\ buffer'[HddTask] = Mail(HddTask, Request)
        /\ HandOver' /\ UNCHANGED <<have_int_msg, fault>>
    BY <2>1, <2>2, Roles, Asks
  <2> QED
    BY <1>1, <1>2, <1>3, <2>1, <2>3, DriverAsks DEF Kept
<1>6. CASE AwaitTicks(HddTask, "t?", "busy") \/ AwaitTicks(HddTask, "busy?", "look")
  <2>1. PICK here, label : /\ <<here, label>> \in {<<"t?", "busy">>, <<"busy?", "look">>}
                          /\ AwaitTicks(HddTask, here, label)
    BY <1>6
  <2>2. at[HddTask] = here /\ ReceiveFrom(SysTask, "get ticks") /\ Go(HddTask, label)
    BY <2>1 DEF AwaitTicks, ReceiveStep
  <2>3. ReceiveProceed(SysTask, "get ticks")
    BY <2>2, Roles, Distinct DEF ReceiveFrom, ReceiveInterrupt, IntRecorded
  <2>4. /\ Moved(HddTask, label, Receives(SysTask))
        /\ HandOver' /\ UNCHANGED <<have_int_msg, fault>>
    BY <2>2, <2>3, Received
  <2>5. <<at[HddTask], label>> \in {<<"t?", "busy">>, <<"busy?", "look">>}
    BY <2>1, <2>2
  <2> QED
    BY <1>1, <1>2, <1>3, <2>4, <2>5, DriverAwaits DEF Kept
<1>7. CASE ReceiveStep(HddTask, "wait", Interrupt, Blank, "data")
  <2>1. at[HddTask] = "wait" /\ ReceiveFrom(Interrupt, Blank) /\ Go(HddTask, "data")
    BY <1>7 DEF ReceiveStep
  <2>2. Commanded /\ at[HddTask] \in Working \ Asking
        /\ "data" \in Working \ (Asking \cup Getting)
    BY <2>1 DEF ProgramsOK, HddTaskOK, Working, Asking, Getting
  <2>3. CASE ReceiveProceed(Interrupt, Blank)
    <3>1. /\ Moved(HddTask, "data", Receives(Interrupt))
          /\ HandOver' /\ UNCHANGED <<have_int_msg, fault>>
      BY <2>1, <2>3, Received
    <3>2. Commanded'
      BY <1>1, <2>2, <3>1 DEF Commanded
    <3> QED
      BY <1>1, <1>2, <1>3, <2>2, <3>1, <3>2, DriverWorks DEF Kept
  <2>4. CASE ReceiveInterrupt(Interrupt)
    <3>1. /\ have_int_msg[HddTask] /\ Moved(HddTask, "data", Home)
          /\ buffer'[HddTask] = Mail(Interrupt, HwInt)
          /\ have_int_msg' = [have_int_msg EXCEPT ![HddTask] = FALSE]
          /\ HandOver' /\ UNCHANGED fault
      BY <2>1, <2>4, ReceivedInterrupt
    <3>2. ~have_int_msg'[HddTask] /\ OnlyDriverInterrupted'
      BY <3>1, Roles DEF IInv, TypeOK, OnlyDriverInterrupted
    <3>3. Quiet'
      BY <1>1, <2>2, <3>1, <3>2 DEF Commanded, Quiet
    <3> QED
      BY <1>1, <1>3, <2>2, <3>1, <3>2, <3>3, DriverWorks DEF Kept
  <2> QED
    BY <2>1, <2>3, <2>4 DEF ReceiveFrom
<1>8. CASE SendStep(HddTask, "reply", served, "open", "receive")
  <2>1. at[HddTask] = "reply" /\ SendTo(served, "open") /\ Go(HddTask, "receive")
    BY <1>8 DEF SendStep
  <2>2. served = FsTask /\ AwaitsOpen
    BY <2>1 DEF ProgramsOK, HddTaskOK, Working
  <2>3. SendEdge[FsTask] = Null
    BY <2>2, Roles, EdgesAreSends, Calls DEF AwaitsOpen
  <2>4. /\ Moved(HddTask, "receive", Sends(FsTask)) /\ buffer'[HddTask] = Mail(HddTask, "open")
        /\ HandOver' /\ UNCHANGED <<have_int_msg, fault>>
    BY <2>1, <2>2, <2>3, Roles, NoCycleToIdle, SendsMeetOrQueue, Sent
  <2> QED
    BY <1>1, <1>2, <1>3, <2>1, <2>4, DriverReplies DEF Kept
<1> QED
  BY <1>4, <1>5, <1>6, <1>7, <1>8 DEF DriverCalls

\* Between its calls: the open is taken, and the disk found idle, told and read.
LEMMA DriverKeeps ==
  ASSUME IInv, ProgramsOK, HandOver, OnlyDriverInterrupted, pc = "user",
         process_ready = HddTask, HddTaskRuns
  PROVE  Kept
<1>1. Doing[HddTask] = Home
  BY RunnerIsHome
<1>2. \A label : Go(HddTask, label) /\ UNCHANGED vars =>
        /\ Moved(HddTask, label, Home) /\ HandOver' /\ OnlyDriverInterrupted'
        /\ UNCHANGED <<have_int_msg, fault>>
  BY Ran DEF vars, procVars, callVars, OnlyDriverInterrupted
<1>3. CASE Switch
  BY <1>1, <1>2, <1>3, DriverSwitches DEF Switch, Kept
<1>4. CASE SwitchFails
  BY <1>1, <1>4, OpenTaken, Mails DEF SwitchFails
<1>5. CASE Look
  <2>1. Quiet /\ at[HddTask] \in Working \ Asking
    BY <1>5 DEF Look, ProgramsOK, HddTaskOK, Working, Asking
  <2>2. /\ irq' = FALSE /\ Go(HddTask, "command") /\ UNCHANGED <<vars, critical>>
        /\ UNCHANGED <<served, commands, disk>>
    BY <1>5, <2>1 DEF Look, MayTimeOut, Quiet
  <2>3. Quiet' /\ "command" \in Working \ (Asking \cup Getting)
    BY <1>2, <2>1, <2>2 DEF Quiet, Working, Asking, Getting
  <2> QED
    BY <1>1, <1>2, <2>1, <2>2, <2>3, DriverWorks DEF Kept
<1>6. CASE Command
  <2>1. Quiet /\ at[HddTask] \in Working \ Asking
    BY <1>6 DEF Command, ProgramsOK, HddTaskOK, Working, Asking
  <2>2. /\ disk' = "busy" /\ irq' = FALSE /\ Go(HddTask, "wait")
        /\ UNCHANGED <<vars, served, commands, critical>>
    BY <1>6 DEF Command
  <2>3. Commanded' /\ "wait" \in Working \ (Asking \cup Getting)
    BY <1>2, <2>1, <2>2 DEF Quiet, Commanded, Working, Asking, Getting
  <2> QED
    BY <1>1, <1>2, <2>1, <2>2, <2>3, DriverWorks DEF Kept
<1>7. CASE Data
  <2>1. Quiet /\ at[HddTask] \in Working \ Asking
    BY <1>1, <1>7, Calls DEF Data, ProgramsOK, HddTaskOK, Working, Asking
  <2>2. PICK label \in {"t", "reply"} :
          Go(HddTask, label) /\ UNCHANGED <<vars, served, disk, irq, critical>>
    BY <1>7 DEF Data
  <2>3. Quiet' /\ label \in Working \ (Asking \cup Getting)
    BY <1>2, <2>1, <2>2 DEF Quiet, Working, Asking, Getting
  <2> QED
    BY <1>1, <1>2, <2>1, <2>2, <2>3, DriverWorks DEF Kept
<1> QED
  BY <1>3, <1>4, <1>5, <1>6, <1>7, DriverCallsKeep DEF HddTaskRuns

LEMMA ProgramKeeps ==
  ASSUME IInv, ProgramsOK, HandOver, OnlyDriverInterrupted, NEW p \in Proc, Program(p)
  PROVE  Kept
<1>1. CASE p = SysTask /\ SysTaskRuns
  BY <1>1, SysTaskKeeps DEF Program
<1>2. CASE p = HddTask /\ HddTaskRuns
  BY <1>2, DriverKeeps DEF Program
<1>3. CASE OthersRun(p)
  BY <1>3, FsTaskKeeps, TickerKeeps DEF Program, OthersRun
<1> QED
  BY <1>1, <1>2, <1>3 DEF Program

--------------------------------------------------------------------------------
(* The system.                                                                *)

\* What the programs do is what the kernel's model lets a process do.
LEMMA SendIsNext ==
  ASSUME NEW p, NEW here, NEW dest \in Proc, NEW m \in {"open", Request, Reply}, NEW label,
         SendStep(p, here, dest, m, label)
  PROVE  Next
BY Roles DEF SendStep, SendTo, Next, Send

LEMMA ReceiveIsNext ==
  ASSUME NEW p, NEW here, NEW src \in Proc \cup {AnySource, Interrupt},
         NEW m \in {Blank, "open", Request}, NEW label, ReceiveStep(p, here, src, m, label)
  PROVE  Next
<1>1. m \in Body
  BY Roles DEF Body
<1> QED
  BY <1>1 DEF ReceiveStep, ReceiveFrom, Next, Receive

LEMMA ProgramIsNext ==
  ASSUME IInv, ProgramsOK, NEW p \in Proc, Program(p)
  PROVE  [Next]_vars
<1>1. /\ SysTask \in Proc /\ HddTask \in Proc /\ FsTask \in Proc
      /\ "open" \in {"open", Request, Reply} /\ Answer \in {"open", Request, Reply}
      /\ "get ticks" \in {"open", Request, Reply} /\ "get ticks" \in {Blank, "open", Request}
  BY Roles DEF Request, Answer, Reply
<1>2. pc = "user" /\ process_ready = p /\ Doing[p] = Home
  BY RunnerIsHome DEF Program
<1>3. CASE p = SysTask /\ SysTaskRuns
  <2>1. CASE SendStep(SysTask, "switch", buffer[SysTask].source, Answer, "receive")
    <3>1. PICK q \in Clients : buffer[SysTask] = Mail(q, Request)
      BY <1>2, <1>3, <2>1, RequestTaken DEF SendStep
    <3>2. buffer[SysTask].source \in Proc
      BY <3>1, Mails, Roles
    <3> QED
      BY <1>1, <2>1, <3>2, SendIsNext
  <2>2. CASE ReceiveStep(SysTask, "receive", AnySource, Blank, "switch")
    BY <2>2, ReceiveIsNext
  <2>3. CASE Critical
    BY <2>3 DEF Critical
  <2> QED
    BY <1>3, <2>1, <2>2, <2>3 DEF SysTaskRuns, SysTaskStep
<1>4. CASE p = HddTask /\ HddTaskRuns
  <2>1. CASE DriverCalls
    <3>1. CASE SendStep(HddTask, "reply", served, "open", "receive")
      <4>1. served = FsTask
        BY <3>1 DEF SendStep, ProgramsOK, HddTaskOK, Working
      <4> QED
        BY <1>1, <3>1, <4>1, SendIsNext
    <3>2. CASE AskTicks(HddTask, "t", "t?") \/ AskTicks(HddTask, "busy", "busy?")
      BY <1>1, <3>2, SendIsNext DEF AskTicks
    <3>3. CASE AwaitTicks(HddTask, "t?", "busy") \/ AwaitTicks(HddTask, "busy?", "look")
      BY <1>1, <3>3, ReceiveIsNext DEF AwaitTicks
    <3>4. CASE \/ ReceiveStep(HddTask, "receive", AnySource, Blank, "switch")
               \/ ReceiveStep(HddTask, "wait", Interrupt, Blank, "data")
      BY <3>4, ReceiveIsNext
    <3> QED
      BY <2>1, <3>1, <3>2, <3>3, <3>4 DEF DriverCalls
  <2>2. CASE UNCHANGED vars
    BY <2>2
  <2> QED
    BY <1>4, <2>1, <2>2 DEF HddTaskRuns, Switch, SwitchFails, Look, Command, Data, Critical
<1>5. CASE p = FsTask /\ FsTaskStep
  BY <1>1, <1>5, SendIsNext, ReceiveIsNext DEF FsTaskStep
<1>6. CASE p \in Ticker /\ TickerStep(p)
  BY <1>1, <1>6, SendIsNext, ReceiveIsNext DEF TickerStep, AskTicks, AwaitTicks
<1> QED
  BY <1>3, <1>4, <1>5, <1>6 DEF Program, OthersRun

LEMMA SystemIsNext ==
  ASSUME SystemInv, pc # "halted", SystemNext
  PROVE  [Next]_vars
<1>1. CASE \E p \in Proc : Program(p)
  BY <1>1, ProgramIsNext DEF SystemInv
<1>2. CASE \E p \in Proc : Chosen(p)
  BY <1>2 DEF Chosen, Next
<1>3. CASE Kernel
  BY <1>3 DEF Kernel, Next, Send, Receive
<1>4. CASE DiskDone
  BY <1>4 DEF DiskDone
<1>5. CASE Interrupted
  BY <1>5 DEF Interrupted, Next
<1> QED
  BY <1>1, <1>2, <1>3, <1>4, <1>5 DEF SystemNext

LEMMA InitSystemInv == SystemInit => SystemInv
<1> SUFFICES ASSUME SystemInit PROVE SystemInv
  OBVIOUS
<1>1. IInv
  BY InitIInv DEF SystemInit
<1>2. OnlyDriverInterrupted /\ StopsOnlyInWindow
  BY DEF SystemInit, Init, OnlyDriverInterrupted, StopsOnlyInWindow
<1>3. \A p \in Proc : Doing[p] = Home
  BY DEF SystemInit, Init, Doing, SendPoint
<1>4. /\ at[SysTask] = "receive" /\ at[HddTask] = "receive" /\ at[FsTask] = "open"
      /\ \A p \in Ticker : at[p] = "ask"
      /\ \A p \in Proc \ Programs : at[p] = "loop"
      /\ DOMAIN at = Proc
  BY Roles DEF SystemInit, Programs, Clients
<1>5. at \in [Proc -> Labels]
  BY <1>4, Roles DEF SystemInit, Labels, Programs, Clients
<1>6. Quiet
  BY Roles DEF SystemInit, Init, Quiet
<1>7. \A q \in Clients : ClientOK(q)
  BY <1>4 DEF ClientOK, Clients, Asking, Getting
<1>8. SysTaskOK /\ FsTaskOK /\ \A p \in Ticker : TickerOK(p)
  BY <1>3, <1>4, Roles DEF SysTaskOK, FsTaskOK, TickerOK
<1>9. HddTaskOK
  BY <1>3, <1>4, <1>6, Roles DEF HddTaskOK, Working
<1>10. ProgramsOK
  BY <1>3, <1>4, <1>5, <1>7, <1>8, <1>9 DEF ProgramsOK, Programs
<1>11. HandOver
  BY DEF SystemInit, Init, HandOver, SendPoint
<1> QED
  BY <1>1, <1>2, <1>10, <1>11 DEF SystemInv

LEMMA StepSystemInv ==
  ASSUME SystemInv, [SystemNext]_systemVars
  PROVE  SystemInv'
<1>1. CASE UNCHANGED systemVars
  <2>1. UNCHANGED vars /\ UNCHANGED <<at, served, commands, disk, irq, critical>>
    BY <1>1 DEF systemVars, programVars
  <2>2. IInv'
    BY <2>1, StepIInv DEF SystemInv
  <2>3. OnlyDriverInterrupted' /\ StopsOnlyInWindow'
    BY <2>1 DEF SystemInv, OnlyDriverInterrupted, StopsOnlyInWindow, vars, procVars, callVars
  <2>4. pc' # "halted" => ProgramsOK' /\ HandOver'
    <3> SUFFICES ASSUME pc # "halted" PROVE ProgramsOK' /\ HandOver'
      BY <2>1 DEF vars, callVars
    <3>1. Doing' = Doing /\ HandOver'
      BY <2>1 DEF SystemInv, Doing, HandOver, Accepts, vars, procVars, callVars
    <3>2. (\A p \in Proc : Same(p)) /\ SameDisk
      BY <2>1, <3>1 DEF Same, SameDisk, vars, procVars
    <3> QED
      BY <2>1, <3>1, <3>2, NobodyMoves DEF SystemInv, ProgramsOK
  <2> QED
    BY <2>2, <2>3, <2>4 DEF SystemInv
<1>2. CASE SystemNext /\ pc = "halted"
  <2>1. DiskDone
    BY <1>2 DEF SystemNext, Program, Chosen, Schedule, ClockSwitch, Kernel, SendAssert,
                SendLatch, SendSource, SendBody, SendNull, SendWake, RecvCollect, RecvWait,
                Block, Interrupted, DiskInterrupt
  <2>2. UNCHANGED vars /\ critical' = critical
    BY <2>1 DEF DiskDone
  <2>3. IInv'
    BY <2>2, StepIInv DEF SystemInv
  <2>4. OnlyDriverInterrupted' /\ StopsOnlyInWindow' /\ pc' = "halted"
    BY <1>2, <2>2 DEF SystemInv, OnlyDriverInterrupted, StopsOnlyInWindow, vars, procVars,
                      callVars
  <2> QED
    BY <2>3, <2>4 DEF SystemInv
<1>3. CASE SystemNext /\ pc # "halted"
  <2>1. IInv /\ ProgramsOK /\ HandOver /\ OnlyDriverInterrupted
        /\ ~critical /\ fault \in {"none", "block_flags"}
    BY <1>3 DEF SystemInv, StopsOnlyInWindow
  <2>2. IInv'
    BY <1>3, <2>1, SystemIsNext, StepIInv
  <2>3. /\ pc' # "halted" => ProgramsOK' /\ HandOver'
        /\ OnlyDriverInterrupted' /\ fault' \in {fault, "block_flags"} /\ critical' = critical
    <3>1. CASE \E p \in Proc : Program(p)
      BY <2>1, <3>1, ProgramKeeps DEF Kept
    <3>2. CASE Kernel \/ \E p \in Proc : Chosen(p)
      BY <2>1, <3>2, KernelKeeps DEF OnlyDriverInterrupted
    <3>3. CASE DiskDone
      BY <2>1, <3>3, DiskDoneKeeps DEF OnlyDriverInterrupted
    <3>4. CASE Interrupted
      BY <2>1, <3>4, InterruptedKeeps DEF OnlyDriverInterrupted
    <3> QED
      BY <1>3, <3>1, <3>2, <3>3, <3>4 DEF SystemNext
  <2> QED
    BY <2>1, <2>2, <2>3 DEF SystemInv, StopsOnlyInWindow
<1> QED
  BY <1>1, <1>2, <1>3

\* In every reachable state each program is where its own messages and those of the
\* others let it be, for any number of processes that call delay and any number of
\* partition tables: sys_task, fs_task, hdd_task and the users of get_ticks.
THEOREM SystemInductive == SystemSpec => []SystemInv
BY InitSystemInv, StepSystemInv, PTL DEF SystemSpec

\* The programs keep to what the model of the message passing allows: all that is
\* proved of send_recv and deliver_int_to_proc holds under them.
THEOREM SystemIsIpc == SystemSpec => Spec
<1>1. SystemInit => Init
  BY DEF SystemInit
<1>2. SystemInv /\ [SystemNext]_systemVars => [Next]_vars
  <2> SUFFICES ASSUME SystemInv, [SystemNext]_systemVars PROVE [Next]_vars
    OBVIOUS
  <2>1. CASE UNCHANGED systemVars
    BY <2>1 DEF systemVars
  <2>2. CASE SystemNext /\ pc # "halted"
    BY <2>2, SystemIsNext
  <2>3. CASE SystemNext /\ pc = "halted"
    BY <2>3 DEF SystemNext, Program, Chosen, Schedule, ClockSwitch, Kernel, SendAssert,
                SendLatch, SendSource, SendBody, SendNull, SendWake, RecvCollect, RecvWait,
                Block, Interrupted, DiskInterrupt, DiskDone
  <2> QED
    BY <2>1, <2>2, <2>3
<1> QED
  BY <1>1, <1>2, SystemInductive, PTL DEF SystemSpec, Spec

\* The system stops in one way only, the interrupt of the disk between the driver's
\* flag and block's assertion: no dead_lock, no message unknown, no time-out.
THEOREM StopsOnlyInWindowEver == SystemSpec => []StopsOnlyInWindow
<1>1. SystemInv => StopsOnlyInWindow
  BY DEF SystemInv
<1> QED
  BY <1>1, SystemInductive, PTL

\* Whoever comes back from a receive has the message it waited for: delay the ticks,
\* fs_task its answer, hdd_task the ticks and the interrupt of its command.
THEOREM RepliesFitEver == SystemSpec => []RepliesFit
<1>1. SystemInv => RepliesFit
  <2> SUFFICES ASSUME SystemInv PROVE RepliesFit
    OBVIOUS
  <2>1. \A p \in Proc : Running(p) => ProgramsOK /\ Doing[p] = Home
    BY RunnerIsHome DEF SystemInv, Running
  <2>2. \A q \in Clients : Running(q) /\ at[q] \in Getting => buffer[q] = Mail(SysTask, Reply)
    BY <2>1, Calls, Roles DEF ProgramsOK, ClientOK
  <2>3. Running(HddTask) /\ at[HddTask] = "data" =>
          buffer[HddTask] = Mail(Interrupt, HwInt) /\ Quiet
    BY <2>1, Calls, Roles DEF ProgramsOK, HddTaskOK
  <2>4. Running(FsTask) /\ at[FsTask] = "opened" => buffer[FsTask] = Mail(HddTask, "open")
    BY <2>1, Calls, Roles DEF ProgramsOK, FsTaskOK, AwaitsOpen
  <2> QED
    BY <2>2, <2>3, <2>4, Roles DEF RepliesFit, Clients, Getting, Mail, Reply, Quiet
<1> QED
  BY <1>1, SystemInductive, PTL

--------------------------------------------------------------------------------
(* No request is lost.                                                        *)

\* A set of naturals with something in it has a least element.
LEMMA Least ==
  ASSUME NEW T \in SUBSET Nat, NEW n \in T
  PROVE  \E m \in T : \A k \in T : m <= k
<1> DEFINE R == {ss \in Nat \X Nat : ss[1] < ss[2]}
<1>1. R = OpToRel(<, Nat)
  BY Zenon DEF OpToRel
<1>2. IsWellFoundedOn(R, Nat)
  BY <1>1, NatLessThanWellFounded, Zenon
<1>3. PICK m \in T : \A k \in T : ~ (<<k, m>> \in R)
  <2> HIDE DEF R
  <2> QED
    BY <1>2, WFMin
<1>4. \A k \in T : m <= k
  <2> TAKE k \in T
  <2>1. <<k, m>> \notin R
    BY <1>3
  <2> QED
    BY <2>1
<1> QED
  BY <1>4

\* Whom to ask next.
Follow(q) == IF q \notin Proc \/ Moves(q) THEN q ELSE DependsOn(q)

\* Three questions lead to somebody who asks nobody, if they lead there at all.
LEMMA BehindIs ==
  ASSUME NEW p, NumProc >= 3, Follow(Follow(Follow(Follow(p)))) = Follow(Follow(Follow(p)))
  PROVE  Behind(p) = Follow(Follow(Follow(p)))
<1> DEFINE a == Follow(p)
           b == Follow(a)
           c == Follow(b)
           Rec(f) == f = [n \in 0 .. NumProc |-> IF n = 0 THEN p ELSE Follow(f[n - 1])]
           upTo == CHOOSE f : Rec(f)
           path == [n \in 0 .. NumProc |->
                      IF n = 0 THEN p ELSE IF n = 1 THEN a ELSE IF n = 2 THEN b ELSE c]
<1>1. NumProc \in Nat /\ Follow(c) = c
  BY NumProcAssumption
<1>2. a = Follow(p) /\ b = Follow(a) /\ c = Follow(b)
  OBVIOUS
<1>3. Behind(p) = upTo[NumProc]
  BY DEF Behind, Follow
<1> HIDE DEF a, b, c
<1>4. Rec(path)
  <2>1. \A n \in 0 .. NumProc : path[n] = IF n = 0 THEN p ELSE Follow(path[n - 1])
    <3> TAKE n \in 0 .. NumProc
    <3>1. n = 0 \/ n = 1 \/ n = 2 \/ n = 3 \/ (n > 3 /\ n - 1 > 2)
      BY <1>1
    <3>2. n # 0 => n - 1 \in 0 .. NumProc
      BY <1>1
    <3> QED
      BY <1>1, <1>2, <3>1, <3>2
  <2> QED
    BY <2>1
<1> HIDE DEF path
<1>5. Rec(upTo)
  BY <1>4
<1> HIDE DEF upTo
<1>6. \A n \in 0 .. NumProc : upTo[n] = IF n = 0 THEN p ELSE Follow(upTo[n - 1])
  BY <1>5
<1>7. upTo[0] = p /\ upTo[1] = a /\ upTo[2] = b /\ upTo[3] = c
  <2>1. 0 \in 0 .. NumProc /\ 1 \in 0 .. NumProc /\ 2 \in 0 .. NumProc /\ 3 \in 0 .. NumProc
    BY <1>1
  <2> QED
    BY <1>2, <1>6, <2>1
<1>8. \A n \in 3 .. NumProc : upTo[n] = c
  <2> SUFFICES ASSUME NEW n \in 3 .. NumProc, upTo[n] # c PROVE FALSE
    OBVIOUS
  <2> DEFINE T == {k \in 3 .. NumProc : upTo[k] # c}
  <2>1. T \in SUBSET Nat /\ n \in T
    BY <1>1
  <2>2. PICK m \in T : \A k \in T : m <= k
    BY <2>1, Least
  <2>3. m \in 4 .. NumProc /\ m - 1 \in 3 .. NumProc /\ m \in 0 .. NumProc /\ m # 0
    BY <1>1, <1>7
  <2>4. upTo[m - 1] = c
    BY <2>2, <2>3
  <2>5. upTo[m] = Follow(c)
    BY <1>6, <2>3, <2>4
  <2> QED
    BY <1>1, <2>5
<1> QED
  BY <1>1, <1>3, <1>8 DEF c, b, a

\* There are three programs at least.
LEMMA ThreePrograms == NumProc >= 3
<1>1. SysTask \in 0 .. NumProc - 1 /\ HddTask \in 0 .. NumProc - 1 /\ FsTask \in 0 .. NumProc - 1
  BY Roles DEF Proc
<1> QED
  BY <1>1, Roles, NumProcAssumption

\* Who is blocked waits for the other side of the call it is in.
LEMMA BlockedDependsOn ==
  ASSUME IInv, NEW q \in Proc, flags[q] # {}
  PROVE  Doing[q] \in {Sends(DependsOn(q)), Receives(DependsOn(q))}
<1>1. flags[q] \subseteq {"SENDING", "RECVING"}
  BY DEF IInv, TypeOK, Flag
<1>2. ~ (process_ready = q /\ pc \in SendPoint \cup {"recv"})
  BY DEF IInv, CallOK
<1>3. Doing[q] = Blocked(q)
  BY <1>2, DoingIs
<1> QED
  BY <1>1, <1>3 DEF Blocked, DependsOn

LEMMA WhoMovesIsEnd ==
  ASSUME NEW q, q \in Proc => Moves(q)
  PROVE  Follow(q) = q
BY DEF Follow

\* Two that are blocked, one sending to the other, are not blocked both ways.
LEMMA NotBothBlocked ==
  ASSUME IInv, NEW s \in Proc, NEW d \in Proc, flags[s] # {}, flags[d] # {},
         Doing[s] = Sends(d)
  PROVE  Doing[d] \notin {Receives(s), Receives(AnySource)}
<1>1. /\ Doing[s] \in {Sends(DependsOn(s)), Receives(DependsOn(s))}
      /\ Doing[d] \in {Sends(DependsOn(d)), Receives(DependsOn(d))}
  BY BlockedDependsOn
<1>2. s \in BlockedOn(d)
  <2>1. ~ (process_ready = s /\ pc \in SendPoint \cup {"recv"})
    BY DEF IInv, CallOK
  <2>2. Doing[s] = Blocked(s)
    BY <2>1, DoingIs
  <2> QED
    BY <2>2, Calls DEF Blocked, BlockedOn
<1>3. ASSUME NEW f, Doing[d] = Receives(f) PROVE "RECVING" \in flags[d] /\ recv_from[d] = f
  <2>1. ~ (process_ready = d /\ pc \in SendPoint \cup {"recv"})
    BY DEF IInv, CallOK
  <2>2. Doing[d] = Blocked(d)
    BY <2>1, DoingIs
  <2> QED
    <3>1. "SENDING" \notin flags[d]
      BY <1>3, <2>2, Calls DEF Blocked
    <3>2. "RECVING" \in flags[d]
      BY <1>3, <2>2, <3>1, Calls DEF Blocked
    <3>3. Blocked(d) = Receives(recv_from[d])
      BY <3>1, <3>2 DEF Blocked
    <3> QED
      BY <1>3, <2>2, <3>2, <3>3, Calls
<1> QED
  BY <1>2, <1>3 DEF IInv, NoMissedRendezvous

\* sys_task waits for a message, or for somebody who moves.
LEMMA BehindSysTask ==
  ASSUME IInv, ProgramsOK, Doing[SysTask] # Receives(AnySource)
  PROVE  Follow(SysTask) \in Proc /\ Moves(Follow(SysTask))
<1>1. CASE Moves(SysTask)
  BY <1>1, Roles DEF Follow
<1>2. CASE ~Moves(SysTask)
  <2>1. flags[SysTask] # {} /\ Follow(SysTask) = DependsOn(SysTask)
    BY <1>2, Roles DEF Moves, Follow
  <2>2. Doing[SysTask] \in {Sends(DependsOn(SysTask)), Receives(DependsOn(SysTask))}
    BY <2>1, Roles, BlockedDependsOn
  <2>3. PICK q \in Clients : Doing[SysTask] = Sends(q) /\ AwaitsTicks(q)
    BY <2>2, Calls DEF ProgramsOK, SysTaskOK
  <2>4. DependsOn(SysTask) = q /\ q \in Proc
    BY <2>2, <2>3, Calls, Roles
  <2>5. flags[q] = {}
    <3> SUFFICES ASSUME flags[q] # {} PROVE FALSE
      OBVIOUS
    <3>1. Doing[q] \in {Sends(DependsOn(q)), Receives(DependsOn(q))}
      BY <2>4, BlockedDependsOn
    <3>2. Doing[q] = Receives(SysTask)
      BY <2>3, <3>1, Calls DEF AwaitsTicks
    <3> QED
      BY <2>1, <2>3, <2>4, <3>2, Roles, NotBothBlocked
  <2> QED
    BY <2>1, <2>4, <2>5 DEF Moves
<1> QED
  BY <1>1, <1>2

\* Whoever has asked for the ticks has somebody before him who moves.
LEMMA BehindAsker ==
  ASSUME IInv, ProgramsOK, NEW q \in Clients, ~Moves(q),
         Doing[q] \in {Sends(SysTask), Receives(SysTask)}
  PROVE  Follow(Follow(q)) \in Proc /\ Moves(Follow(Follow(q)))
<1>1. q \in Proc /\ flags[q] # {} /\ Follow(q) = DependsOn(q)
  BY Roles DEF Moves, Follow
<1>2. Follow(q) = SysTask
  BY <1>1, BlockedDependsOn, Calls
<1>3. CASE Doing[SysTask] # Receives(AnySource)
  BY <1>2, <1>3, BehindSysTask
<1>4. CASE Doing[SysTask] = Receives(AnySource)
  <2>1. Doing[q] = Sends(SysTask)
    <3> SUFFICES ASSUME Doing[q] = Receives(SysTask) PROVE FALSE
      OBVIOUS
    <3>1. at[q] \in Asking \cup Getting
      <4>1. CASE q \in Ticker
        BY <4>1, Calls DEF ProgramsOK, TickerOK, Asking, Getting
      <4>2. CASE q = HddTask
        BY <4>2, Roles, Calls, Distinct DEF ProgramsOK, HddTaskOK, Asking, Getting
      <4> QED
        BY <4>1, <4>2 DEF Clients
    <3>2. Serves(q)
      BY <3>1, Calls DEF ProgramsOK, ClientOK
    <3> QED
      BY <1>4, <3>2, Calls DEF Serves
  <2>2. flags[SysTask] = {}
    BY <1>1, <1>4, <2>1, Roles, NotBothBlocked
  <2> QED
    BY <1>2, <2>2, Roles DEF Moves, Follow
<1> QED
  BY <1>3, <1>4

\* The end of the way is reached early, and left no more.
LEMMA EndIsReached ==
  ASSUME NEW p,
         \/ p \in Proc /\ Moves(p)
         \/ Follow(p) \in Proc /\ Moves(Follow(p))
         \/ Follow(Follow(p)) \in Proc /\ Moves(Follow(Follow(p)))
         \/ Follow(Follow(Follow(p))) \in Proc /\ Moves(Follow(Follow(Follow(p))))
  PROVE  Behind(p) \in Proc /\ Moves(Behind(p))
<1> DEFINE a == Follow(p)
           b == Follow(a)
           c == Follow(b)
<1>1. /\ p \in Proc /\ Moves(p) => a = p
      /\ a \in Proc /\ Moves(a) => b = a
      /\ b \in Proc /\ Moves(b) => c = b
      /\ c \in Proc /\ Moves(c) => Follow(c) = c
  BY WhoMovesIsEnd
<1>2. c \in Proc /\ Moves(c)
  <2>1. \E x \in {p, a, b, c} : x \in Proc /\ Moves(x)
    OBVIOUS
  <2> HIDE DEF c, b, a
  <2> QED
    BY <1>1, <2>1
<1>3. Behind(p) = c
  BY <1>1, <1>2, ThreePrograms, BehindIs
<1> QED
  BY <1>2, <1>3

\* The driver, when it does not move, waits for an answer, for an interrupt it has
\* slept through, for a request, or for fs_task to take its answer, which is about to.
LEMMA BehindDriver ==
  ASSUME IInv, ProgramsOK, ~Moves(HddTask)
  PROVE  \/ Follow(Follow(HddTask)) \in Proc /\ Moves(Follow(Follow(HddTask)))
         \/ Follow(HddTask) = Interrupt /\ Asleep
         \/ at[HddTask] = "switch" /\ recv_from[HddTask] = AnySource
              /\ Doing[HddTask] = Receives(AnySource)
<1>1. flags[HddTask] # {} /\ Follow(HddTask) = DependsOn(HddTask)
  BY Roles DEF Moves, Follow
<1>2. Doing[HddTask] \in {Sends(DependsOn(HddTask)), Receives(DependsOn(HddTask))}
  BY <1>1, Roles, BlockedDependsOn
<1>3. Doing[HddTask] # Home
  BY <1>2, Calls
<1>4. CASE at[HddTask] \in Asking \cup Getting
  <2>1. Doing[HddTask] \in {Sends(SysTask), Receives(SysTask)}
    BY <1>3, <1>4, Roles DEF ProgramsOK, ClientOK
  <2> QED
    BY <2>1, Roles, BehindAsker
<1>5. CASE at[HddTask] = "data"
  <2>1. Doing[HddTask] = Receives(Interrupt) /\ Commanded
    BY <1>3, <1>5 DEF ProgramsOK, HddTaskOK
  <2>2. DependsOn(HddTask) = Interrupt
    BY <1>2, <2>1, Calls
  <2>3. "RECVING" \in flags[HddTask] /\ recv_from[HddTask] = Interrupt
    BY <1>1, <2>2, Roles, Distinct DEF DependsOn, IInv, BlockedIsReachable
  <2>4. ~irq /\ disk # "busy"
    BY <1>1, <2>3 DEF Moves
  <2> QED
    BY <1>1, <2>1, <2>2, <2>3, <2>4 DEF Commanded, Asleep
<1>6. CASE at[HddTask] = "switch"
  <2>1. Doing[HddTask] = Receives(AnySource)
    BY <1>3, <1>6 DEF ProgramsOK, HddTaskOK
  <2>2. DependsOn(HddTask) = AnySource
    BY <1>2, <2>1, Calls
  <2>3. recv_from[HddTask] = AnySource
    BY <1>1, <2>2, Roles, Distinct DEF DependsOn, IInv, BlockedIsReachable
  <2> QED
    BY <1>6, <2>1, <2>3
<1>7. CASE at[HddTask] = "receive"
  <2>1. Doing[HddTask] = Sends(FsTask) /\ AwaitsOpen
    BY <1>3, <1>7 DEF ProgramsOK, HddTaskOK
  <2>2. Follow(HddTask) = FsTask
    BY <1>1, <1>2, <2>1, Calls
  <2>3. flags[FsTask] = {}
    <3> SUFFICES ASSUME flags[FsTask] # {} PROVE FALSE
      OBVIOUS
    <3>1. Doing[FsTask] # Home
      BY Roles, BlockedDependsOn, Calls
    <3> QED
      BY <1>1, <2>1, <3>1, Roles, NotBothBlocked DEF AwaitsOpen
  <2> QED
    BY <2>2, <2>3, Roles DEF Moves, Follow
<1> QED
  BY <1>3, <1>4, <1>5, <1>6, <1>7 DEF ProgramsOK, HddTaskOK, Asking, Getting

\* An end that is not a process is left no more either.
LEMMA InterruptIsEnd ==
  ASSUME NEW p, Follow(p) = Interrupt \/ Follow(Follow(p)) = Interrupt
  PROVE  Behind(p) = Interrupt
<1>1. Follow(Interrupt) = Interrupt
  BY Distinct, WhoMovesIsEnd
<1> QED
  BY <1>1, ThreePrograms, BehindIs

LEMMA Held ==
  ASSUME IInv, ProgramsOK, NEW p \in Ticker \cup {FsTask, HddTask}
  PROVE  \/ Behind(p) \in Proc /\ Moves(Behind(p))
         \/ Behind(p) = Interrupt /\ Asleep /\ p \notin Ticker
         \/ p = HddTask /\ at[p] = "switch" /\ recv_from[p] = AnySource
<1>1. p \in Proc
  BY Roles
<1>2. CASE Moves(p)
  BY <1>1, <1>2, EndIsReached
<1>3. CASE ~Moves(p) /\ p \in Ticker
  <2>1. Doing[p] # Home
    BY <1>1, <1>3, BlockedDependsOn, Calls DEF Moves
  <2>2. Doing[p] \in {Sends(SysTask), Receives(SysTask)} /\ p \in Clients
    BY <1>3, <2>1 DEF ProgramsOK, ClientOK, TickerOK, Clients, Asking, Getting
  <2> QED
    BY <1>3, <2>2, BehindAsker, EndIsReached
<1>4. CASE ~Moves(p) /\ p = HddTask
  BY <1>4, Roles, BehindDriver, EndIsReached, InterruptIsEnd
<1>5. CASE ~Moves(p) /\ p = FsTask
  <2>1. flags[FsTask] # {} /\ Follow(FsTask) = DependsOn(FsTask)
    BY <1>5, Roles DEF Moves, Follow
  <2>2. Doing[FsTask] \in {Sends(DependsOn(FsTask)), Receives(DependsOn(FsTask))}
    BY <2>1, Roles, BlockedDependsOn
  <2>3. \/ Doing[FsTask] = Sends(HddTask)
        \/ Doing[FsTask] = Receives(HddTask) /\ Opens
    BY <2>2, Calls DEF ProgramsOK, FsTaskOK, AwaitsOpen
  <2>4. Follow(FsTask) = HddTask
    BY <2>1, <2>2, <2>3, Calls
  <2>5. CASE Moves(HddTask)
    BY <1>5, <2>4, <2>5, Roles, EndIsReached
  <2>6. CASE ~Moves(HddTask)
    <3>1. ~ (at[HddTask] = "switch" /\ Doing[HddTask] = Receives(AnySource))
      <4>1. flags[HddTask] # {}
        BY <2>6 DEF Moves
      <4>2. CASE Doing[FsTask] = Sends(HddTask)
        BY <2>1, <4>1, <4>2, Roles, NotBothBlocked
      <4>3. CASE Opens
        BY <4>3, Calls DEF Opens, Working
      <4> QED
        BY <2>3, <4>2, <4>3
    <3> QED
      BY <1>5, <2>4, <2>6, <3>1, Roles, BehindDriver, EndIsReached, InterruptIsEnd
  <2> QED
    BY <2>5, <2>6
<1> QED
  BY <1>2, <1>3, <1>4, <1>5

\* No request is lost: behind every process that has one out is somebody who moves,
\* only an open can hang, behind a driver asleep on an interrupt it has recorded.
THEOREM RequestsHeldEver == SystemSpec => []RequestsHeld
<1>1. SystemInv => RequestsHeld
  BY Held DEF SystemInv, RequestsHeld
<1> QED
  BY <1>1, SystemInductive, PTL

--------------------------------------------------------------------------------
(* Interrupt lines: what the two controllers have been told, byte by byte, and *)
(* what each of those who register a handler has done for it.                 *)

Told8259 == Chip \X {"ctrl", "mask"} \X Nat

\* Two more at the end of a sequence.
More(s, a, b) == s \o <<a, b>>

Bytes(s, n) == s \in Seq(Told8259) /\ Len(s) = n

LEMMA MoreIs ==
  ASSUME NEW s, NEW n \in Nat, Bytes(s, n), NEW a \in Told8259, NEW b \in Told8259
  PROVE  /\ Bytes(More(s, a, b), n + 2)
         /\ More(s, a, b)[n + 1] = a /\ More(s, a, b)[n + 2] = b
         /\ \A i \in 1 .. n : More(s, a, b)[i] = s[i]
<1> HIDE DEF Told8259
<1> QED
  BY DEF More, Bytes

\* The k-th byte that each of the controllers is told, from 0 on.
PortOf(k) == IF k = 0 THEN "ctrl" ELSE "mask"
ValueOf(c, k) ==
  CASE k = 0 -> 17
    [] k = 1 -> IF c = "master" THEN INT_VECTOR_IRQ0 ELSE INT_VECTOR_IRQ8
    [] k = 2 -> IF c = "master" THEN 4 ELSE 2
    [] k = 3 -> 1
    [] k = 4 -> 255
ByteTo(c, k) == <<c, PortOf(k), ValueOf(c, k)>>

LEMMA ProgrammingIs ==
  /\ Len(Programming) = 10
  /\ \A k \in 0 .. 4 : /\ Programming[2 * k + 1] = ByteTo("master", k)
                       /\ Programming[2 * k + 2] = ByteTo("slave", k)
<1> DEFINE s0 == <<ByteTo("master", 0), ByteTo("slave", 0)>>
           s1 == More(s0, ByteTo("master", 1), ByteTo("slave", 1))
           s2 == More(s1, ByteTo("master", 2), ByteTo("slave", 2))
           s3 == More(s2, ByteTo("master", 3), ByteTo("slave", 3))
           s4 == More(s3, ByteTo("master", 4), ByteTo("slave", 4))
<1>1. /\ ByteTo("master", 0) = <<"master", "ctrl", 17>>
      /\ ByteTo("slave", 0) = <<"slave", "ctrl", 17>>
      /\ ByteTo("master", 1) = <<"master", "mask", INT_VECTOR_IRQ0>>
      /\ ByteTo("slave", 1) = <<"slave", "mask", INT_VECTOR_IRQ8>>
      /\ ByteTo("master", 2) = <<"master", "mask", 4>>
      /\ ByteTo("slave", 2) = <<"slave", "mask", 2>>
      /\ ByteTo("master", 3) = <<"master", "mask", 1>>
      /\ ByteTo("slave", 3) = <<"slave", "mask", 1>>
      /\ ByteTo("master", 4) = <<"master", "mask", 255>>
      /\ ByteTo("slave", 4) = <<"slave", "mask", 255>>
  BY DEF ByteTo, PortOf, ValueOf
<1>2. Programming = s4
  BY <1>1, Zenon DEF Programming, More
<1>3. ASSUME NEW k \in 0 .. 4 PROVE ByteTo("master", k) \in Told8259 /\ ByteTo("slave", k) \in Told8259
  BY DEF ByteTo, Told8259, PortOf, ValueOf, Chip, INT_VECTOR_IRQ0, INT_VECTOR_IRQ8
<1>4. /\ ByteTo("master", 0) \in Told8259 /\ ByteTo("slave", 0) \in Told8259
      /\ ByteTo("master", 1) \in Told8259 /\ ByteTo("slave", 1) \in Told8259
      /\ ByteTo("master", 2) \in Told8259 /\ ByteTo("slave", 2) \in Told8259
      /\ ByteTo("master", 3) \in Told8259 /\ ByteTo("slave", 3) \in Told8259
      /\ ByteTo("master", 4) \in Told8259 /\ ByteTo("slave", 4) \in Told8259
  BY <1>3
<1>5. Bytes(s0, 2) /\ s0[1] = ByteTo("master", 0) /\ s0[2] = ByteTo("slave", 0)
  BY <1>4 DEF Bytes
<1> HIDE DEF s0
<1>6. /\ Bytes(s1, 4) /\ s1[3] = ByteTo("master", 1) /\ s1[4] = ByteTo("slave", 1)
      /\ \A i \in 1 .. 2 : s1[i] = s0[i]
  <2>1. 2 \in Nat /\ 2 + 1 = 3 /\ 2 + 2 = 4
    OBVIOUS
  <2> QED
    BY <1>4, <1>5, <2>1, MoreIs
<1> HIDE DEF s1
<1>7. /\ Bytes(s2, 6) /\ s2[5] = ByteTo("master", 2) /\ s2[6] = ByteTo("slave", 2)
      /\ \A i \in 1 .. 4 : s2[i] = s1[i]
  <2>1. 4 \in Nat /\ 4 + 1 = 5 /\ 4 + 2 = 6
    OBVIOUS
  <2> QED
    BY <1>4, <1>6, <2>1, MoreIs
<1> HIDE DEF s2
<1>8. /\ Bytes(s3, 8) /\ s3[7] = ByteTo("master", 3) /\ s3[8] = ByteTo("slave", 3)
      /\ \A i \in 1 .. 6 : s3[i] = s2[i]
  <2>1. 6 \in Nat /\ 6 + 1 = 7 /\ 6 + 2 = 8
    OBVIOUS
  <2> QED
    BY <1>4, <1>7, <2>1, MoreIs
<1> HIDE DEF s3
<1>9. /\ Bytes(s4, 10) /\ s4[9] = ByteTo("master", 4) /\ s4[10] = ByteTo("slave", 4)
      /\ \A i \in 1 .. 8 : s4[i] = s3[i]
  <2>1. 8 \in Nat /\ 8 + 1 = 9 /\ 8 + 2 = 10
    OBVIOUS
  <2> QED
    BY <1>4, <1>8, <2>1, MoreIs
<1> HIDE DEF s4
<1>10. /\ s4[1] = ByteTo("master", 0) /\ s4[2] = ByteTo("slave", 0)
       /\ s4[3] = ByteTo("master", 1) /\ s4[4] = ByteTo("slave", 1)
       /\ s4[5] = ByteTo("master", 2) /\ s4[6] = ByteTo("slave", 2)
       /\ s4[7] = ByteTo("master", 3) /\ s4[8] = ByteTo("slave", 3)
       /\ s4[9] = ByteTo("master", 4) /\ s4[10] = ByteTo("slave", 4)
  BY <1>5, <1>6, <1>7, <1>8, <1>9
<1>11. ASSUME NEW k \in 0 .. 4
       PROVE  s4[2 * k + 1] = ByteTo("master", k) /\ s4[2 * k + 2] = ByteTo("slave", k)
  <2>1. k = 0 \/ k = 1 \/ k = 2 \/ k = 3 \/ k = 4
    OBVIOUS
  <2> QED
    BY <1>10, <2>1
<1> QED
  BY <1>2, <1>9, <1>11 DEF Bytes

\* A byte of ones masks all inputs.
LEMMA AllMasked == Bits(255) = 0 .. 7
<1>1. /\ 2 ^ 0 = 1 /\ 2 ^ 1 = 2 /\ 2 ^ 2 = 4 /\ 2 ^ 3 = 8
      /\ 2 ^ 4 = 16 /\ 2 ^ 5 = 32 /\ 2 ^ 6 = 64 /\ 2 ^ 7 = 128
  OBVIOUS
<1>2. /\ (255 \div 1) % 2 = 1 /\ (255 \div 2) % 2 = 1 /\ (255 \div 4) % 2 = 1
      /\ (255 \div 8) % 2 = 1 /\ (255 \div 16) % 2 = 1 /\ (255 \div 32) % 2 = 1
      /\ (255 \div 64) % 2 = 1 /\ (255 \div 128) % 2 = 1
  OBVIOUS
<1>3. ASSUME NEW i \in 0 .. 7 PROVE (255 \div 2 ^ i) % 2 = 1
  <2>0. CASE i = 0
    BY <1>1, <1>2, <2>0
  <2>1. CASE i = 1
    BY <1>1, <1>2, <2>1
  <2>2. CASE i = 2
    BY <1>1, <1>2, <2>2
  <2>3. CASE i = 3
    BY <1>1, <1>2, <2>3
  <2>4. CASE i = 4
    BY <1>1, <1>2, <2>4
  <2>5. CASE i = 5
    BY <1>1, <1>2, <2>5
  <2>6. CASE i = 6
    BY <1>1, <1>2, <2>6
  <2>7. CASE i = 7
    BY <1>1, <1>2, <2>7
  <2> QED
    BY <2>0, <2>1, <2>2, <2>3, <2>4, <2>5, <2>6, <2>7
<1> QED
  BY <1>3 DEF Bits

\* A controller that has been told k bytes.
ChipAfter(c, k) ==
  [expects |-> CASE k = 0 -> "none" [] k = 1 -> "ICW2" [] k = 2 -> "ICW3"
                 [] k = 3 -> "ICW4" [] OTHER -> "OCW1",
   base |-> IF k >= 2 THEN ValueOf(c, 1) ELSE 0,
   cascade |-> IF k >= 3 THEN ValueOf(c, 2) ELSE 0,
   masked |-> IF k = 0 \/ k = 5 THEN 0 .. 7 ELSE {}]

LEMMA ToldNext ==
  ASSUME NEW c \in Chip, NEW k \in 0 .. 4
  PROVE  Told(ChipAfter(c, k), PortOf(k), ValueOf(c, k)) = ChipAfter(c, k + 1)
<1> DEFINE Rec(e, b, d, m) == [expects |-> e, base |-> b, cascade |-> d, masked |-> m]
<1>5. /\ ChipAfter(c, 0) = Rec("none", 0, 0, 0 .. 7)
      /\ ChipAfter(c, 1) = Rec("ICW2", 0, 0, {})
      /\ ChipAfter(c, 2) = Rec("ICW3", ValueOf(c, 1), 0, {})
      /\ ChipAfter(c, 3) = Rec("ICW4", ValueOf(c, 1), ValueOf(c, 2), {})
      /\ ChipAfter(c, 4) = Rec("OCW1", ValueOf(c, 1), ValueOf(c, 2), {})
      /\ ChipAfter(c, 5) = Rec("OCW1", ValueOf(c, 1), ValueOf(c, 2), 0 .. 7)
  BY DEF ChipAfter
<1>6. ASSUME NEW b, NEW d, NEW m, NEW e, NEW v
      PROVE  /\ Told(Rec(e, b, d, m), "ctrl", v) = Rec("ICW2", b, d, {})
             /\ Told(Rec("ICW2", b, d, m), "mask", v) = Rec("ICW3", v, d, m)
             /\ Told(Rec("ICW3", b, d, m), "mask", v) = Rec("ICW4", b, v, m)
             /\ Told(Rec("ICW4", b, d, m), "mask", v) = Rec("OCW1", b, d, m)
             /\ Told(Rec("OCW1", b, d, m), "mask", v) = Rec("OCW1", b, d, Bits(v))
  BY DEF Told
<1>7. /\ PortOf(0) = "ctrl" /\ PortOf(1) = "mask" /\ PortOf(2) = "mask"
      /\ PortOf(3) = "mask" /\ PortOf(4) = "mask"
  BY DEF PortOf
<1>8. ValueOf(c, 4) = 255
  BY DEF ValueOf
<1> HIDE DEF Rec
<1>0. CASE k = 0
  <2>1. k + 1 = 1
    BY <1>0
  <2>2. Told(Rec("none", 0, 0, 0 .. 7), "ctrl", ValueOf(c, 0))
          = Rec("ICW2", 0, 0, {})
    BY <1>6
  <2> QED
    BY <1>0, <1>5, <1>7, <2>1, <2>2, Zenon
<1>1. CASE k = 1
  <2>1. k + 1 = 2
    BY <1>1
  <2>2. Told(Rec("ICW2", 0, 0, {}), "mask", ValueOf(c, 1))
          = Rec("ICW3", ValueOf(c, 1), 0, {})
    BY <1>6
  <2> QED
    BY <1>1, <1>5, <1>7, <2>1, <2>2, Zenon
<1>2. CASE k = 2
  <2>1. k + 1 = 3
    BY <1>2
  <2>2. Told(Rec("ICW3", ValueOf(c, 1), 0, {}), "mask", ValueOf(c, 2))
          = Rec("ICW4", ValueOf(c, 1), ValueOf(c, 2), {})
    BY <1>6
  <2> QED
    BY <1>2, <1>5, <1>7, <2>1, <2>2, Zenon
<1>3. CASE k = 3
  <2>1. k + 1 = 4
    BY <1>3
  <2>2. Told(Rec("ICW4", ValueOf(c, 1), ValueOf(c, 2), {}), "mask", ValueOf(c, 3))
          = Rec("OCW1", ValueOf(c, 1), ValueOf(c, 2), {})
    BY <1>6
  <2> QED
    BY <1>3, <1>5, <1>7, <2>1, <2>2, Zenon
<1>4. CASE k = 4
  <2>1. k + 1 = 5
    BY <1>4
  <2>2. Told(Rec("OCW1", ValueOf(c, 1), ValueOf(c, 2), {}), "mask", 255)
          = Rec("OCW1", ValueOf(c, 1), ValueOf(c, 2), Bits(255))
    BY <1>6
  <2> QED
    BY <1>4, <1>5, <1>7, <1>8, <2>1, <2>2, AllMasked, Zenon
<1> QED
  BY <1>0, <1>1, <1>2, <1>3, <1>4

--------------------------------------------------------------------------------
(* The invariant of the lines: before the tables are filled the controllers   *)
(* are as far as they have been told; then what is masked and who has a       *)
(* handler follows from how far each has come with its registration.          *)

Who == {"kernel", "console", "hdd"}

ToldTo(c, n) == IF c = "master" THEN (n + 1) \div 2 ELSE n \div 2

AsTold ==
  /\ written \in 0 .. 10
  /\ prepares = [who \in Who |-> 0]
  /\ chips = [c \in Chip |-> ChipAfter(c, ToldTo(c, written))]

\* Who has come to p has opened this input, and that is in the table.
OpenAt(c, i, p) ==
  \/ c = "master" /\ i = 0 /\ p["kernel"] = 3
  \/ c = "master" /\ i = 1 /\ p["console"] = 3
  \/ c = "master" /\ i = 2 /\ p["hdd"] >= 3
  \/ c = "slave" /\ i = 6 /\ p["hdd"] = 4
MaskAt(c, p) == {i \in 0 .. 7 : ~OpenAt(c, i, p)}
HandlerAt(line, p) ==
  IF line = 0 /\ p["kernel"] >= 2 THEN "clock"
  ELSE IF line = 1 /\ p["console"] >= 2 THEN "keyboard"
  ELSE IF line = 14 /\ p["hdd"] >= 2 THEN "hdd"
  ELSE "dummy_irq_handler"
ChipWith(c, masked) ==
  [expects |-> "OCW1", base |-> ValueOf(c, 1), cascade |-> ValueOf(c, 2), masked |-> masked]

Wired ==
  /\ written = 11
  /\ prepares \in [Who -> Nat]
  /\ prepares["kernel"] \in 0 .. 3 /\ prepares["console"] \in 0 .. 3 /\ prepares["hdd"] \in 0 .. 4
  /\ chips = [c \in Chip |-> ChipWith(c, MaskAt(c, prepares))]
  /\ irq_table = [line \in Line |-> HandlerAt(line, prepares)]
  /\ idt = [v \in 0 .. 255 |-> Gate(v)]

VectorsInv == AsTold \/ Wired

LEMMA VectorsInitInv == VectorsInit => VectorsInv
<1> SUFFICES ASSUME VectorsInit PROVE AsTold
  BY DEF VectorsInv
<1>1. prepares = [who \in Who |-> 0]
  BY DEF VectorsInit, Who
<1>2. \A c \in Chip : ChipAfter(c, 0) = [expects |-> "none", base |-> 0, cascade |-> 0, masked |-> 0 .. 7]
  BY DEF ChipAfter
<1>3. \A c \in Chip : ToldTo(c, 0) = 0
  BY DEF ToldTo
<1>4. chips = [c \in Chip |-> ChipAfter(c, ToldTo(c, 0))]
  BY <1>2, <1>3 DEF VectorsInit
<1> QED
  BY <1>1, <1>4 DEF VectorsInit, AsTold

LEMMA ControllersKeep == ASSUME AsTold, ProgramControllers PROVE AsTold'
<1>1. /\ written \in 0 .. 9 /\ written' = written + 1 /\ prepares' = prepares
      /\ chips' = [chips EXCEPT ![Programming[written + 1][1]] =
                     Told(@, Programming[written + 1][2], Programming[written + 1][3])]
  BY ProgrammingIs DEF AsTold, ProgramControllers
<1>2. chips = [c \in Chip |-> ChipAfter(c, ToldTo(c, written))]
  BY DEF AsTold
<1> DEFINE byte == Programming[written + 1]
<1>3. PICK k \in 0 .. 4, d \in Chip :
        /\ byte = ByteTo(d, k) /\ ToldTo(d, written) = k /\ ToldTo(d, written + 1) = k + 1
        /\ \A c \in Chip \ {d} : ToldTo(c, written + 1) = ToldTo(c, written)
  <2> DEFINE h == written \div 2
  <2>1. CASE written % 2 = 0
    <3>1. h \in 0 .. 4 /\ written = 2 * h /\ (written + 1) \div 2 = h /\ (written + 2) \div 2 = h + 1
      BY <1>1, <2>1
    <3>2. byte = ByteTo("master", h)
      BY <3>1, ProgrammingIs
    <3>3. /\ ToldTo("master", written) = h /\ ToldTo("master", written + 1) = h + 1
          /\ \A c \in Chip \ {"master"} : ToldTo(c, written + 1) = ToldTo(c, written)
      BY <1>1, <3>1 DEF ToldTo
    <3> QED
      BY <3>1, <3>2, <3>3 DEF Chip
  <2>2. CASE written % 2 # 0
    <3>1. /\ h \in 0 .. 4 /\ written + 1 = 2 * h + 2 /\ (written + 1) \div 2 = h + 1
          /\ (written + 2) \div 2 = h + 1
      BY <1>1, <2>2
    <3>2. byte = ByteTo("slave", h)
      BY <3>1, ProgrammingIs
    <3>3. /\ ToldTo("slave", written) = h /\ ToldTo("slave", written + 1) = h + 1
          /\ \A c \in Chip \ {"slave"} : ToldTo(c, written + 1) = ToldTo(c, written)
      BY <1>1, <3>1 DEF ToldTo, Chip
    <3> QED
      BY <3>1, <3>2, <3>3 DEF Chip
  <2> QED
    BY <2>1, <2>2
<1>4. byte[1] = d /\ byte[2] = PortOf(k) /\ byte[3] = ValueOf(d, k)
  BY <1>3 DEF ByteTo
<1> HIDE DEF byte
<1>5. chips' = [chips EXCEPT ![d] = Told(chips[d], PortOf(k), ValueOf(d, k))]
  BY <1>1, <1>4 DEF byte
<1>6. Told(chips[d], PortOf(k), ValueOf(d, k)) = ChipAfter(d, k + 1)
  BY <1>2, <1>3, ToldNext
<1>7. chips' = [c \in Chip |-> ChipAfter(c, ToldTo(c, written + 1))]
  BY <1>2, <1>3, <1>5, <1>6
<1>8. written' \in 0 .. 10 /\ chips' = [c \in Chip |-> ChipAfter(c, ToldTo(c, written'))]
  <2>1. written' \in 0 .. 10 /\ written' = written + 1
    BY <1>1
  <2>2. chips' = [c \in Chip |-> ChipAfter(c, ToldTo(c, written'))]
    BY <1>7, <2>1, Zenon
  <2> QED
    BY <2>1, <2>2
<1>9. prepares' = [who \in Who |-> 0]
  BY <1>1 DEF AsTold
<1> QED
  BY <1>8, <1>9 DEF AsTold

LEMMA FillKeeps == ASSUME AsTold, FillTables PROVE Wired'
<1>1. /\ written = 10 /\ written' = 11 /\ chips' = chips /\ prepares' = prepares
      /\ irq_table' = [line \in Line |-> "dummy_irq_handler"]
      /\ idt' = [v \in 0 .. 255 |-> Gate(v)]
  BY ProgrammingIs DEF AsTold, FillTables
<1>2. prepares = [who \in Who |-> 0]
  BY DEF AsTold
<1>3. prepares \in [Who -> Nat] /\ prepares["kernel"] = 0 /\ prepares["console"] = 0 /\ prepares["hdd"] = 0
  BY <1>2 DEF Who
<1>4. \A c \in Chip : ChipAfter(c, ToldTo(c, 10)) = ChipWith(c, 0 .. 7)
  <2>1. \A c \in Chip : ToldTo(c, 10) = 5
    BY DEF ToldTo
  <2>2. \A c \in Chip : ChipAfter(c, 5) = ChipWith(c, 0 .. 7)
    BY DEF ChipAfter, ChipWith
  <2> QED
    BY <2>1, <2>2
<1>5. \A c \in Chip : MaskAt(c, prepares) = 0 .. 7
  BY <1>3 DEF MaskAt, OpenAt
<1>6. chips = [c \in Chip |-> ChipWith(c, MaskAt(c, prepares))]
  BY <1>1, <1>4, <1>5 DEF AsTold
<1>7. irq_table' = [line \in Line |-> HandlerAt(line, prepares)]
  BY <1>1, <1>3 DEF HandlerAt
<1> QED
  BY <1>1, <1>3, <1>6, <1>7 DEF Wired

\* What there is to do for each registration.
Cat(s, t) == s \o t
Three(a, b, c) == Cat(<<a, b>>, <<c>>)
Four(a, b, c, d) == Cat(Three(a, b, c), <<d>>)

LEMMA ThreeIs ==
  ASSUME NEW a, NEW b, NEW c
  PROVE  /\ Len(Three(a, b, c)) = 3 /\ Three(a, b, c)[1] = a
         /\ Three(a, b, c)[2] = b /\ Three(a, b, c)[3] = c
BY DEF Three, Cat

LEMMA FourIs ==
  ASSUME NEW a, NEW b, NEW c, NEW d
  PROVE  /\ Len(Four(a, b, c, d)) = 4 /\ Four(a, b, c, d)[1] = a /\ Four(a, b, c, d)[2] = b
         /\ Four(a, b, c, d)[3] = c /\ Four(a, b, c, d)[4] = d
BY DEF Four, Three, Cat

\* One entry of it, and the k-th one from 0 on.
Says(entry, act, line, handler) == entry[1] = act /\ entry[2] = line /\ entry[3] = handler
Orders(who, k, act, line, handler) == Says(Preparation(who)[k + 1], act, line, handler)

LEMMA PreparationIs ==
  /\ Len(Preparation("kernel")) = 3 /\ Len(Preparation("console")) = 3
  /\ Len(Preparation("hdd")) = 4
  /\ Orders("kernel", 0, "disable", 0, "") /\ Orders("kernel", 1, "store", 0, "clock")
  /\ Orders("kernel", 2, "enable", 0, "")
  /\ Orders("console", 0, "disable", 1, "") /\ Orders("console", 1, "store", 1, "keyboard")
  /\ Orders("console", 2, "enable", 1, "")
  /\ Orders("hdd", 0, "disable", 14, "") /\ Orders("hdd", 1, "store", 14, "hdd")
  /\ Orders("hdd", 2, "enable", 2, "") /\ Orders("hdd", 3, "enable", 14, "")
<1>1. Preparation("kernel") =
        Three(<<"disable", 0, "">>, <<"store", 0, "clock">>, <<"enable", 0, "">>)
  <2>1. Preparation("kernel") = Cat(set_irq_handler(0, "clock"), enable_irq(0))
    BY Zenon DEF Preparation, Cat, IRQ_CLOCK
  <2> QED
    BY <2>1, Zenon DEF Three, set_irq_handler, enable_irq
<1>2. Preparation("console") =
        Three(<<"disable", 1, "">>, <<"store", 1, "keyboard">>, <<"enable", 1, "">>)
  <2>1. Preparation("console") = Cat(set_irq_handler(1, "keyboard"), enable_irq(1))
    BY Zenon DEF Preparation, Cat, IRQ_KEYBOARD
  <2> QED
    BY <2>1, Zenon DEF Three, set_irq_handler, enable_irq
<1>3. Preparation("hdd") =
        Four(<<"disable", 14, "">>, <<"store", 14, "hdd">>, <<"enable", 2, "">>,
             <<"enable", 14, "">>)
  <2>1. Preparation("hdd") =
          Cat(Cat(set_irq_handler(14, "hdd"), enable_irq(2)), enable_irq(14))
    BY Zenon DEF Preparation, Cat, IRQ_AT, IRQ_M_TO_S
  <2> QED
    BY <2>1, Zenon DEF Four, Three, set_irq_handler, enable_irq
<1>4. /\ Len(Preparation("kernel")) = 3
      /\ Orders("kernel", 0, "disable", 0, "")
      /\ Orders("kernel", 1, "store", 0, "clock")
      /\ Orders("kernel", 2, "enable", 0, "")
  <2> DEFINE s == Preparation("kernel")
             a == <<"disable", 0, "">>
             b == <<"store", 0, "clock">>
             c == <<"enable", 0, "">>
  <2>1. s = Three(a, b, c)
    BY <1>1
  <2>2. /\ Says(a, "disable", 0, "") /\ Says(b, "store", 0, "clock")
        /\ Says(c, "enable", 0, "")
    BY DEF Says
  <2> HIDE DEF s, a, b, c
  <2>3. Len(s) = 3 /\ s[1] = a /\ s[2] = b /\ s[3] = c
    BY <2>1, ThreeIs
  <2>4. 0 + 1 = 1 /\ 1 + 1 = 2 /\ 2 + 1 = 3
    OBVIOUS
  <2> QED
    BY <2>2, <2>3, <2>4, Zenon DEF Orders, s
<1>5. /\ Len(Preparation("console")) = 3
      /\ Orders("console", 0, "disable", 1, "")
      /\ Orders("console", 1, "store", 1, "keyboard")
      /\ Orders("console", 2, "enable", 1, "")
  <2> DEFINE s == Preparation("console")
             a == <<"disable", 1, "">>
             b == <<"store", 1, "keyboard">>
             c == <<"enable", 1, "">>
  <2>1. s = Three(a, b, c)
    BY <1>2
  <2>2. /\ Says(a, "disable", 1, "") /\ Says(b, "store", 1, "keyboard")
        /\ Says(c, "enable", 1, "")
    BY DEF Says
  <2> HIDE DEF s, a, b, c
  <2>3. Len(s) = 3 /\ s[1] = a /\ s[2] = b /\ s[3] = c
    BY <2>1, ThreeIs
  <2>4. 0 + 1 = 1 /\ 1 + 1 = 2 /\ 2 + 1 = 3
    OBVIOUS
  <2> QED
    BY <2>2, <2>3, <2>4, Zenon DEF Orders, s
<1>6. /\ Len(Preparation("hdd")) = 4
      /\ Orders("hdd", 0, "disable", 14, "")
      /\ Orders("hdd", 1, "store", 14, "hdd")
      /\ Orders("hdd", 2, "enable", 2, "")
      /\ Orders("hdd", 3, "enable", 14, "")
  <2> DEFINE s == Preparation("hdd")
             a == <<"disable", 14, "">>
             b == <<"store", 14, "hdd">>
             c == <<"enable", 2, "">>
             d == <<"enable", 14, "">>
  <2>1. s = Four(a, b, c, d)
    BY <1>3
  <2>2. /\ Says(a, "disable", 14, "") /\ Says(b, "store", 14, "hdd")
        /\ Says(c, "enable", 2, "") /\ Says(d, "enable", 14, "")
    BY DEF Says
  <2> HIDE DEF s, a, b, c, d
  <2>3. Len(s) = 4 /\ s[1] = a /\ s[2] = b /\ s[3] = c /\ s[4] = d
    BY <2>1, FourIs
  <2>4. 0 + 1 = 1 /\ 1 + 1 = 2 /\ 2 + 1 = 3 /\ 3 + 1 = 4
    OBVIOUS
  <2> QED
    BY <2>2, <2>3, <2>4, Zenon DEF Orders, s
<1> QED
  BY <1>4, <1>5, <1>6

LEMMA LengthIs ==
  ASSUME NEW who \in Who
  PROVE  Len(Preparation(who)) = IF who = "hdd" THEN 4 ELSE 3
<1>1. who = "kernel" \/ who = "console" \/ who = "hdd"
  BY DEF Who
<1>2. CASE who = "kernel"
  BY <1>2, PreparationIs, Zenon
<1>3. CASE who = "console"
  BY <1>3, PreparationIs, Zenon
<1>4. CASE who = "hdd"
  BY <1>4, PreparationIs, Zenon
<1> QED
  BY <1>1, <1>2, <1>3, <1>4

SameElsewhere(d, p) == \A c \in Chip \ {d} : MaskAt(c, p) = MaskAt(c, prepares)

LEMMA SetMask ==
  ASSUME Wired, NEW d \in Chip, NEW p, SameElsewhere(d, p)
  PROVE  [chips EXCEPT ![d].masked = MaskAt(d, p)] = [c \in Chip |-> ChipWith(c, MaskAt(c, p))]
<1>1. chips = [c \in Chip |-> ChipWith(c, MaskAt(c, prepares))]
  BY DEF Wired
<1>2. \A c, a, b : [ChipWith(c, a) EXCEPT !.masked = b] = ChipWith(c, b)
  BY DEF ChipWith
<1> HIDE DEF ChipWith
<1> QED
  BY <1>1, <1>2 DEF SameElsewhere

\* A step of a registration is one of these.
Disables(who, k, line) ==
  /\ k = 0
  /\ \/ who = "kernel" /\ line = 0
     \/ who = "console" /\ line = 1
     \/ who = "hdd" /\ line = 14
Stores(who, k, line, handler) ==
  /\ k = 1
  /\ \/ who = "kernel" /\ line = 0 /\ handler = "clock"
     \/ who = "console" /\ line = 1 /\ handler = "keyboard"
     \/ who = "hdd" /\ line = 14 /\ handler = "hdd"
Enables(who, k, line) ==
  \/ who = "kernel" /\ k = 2 /\ line = 0
  \/ who = "console" /\ k = 2 /\ line = 1
  \/ who = "hdd" /\ k = 2 /\ line = 2
  \/ who = "hdd" /\ k = 3 /\ line = 14

Masks(line, masked) == chips' = [chips EXCEPT ![ChipOf(line)].masked = masked]

LEMMA PrepareDoes ==
  ASSUME NEW who \in Who, NEW k \in Nat, k = prepares[who],
         k <= Len(Preparation(who)), Prepare(who)
  PROVE  /\ k < Len(Preparation(who)) /\ written' = written /\ idt' = idt
         /\ prepares' = [prepares EXCEPT ![who] = k + 1]
         /\ \E line, handler :
              \/ /\ Disables(who, k, line) /\ irq_table' = irq_table
                 /\ Masks(line, chips[ChipOf(line)].masked \cup {InputOf(line)})
              \/ /\ Enables(who, k, line) /\ irq_table' = irq_table
                 /\ Masks(line, chips[ChipOf(line)].masked \ {InputOf(line)})
              \/ /\ Stores(who, k, line, handler) /\ chips' = chips
                 /\ irq_table' = [irq_table EXCEPT ![line] = handler]
<1> DEFINE now == Preparation(who)[k + 1]
           masked(line) == chips[ChipOf(line)].masked
<1>1. /\ k # Len(Preparation(who)) /\ written' = written /\ idt' = idt
      /\ prepares' = [prepares EXCEPT ![who] = k + 1]
  BY DEF Prepare, Prepared
<1>2. \/ now[1] = "disable" /\ Masks(now[2], masked(now[2]) \cup {InputOf(now[2])}) /\ irq_table' = irq_table
      \/ now[1] = "enable" /\ Masks(now[2], masked(now[2]) \ {InputOf(now[2])}) /\ irq_table' = irq_table
      \/ now[1] = "store" /\ irq_table' = [irq_table EXCEPT ![now[2]] = now[3]] /\ chips' = chips
  BY Zenon DEF Prepare, Masks
<1>3. k < Len(Preparation(who)) /\ Len(Preparation(who)) = IF who = "hdd" THEN 4 ELSE 3
  <2>1. Len(Preparation(who)) = IF who = "hdd" THEN 4 ELSE 3
    BY LengthIs
  <2>2. Len(Preparation(who)) \in Nat
    BY <2>1
  <2> QED
    BY <1>1, <2>1, <2>2
<1> HIDE DEF now, masked
<1>4. \/ now[1] = "disable" /\ Disables(who, k, now[2])
      \/ now[1] = "enable" /\ Enables(who, k, now[2])
      \/ now[1] = "store" /\ Stores(who, k, now[2], now[3])
  <2>1. CASE who = "kernel"
    <3>1. \/ k = 0 /\ Says(now, "disable", 0, "")
          \/ k = 1 /\ Says(now, "store", 0, "clock")
          \/ k = 2 /\ Says(now, "enable", 0, "")
      <4>1. k = 0 \/ k = 1 \/ k = 2
        BY <1>3, <2>1
      <4> QED
        BY <2>1, <4>1, PreparationIs DEF Orders, now
    <3> QED
      BY <2>1, <3>1 DEF Disables, Enables, Stores, Says
  <2>2. CASE who = "console"
    <3>1. \/ k = 0 /\ Says(now, "disable", 1, "")
          \/ k = 1 /\ Says(now, "store", 1, "keyboard")
          \/ k = 2 /\ Says(now, "enable", 1, "")
      <4>1. k = 0 \/ k = 1 \/ k = 2
        BY <1>3, <2>2
      <4> QED
        BY <2>2, <4>1, PreparationIs DEF Orders, now
    <3> QED
      BY <2>2, <3>1 DEF Disables, Enables, Stores, Says
  <2>3. CASE who = "hdd"
    <3>1. \/ k = 0 /\ Says(now, "disable", 14, "")
          \/ k = 1 /\ Says(now, "store", 14, "hdd")
          \/ k = 2 /\ Says(now, "enable", 2, "")
          \/ k = 3 /\ Says(now, "enable", 14, "")
      <4>1. k = 0 \/ k = 1 \/ k = 2 \/ k = 3
        BY <1>3, <2>3
      <4> QED
        BY <2>3, <4>1, PreparationIs DEF Orders, now
    <3> QED
      BY <2>3, <3>1 DEF Disables, Enables, Stores, Says
  <2> QED
    BY <2>1, <2>2, <2>3 DEF Who
<1>5. "disable" # "enable" /\ "disable" # "store" /\ "enable" # "store"
  OBVIOUS
<1>6. CASE now[1] = "disable"
  <2>1. Disables(who, k, now[2]) /\ Masks(now[2], masked(now[2]) \cup {InputOf(now[2])}) /\ irq_table' = irq_table
    BY <1>2, <1>4, <1>5, <1>6
  <2> QED
    BY <1>1, <1>3, <2>1 DEF masked
<1>7. CASE now[1] = "enable"
  <2>1. Enables(who, k, now[2]) /\ Masks(now[2], masked(now[2]) \ {InputOf(now[2])}) /\ irq_table' = irq_table
    BY <1>2, <1>4, <1>5, <1>7
  <2> QED
    BY <1>1, <1>3, <2>1 DEF masked
<1>8. CASE now[1] = "store"
  <2>1. Stores(who, k, now[2], now[3]) /\ irq_table' = [irq_table EXCEPT ![now[2]] = now[3]] /\ chips' = chips
    BY <1>2, <1>4, <1>5, <1>8
  <2> QED
    BY <1>1, <1>3, <2>1
<1> QED
  BY <1>4, <1>6, <1>7, <1>8

\* What a registration that has come one step further means for inputs and handlers.
Furthers(who, k, q, p, line, handler) ==
  /\ Disables(who, k, line) =>
       /\ ~OpenAt(ChipOf(line), InputOf(line), q)
       /\ \A c, j : OpenAt(c, j, p) <=> OpenAt(c, j, q)
       /\ \A l : HandlerAt(l, p) = HandlerAt(l, q)
  /\ Stores(who, k, line, handler) =>
       /\ \A c, j : OpenAt(c, j, p) <=> OpenAt(c, j, q)
       /\ \A l : HandlerAt(l, p) = IF l = line THEN handler ELSE HandlerAt(l, q)
  /\ Enables(who, k, line) =>
       /\ \A c, j : OpenAt(c, j, p) <=> OpenAt(c, j, q) \/ (c = ChipOf(line) /\ j = InputOf(line))
       /\ \A l : HandlerAt(l, p) = HandlerAt(l, q)

LEMMA StepOpens ==
  ASSUME NEW who \in Who, NEW q \in [Who -> Nat], NEW p \in [Who -> Nat],
         p[who] = q[who] + 1, \A w \in Who \ {who} : p[w] = q[w], NEW line, NEW handler
  PROVE  Furthers(who, q[who], q, p, line, handler)
<1>1. /\ ChipOf(0) = "master" /\ ChipOf(1) = "master" /\ ChipOf(2) = "master" /\ ChipOf(14) = "slave"
      /\ InputOf(0) = 0 /\ InputOf(1) = 1 /\ InputOf(2) = 2 /\ InputOf(14) = 6
  BY DEF ChipOf, InputOf
<1>2. /\ q["kernel"] \in Nat /\ q["console"] \in Nat /\ q["hdd"] \in Nat
      /\ p["kernel"] = IF who = "kernel" THEN q["kernel"] + 1 ELSE q["kernel"]
      /\ p["console"] = IF who = "console" THEN q["console"] + 1 ELSE q["console"]
      /\ p["hdd"] = IF who = "hdd" THEN q["hdd"] + 1 ELSE q["hdd"]
  BY DEF Who
<1>3. who = "kernel" \/ who = "console" \/ who = "hdd"
  BY DEF Who
<1>4. ASSUME Disables(who, q[who], line)
      PROVE  /\ ~OpenAt(ChipOf(line), InputOf(line), q)
             /\ \A c, j : OpenAt(c, j, p) <=> OpenAt(c, j, q)
             /\ \A l : HandlerAt(l, p) = HandlerAt(l, q)
  <2>1. q[who] = 0 /\ (line = 0 \/ line = 1 \/ line = 14)
    BY <1>4 DEF Disables
  <2>2. \A c, j : OpenAt(c, j, p) <=> OpenAt(c, j, q)
    BY <1>2, <1>3, <2>1 DEF OpenAt
  <2>3. \A l : HandlerAt(l, p) = HandlerAt(l, q)
    BY <1>2, <1>3, <2>1 DEF HandlerAt
  <2>4. ~OpenAt(ChipOf(line), InputOf(line), q)
    BY <1>1, <1>2, <1>3, <1>4, <2>1 DEF OpenAt, Disables
  <2> QED
    BY <2>2, <2>3, <2>4
<1>5. ASSUME Stores(who, q[who], line, handler)
      PROVE  /\ \A c, j : OpenAt(c, j, p) <=> OpenAt(c, j, q)
             /\ \A l : HandlerAt(l, p) = IF l = line THEN handler ELSE HandlerAt(l, q)
  <2>1. \A c, j : OpenAt(c, j, p) <=> OpenAt(c, j, q)
    BY <1>2, <1>5 DEF OpenAt, Stores
  <2>2. \A l : HandlerAt(l, p) = IF l = line THEN handler ELSE HandlerAt(l, q)
    BY <1>2, <1>5 DEF HandlerAt, Stores
  <2> QED
    BY <2>1, <2>2
<1>6. ASSUME Enables(who, q[who], line)
      PROVE  /\ \A c, j : OpenAt(c, j, p) <=> OpenAt(c, j, q) \/ (c = ChipOf(line) /\ j = InputOf(line))
             /\ \A l : HandlerAt(l, p) = HandlerAt(l, q)
  <2>1. \A c, j : OpenAt(c, j, p) <=> OpenAt(c, j, q) \/ (c = ChipOf(line) /\ j = InputOf(line))
    BY <1>1, <1>2, <1>6 DEF OpenAt, Enables
  <2>2. \A l : HandlerAt(l, p) = HandlerAt(l, q)
    BY <1>2, <1>6 DEF HandlerAt, Enables
  <2> QED
    BY <2>1, <2>2
<1> QED
  BY <1>4, <1>5, <1>6 DEF Furthers

LEMMA PrepareKeeps ==
  ASSUME Wired, NEW who \in Who, Prepare(who)
  PROVE  Wired'
<1> DEFINE k == prepares[who]
           p == prepares'
           masked(line) == chips[ChipOf(line)].masked
<1>1. /\ prepares \in [Who -> Nat] /\ written = 11
      /\ prepares["kernel"] \in 0 .. 3 /\ prepares["console"] \in 0 .. 3 /\ prepares["hdd"] \in 0 .. 4
      /\ chips = [c \in Chip |-> ChipWith(c, MaskAt(c, prepares))]
      /\ irq_table = [l \in Line |-> HandlerAt(l, prepares)]
      /\ idt = [v \in 0 .. 255 |-> Gate(v)]
  BY DEF Wired
<1>2. \A c \in Chip : chips[c].masked = MaskAt(c, prepares)
  BY <1>1 DEF ChipWith
<1>3. /\ k \in Nat /\ Len(Preparation(who)) \in Nat /\ k <= Len(Preparation(who))
      /\ Len(Preparation(who)) = IF who = "hdd" THEN 4 ELSE 3
  <2>1. Len(Preparation(who)) = IF who = "hdd" THEN 4 ELSE 3
    BY LengthIs
  <2>2. k \in 0 .. IF who = "hdd" THEN 4 ELSE 3
    BY <1>1 DEF Who
  <2> QED
    BY <2>1, <2>2
<1>4. /\ k < Len(Preparation(who)) /\ written' = written /\ idt' = idt
      /\ prepares' = [prepares EXCEPT ![who] = k + 1]
  BY <1>3, PrepareDoes
<1>5. PICK line, handler :
        \/ /\ Disables(who, k, line) /\ irq_table' = irq_table
           /\ Masks(line, masked(line) \cup {InputOf(line)})
        \/ /\ Enables(who, k, line) /\ irq_table' = irq_table
           /\ Masks(line, masked(line) \ {InputOf(line)})
        \/ /\ Stores(who, k, line, handler) /\ chips' = chips
           /\ irq_table' = [irq_table EXCEPT ![line] = handler]
  BY <1>3, PrepareDoes
<1> HIDE DEF k
<1>6. /\ p \in [Who -> Nat] /\ p[who] = k + 1
      /\ \A w \in Who \ {who} : p[w] = prepares[w]
  <2>1. k + 1 \in Nat
    BY <1>3
  <2> QED
    BY <1>1, <1>4, <2>1
<1>7. p["kernel"] \in 0 .. 3 /\ p["console"] \in 0 .. 3 /\ p["hdd"] \in 0 .. 4
  <2> HIDE DEF p
  <2>1. k + 1 \in 1 .. IF who = "hdd" THEN 4 ELSE 3
    BY <1>3, <1>4
  <2> QED
    BY <1>1, <1>6, <2>1 DEF Who
<1>8. SUFFICES /\ chips' = [c \in Chip |-> ChipWith(c, MaskAt(c, p))]
               /\ irq_table' = [l \in Line |-> HandlerAt(l, p)]
  BY <1>1, <1>4, <1>6, <1>7 DEF Wired
<1>9. ChipOf(line) \in Chip
  BY DEF ChipOf, Chip
<1> HIDE DEF p
<1>10. Furthers(who, k, prepares, p, line, handler)
  <2>1. prepares \in [Who -> Nat] /\ p \in [Who -> Nat] /\ p[who] = prepares[who] + 1
    BY <1>1, <1>6 DEF k
  <2>2. Furthers(who, prepares[who], prepares, p, line, handler)
    BY <1>6, <2>1, StepOpens
  <2> QED
    BY <2>2 DEF k
<1> HIDE DEF masked
<1>11. CASE Disables(who, k, line) /\ irq_table' = irq_table /\ Masks(line, masked(line) \cup {InputOf(line)})
  <2>1. /\ ~OpenAt(ChipOf(line), InputOf(line), prepares)
        /\ \A c, j : OpenAt(c, j, p) <=> OpenAt(c, j, prepares)
        /\ \A l : HandlerAt(l, p) = HandlerAt(l, prepares)
    BY <1>11, <1>10 DEF Furthers
  <2>2. \A c \in Chip : MaskAt(c, p) = MaskAt(c, prepares)
    BY <2>1 DEF MaskAt
  <2>3. InputOf(line) \in 0 .. 7
    BY <1>11 DEF Disables, InputOf
  <2>4. MaskAt(ChipOf(line), p) = masked(line) \cup {InputOf(line)}
    BY <1>2, <1>9, <2>1, <2>2, <2>3 DEF MaskAt, masked
  <2>5. SameElsewhere(ChipOf(line), p)
    BY <2>2 DEF SameElsewhere
  <2>6. chips' = [c \in Chip |-> ChipWith(c, MaskAt(c, p))]
    <3>1. [chips EXCEPT ![ChipOf(line)].masked = MaskAt(ChipOf(line), p)]
            = [c \in Chip |-> ChipWith(c, MaskAt(c, p))]
      BY <1>9, <2>5, SetMask
    <3>2. chips' = [chips EXCEPT ![ChipOf(line)].masked = MaskAt(ChipOf(line), p)]
      BY <1>11, <2>4, Zenon DEF Masks
    <3> QED
      BY <3>1, <3>2, Zenon
  <2> QED
    BY <1>1, <1>11, <2>1, <2>6
<1>12. CASE Enables(who, k, line) /\ irq_table' = irq_table /\ Masks(line, masked(line) \ {InputOf(line)})
  <2>1. /\ \A c, j : OpenAt(c, j, p) <=> OpenAt(c, j, prepares) \/ (c = ChipOf(line) /\ j = InputOf(line))
        /\ \A l : HandlerAt(l, p) = HandlerAt(l, prepares)
    BY <1>12, <1>10 DEF Furthers
  <2>2. \A c \in Chip \ {ChipOf(line)} : MaskAt(c, p) = MaskAt(c, prepares)
    BY <2>1 DEF MaskAt
  <2>3. MaskAt(ChipOf(line), p) = masked(line) \ {InputOf(line)}
    BY <1>2, <1>9, <2>1 DEF MaskAt, masked
  <2>4. SameElsewhere(ChipOf(line), p)
    BY <2>2 DEF SameElsewhere
  <2>5. chips' = [c \in Chip |-> ChipWith(c, MaskAt(c, p))]
    <3>1. [chips EXCEPT ![ChipOf(line)].masked = MaskAt(ChipOf(line), p)]
            = [c \in Chip |-> ChipWith(c, MaskAt(c, p))]
      BY <1>9, <2>4, SetMask
    <3>2. chips' = [chips EXCEPT ![ChipOf(line)].masked = MaskAt(ChipOf(line), p)]
      BY <1>12, <2>3, Zenon DEF Masks
    <3> QED
      BY <3>1, <3>2, Zenon
  <2> QED
    BY <1>1, <1>12, <2>1, <2>5
<1>13. CASE Stores(who, k, line, handler) /\ chips' = chips /\ irq_table' = [irq_table EXCEPT ![line] = handler]
  <2>1. /\ \A c, j : OpenAt(c, j, p) <=> OpenAt(c, j, prepares)
        /\ \A l : HandlerAt(l, p) = IF l = line THEN handler ELSE HandlerAt(l, prepares)
    BY <1>13, <1>10 DEF Furthers
  <2>2. \A c \in Chip : MaskAt(c, p) = MaskAt(c, prepares)
    BY <2>1 DEF MaskAt
  <2>3. line \in Line
    BY <1>13 DEF Stores, Line
  <2>4. irq_table' = [l \in Line |-> HandlerAt(l, p)]
    BY <1>1, <1>13, <2>1, <2>3
  <2> QED
    BY <1>1, <1>13, <2>2, <2>4
<1> QED
  BY <1>5, <1>11, <1>12, <1>13

LEMMA VectorsStepKeeps == VectorsInv /\ [VectorsNext]_vectorVars => VectorsInv'
<1> SUFFICES ASSUME VectorsInv, [VectorsNext]_vectorVars PROVE VectorsInv'
  OBVIOUS
<1>1. CASE UNCHANGED vectorVars
  BY <1>1 DEF VectorsInv, AsTold, Wired, vectorVars
<1>2. CASE AsTold
  <2>1. CASE ProgramControllers
    BY <1>2, <2>1, ControllersKeep DEF VectorsInv
  <2>2. CASE FillTables
    BY <1>2, <2>2, FillKeeps DEF VectorsInv
  <2>3. ~ \E who \in DOMAIN prepares : Prepare(who)
    <3>1. ~Filled
      BY <1>2, ProgrammingIs DEF AsTold, Filled
    <3>2. \A who : Prepare(who) => Filled
      BY Zenon DEF Prepare
    <3> QED
      BY <3>1, <3>2
  <2> QED
    BY <1>1, <2>1, <2>2, <2>3 DEF VectorsNext
<1>3. CASE Wired
  <2>1. written = 11 /\ DOMAIN prepares = Who
    BY <1>3 DEF Wired
  <2>2. ~ProgramControllers /\ ~FillTables
    BY <2>1, ProgrammingIs DEF ProgramControllers, FillTables
  <2>3. ASSUME NEW who \in Who, Prepare(who) PROVE Wired'
    BY <1>3, <2>3, PrepareKeeps
  <2> QED
    BY <1>1, <2>1, <2>2, <2>3 DEF VectorsNext, VectorsInv
<1> QED
  BY <1>2, <1>3 DEF VectorsInv

LEMMA InvLinesReachHandlers == VectorsInv => LinesReachHandlers
<1> SUFFICES ASSUME VectorsInv, Filled PROVE LinesReachHandlers
  BY DEF LinesReachHandlers
<1>1. Wired
  BY ProgrammingIs DEF VectorsInv, AsTold, Filled
<1>2. /\ prepares["kernel"] \in 0 .. 3 /\ prepares["console"] \in 0 .. 3 /\ prepares["hdd"] \in 0 .. 4
      /\ irq_table = [line \in Line |-> HandlerAt(line, prepares)]
      /\ idt = [v \in 0 .. 255 |-> Gate(v)]
  BY <1>1 DEF Wired
<1>3. \A c \in Chip : /\ chips[c].masked = MaskAt(c, prepares) /\ chips[c].expects = "OCW1"
                      /\ chips[c].base = ValueOf(c, 1) /\ chips[c].cascade = ValueOf(c, 2)
  BY <1>1 DEF Wired, ChipWith
<1>4. /\ chips["master"].base = 32 /\ chips["slave"].base = 40
      /\ chips["master"].cascade = 4 /\ chips["slave"].cascade = 2 /\ 2 ^ 2 = 4
      /\ "master" \in Chip /\ "slave" \in Chip
  BY <1>3 DEF ValueOf, INT_VECTOR_IRQ0, INT_VECTOR_IRQ8, Chip
<1>5. ASSUME NEW line \in Line \ {IRQ_M_TO_S}, Reaches(line)
      PROVE  idt[VectorOf(line)] = <<"hw_int", line, PRI_KRNL>> /\ irq_table[line] # "dummy_irq_handler"
  <2>1. InputOf(line) \notin MaskAt(ChipOf(line), prepares) /\ InputOf(line) \in 0 .. 7 /\ ChipOf(line) \in Chip
    BY <1>3, <1>5 DEF Reaches, ChipOf, InputOf, Chip, Line
  <2>2. OpenAt(ChipOf(line), InputOf(line), prepares)
    BY <2>1 DEF MaskAt
  <2>3. \/ line = 0 /\ prepares["kernel"] = 3
        \/ line = 1 /\ prepares["console"] = 3
        \/ line = 14 /\ prepares["hdd"] = 4
    BY <2>2 DEF OpenAt, ChipOf, InputOf, Line, IRQ_M_TO_S
  <2>4. irq_table[line] # "dummy_irq_handler"
    BY <1>2, <2>3 DEF HandlerAt
  <2>5. (line = 0 => VectorOf(line) = 32) /\ (line = 1 => VectorOf(line) = 33)
        /\ (line = 14 => VectorOf(line) = 46)
    BY <1>4 DEF VectorOf, ChipOf, InputOf
  <2>6. /\ Gate(32) = <<"hw_int", 0, PRI_KRNL>> /\ Gate(33) = <<"hw_int", 1, PRI_KRNL>>
        /\ Gate(46) = <<"hw_int", 14, PRI_KRNL>>
    BY DEF Gate, INT_VECTOR_IRQ0, INT_VECTOR_IRQ8, INT_VECTOR_SYS_CALL
  <2>7. idt[32] = Gate(32) /\ idt[33] = Gate(33) /\ idt[46] = Gate(46)
    BY <1>2
  <2>8. idt[VectorOf(line)] = <<"hw_int", line, PRI_KRNL>>
    BY <2>3, <2>5, <2>6, <2>7, Zenon
  <2> QED
    BY <2>4, <2>8
<1>6. \A c \in Chip : chips[c].expects = "OCW1"
  BY <1>3
<1>7. ASSUME Prepared("kernel") PROVE Reaches(IRQ_CLOCK)
  <2>1. prepares["kernel"] = 3
    BY <1>7, PreparationIs DEF Prepared
  <2> QED
    BY <1>3, <1>4, <1>6, <2>1 DEF Reaches, MaskAt, OpenAt, ChipOf, InputOf, IRQ_CLOCK
<1>8. ASSUME Prepared("console") PROVE Reaches(IRQ_KEYBOARD)
  <2>1. prepares["console"] = 3
    BY <1>8, PreparationIs DEF Prepared
  <2> QED
    BY <1>3, <1>4, <1>6, <2>1 DEF Reaches, MaskAt, OpenAt, ChipOf, InputOf, IRQ_KEYBOARD
<1>9. ASSUME Prepared("hdd") PROVE Reaches(IRQ_AT)
  <2>1. prepares["hdd"] = 4
    BY <1>9, PreparationIs DEF Prepared
  <2>2. OpenAt("slave", 6, prepares) /\ OpenAt("master", 2, prepares)
    BY <2>1 DEF OpenAt
  <2>3. 6 \notin chips["slave"].masked /\ 2 \notin chips["master"].masked
    BY <1>3, <1>4, <2>2 DEF MaskAt
  <2>4. ChipOf(IRQ_AT) = "slave" /\ InputOf(IRQ_AT) = 6
    BY DEF ChipOf, InputOf, IRQ_AT
  <2>5. chips["master"].cascade = 2 ^ chips["slave"].cascade
    BY <1>4
  <2> QED
    BY <1>4, <1>6, <2>3, <2>4, <2>5 DEF Reaches
<1> QED
  BY <1>5, <1>7, <1>8, <1>9 DEF LinesReachHandlers

\* From when the interrupt tables are filled on, whatever the order in which the clock,
\* the console and the disk register: a line that is open has its own code and handler.
THEOREM VectorsSpecLines == VectorsSpec => []LinesReachHandlers
BY VectorsInitInv, VectorsStepKeeps, InvLinesReachHandlers, PTL DEF VectorsSpec

--------------------------------------------------------------------------------
(* The machine: loader, entry and programs one after the other.               *)

\* The loader and the entry do their work until the programs start, and the programs
\* nothing to it.
Loaded == LoaderInv /\ SegmentsInv
Up == stage = "up" /\ step = "done" /\ prepared = "started"

LEMMA MachineStep ==
  ASSUME Loaded \/ Up, [MachineNext]_machineVars
  PROVE  /\ [SystemNext]_systemVars
         /\ Loaded' \/ Up'
<1>1. CASE UNCHANGED <<loadVars, vectorVars, segmentVars>>
  <2>1. UNCHANGED <<stage, step, prepared>>
    BY <1>1 DEF loadVars, segmentVars
  <2>2. Loaded => Loaded'
    BY <1>1, LoaderStepKeeps, SegmentsStepKeeps DEF Loaded
  <2>3. [SystemNext]_systemVars
    BY <1>1 DEF MachineNext, machineVars, Runs, Starts, Loads, EntersVectors, EntersSegments,
                PreparesLine
  <2> QED
    BY <2>1, <2>2, <2>3 DEF Up
<1>2. CASE Loads
  <2>1. LoadNext /\ UNCHANGED <<systemVars, segmentVars>>
    BY <1>2 DEF Loads
  <2>2. ~Up
    BY <2>1 DEF LoadNext, Search, NotFound, LoadSector, SectorRefused, Crosses, EnterLoader, ShowMemInfo,
                CalculateMemSize, SetupPages, InitKernel, Up
  <2> QED
    BY <2>1, <2>2, LoaderStepKeeps, SegmentsStepKeeps DEF Loaded
<1>3. CASE EntersVectors \/ PreparesLine
  <2>1. stage = "entry" /\ UNCHANGED <<systemVars, loadVars, segmentVars>>
    BY <1>3 DEF EntersVectors, PreparesLine
  <2> QED
    BY <2>1, LoaderStepKeeps, SegmentsStepKeeps DEF Loaded, Up
<1>4. CASE EntersSegments
  <2>1. stage = "entry" /\ SegmentsNext /\ UNCHANGED <<systemVars, loadVars>>
    BY <1>4 DEF EntersSegments
  <2> QED
    BY <2>1, LoaderStepKeeps, SegmentsStepKeeps DEF Loaded, Up
<1>5. CASE Starts
  BY <1>5 DEF Starts, Up
<1>6. CASE Runs
  BY <1>1, <1>6 DEF Runs
<1>7. CASE UNCHANGED machineVars
  BY <1>1, <1>7 DEF machineVars
<1> QED
  BY <1>2, <1>3, <1>4, <1>5, <1>6, <1>7 DEF MachineNext

LEMMA MachineIsLoaded == MachineSpec => [](Loaded \/ Up)
<1>1. MachineInit => Loaded
  BY LoadInitInv, SegmentsInitInv DEF MachineInit, Loaded
<1> QED
  BY <1>1, MachineStep, PTL DEF MachineSpec

\* Whatever was loaded and set up before, the programs of the machine run as those of
\* the system, and all that is proved of them holds from reset on.
THEOREM MachineRunsSystem == MachineSpec => SystemSpec
<1>1. MachineInit => SystemInit
  BY DEF MachineInit
<1> QED
  BY <1>1, MachineIsLoaded, MachineStep, PTL DEF MachineSpec, SystemSpec

\* From reset on, for any floppies, memory maps and numbers of processes: a file that
\* is loaded is all there, the memory is mapped when the kernel starts, and every
\* process is entered with segments, a privilege and a stack of its own.
THEOREM MachineIsSetUp == MachineSpec => [](LoadedIsFile /\ MemoryMapped /\ SegmentsAreOwn)
<1>1. Loaded => LoadedIsFile /\ MemoryMapped /\ SegmentsAreOwn
  BY InvLoadedIsFile, InvMemoryMapped, InvSegmentsAreOwn DEF Loaded
<1>2. Up => LoadedIsFile /\ MemoryMapped /\ SegmentsAreOwn
  BY DEF Up, LoadedIsFile, MemoryMapped, SegmentsAreOwn
<1> QED
  BY <1>1, <1>2, MachineIsLoaded, PTL

\* Until the programs start, the lines are as those who register have left them; and
\* then nothing of that is carried along.
LinesOK == IF stage = "up" THEN written = 0 ELSE VectorsInv

LEMMA MachineLines == LinesOK /\ [MachineNext]_machineVars => LinesOK'
<1> SUFFICES ASSUME LinesOK, [MachineNext]_machineVars PROVE LinesOK'
  OBVIOUS
<1>1. CASE UNCHANGED vectorVars /\ UNCHANGED stage
  <2>1. VectorsInv => VectorsInv'
    BY <1>1, VectorsStepKeeps
  <2>2. written' = written
    BY <1>1 DEF vectorVars
  <2> QED
    BY <1>1, <2>1, <2>2 DEF LinesOK
<1>2. CASE Loads
  <2>1. LoadNext /\ UNCHANGED vectorVars
    BY <1>2 DEF Loads
  <2>2. stage # "up" /\ stage' # "up"
    BY <2>1 DEF LoadNext, Search, NotFound, LoadSector, SectorRefused, Crosses, EnterLoader, ShowMemInfo,
                CalculateMemSize, SetupPages, InitKernel, loadVars
  <2> QED
    BY <2>1, <2>2, VectorsStepKeeps DEF LinesOK
<1>3. CASE EntersVectors \/ PreparesLine
  <2>1. stage = "entry" /\ stage' = stage
    BY <1>3 DEF EntersVectors, PreparesLine, loadVars
  <2>2. VectorsNext
    <3>1. ASSUME Prepare("kernel") \/ Prepare("console") \/ Prepare("hdd") PROVE VectorsNext
      <4>1. Filled
        BY <3>1, Zenon DEF Prepare
      <4>2. DOMAIN prepares = Who
        BY <2>1, <4>1, ProgrammingIs DEF LinesOK, VectorsInv, AsTold, Wired, Filled
      <4> QED
        BY <3>1, <4>2 DEF VectorsNext, Who
    <3> QED
      BY <1>3, <3>1 DEF EntersVectors, PreparesLine, VectorsNext
  <2> QED
    BY <2>1, <2>2, VectorsStepKeeps DEF LinesOK
<1>4. CASE EntersSegments \/ Runs
  BY <1>1, <1>4 DEF EntersSegments, Runs, loadVars
<1>5. CASE Starts
  BY <1>5 DEF Starts, LinesOK
<1>6. CASE UNCHANGED machineVars
  BY <1>1, <1>6 DEF machineVars, loadVars
<1> QED
  BY <1>2, <1>3, <1>4, <1>5, <1>6 DEF MachineNext

\* From reset on, in the order in which the machine comes up: an interrupt that comes to
\* the processor once the tables are filled arrives at the code of its own line and
\* finds a handler there, and whoever has registered is heard.
THEOREM LinesReachHandlersEver == MachineSpec => []LinesReachHandlers
<1>1. MachineInit => LinesOK
  BY VectorsInitInv DEF MachineInit, LoadInit, LinesOK
<1>2. LinesOK => LinesReachHandlers
  <2>1. CASE stage = "up"
    BY <2>1, ProgrammingIs DEF LinesOK, LinesReachHandlers, Filled
  <2>2. CASE stage # "up"
    BY <2>2, InvLinesReachHandlers DEF LinesOK
  <2> QED
    BY <2>1, <2>2
<1> QED
  BY <1>1, <1>2, MachineLines, PTL DEF MachineSpec

================================================================================
