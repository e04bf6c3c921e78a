-------------------------------- MODULE MCSystem --------------------------------
(******************************************************************************)
(* The machine on a small instance for TLC.  Of the processes, 0 stands for   *)
(* console_task and process_A, which send nothing.                            *)
(******************************************************************************)
EXTENDS Machine, TLC

LoaderName == "LOADER  BIN"
KernelName == "KERNEL  BIN"

Floppy(names, loader, kernel) ==
  [dir |-> names, clusters |-> LoaderName :> loader @@ KernelName :> kernel]

\* A root directory of four entries in two sectors.  Files back to back, scattered
\* and backwards, a kernel that fills its segment, one that is too long, a loader that
\* is, two missing.
SmallFloppies ==
  {Floppy(<<LoaderName, KernelName, "", "">>, <<2>>, <<3, 4>>),
   Floppy(<<"", "README  TXT", KernelName, LoaderName>>, <<5, 2>>, <<8, 3, 6>>),
   Floppy(<<"", LoaderName, "", KernelName>>, <<2>>, <<3, 4, 5, 6>>),
   Floppy(<<LoaderName, "", "", KernelName>>, <<2, 3, 4, 5>>, <<6>>),
   Floppy(<<LoaderName, "", "README  TXT", "">>, <<3>>, <<2>>),
   Floppy(<<"", "", "", "">>, <<3>>, <<2>>)}

Mem(base, length, type) == [above |-> FALSE, base |-> base, length |-> length, type |-> type]

\* A table maps 4, of 32.  The last map has more ranges than the loader has room for.
SmallMaps ==
  {[carry |-> FALSE, ranges |-> <<Mem(0, 3, 1), Mem(3, 1, 2), Mem(4, 6, 1), Mem(28, 4, 2)>>],
   [carry |-> FALSE, ranges |-> <<Mem(4, 8, 1), Mem(0, 3, 1),
                                  [above |-> TRUE, base |-> 0, length |-> 8, type |-> 1]>>],
   [carry |-> FALSE, ranges |-> <<Mem(0, 4, 2)>>],
   [carry |-> TRUE, ranges |-> <<Mem(0, 8, 1)>>],
   [carry |-> FALSE, ranges |-> <<Mem(0, 3, 1), Mem(3, 1, 2), Mem(4, 4, 1), Mem(8, 2, 1), Mem(28, 4, 2)>>]}

\* What is loaded, alone or before an empty header (the stack's permissions).
Loadable == <<1, 2, 9, 9, 3, 5, 5, 16>>
StackHeader == <<7, 0, 0, 0, 0, 0, 6, 4>>
SmallKernels == {<<Loadable>>, <<Loadable, StackHeader>>}

\* Tables apart by more than a byte, one above the middle of memory.
SmallLdts == [p \in 0 .. NumProc - 1 |-> 300 + 1100 * p]
SmallStacks == [p \in 0 .. NumProc - 1 |-> IF p = 2 THEN 3 ELSE 2]

================================================================================
