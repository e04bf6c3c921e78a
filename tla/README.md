# WalOS, specified

WalOS is a small 32-bit x86 kernel: a clock-driven scheduler, a system call gate with
two calls (`printx`, `send_recv`), rendezvous message passing between a fixed table of
tasks and processes, and drivers for keyboard, text consoles and an ATA disk. This
directory holds TLA+ models of it, the TLC runs that check them and TLAPS proofs about
them. Paths below are relative to the repository's root.

## 1. The system

| component | code | state | operations |
|---|---|---|---|
| message passing | `kernel/message.c`, `sys_send_recv` in `kernel/interrupt.c`, `deliver_int_to_proc` in `kernel/process.c` | in each `proc_table` entry: `flags`, `msg`, `recv_from`, `send_to`, `have_int_msg`, `current_send`, `next_send` | `msg_send`, `msg_recv`, `dead_lock`, `block`, `unblock`, `deliver_int_to_proc` |
| scheduling | `process_schedule` in `kernel/process.c`, `clock_int_handler` in `kernel/interrupt.c` | `ticks` and `priority` per process, `process_ready` | choose, charge, refill |
| interrupt gate | `kernel/gas/interrupt.s` | the one kernel stack, `int_reenter`, the 8259 masks, the interrupt flag, `tss.esp0`, the registers in each table entry | `_save`, the 16 hardware stubs, `sys_call`, `restart_process`, `restart_re_enter`, `enable_irq`, `disable_irq` |
| system calls | `kernel/gas/sys_call.s`, `sys_printx`, `sys_send_recv` | none of their own | `as_printx`, `as_send_recv` |
| keyboard | `kernel/interrupt.c` 17-479, `include/kernel/keyboard.h` | ring `kb_in`, three locks, six modifier flags | `keyboard_int_handler`, `read_keyboard`, `set_kb_led` |
| consoles | `kernel/console.c` | per console: cursor, start address, memory bounds, input ring; `current_console` | `console_task`, `print_character`, `scroll_console`, `store_key`, `change_current_console` |
| disk driver | `kernel/hdd.c` 1-216, 357-392 | `hdd_status`, `hd_buf`, `hdd_info` | open, close, read, write, io control, `hdd_int_handler`, `get_status` |
| partitions and minor numbers | `kernel/hdd.c` 17, 221-297, `include/kernel/fs.h` | `primary[]`, `logical[]` | `DEV_TO_DRV`, `handle_partition`, `get_partition_table` |
| system task | `kernel/system.c` | reads `ticks` | serves `MSG_GET_TICKS` |
| file system task | `kernel/fs.c` | none | sends one `MSG_DEV_OPEN` |
| library, assertions | `lib/*.c` | `position` of the early output | `vsprintf`, `itoa_base`, `atoi`, `delay`, `assert_failure`, `CRITICAL` |
| user processes | `kernel/process.c` 171-198 | none | `process_A` loops, `process_B` and `process_C` wait with `delay` |
| set-up | `kernel/core.c`, `kernel/gas/entry.s`, `init_8259a`, `set_irq_handler`, `init_process_main` | GDT, IDT, TSS, LDTs, `irq_table`, the masks | once each, but tasks register their handlers while the clock already runs |
| exceptions | `kernel/exception.c`, `kernel/gas/exception.s` | none | print and halt |
| boot sector, loader | `boot/boot.s`, `boot/loader.s` | FAT buffers, memory map | follow a FAT12 chain, size memory, build page tables, copy the kernel's segments |

How they interact. There is one processor and one address space. Tasks and processes enter
the kernel only through `int 0x90`; hardware enters it through the stubs. A system call runs
with interrupts on, and so does a handler, with its own line masked. `int_reenter` (-1 in user
mode) tells the outermost activation from the nested ones: only the outermost one may change
`process_ready`, because `clock_int_handler` returns early when `int_reenter` is not 0 and the
disk and keyboard handlers never schedule. On the way out `restart_process` loads whatever
`process_ready` is. A process that blocks in a call does not wait inside the kernel: `block`
merely picks another `process_ready`, the call runs on to its end, and the blocked process is
completed by writing into its message buffer.

What is hard about it:

* `msg_send`, `msg_recv` and `process_schedule` read and write process table entries with
  interrupts on, and `deliver_int_to_proc` writes the driver's entry from the disk interrupt;
* the lists of blocked senders run through the table entries themselves;
* deadlock is looked for when a process sends, from one end only;
* the scan of the table is interrupted by the clock, which charges the scan's own candidate;
* handlers nest in any order on one stack, and only four small conventions keep them apart;
* the keyboard ring, the console cursors and the disk's command and interrupt are shared
  between interrupts, tasks and calls that preempt each other.

What makes each component correct:

* message passing: a message arrives whole, exactly once, in turn; whoever is blocked can be
  completed; a sender and a receiver that want each other meet; cycles of senders are refused;
* scheduling: what runs is runnable, has ticks left and the most of them, and nobody starves;
* gate: activations nest, processes switch only at the bottom, everybody resumes with its own
  registers and its own result, masked lines are opened again;
* keyboard: no scan code is lost or reordered while the ring has room, and the modifiers agree
  with the keys that are down; consoles: the cursor stays inside the console's memory and, after
  output, on the screen, and echoed keys keep their order;
* disk: no command while another is in progress, a sector is read only when the disk has it,
  every interrupt is consumed by the wait it belongs to; partitions: every minor number stands
  for the partition `fs.h` draws there, and no chain on the disk spoils or blocks the open;
* the tasks together: every call returns the message it asked for, and no request gets lost;
* loader and set-up: a file lies in memory as its chain has it, the kernel is where it is linked,
  a line that is open leads to its handler, a process has tables and a stack of its own.

`PROJECT.json` lists the hazards line by line, with the properties that cover each.

## 2. Modules

| module | what it is |
|---|---|
| `Ipc` | message passing, one step per point where the disk interrupt can tell the difference |
| `Rendezvous` | what `send_recv` promises, without flags, pointers or kernel steps |
| `IpcRendezvous` | the refinement mapping from `Ipc` to `Rendezvous` |
| `IpcProofs` | the inductive invariant of `Ipc` and eight theorems |
| `IpcRendezvousProofs` | `Ipc` implements `Rendezvous`: two theorems |
| `Scheduler` | `process_schedule`, `clock_int_handler`, `block`, wake-ups |
| `SchedulerProofs` | the inductive invariant of `Scheduler` and five theorems |
| `InterruptGate` | entries, nesting and returns |
| `InterruptGateProofs` | the inductive invariant of the gate and seven theorems |
| `Keyboard` | the ring `kb_in`, its handler, the decoder, the light command |
| `KeyboardProofs` | the ring keeps its shape; what the user typed is what `read_keyboard` passes on |
| `Console` | the console task, and the calls that print between its steps |
| `ConsoleProofs` | the inductive invariant of `Console` and four theorems |
| `Hdd` | the disk driver, the disk's interrupt and the disk |
| `Lib` | the numbers of `lib/common.c`: `itoa_base`, `vsprintf`'s fields, `atoi`, the time of `delay` |
| `Partition` | minor numbers, the walk of the partition tables, `print_hdd_info` |
| `HddOpen` | `Hdd` with `Partition`: the driver and what it reads |
| `HddProofs` | the driver in step with the disk, the walk for any disk, what is printed of it, and how far the arithmetic goes: nineteen theorems |
| `System` | the programs of the tasks and processes on the message passing of `Ipc` |
| `Loader` | boot sector and loader, from reset to the jump to the kernel |
| `Vectors` | the interrupt controllers, the gates, who opens which line when |
| `Segments` | descriptors, selectors and stacks of the processes |
| `Machine` | `Loader`, then `Vectors` and `Segments`, then `System` |
| `MachineProofs` | the inductive invariants of `Loader`, `Segments`, `Vectors` and `System`, and that `Machine` keeps what they show: fifteen theorems |
| `MCIpc`, `MCScheduler`, ... | the instances for TLC: a view, five small keyboards, floppies, disks, one instance of a liveness property |

Each of the first three component modules leaves open what the others decide. `Ipc` lets any
runnable process be scheduled; `Scheduler` lets a call wake anybody and block its caller;
`InterruptGate` lets a call or an outermost clock tick pick any process. `Ipc` and `Scheduler`
use what `InterruptGate` shows: at most one call is in progress, and `process_ready` does not
change under it (`SwitchOnlyOutermost`, `CallIsForCaller`).

Two modules compose others. `HddOpen` conjoins each step of `Hdd` that reads a table with the step
of `Partition` that interprets it, and `Partition` prints with the numbers of `Lib`. `Machine` runs
`Loader`, then `Vectors` and `Segments` in the order of `_start`, then `System`, whose kernel steps
are those of `Ipc` unchanged:

    MCSystem <- Machine <- System <- Ipc          MCHdd <- HddOpen <- Hdd
                        <- Loader                                  <- Partition <- Lib
                        <- Vectors
                        <- Segments

### Ipc

State: one function per field of `_PROCESS` (a pointer `msg` is the Boolean "not NULL"), the
contents of each process's message buffer, and the call in progress: `process_ready` is its
caller, `pc` the place it has reached, `peer` its `src_dest` argument.

| code | actions |
|---|---|
| `sys_send_recv` entry, `dead_lock`, the test at `message.c:34` | `SendDeadLock`, `SendMeet`, `SendQueue`, `CallSelf` |
| `message.c:37` to `:44`, statement by statement, `memcpy` in two halves | `SendAssert`, `SendLatch`, `SendSource`, `SendBody`, `SendNull`, `SendWake` |
| `msg_recv`: recorded interrupt, or on to the lists | `ReceiveInterrupt`, `ReceiveProceed` |
| `msg_recv`: serve a sender, or wait | `RecvCollect`, `RecvWait` |
| `block`, `process_schedule`, the clock in user mode | `Block`, `Schedule`, `ClockSwitch` |
| `deliver_int_to_proc(HDD_TASK)` | `DiskInterrupt`, between any two of the others |

Two statements share a step only if the disk interrupt, which writes nothing but the driver's
entry and buffer, cannot tell whether it came between them. `MSG_BOTH` is a send followed by a
receive, as in `send_recv`; the model lets every process do either at any time, so every
sequence of calls of the tasks in the repository is a behaviour of it. Only the driver receives
from `MSG_SOURCE_INTERRUPT`, as in the code. That receive reads `proc_table[-10]`, which lies
outside the table; the model takes it as zeroed memory, in which no sender is found.

A failed `ASSERT` or a `CRITICAL` inside the kernel is the last step (`Halt`): `assert_failure`
loops, `CRITICAL` halts the processor.

### Scheduler

State: `ticks`, whether each process is `runnable` (its flags are 0), `process_ready`, and the
scan in progress: `biggest_tick`, the `cursor`, who called it. The comparison and the
assignment of `biggest_tick` are separate steps (`ScanTest`, `ScanTake`), since the source reads
`p->ticks` twice. `ClockNested` is a tick during a call, in the scan or before it; it charges
whatever `process_ready` is at that moment. A scan made by the clock handler is not interrupted
by the clock, whose line is masked. `Wake`, `Block` and `DiskWake` are what calls and the disk do
to `runnable`.

### InterruptGate

State: the stack of activations, `int_reenter`, the interrupt flag, the 8259 mask,
`process_ready`, the registers saved in each table entry, those in the processor, and
`tss.esp0`. An activation knows where it saved what it interrupted, which of the two exits it
pushed, and the next instruction that matters. Registers are abstracted to whose they are and
where `%eax` comes from. When `_save` finds `int_reenter` at 0 it resets the stack to `StackTop`,
whatever is on it, and after `restart_process` has loaded `%esp` the processor would push into a
table entry: both are in the model, so that a wrong count or a missing `cli` does the damage it
does on the machine.

### Keyboard

State: the fields of `kb_in`, the six modifier flags and the three locks as sets, the place in
`read_keyboard` with the bytes it has taken for the current key, and the interrupt flag. The
keyboard, its controller and the user are external: `queue` is what the keyboard has yet to send,
`port` the byte at 0x60 and `full` whether it has been read. The port goes on showing the last
byte, as the 8042 does, and an acknowledgement comes behind the bytes already under way.

| code | actions |
|---|---|
| `keyboard_int_handler` | `Handler`, whenever interrupts are on |
| `get_byte_from_kb_buf` | `Cli`, `Take`, `Taken` (`count--` reads and writes) |
| `read_keyboard` | `Start`, `Taken` (0xe0 and 0xe1 sequences), `Decode`, `Store` |
| `set_kb_led`, `kb_ack` | `LedOut`, `KbAck`, one turn of the loop each |
| the user | `Press`, `Release`; the controller: `Arrive` |

`expected` is the list of strokes as the user made them, each with the character it stands for
and the modifiers held; nothing of the decoder is in it. It is what `StoredAsTyped` compares with.
`lost` is set whenever a byte is dropped: by the handler when the ring is full, or by `kb_ack`
when it reads a scan code instead of its acknowledgement. Nothing is claimed of what comes then,
so the user stops. The table (`KeysAssumption`) has one key of each kind the decoder tells apart; the make codes with
fake shifts that some keyboards send under num lock are not modelled.

### Console

State: cursor and start address of each console, relative to its memory, its input ring,
`current_console`, and the console task one access to shared fields at a time: the test of the
cursor, its increment (a load and a store), the cell it writes, the loop that scrolls, each
register of the VGA with its argument read before. `Call` is a process printing one character; it
is one step because no other process runs before a call is over, as the clock does not schedule
when it interrupts a call (`InterruptGate!SwitchOnlyOutermost`). It can come between any two steps
of the task. The inner loop of a call is its result (`Followed`), or `hung` if it has none. The
memory of a console is 5461 words at the source's values, which is not a whole number of rows of
80; `SizesAssumption` keeps that, since it decides where `scroll_console` ends. Screens are
compared by where they begin, cells by which are written.

### Hdd

State: the place of `hdd_task`, the request it serves, `open_cnt`, `have_int_msg`, what each
client asks, and the disk: idle, busy or with a sector in its buffer, the sectors to go, and its
interrupt. Receiving is in two steps as in `Ipc`, sending is one.

| code | actions |
|---|---|
| the receive in `hdd_task` | `ReceiveTest`, `Receive`, `ReceiveBlock` |
| `get_status` | `GetStatus`, one turn of its loop: the time first, then the status |
| `hdd_cmd_out` | `Poll`, `Command` |
| the receive from `MSG_SOURCE_INTERRUPT` | `WaitTest`, `WaitBlock` |
| `handle_identify`, `hdd_open` | `Identified` |
| `get_partition_table`, `handle_partition` | `TableRead`; the disk decides how many tables follow |
| `hdd_read_write` | `SectorRead`, `PollWrite`, `SectorWrite` |
| `hdd_int_handler`, `deliver_int_to_proc` | `Handler` |
| the disk | `DiskReady`, and `Accept`, `Transferred` as parts of the driver's steps |

Reading the status register withdraws the interrupt, in a poll as in the handler. `get_status`
looks at the time before it looks at the status, so that the driver may give up at every poll,
whatever the disk does; and an interrupt that reaches the receive from anybody ends in `CRITICAL`.
Either stops the machine (`halted`).
Requests are for whole sectors; a client closes and uses only what it has opened.

### Partition, Lib and HddOpen

`layout` says for each slot of the partition table what the disk has there: nothing, a plain
partition, or an extended one with a chain of logical ones that may be longer than the driver's 16
or point back to its beginning. The tables as the driver sees them (`PrimaryTable`,
`ExtendedTable`) are laid out from it and external. `walk`, `slot`, `sub` and `next_sub_sector` are
the two loops of `handle_partition`, one step for each table read; `primary` and `logical` are
those of `hdd_info[0]`. The index arithmetic is the code's, C's signed division and remainder
included (`Quot`, `Rem`).

| code | definitions |
|---|---|
| `DEV_TO_DRV`, the two index computations of `hdd_io_control` and `hdd_read_write` | `DriveOf`, `EntryOf`; the picture in `fs.h`: `Drawn`, `DrawnEntry` |
| `handle_identify`, `handle_partition` | `WalkIdentify`, `ReadPrimary`, `ReadExtended` |
| the command registers, the loop over the sectors | `SectorOf`, `CommandFor`, `LoopsOn` |
| `print_hdd_info`, `print_hdd_identify` | `InfoLines`, `SizeShown` |
| `itoa_base`, `reverse`, the fields of `vsprintf` | `Itoa`, `Formatted` |
| `atoi`; `delay` and `get_status` | `Atoi`; `Elapsed`, `Waits` |

Numbers have a sign bit (`SignBit`, 2^31 in the code) and wrap. A printed number is a record of its
filling, sign and digits. In `HddOpen` the first open reads as many tables as the disk has;
`print_hdd_info` is a step of its own before the answer (`OpenPrint`).

### System and Machine

`at[p]` is the next thing the program of `p` does; what it does in its own memory between two calls
belongs to the step behind it. `sys_task` and `hdd_task` receive from anybody and switch on the
body; `fs_task` opens the root device once; `Ticker` are `process_B` and `process_C`, which ask for
the ticks over and over; the driver asks for them, too, before every look at the disk's status.
`get_ticks` is a `MSG_BOTH`, that is two calls with the clock able to switch between them. The disk
answers a command some time later with its interrupt (`DiskDone`, `Interrupted`). Here, and not in
`Hdd`, there is an assumption about time: `get_status` runs out of it only while the disk is busy
(`MayTimeOut`). `HDD_TIMEOUT` is ten seconds; for an idle disk to be given up, the other processes
would have to keep the driver from the processor all that time, and the ticks of all seven add
up to less than one second.

`Machine` adds what comes before. Nothing of what `Loader`, `Vectors` and `Segments` leave behind
changes once the programs run, and their variables are cleared then (`Starts`), so that the
programs are explored once and not once for every floppy. For the same reason `console_task` and
`hdd_task` register their handlers before the programs run; each step of one can come between any
two of the other, and none touches what the programs use. `init_keyboard` and `hdd_init` are
reached only after the clock's line is open (`Prepare`).

### Loader

State: who runs (`stage`) and where (`step`), the sector of the root directory, the cluster, the
offset `bx` in sectors, which sector of the floppy lies at which offset (`memory`), the memory map's
count and size, and what of the kernel was copied where (`image`). The floppy is its root directory
and the clusters of each file; its FAT is laid out with twelve bits an entry and read back with
`GetFATEntry`, bytes and parity as in the code. `ReadSector` goes through cylinder, head and sector.
`astray` is what the code does not look for: a kernel longer than its segment that has overwritten its
own beginning; a loader whose last sector would cross the end of 64 KB, since it is loaded to 0x100 of
its segment (`Crosses`; a BIOS refuses such a read, and `ReadSector` asks again for ever); a memory
map of more ranges than `MemChkBuf` holds (`MapRoom`, 12 in the code, whose 256 bytes are 20 for each
range), written over what lies behind; no memory map at all (the loop of `ShowMemInfo` goes round
from 0); no usable memory. Nothing is claimed of what comes then.

### Vectors and Segments

`Vectors` writes the ten bytes of `init_8259a` one by one to controllers that understand each by
the ones before it (`Told`, external), fills `idt` and `irq_table`, and then lets the kernel, the
console task and the disk task run their `set_irq_handler` and `enable_irq`, one access at a time.
`Segments` keeps descriptors as their fields, with the masks and shifts of `init_descriptor`;
widths are constants (`Half`, `Byte`; 2^16 and 2^8 in the code), so that the theorem is about any.

## 3. Runs

| run | bounds | checks | states, time |
|---|---|---|---|
| `ipc3` | 3 processes, one the driver; 1 payload | `TypeOK`, `BlockedIsReachable`, `OnlyInterruptBreaksAsserts`, `HandedOverIntact`, `ServedInTurn`, `ImplementsRendezvous` | 560,940; 65 s |
| `ipc4` | 4 processes, 1 payload, buffers ignored by the view | `NoSendCycle`, `ListIsBlockedSenders`, `NoMissedRendezvous` | 2,991,744; 75 s |
| `scheduler3` | 3 processes, priorities 3, 3, 2, ticks not counted below -1 | `TypeOK`, `RunningIsRunnable`, `ClockChoosesMost`, `NoStarvation` | 27,505; 2 s |
| `gate3` | 3 processes, 3 lines | `TypeOK`, `DepthIsCounted`, `NotReentered`, `CallIsForCaller`, `ResumedAsLeft`, `LineComesBack` | 89,858; 52 s |
| `keyboard` | ring of 2 bytes; five keyboards of 2 or 3 keys | `TypeOK`, `RingConsistent`, `StoredAsTyped`, `QuietAgrees`, `DecodeEnds` | 2,257,350; 114 s |
| `console2` | 2 consoles of 7 cells, screens of 2 x 2 | `TypeOK`, `WithinMemory`, `ShownIsCurrent`, `ScrollEnds` | 1,341,192; 75 s |
| `hdd` | 2 clients, requests of 1 or 2 sectors; 7 disks of 2 slots, 3 logical partitions kept of each | `TypeOK`, `MinorsAreLayout`, `PrintedIsLayout`, `InterruptsConsumed`, `Answered` | 218,691; 68 s |
| `system` | 6 processes: 3 tasks, 2 that wait, 1 for the rest; 6 floppies, 5 memory maps, 2 kernels | `RepliesFit`, `StopsOnlyInWindow`, `RequestsHeld`, `LoadedIsFile`, `KernelIsPlaced`, `LinesReachHandlers`, `SegmentsAreOwn` | 2,378,811; 80 s |

What they show:

* `NoSendCycle`, `ListIsBlockedSenders`, `NoMissedRendezvous`, `BlockedIsReachable`: whatever
  sequence of calls and interrupts, the lists are exactly the blocked senders, each once;
  `dead_lock` finds every cycle of senders; a sender and a receiver that accept each other
  always meet; whoever is blocked has its buffer in the table and a partner to wait for.
* `OnlyInterruptBreaksAsserts`: of the assertions in `message.c` only those on the driver's entry
  can fail, and only because of the interrupt.
* `HandedOverIntact`: nobody but the driver can get half a message or another sender's.
* `ServedInTurn`: new senders cannot keep an old one waiting, if the receiver keeps serving.
* `ImplementsRendezvous`: all of this together, as one abstract specification.
* `RunningIsRunnable`, `ClockChoosesMost`: the interrupted scan still ends
  with a runnable process, and in the clock handler with the best one.
* `NoStarvation`: a process that stays runnable runs again and again, although ticks are handed
  out again only when no runnable process has any.
* `gate3`: with any nesting of the lines, `int_reenter` counts the activations, no handler
  interrupts itself, a call always runs for the process that made it, and a process resumes with
  the registers it left and the result of its own call.
* `RingConsistent`, `StoredAsTyped`, `QuietAgrees`: unless a byte is dropped, whatever was typed
  while the decoder was behind is passed on in order, with the locks and modifiers of the moment it
  was typed; and when all is read, flags, locks and lights agree with the keyboard.
* `DecodeEnds`: the decoder waits for ever in one situation only (`Overtaken`): the handler has
  taken the acknowledgement for which `kb_ack` loops, and a later byte is in the port. If no later
  byte has come, `kb_ack` still sees the acknowledgement, since the port keeps it.
* `WithinMemory`, `ShownIsCurrent`, `ScrollEnds`: alone, the console task keeps cursors, screens and
  registers in order, and its scroll loop ends. A call in the middle of `print_character` (`raced`)
  can undo the first two; nothing is claimed of cursor and cells after that.
* `InterruptsConsumed`: as long as nobody reads or writes, commands, interrupts and waits stay in
  step; opens are all the system itself asks for. A read or a write leaves interrupts behind
  (`unawaited`), but the driver still gives no command to a busy disk and no sector to one that
  asks for none, which `HddProofs` proves.
* `MinorsAreLayout`, `PrintedIsLayout`: whatever the disk has, the open reads its tables and ends,
  every minor of the drive stands for the partition that is there, and the lines printed before the
  answer say so; sector numbers whose top bit is set come out as negative numbers that read back in
  two's complement, in digits but for 2^31. A chain that is too long or circular costs the partitions beyond the driver's
  limit and nothing else.
* `Answered`: every request is answered, unless the driver stops (the time-out, or an interrupt taken
  for a request) or the interrupt comes in the window of `ipc_lost_interrupt`.
* `RepliesFit`: whoever comes back from a receive has the message it waited for, with four
  processes queueing at the system task and the interrupt in between.
* `StopsOnlyInWindow`: in the system as it is, no task gets a message it does not know, nobody sends
  into a cycle, no poll finds the disk busy; only the window of `ipc_block_assert` stops it.
* `RequestsHeld`: following who waits for whom from a process with a request out, one always comes
  to somebody who can move, or to a driver asleep in the window of `ipc_lost_interrupt`; and that
  can keep back an open only, never the ticks.
* `LoadedIsFile`, `KernelIsPlaced`: scattered, backward and exactly filling files are loaded in
  order, usable memory is mapped whatever ranges lie between, and the kernel's one loadable segment
  is where it is linked, also with the empty header behind it for the stack.
* `LinesReachHandlers`, `SegmentsAreOwn`: in every order of the tasks, an open line has its own gate
  and a handler; every process has the segments, privilege and stack meant for it.

### What the properties except

Some hazards are places where the code does go wrong and promises nothing. The properties say how far
things stay right, and show that there is no other way to go wrong:

* `StoredAsTyped` and `QuietAgrees` hold until a byte is dropped (`lost`); how long a modifier whose
  break code was dropped stays pressed is not stated. `DecodeEnds` excepts the hang in `kb_ack`
  (`Overtaken`).
* `WithinMemory` and `ShownIsCurrent` hold until a call comes into `print_character` (`raced`).
* `InterruptsConsumed` holds until the first read or write; what those do is the run `hdd_wait`.
  `Answered` excepts a driver that has given up.
* `HandedOverIntact` is not about messages to the driver, into which its interrupt may write.
* `PrintedIsLayout` says that a sector number or count of 2^31 is not printed in digits, and that all
  others are.
* `LoadedIsFile` is about files that fit, `KernelIsPlaced` about one loadable segment, a map the loader
  has room for and ranges of which base and length do not wrap.

### Where source and comments disagree

Four runs are expected to fail. Each checks one statement the source makes about itself.

| run | statement | what happens |
|---|---|---|
| `ipc_block_assert` | `message.c:15`, `ASSERT(proc->flags)` | the disk interrupt completes the driver's receive after `msg_recv` set its flag and before `block` tests it |
| `ipc_lost_interrupt` | `process.h:94`, an interrupt sends a message to the task | the interrupt comes after `msg_recv` tested `have_int_msg`: it is recorded, and the driver sleeps |
| `ipc_dependency_cycle` | `message.c:160`, `dead_lock` checks each process dependency | a cycle with a receiver in it is not looked for and blocks its members for ever |
| `hdd_wait` | `hdd.c:126`, "wait hdd interrupt..." | `hdd_interrupt_wait` is empty: the sector is read while the disk is busy with it |

The first two need the interrupt inside a window of a few instructions of the driver's own call; a
test would hardly meet them. `message.c:37`, `ASSERT(p_dest->msg)`, fails in the same way when the
interrupt completes the driver's receive after `msg_send` found it waiting; `ipc3` shows that no
assertion fails otherwise (`OnlyInterruptBreaksAsserts`).

Other disagreements, of which a proof or a checked assumption speaks rather than a run:

* The picture in `fs.h` (19-39) gives the second drive minors 5 to 9. `hdd.c:105` uses the minor
  itself as index, so that 5 to 8 point behind `primary` and 9, because of `< MAX_PRIM`, in front of
  `logical` (`SecondDriveStrays`). The system opens the first drive only.
* `init_clock` says "adjust timer to 10 HZ" (`interrupt.c:107`); the divisor is that of `TIMER_HZ`,
  100, and `delay` and `get_status` count with 100.
* The comment in `exception.s:36` pushes -1 for exceptions without an error code, and so does the
  code for #AC (99-102), for which the processor pushes one. Nothing is modelled behind the gates.
* `loader.s:841` steps 20 bytes from one program header to the next, which are 32 bytes apart. For one
  loadable segment with the empty header behind it that a linker adds for the stack's permissions,
  the words taken for the second header have size 0 (`KernelIsPlaced` on both kernels). Of two
  loadable segments the second would be lost, and other bytes of the file copied in its place.
* `atoi` of a negative number is wrong for all but one (`AtoiOfItoa`), and `itoa_base` of the smallest
  int has no digits (`SmallestIntIsIllegible`). Nothing calls the first; the second would need a
  partition that begins at sector 2^31, or has as many.
* The size of a disk is shown wrongly from 4,194,304 sectors (2 GB) on, where its bytes leave an int
  (`SizeIsShown`).

### Bounds

Three processes are a driver, a partner and a competitor: enough for every pair of actors and
for a list of two. Four make a list with a middle, from which a named sender is taken, and cycles
of three. `VIEW WithoutBuffers` is sound for the properties of `ipc4`: no guard of `Ipc` reads the
contents of a buffer and none of the three properties does, so states with the same view have the
same successors up to the view. For the scheduler, priorities above 1 and different from each
other make the order of charging and refilling matter; `MaxDebt` cuts off how far below zero ticks
are counted, which no comparison of the code can tell (it compares with 0 or a larger number).
`ticked` allows one tick per pass over the table: the clock's period is 10 ms, and a pass over
seven entries takes microseconds. The bound matters. With two ticks between `ScanTest` and
`ScanTake`, `biggest_tick` could become negative and end the scan with nobody chosen. The gate
needs no bound: a line nests at most once, so that the stack has at most four activations.

A ring of two bytes is full after two interrupts and shorter than every sequence with a prefix, so
that the decoder must wait within one; the keyboards of `MCKeyboard` share what interacts: letters
with shift and caps lock, the pad with num lock and with shift, prefixes with each other. `bytes`
bounds what each has not sent yet, and `Typing` ends a run after a dropped byte. The consoles have
three and a half rows, the smallest with a last screen that reaches beyond the memory, a screen
before it and one row to scroll. Requests of two sectors have a sector between two others'
interrupts; two clients make the driver's next request wait. Two slots of three logical partitions
are the smallest disk in which one slot's entries can spill into the other's; the seven disks have
every kind of slot in front of and behind an extended one, with chains shorter and longer than
three and circular. Numbers have six bits there, so that sectors with the top bit set occur,
among them the one that is the smallest int.

In `system`, process 0 stands for `console_task` and `process_A`, which send nothing. `MaxTables` is
1: each further table repeats the same calls. The floppies have two sectors of two entries, files
of one sector up to more than a segment (three), and missing files; page tables map 4 of 32 units;
the maps have gaps, reverse order, memory above 4 GB, none usable, a refusal by the BIOS, and
one range more than the loader has room for (`MapRoom` is 4). Table
addresses are far enough apart to need all three fields of a base.

`CHECK_DEADLOCK FALSE` appears in the runs of `Ipc`, `Hdd` and `System`, where a failed assertion or
`CRITICAL` stops the machine (and the boot sector, which may find no file), of `Console`, where a call may loop for ever (`hung`), and of
`Keyboard`, where the user stops typing after a dropped byte.
`Scheduler` and `InterruptGate` are checked for deadlock.

### Fairness

* `Scheduler`: weak fairness of the scan and of finishing a call (the processor executes), strong
  fairness of `ClockUser` (the clock ticks every 10 ms; a process that makes calls all the time
  still spends time outside the kernel, and the tick finds it there again and again).
* `InterruptGate`: strong fairness of the kernel code at each depth of the stack, except inside a
  call's `process_schedule`: handlers take microseconds, lines interrupt at most every few
  milliseconds, so nested interrupts never keep interrupted code from going on.
* `Keyboard`, `Console`: weak fairness of the console task, which never blocks and so gets the
  processor again and again (`Scheduler!NoStarvation`), of the controller and of the handler.
* `Hdd`: weak fairness of the disk, its interrupt and the driver; strong fairness of serving each
  client, which the list of blocked senders provides (`Ipc!ServedInTurn`).
* `System` has no liveness property: with the kernel's steps, the table of processes and the clock in
  one state space it is out of reach. What stands for it is a chain of safety and smaller liveness
  results: whoever a request depends on can move (`RequestsHeld`), whoever can move runs again
  (`Scheduler!NoStarvation`), and senders are served in turn (`Ipc!ServedInTurn`).
* `ServedInTurn` states its assumption in the formula: the receiver takes senders from its list
  for ever. Whether it does is up to the task's code.

## 4. Proofs

`IpcProofs` proves for any number of processes and any set of payloads that `Ipc` keeps `IInv`, and
from it `TypeOK`, `NoSendCycle`, `ListIsBlockedSenders`, `BlockedIsReachable`, `NoMissedRendezvous`,
`OnlyInterruptBreaksAsserts` and `HandedOverIntact`. The assumptions are those `Ipc` declares: there
is a process, the driver is one, and the two special message bodies are no payloads.

The invariant (at the end of `Ipc`) has three parts the properties do not have:

* `CallOK` says what each place inside a call relies on. It is needed because a call is not
  atomic: `SendWake` clears the flag of a receiver that `SendMeet` tested several steps before,
  and only `CallOK` remembers that nothing but the interrupt can have touched it.
* `ListOK` states the lists pointer by pointer (the head is a blocked sender, the successor of a
  member is a member, no two members share a successor, one has none, and every closed set with the
  head in it contains all members). `ListIsBlockedSenders` speaks of reachability along
  `next_send`, which no single step preserves by itself; the pointer facts are preserved by local
  arguments, and reachability is defined as membership in every closed set, so that it follows
  from the last of them without induction. `EnqueueList` and `DequeueList` are the two lemmas.
* `BlockedIsReachable` and `NoMissedRendezvous` strengthen each other.

`NoSendCycle` is kept by `SendQueue` because a new cycle would contain the new edge: cutting the
cycle with the chain that `dead_lock` followed from the destination gives a set of blocked senders
that is closed, hence a cycle without the new edge (`EnqueueNoCycle`).

`IpcRendezvousProofs` proves that `Ipc` implements `Rendezvous` under the mapping of `IpcRendezvous`
(`KeepsThePromise`). The mapped waiting list is the linked list read as a sequence; since it is
defined through the list's own order, a step must be shown to change it by exactly one `Append` or one
removal, which is done with positions (`Place`) and not with the recursion along `next_send`. There
is one lemma for each step of `Rendezvous` and one for each step of `Ipc`, which picks its abstract step
or shows a stutter: the message counts as taken at the step that completes the receiver, and the
steps of a call before that are stutters. `IInv` does not say what the copy in progress holds;
`HandoverOK` adds it (the source and the half of the body already written are those of the sender,
or the interrupt has been there).

`ConsoleProofs` proves for any number of consoles of any size that satisfies `SizesAssumption` that
`Console` keeps `ConsoleInv`, and from it `TypeOK`, `WithinMemory` and `ShownIsCurrent`. Its parts are
`TestsHold` (what a test established holds until the step that relies on it, also when a call comes
between), and, as long as no call came inside `print_character`, `Inside` (cursors and screens are
inside the memory), `ReadsFresh` (what the task has read is still there) and `ShownFresh` (a register
shows the current console's field, or the task is still going to write it). `PromptAssumption` says
that a console's memory is longer than the prompt `init_consoles` prints, three characters against
5461 words.

`SchedulerProofs` proves for any number of processes and any positive priorities that `Scheduler`
keeps its `IInv`, and from it `TypeOK`, `RunningIsRunnable`, `PassedHaveNoMore` (the scan prefers nobody to a
process it passed with more ticks) and the action
property `ClockChoosesMost`. The part that matters is `TakeOK`: between the comparison and the
assignment the candidate is still at least as good as the best one so far, and strictly better
unless the one tick of this pass was charged to it. From this `biggest_tick` never becomes
negative, and a `biggest_tick` that is not 0 always stands for a runnable `process_ready`.

`KeyboardProofs` proves for any ring length and any of the keys that head, tail and count of `kb_in`
agree (`RingConsistent`). Its invariant adds `Exclusive`: between `cli` and `sti` interrupts are off,
so that the count the task has loaded is the count until it writes it back, and the ring is not
empty.

On it rests the decoder: `TypeOK`, `StoredAsTyped` and `QuietAgrees`. Between the user and
`read_keyboard` a stroke is only bytes, which the handler, the ring and the decoder move one at a
time, and nothing in the state says where a code begins. The invariant is `KeyInv`: unless a byte
was dropped, the bytes in hand, in the ring, in the port and not yet sent (`Bytes`) can be read as a
run of whole codes, each byte with the event it belongs to and its place in that event's code
(`Spells`). Decoding them one after the other from what `read_keyboard` knows now (`Now`) meets each stroke
of `expected` in turn with the modifiers and locks it was made with (`Strikes`), and ends in what the
user sees (`Final`). `Match` adds that the key being stored is the first one expected. The steps are
then of four kinds: a byte goes from one place to the next and `Bytes` stays as it is (the `Flow`
lemmas, and `RingGrows` and `RingShrinks` for the two ends of the ring); a code is added behind the others (`SpellMore`, for the user
and for the acknowledgement of a light); a complete code is taken off the front (`SpellRest`), of
which `EndIsSeen` says that `read_keyboard` sees its end where it is, not a byte earlier or later, and
`DecodeIs` what it makes of it; an acknowledgement is taken out of the middle (`SpellWithout`), by a full ring or by
`kb_ack`, which changes nothing because no code contains that byte (`AckIsAlone`). `Typed` adds to the
types that what is in hand is the beginning of a sequence the decoder knows, so never more than six
bytes, and that the lights follow the locks.

`HddProofs` proves `CommandsInTurn` and `WritesAsked` for any clients, any set of requests and requests
of any length. The invariant for these two adds `CommandFits` (the command about to be given belongs to the request)
and `DiskWrites` (while sectors are written, the disk works on nothing else): what the
poll before each step finds stays true until the step is taken, although interrupts may be out
of step.

For `TypeOK` and `InterruptsConsumed` there is a larger invariant, `DriverInv`. `SignalsOK` places the
interrupt: until the first read or write it is pending, recorded or consumed exactly as the place of
the driver and the state of the disk say, and never two of them. `CountOK` is what the range of
`open_cnt` needs: it counts the clients between the `hdd_open` and the `hdd_close` done for them, so
that it is never negative and reaches 0 only with the last one. `ClientAssumption` says that there
are finitely many clients and that `Nobody` is none. `OpenIsDriver` carries all this over to `HddOpen`.

`HddProofs` also proves `MinorsAreLayout` for any number of slots and logical partitions (at least two
drives, as in `fs.h`), any disks of the kind `Slot` describes and any size. Its invariant says that
every entry of `primary` and `logical` is empty or as the disk has it, that those the walk has
passed are the latter, and that `next_sub_sector` is the table of the chain it stands at.

`PrintedIsLayout` is proved from the same invariant (`PrintedIsLayoutEver`), under one more assumption:
sectors, and the spans of minors, are below 2^32 and partition counts below 2^31 (`WidthAssumption`,
the widths of the `uint32` fields and of `int`). The lines that `OpenPrint` writes are those of the
entries (`EntriesAreLaid`, which needs that the primary entry of the disk itself is set by the time
anything is counted, a part of `WalkInv`), and what a reader makes of each number in them is the
number. For the latter, `itoa_base` is taken apart: the loop of divisions ends, and the amounts it
leaves fall to 0 with a remainder below the radix at each (`DividesExists`, `DividesGivesDigits`);
turned round, the same amounts grow to the number; and a reader who takes the digits from the left
goes through exactly these amounts (`ReadBackIs`). A recursive function and the reader's sum are both
`CHOOSE` expressions, each equal to a function with a closed description, and every induction in
between is on the least natural number at which two of them would differ (`Least`).
`ItoaReadsBack` says it of every int but the smallest, in both radixes the kernel prints in, and that
there is no leading 0; `SmallestIntIsIllegible` says that the smallest one comes out in characters that are no
digits; `AtoiOfItoa` says for which numbers `atoi` is the inverse of `itoa_base`.

The other theorems are about the arithmetic, for any `SignBit`: they say for which values it is
right (`CommandNamesSector`, `LoopEndsOnWholeSectors`, `TimeIsMeasured`, `SizeIsShown`) and for which
it is not (`SecondDriveStrays`, `TimeTurnsBack`).

`InterruptGateProofs` proves for any processes, lines and clock that `InterruptGate` keeps `GateInv`,
and from it `TypeOK`, `DepthIsCounted`, `NotReentered`, `CallIsForCaller`, `ResumedAsLeft` and
`SwitchOnlyOutermost`. What the code relies on, and the invariant spells out, are four things at
once. Only the top of the stack can be at a place where interrupts are off (`Open` are the others).
The line of a handler is masked at every place from which it can be interrupted, hence no line is
on the stack twice. `int_reenter` is the depth less one, except just before the `iret` to a process.
Only the lowest activation has saved a process, and until it switches interrupts on to do its work
that process is `process_ready`; a process whose `%eax` is neither its own value nor a result has
its call pending at the bottom (`Pending`). Each of these is lost in some step without the others.

`MachineProofs` proves `LoadedIsFile` for any floppy whose files share no cluster, any length of a segment
and any memory maps and kernels: the invariant says that the first `bx` sectors of the chain lie in
memory and that `index` is the next of them. The lemma it rests on is that `GetFATEntry` finds every
entry of twelve bits, odd or even. `MemoryMapped` is proved for any memory map with which the kernel starts, in whatever order;
`KernelIsPlaced` under the assumption that a kernel has one program header of type 0 or 1, because
of the step of `loader.s:841`.

The same module proves `SegmentsAreOwn` for any number of processes, any addresses within the space and
any stack sizes. It does not show that the stacks lie inside `task_stack`: that `STACK_SIZE` is the
sum of the sizes is a fact about the constants of `process.h`, which add them up.

`LinesReachHandlers` is proved of `MachineSpec`, with the order in which entry, segments and tasks come
(`LinesReachHandlersEver`), and of `VectorsSpec` alone, where the tasks register in any order
(`VectorsSpecLines`). Its invariant has two phases. Until the tables are filled, each controller is as the bytes it
has been told so far leave it (`AsTold`, `ChipAfter`). From then on it is a function of how far each
registration has come which inputs are masked and which handlers are set (`Wired`): the
line of a handler is open only after the handler is stored, that of the disk only after the cascade
it comes through, and no registration disturbs another's bit of the same mask. The property
alone is not inductive: it says nothing of a line that is masked, whose handler must already be there
when it is opened.

The rest of `MachineProofs` is about the programs, for any number of processes and of those that ask for
the ticks. `SystemIsIpc` shows that the programs make only calls that `Ipc` has, so that everything
proved of `Ipc` holds of them. `SystemInv` then adds what the programs know:

* `ProgramsOK` relates, for each program, where it stands (`at`), what the kernel is doing for it (`Doing`:
  about to make a call, inside one, blocked in one, back) and what its buffer holds. A client that
  waits for an answer has the system task's or the driver's answer in its buffer or none yet; the
  system task's buffer holds a question of someone who still waits for its answer; the driver's
  stands for the place of its interrupt (`Quiet`, `Commanded`). Each part needs the others: that a
  reply fits is known only because the server answers whom it received from, and this because
  nobody asks twice.
* `HandOver` says the same of a message in the middle of being copied.
* `StopsOnlyInWindow` is part of it, since after a stop nothing is claimed.

From it follow `StopsOnlyInWindow`, `RepliesFit` and `RequestsHeld`. The last says that the chain of who
waits for whom ends in somebody who can move. The programs in the repository make such a chain at
most three questions long (a process waits for the system task, the file system task for the driver
and this for the system task), and `BehindIs` unfolds the chain's definition along that path. That
`dead_lock` never refuses a send of theirs is `NoDeadLock`. `MachineRunsSystem` and
`MachineIsSetUp` say that the composition changes none of this: the machine from reset on is a
behaviour of `SystemSpec`, and what the loader and the set-up establish is there when the programs run.

TLC checks every property named here before it is proved, on the instances above, or, for those no
run lists, with the same configurations; `SystemInv` with the configuration of `system`. `KeyInv` is the
exception: TLC cannot look for the reading of the bytes that it says exists, and checks
`StoredAsTyped` and `QuietAgrees`, which follow from it.

Only model-checked is liveness (`ServedInTurn`, `NoStarvation`, `LineComesBack`, `DecodeEnds`,
`ScrollEnds`, `Answered`), since the prover has no rule for fairness. Every invariant and every
action property of a passing run is proved.

## 5. Not modelled

* The second drive, beyond the entries its minors reach: `get_partition_table` reads its table from
  sector 1, and only one open count and one set of entries is in `HddOpen`.
* The contents of sectors that clients read and write, and where in their memory they go.
* What exceptions print before they halt; the divisor of the 8253; the switch to protected mode, the
  A20 line and the contents of the page tables; that `.bss` is not cleared when the kernel is copied
  (`loader.s:832` copies the bytes in the file only), for which the kernel relies on memory being
  zero after reset, and so do the initial states of the models.
* Alt, scroll lock, function keys and the make codes of num lock in `Keyboard`; screen colours;
  message texts and the text of assertions; the halting path of `sys_printx`.
* `memcpy`, `memset` and the string functions byte by byte.
* A ring 0 `int 0x90`, which happens only when the kernel is about to halt. The words `ebp`, `esi` and
  so on one by one: `InterruptGate` keeps registers as a unit.

## 6. What could follow

1. The second drive and the positions of reads and writes in `HddOpen`.
2. More keys in `Keyboard`.
