---------------------------------- MODULE Ipc ----------------------------------
(******************************************************************************)
(* The rendezvous message passing of the WalOS kernel: kernel/message.c, the  *)
(* system call sys_send_recv that enters it (kernel/interrupt.c) and the disk *)
(* interrupt that completes a receive behind its back (deliver_int_to_proc in *)
(* kernel/process.c).                                                         *)
(*                                                                            *)
(* There is one processor and one kernel stack.  A system call runs with      *)
(* interrupts on (sti in kernel/gas/interrupt.s), but the clock never         *)
(* switches processes while the kernel is entered, so at most one call is in  *)
(* progress: "pc" says where it stands and process_ready is its caller.  Only *)
(* the disk interrupt can change the state of the protocol between two of its *)
(* steps, so the calls are split exactly where that interrupt can be told     *)
(* apart, that is where the flags, the receive filter, the buffer pointer or  *)
(* the buffer of the driver are read or written.  Which runnable process is   *)
(* picked is left open here: module Scheduler models the choice.              *)
(******************************************************************************)
EXTENDS Integers

CONSTANTS
  NumProc,  \* TOTAL_TASK_CNT, the entries of proc_table
  HddTask,  \* HDD_TASK, the entry the disk interrupt is delivered to
  Payload   \* what the type and the union of a MESSAGE can hold

ASSUME NumProcAssumption == NumProc \in Nat \ {0}

Proc == 0 .. NumProc - 1

ASSUME HddTaskAssumption == HddTask \in Proc

AnySource == NumProc + 100    \* P_ANY
NoTask == NumProc + 200       \* P_NO_TASK
Interrupt == -10              \* MSG_SOURCE_INTERRUPT
Null == -1                    \* a NULL PROCESS pointer

Blank == "blank"              \* a body cleared by memset
HwInt == "hw_interrupt"       \* a body whose type is MSG_HW_INTERRUPT

ASSUME PayloadAssumption == Blank \notin Payload /\ HwInt \notin Payload

Body == Payload \cup {Blank, HwInt}
Message == [source : Proc \cup {Interrupt}, body : Body]

Flag == {"SENDING", "RECVING"}

KernelPoint ==
  {"user", "send_assert", "send_latch", "send_source", "send_body", "send_null",
   "send_wake", "recv", "block", "schedule", "halted"}

Fault ==
  {"none", "self", "dead_lock", "dest_msg", "block_flags", "recv_queue", "unblock_flags"}

--------------------------------------------------------------------------------

VARIABLES
  flags,          \* process -> the MSG_SENDING and MSG_RECVING bits that are set
  msg,            \* process -> whether its MESSAGE pointer is set (not NULL)
  recv_from,      \* process -> the source a blocked receiver accepts
  send_to,        \* process -> the destination of a blocked sender
  have_int_msg,   \* process -> an interrupt was recorded and not yet received
  current_send,   \* process -> head of the list of senders waiting for it
  next_send,      \* process -> next sender in the list it waits in
  buffer,         \* process -> contents of the MESSAGE it last passed to the kernel
  process_ready,  \* the process that runs, or on whose behalf the kernel runs
  pc,             \* where the system call in progress stands
  peer,           \* the src_dest argument of the call in progress
  latched,        \* the value of p_dest->msg that memcpy was called with
  fault           \* the ASSERT or CRITICAL that stopped the machine

procVars == <<flags, msg, recv_from, send_to, have_int_msg>>
listVars == <<current_send, next_send>>
callVars == <<process_ready, pc, peer, latched, fault>>
vars == <<procVars, listVars, buffer, callVars>>

\* proc_table is zeroed memory: recv_from and send_to start as 0, not P_NO_TASK.
Init ==
  /\ flags = [p \in Proc |-> {}]
  /\ msg = [p \in Proc |-> FALSE]
  /\ recv_from = [p \in Proc |-> 0]
  /\ send_to = [p \in Proc |-> 0]
  /\ have_int_msg = [p \in Proc |-> FALSE]
  /\ current_send = [p \in Proc |-> Null]
  /\ next_send = [p \in Proc |-> Null]
  /\ buffer = [p \in Proc |-> [source |-> p, body |-> Blank]]
  /\ process_ready = 0
  /\ pc = "user"
  /\ peer = Null
  /\ latched = FALSE
  /\ fault = "none"

--------------------------------------------------------------------------------
(* Pointer chains.                                                            *)

\* A set that following the pointers of succ never leaves.
Closed(S, succ) == \A q \in S : succ[q] \in Proc => succ[q] \in S

\* The processes met by following succ from x: the least closed set with x in it.
Chain(succ, x) ==
  {q \in Proc : \A S \in SUBSET Proc : x \in S /\ Closed(S, succ) => q \in S}

\* The edges dead_lock follows: a blocked sender points to its destination.
SendEdge == [q \in Proc |-> IF "SENDING" \in flags[q] THEN send_to[q] ELSE Null]

\* (Mutant) dead_lock looks one process ahead only.
DirectDeadLock(src, dest) == SendEdge[dest] = src

\* dead_lock(src, dest): some sender on the chain from dest sends to src.
DeadLock(src, dest) ==
  \E q \in Chain(SendEdge, dest) : SendEdge[q] = src

\* (Mutants) the filter of the receiver is compared with the sender only, or not
\* at all.
AcceptsNamedOnly(d, s) == "RECVING" \in flags[d] /\ recv_from[d] = s
AcceptsAll(d, s) == "RECVING" \in flags[d]

\* The receiver d is blocked and accepts a message from s.
Accepts(d, s) == "RECVING" \in flags[d] /\ recv_from[d] \in {s, AnySource}

\* The list of d after p is hung behind its last element.
HeadWith(d, p) ==
  [current_send EXCEPT ![d] = IF @ = Null THEN p ELSE @]
NextWith(d, p) ==
  [q \in Proc |->
     IF q = p THEN Null
     ELSE IF /\ current_send[d] # Null
             /\ q \in Chain(next_send, current_send[d])
             /\ next_send[q] = Null
          THEN p
          ELSE next_send[q]]

\* (Mutants) the predecessor keeps pointing to p; p is left with P_NO_TASK.
NextKeepsPrevious(d, p) == [next_send EXCEPT ![p] = Null]
NextIsNoTask(d, p) == [NextKeepsPrevious(d, p) EXCEPT ![p] = NoTask]

\* The list of d after p is taken out of it, from its head or from the middle.
HeadWithout(d, p) ==
  [current_send EXCEPT ![d] = IF @ = p THEN next_send[p] ELSE @]
NextWithout(d, p) ==
  [q \in Proc |->
     IF q = p THEN Null
     ELSE IF current_send[d] # p /\ next_send[q] = p THEN next_send[p]
     ELSE next_send[q]]

--------------------------------------------------------------------------------
(* Control of the call in progress.                                           *)

Goto(point) == pc' = point /\ UNCHANGED <<process_ready, peer, latched, fault>>

\* A failed ASSERT or a CRITICAL in the kernel never comes back.
Halt(reason) ==
  /\ pc' = "halted"
  /\ fault' = reason
  /\ peer' = Null
  /\ latched' = FALSE
  /\ UNCHANGED process_ready

\* The call is over and q runs next in user mode.
Dispatch(q) ==
  /\ process_ready' = q
  /\ pc' = "user"
  /\ peer' = Null
  /\ latched' = FALSE
  /\ UNCHANGED fault

--------------------------------------------------------------------------------
(* MSG_SEND.                                                                  *)

\* sys_send_recv stamps the caller's buffer with its id before msg_send runs.
SendCall(dest, m) ==
  /\ pc = "user"
  /\ buffer' = [buffer EXCEPT ![process_ready] = [source |-> process_ready, body |-> m]]

\* A process that sends to itself or receives from itself fails an ASSERT.
CallSelf ==
  /\ \E m \in Payload : SendCall(process_ready, m)
  /\ Halt("self")
  /\ UNCHANGED <<procVars, listVars>>

SendDeadLock(dest, m) ==
  /\ SendCall(dest, m)
  /\ dest # process_ready
  /\ DeadLock(process_ready, dest)
  /\ Halt("dead_lock")
  /\ UNCHANGED <<procVars, listVars>>

\* The destination waits for this sender: hand the message over directly.
SendMeet(dest, m) ==
  /\ SendCall(dest, m)
  /\ dest # process_ready
  /\ ~DeadLock(process_ready, dest)
  /\ Accepts(dest, process_ready)
  /\ pc' = "send_assert"
  /\ peer' = dest
  /\ UNCHANGED <<procVars, listVars, process_ready, latched, fault>>

\* Otherwise the sender joins the list of the destination and blocks.
SendQueue(dest, m) ==
  /\ SendCall(dest, m)
  /\ dest # process_ready
  /\ ~DeadLock(process_ready, dest)
  /\ ~Accepts(dest, process_ready)
  /\ flags' = [flags EXCEPT ![process_ready] = @ \cup {"SENDING"}]
  /\ send_to' = [send_to EXCEPT ![process_ready] = dest]
  /\ msg' = [msg EXCEPT ![process_ready] = TRUE]
  /\ current_send' = HeadWith(dest, process_ready)
  /\ next_send' = NextWith(dest, process_ready)
  /\ Goto("block")
  /\ UNCHANGED <<recv_from, have_int_msg>>

\* ASSERT(p_dest->msg)
SendAssert ==
  /\ pc = "send_assert"
  /\ IF msg[peer] THEN Goto("send_latch") ELSE Halt("dest_msg")
  /\ UNCHANGED <<procVars, listVars, buffer>>

\* The pointer is read again for memcpy; it may be NULL by now.
SendLatch ==
  /\ pc = "send_latch"
  /\ latched' = msg[peer]
  /\ pc' = "send_source"
  /\ UNCHANGED <<procVars, listVars, buffer, process_ready, peer, fault>>

\* memcpy copies upwards, the source field first.  A copy to the latched NULL
\* goes to address 0, which is mapped and belongs to nobody.
SendSource ==
  /\ pc = "send_source"
  /\ buffer' = IF latched
               THEN [buffer EXCEPT ![peer].source = buffer[process_ready].source]
               ELSE buffer
  /\ Goto("send_body")
  /\ UNCHANGED <<procVars, listVars>>

SendBody ==
  /\ pc = "send_body"
  /\ buffer' = IF latched
               THEN [buffer EXCEPT ![peer].body = buffer[process_ready].body]
               ELSE buffer
  /\ Goto("send_null")
  /\ UNCHANGED <<procVars, listVars>>

SendNull ==
  /\ pc = "send_null"
  /\ msg' = [msg EXCEPT ![peer] = FALSE]
  /\ Goto("send_wake")
  /\ UNCHANGED <<flags, recv_from, send_to, have_int_msg, listVars, buffer>>

\* (Mutant) the flag is left set.
FlagsKept(p, f) == flags

\* The flags of p once the bit f is cleared, and the ASSERT of unblock.
FlagsWithout(p, f) == [flags EXCEPT ![p] = @ \ {f}]
Unblock(p) == flags'[p] = {}

SendWake ==
  /\ pc = "send_wake"
  /\ flags' = FlagsWithout(peer, "RECVING")
  /\ recv_from' = [recv_from EXCEPT ![peer] = NoTask]
  /\ IF Unblock(peer) THEN Dispatch(process_ready) ELSE Halt("unblock_flags")
  /\ UNCHANGED <<msg, send_to, have_int_msg, listVars, buffer>>

--------------------------------------------------------------------------------
(* MSG_RECEIVE.                                                               *)

\* Every process receives from another one or from anyone; only the driver asks
\* for an interrupt.  send_recv clears the buffer first, except in MSG_BOTH.
ReceiveSources(p) ==
  (Proc \ {p}) \cup {AnySource} \cup (IF p = HddTask THEN {Interrupt} ELSE {})

ReceiveCall(src, m) ==
  /\ pc = "user"
  /\ src \in ReceiveSources(process_ready)
  /\ m \in {Blank, buffer[process_ready].body}

\* The first test of msg_recv: a recorded interrupt comes before any sender.
IntRecorded(p, src) == have_int_msg[p] /\ src \in {AnySource, Interrupt}

ReceiveInterrupt(src) ==
  /\ \E m \in Body : ReceiveCall(src, m)
  /\ IntRecorded(process_ready, src)
  /\ buffer' = [buffer EXCEPT ![process_ready] = [source |-> Interrupt, body |-> HwInt]]
  /\ have_int_msg' = [have_int_msg EXCEPT ![process_ready] = FALSE]
  /\ UNCHANGED <<flags, msg, recv_from, send_to, listVars, callVars>>

ReceiveProceed(src, m) ==
  /\ ReceiveCall(src, m)
  /\ ~IntRecorded(process_ready, src)
  /\ buffer' = [buffer EXCEPT ![process_ready] = [source |-> process_ready, body |-> m]]
  /\ pc' = "recv"
  /\ peer' = src
  /\ UNCHANGED <<procVars, listVars, process_ready, latched, fault>>

\* (Mutants) the newest sender is served first; the destination of the named
\* sender is not looked at.
LastSender(p, src) ==
  IF src = AnySource /\ current_send[p] # Null
  THEN CHOOSE q \in Chain(next_send, current_send[p]) : next_send[q] = Null
  ELSE IF src \in Proc /\ "SENDING" \in flags[src] /\ send_to[src] = p THEN src
  ELSE Null
SenderToAnyone(p, src) ==
  IF src = AnySource THEN current_send[p]
  ELSE IF src \in Proc /\ "SENDING" \in flags[src] THEN src
  ELSE Null

\* Whom msg_recv serves: the head of the list, or the named source if it is
\* blocked sending here; Null when the receiver has to wait.  (Receiving from
\* Interrupt reads proc_table[-10], which is zeroed memory: no sender.)
Sender(p, src) ==
  IF src = AnySource THEN current_send[p]
  ELSE IF src \in Proc /\ "SENDING" \in flags[src] /\ send_to[src] = p THEN src
  ELSE Null

\* A blocked sender is served: it leaves the list, its message is copied and it
\* is runnable again.  ASSERT(p_recv->current_send) guards the walk of the list.
Collect(p, s) ==
  /\ current_send' = HeadWithout(p, s)
  /\ next_send' = NextWithout(p, s)
  /\ buffer' = [buffer EXCEPT ![p] = buffer[s]]
  /\ msg' = [msg EXCEPT ![s] = FALSE]
  /\ send_to' = [send_to EXCEPT ![s] = NoTask]
  /\ flags' = FlagsWithout(s, "SENDING")
  /\ IF Unblock(s) THEN Dispatch(p) ELSE Halt("unblock_flags")
  /\ UNCHANGED <<recv_from, have_int_msg>>

RecvCollect ==
  /\ pc = "recv"
  /\ Sender(process_ready, peer) # Null
  /\ IF current_send[process_ready] # Null
     THEN Collect(process_ready, Sender(process_ready, peer))
     ELSE Halt("recv_queue") /\ UNCHANGED <<procVars, listVars, buffer>>

\* (Mutant) the receiver blocks without leaving its buffer.
RecvWaitNoBuffer ==
  /\ pc = "recv"
  /\ Sender(process_ready, peer) = Null
  /\ flags' = [flags EXCEPT ![process_ready] = @ \cup {"RECVING"}]
  /\ recv_from' = [recv_from EXCEPT ![process_ready] = peer]
  /\ Goto("block")
  /\ UNCHANGED <<msg, send_to, have_int_msg, listVars, buffer>>

RecvWait ==
  LET p == process_ready
  IN /\ pc = "recv"
     /\ Sender(p, peer) = Null
     /\ flags' = [flags EXCEPT ![p] = @ \cup {"RECVING"}]
     /\ msg' = [msg EXCEPT ![p] = TRUE]
     /\ recv_from' = [recv_from EXCEPT ![p] = peer]
     /\ Goto("block")
     /\ UNCHANGED <<send_to, have_int_msg, listVars, buffer>>

--------------------------------------------------------------------------------
(* Blocking, the clock and the disk.                                          *)

\* block: ASSERT(proc->flags), then process_schedule.
Block ==
  /\ pc = "block"
  /\ IF flags[process_ready] # {} THEN Goto("schedule") ELSE Halt("block_flags")
  /\ UNCHANGED <<procVars, listVars, buffer>>

\* process_schedule loops, with interrupts on, until some process is runnable.
Schedule(q) ==
  /\ pc = "schedule"
  /\ flags[q] = {}
  /\ Dispatch(q)
  /\ UNCHANGED <<procVars, listVars, buffer>>

\* A clock interrupt that reaches the kernel from user mode may switch.
ClockSwitch(q) ==
  /\ pc = "user"
  /\ q # process_ready
  /\ flags[q] = {}
  /\ Dispatch(q)
  /\ UNCHANGED <<procVars, listVars, buffer>>

\* deliver_int_to_proc(HDD_TASK), whatever the interrupted code was doing.
DiskInterrupt ==
  /\ pc # "halted"
  /\ IF "RECVING" \in flags[HddTask] /\ recv_from[HddTask] \in {Interrupt, AnySource}
     THEN /\ buffer' = IF msg[HddTask]
                       THEN [buffer EXCEPT ![HddTask] = [source |-> Interrupt, body |-> HwInt]]
                       ELSE buffer
          /\ msg' = [msg EXCEPT ![HddTask] = FALSE]
          /\ have_int_msg' = [have_int_msg EXCEPT ![HddTask] = FALSE]
          /\ flags' = FlagsWithout(HddTask, "RECVING")
          /\ recv_from' = [recv_from EXCEPT ![HddTask] = NoTask]
          /\ UNCHANGED <<send_to, listVars>>
          /\ IF Unblock(HddTask) THEN UNCHANGED callVars ELSE Halt("unblock_flags")
     ELSE /\ have_int_msg' = [have_int_msg EXCEPT ![HddTask] = TRUE]
          /\ UNCHANGED <<flags, msg, recv_from, send_to, listVars, buffer, callVars>>

--------------------------------------------------------------------------------

Send ==
  \/ \E dest \in Proc, m \in Payload :
       SendDeadLock(dest, m) \/ SendMeet(dest, m) \/ SendQueue(dest, m)
  \/ CallSelf \/ SendAssert \/ SendLatch \/ SendSource \/ SendBody \/ SendNull \/ SendWake

Receive ==
  \/ \E src \in Proc \cup {AnySource, Interrupt} :
       ReceiveInterrupt(src) \/ \E m \in Body : ReceiveProceed(src, m)
  \/ RecvCollect \/ RecvWait

Next ==
  \/ Send
  \/ Receive
  \/ Block
  \/ \E q \in Proc : Schedule(q) \/ ClockSwitch(q)
  \/ DiskInterrupt

Spec == Init /\ [][Next]_vars

--------------------------------------------------------------------------------
(* Properties.                                                                *)

\* Every variable keeps its type.
TypeOK ==
  /\ flags \in [Proc -> SUBSET Flag]
  /\ msg \in [Proc -> BOOLEAN]
  /\ recv_from \in [Proc -> Proc \cup {AnySource, NoTask, Interrupt}]
  /\ send_to \in [Proc -> Proc \cup {NoTask}]
  /\ have_int_msg \in [Proc -> BOOLEAN]
  /\ current_send \in [Proc -> Proc \cup {Null}]
  /\ next_send \in [Proc -> Proc \cup {Null}]
  /\ buffer \in [Proc -> Message]
  /\ process_ready \in Proc
  /\ pc \in KernelPoint
  /\ peer \in Proc \cup {Null, AnySource, Interrupt}
  /\ latched \in BOOLEAN
  /\ fault \in Fault

\* The senders blocked on d.
BlockedOn(d) == {p \in Proc : "SENDING" \in flags[p] /\ send_to[p] = d}

\* dead_lock is complete for senders: no set of blocked senders ever waits only
\* on itself, however long the cycle A->B->C->A and however the calls interleave.
NoSendCycle ==
  \A C \in (SUBSET Proc) \ {{}} : \E q \in C : SendEdge[q] \notin C

\* The list that starts at current_send[d] holds every sender blocked on d and
\* nobody else, each once: no call that adds or removes one loses another.
ListIsBlockedSenders ==
  \A d \in Proc :
    /\ current_send[d] = Null => BlockedOn(d) = {}
    /\ current_send[d] # Null => Chain(next_send, current_send[d]) = BlockedOn(d)
    /\ \A p, q \in BlockedOn(d) : next_send[p] = next_send[q] => p = q
    /\ \A p \in BlockedOn(d) : next_send[p] # current_send[d]

\* The message buffer of a process blocked in a call is known to the kernel, and
\* the driver apart nobody blocks without naming whom it waits for: whoever is
\* blocked can still be completed by the one it waits for.
BlockedIsReachable ==
  \A p \in Proc :
    /\ flags[p] # Flag
    /\ "SENDING" \in flags[p] => msg[p] /\ send_to[p] \in Proc \ {p}
    /\ "RECVING" \in flags[p] =>
         /\ msg[p] \/ (pc = "send_wake" /\ peer = p)
         /\ recv_from[p] \in (Proc \ {p}) \cup {AnySource, Interrupt}

\* A sender and a receiver that wait for each other always meet: there is no
\* state where s is blocked sending to d while d is blocked and accepts s.
NoMissedRendezvous ==
  \A s, d \in Proc :
    s \in BlockedOn(d) /\ "RECVING" \in flags[d] => recv_from[d] \notin {s, AnySource}

\* The assertions of message.c hold unless the disk interrupt breaks in on the
\* driver: the list, the unblocked flags and the buffer of every other receiver
\* are what the code asserts.
OnlyInterruptBreaksAsserts ==
  /\ fault \notin {"recv_queue", "unblock_flags"}
  /\ pc = "send_assert" /\ ~msg[peer] => peer = HddTask
  /\ pc = "block" /\ flags[process_ready] = {} => process_ready = HddTask

\* A receiver other than the driver gets the message as it was sent: the copy is
\* complete, and of this sender, when the receiver becomes runnable.
HandedOverIntact ==
  [][\A d \in Proc \ {HddTask} :
       flags[d] = {"RECVING"} /\ flags'[d] = {} =>
         /\ buffer[d] = buffer[process_ready]
         /\ recv_from[d] \in {process_ready, AnySource}]_vars

\* Senders are served in turn: if d for ever takes a sender from its list by
\* receiving from anyone, s does not stay blocked on d.
ServesInTurn(d, s) ==
  []<><<pc = "recv" /\ process_ready = d /\ peer = AnySource /\ RecvCollect>>_vars
    => (s \in BlockedOn(d) ~> s \notin BlockedOn(d))

--------------------------------------------------------------------------------
(* What the source says of itself and the code does not keep.                 *)

\* message.c:15 asserts that whoever enters block has set a flag.
BlockAssertHolds == fault # "block_flags"

\* process.h:94: when a hardware interrupt occurs a message is sent to the task.
\* So the driver never sits blocked waiting for one that was already recorded.
InterruptReachesDriver ==
  ~ /\ pc \in {"user", "schedule"}
    /\ "RECVING" \in flags[HddTask]
    /\ recv_from[HddTask] \in {Interrupt, AnySource}
    /\ have_int_msg[HddTask]

\* message.c:160: dead_lock checks each process dependency.  So no set of
\* processes ever waits, sending or receiving, only on its own members.
DependsOn(q) ==
  IF "SENDING" \in flags[q] THEN send_to[q]
  ELSE IF "RECVING" \in flags[q] THEN recv_from[q]
  ELSE Null

NoDependencyCycle ==
  \A C \in (SUBSET Proc) \ {{}} : \E q \in C : DependsOn(q) \notin C

--------------------------------------------------------------------------------
(* The inductive invariant that the properties above follow from.             *)

SendPoint ==
  {"send_assert", "send_latch", "send_source", "send_body", "send_null", "send_wake"}

\* What the call in progress relies on.  While a message is handed over, nothing
\* but the disk interrupt can take the receiver away.
CallOK ==
  /\ pc \in {"user", "recv"} \cup SendPoint => flags[process_ready] = {}
  /\ pc = "recv" => peer \in ReceiveSources(process_ready)
  /\ pc = "block" => flags[process_ready] # {} \/ process_ready = HddTask
  /\ pc \in SendPoint =>
       /\ peer \in Proc \ {process_ready}
       /\ flags[peer] \in {{}, {"RECVING"}}
       /\ peer # HddTask =>
            /\ Accepts(peer, process_ready)
            /\ pc # "send_wake" => msg[peer]
            /\ pc \in {"send_source", "send_body"} => latched
            /\ pc = "send_body" => buffer[peer].source = buffer[process_ready].source
            /\ pc \in {"send_null", "send_wake"} => buffer[peer] = buffer[process_ready]

\* The list of d one pointer at a time: it starts and stays among the senders
\* blocked on d, has no fork and one end, and no closed part leaves a sender out.
GoodList(d) ==
  /\ current_send[d] = Null => BlockedOn(d) = {}
  /\ current_send[d] # Null => current_send[d] \in BlockedOn(d)
  /\ \A p \in BlockedOn(d) : next_send[p] # Null => next_send[p] \in BlockedOn(d)
  /\ \A p, q \in BlockedOn(d) : next_send[p] = next_send[q] => p = q
  /\ \A p \in BlockedOn(d) : next_send[p] # current_send[d]
  /\ BlockedOn(d) # {} => \E p \in BlockedOn(d) : next_send[p] = Null
  /\ \A S \in SUBSET Proc :
       current_send[d] \in S /\ Closed(S, next_send) => BlockedOn(d) \subseteq S

ListOK ==
  /\ \A p \in Proc : "SENDING" \notin flags[p] => next_send[p] = Null
  /\ \A d \in Proc : GoodList(d)

FaultOK == fault \notin {"recv_queue", "unblock_flags"}

IInv ==
  /\ TypeOK
  /\ CallOK
  /\ BlockedIsReachable
  /\ NoMissedRendezvous
  /\ ListOK
  /\ NoSendCycle
  /\ FaultOK

================================================================================
