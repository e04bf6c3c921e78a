------------------------------- MODULE Rendezvous ------------------------------
(******************************************************************************)
(* What send_recv promises to the processes of WalOS, without flags, pointers *)
(* or kernel steps: a message goes from a sender to a receiver in one step,   *)
(* whole and exactly once, when the receiver asks for it; the senders to one  *)
(* receiver stand in a line and are taken in the order they came, unless the  *)
(* receiver names one of them.  Only the driver may get something else: the   *)
(* device can answer what it asked for.                                       *)
(******************************************************************************)
EXTENDS Integers, Sequences, SequencesExt

CONSTANTS
  Process,    \* the processes
  Driver,     \* the process the device may answer
  Anyone,     \* the source of a receive that takes any sender
  Device,     \* the source of a receive that takes no sender
  Nobody,     \* none of the above
  Nothing,    \* what a process holds while it awaits a message
  Letter      \* the messages, stamped with a source

VARIABLES
  line,       \* process -> the senders blocked on it, in the order they came
  awaits,     \* process -> whom it is receiving from, or Nobody
  letter      \* process -> the message in its hands, or Nothing

vars == <<line, awaits, letter>>

\* A process may act unless it stands in a line or awaits a message.
Free(p) == awaits[p] = Nobody /\ \A d \in Process : p \notin ToSet(line[d])

Init ==
  /\ line = [d \in Process |-> <<>>]
  /\ awaits = [d \in Process |-> Nobody]
  /\ letter \in [Process -> Letter]

\* A free process changes what it holds: its own memory, its own call.
Compose(p) ==
  /\ Free(p)
  /\ \E l \in Letter : letter' = [letter EXCEPT ![p] = l]
  /\ UNCHANGED <<line, awaits>>

\* p, stamped as itself, finds d not waiting for it and joins its line.
Post(p, d) ==
  /\ Free(p)
  /\ awaits[d] \notin {p, Anyone}
  /\ \E l \in Letter : l.source = p /\ letter' = [letter EXCEPT ![p] = l]
  /\ line' = [line EXCEPT ![d] = Append(@, p)]
  /\ UNCHANGED awaits

\* p hands its letter to d, which waits for it and has no line to serve first.
Handover(p, d) ==
  /\ Free(p)
  /\ awaits[d] = p \/ (awaits[d] = Anyone /\ line[d] = <<>>)
  /\ letter[p].source = p
  /\ letter' = [letter EXCEPT ![d] = letter[p]]
  /\ awaits' = [awaits EXCEPT ![d] = Nobody]
  /\ UNCHANGED line

\* d starts to receive from source.
Ask(d, source) ==
  /\ Free(d)
  /\ awaits' = [awaits EXCEPT ![d] = source]
  /\ letter' = [letter EXCEPT ![d] = Nothing]
  /\ UNCHANGED line

\* d takes the letter of the sender at place i: the first, or the one it named.
Collect(d, i) ==
  /\ i \in 1 .. Len(line[d])
  /\ awaits[d] = line[d][i] \/ (awaits[d] = Anyone /\ i = 1)
  /\ line' = [line EXCEPT ![d] = RemoveAt(@, i)]
  /\ letter' = [letter EXCEPT ![d] = letter[line[d][i]]]
  /\ awaits' = [awaits EXCEPT ![d] = Nobody]

\* The device answers a receive of the driver that takes any source or no sender.
Answer ==
  /\ awaits[Driver] \in {Anyone, Device}
  /\ \E l \in Letter : letter' = [letter EXCEPT ![Driver] = l]
  /\ awaits' = [awaits EXCEPT ![Driver] = Nobody]
  /\ UNCHANGED line

Next ==
  \/ \E p \in Process :
       \/ Compose(p)
       \/ \E d \in Process \ {p} : Post(p, d) \/ Handover(p, d)
       \/ \E i \in 1 .. Len(line[p]) : Collect(p, i)
       \/ \E source \in (Process \ {p}) \cup {Anyone} : Ask(p, source)
  \/ Ask(Driver, Device)
  \/ Answer

Spec == Init /\ [][Next]_vars
================================================================================
