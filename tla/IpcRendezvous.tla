----------------------------- MODULE IpcRendezvous -----------------------------
(******************************************************************************)
(* The kernel's message passing implements the rendezvous it promises.        *)
(* A receive is asked for when msg_recv starts and over when the flag of the  *)
(* receiver is cleared; a message changes hands in that last step.            *)
(******************************************************************************)
EXTENDS Ipc, FiniteSets

\* The senders in front of p in the list of d, with p itself.
UpTo(d, p) == {q \in BlockedOn(d) : p \in Chain(next_send, q)}

\* The linked list of d as a sequence.
Line(d) ==
  [i \in 1 .. Cardinality(BlockedOn(d)) |->
     CHOOSE p \in BlockedOn(d) : Cardinality(UpTo(d, p)) = i]

Awaits(p) ==
  IF "RECVING" \in flags[p] THEN recv_from[p]
  ELSE IF pc = "recv" /\ process_ready = p THEN peer
  ELSE NoTask

Promise ==
  INSTANCE Rendezvous WITH
    Process <- Proc,
    Driver <- HddTask,
    Anyone <- AnySource,
    Device <- Interrupt,
    Nobody <- NoTask,
    Nothing <- [source |-> NoTask, body |-> Blank],
    Letter <- Message,
    line <- [d \in Proc |-> Line(d)],
    awaits <- [p \in Proc |-> Awaits(p)],
    letter <- [p \in Proc |-> IF Awaits(p) = NoTask
                             THEN buffer[p]
                             ELSE [source |-> NoTask, body |-> Blank]]

\* send_recv keeps the promise: every behaviour of the kernel, with the disk
\* interrupting anywhere, is one of the rendezvous.
ImplementsRendezvous == Promise!Spec

\* What the mapping relies on while msg_send hands a message over: the caller's
\* buffer carries its stamp, and as long as nobody has completed the receiver,
\* the driver included, the copy is as far as the call is.
HandoverOK ==
  pc \in SendPoint =>
    /\ buffer[process_ready].source = process_ready
    /\ "RECVING" \in flags[peer] =>
         /\ Accepts(peer, process_ready)
         /\ pc # "send_wake" => msg[peer]
         /\ pc \in {"send_source", "send_body"} => latched
         /\ pc = "send_body" => buffer[peer].source = buffer[process_ready].source
         /\ pc \in {"send_null", "send_wake"} => buffer[peer] = buffer[process_ready]
================================================================================
