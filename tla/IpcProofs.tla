------------------------------- MODULE IpcProofs -------------------------------
(******************************************************************************)
(* Proofs, for any number of processes, that the message passing of Ipc keeps *)
(* its inductive invariant IInv and so the safety properties the runs check.  *)
(******************************************************************************)
EXTENDS Ipc, TLAPS

\* The values that stand for no process are no process, and differ.
LEMMA Distinct ==
  /\ Proc \subseteq Int
  /\ AnySource \notin Proc /\ NoTask \notin Proc /\ Interrupt \notin Proc /\ Null \notin Proc
  /\ AnySource # NoTask /\ AnySource # Interrupt /\ AnySource # Null
  /\ NoTask # Interrupt /\ NoTask # Null /\ Interrupt # Null
  /\ AnySource \in Int /\ NoTask \in Int /\ Interrupt \in Int /\ Null \in Int
  /\ 0 \in Proc
  BY NumProcAssumption DEF Proc, AnySource, NoTask, Interrupt, Null

LEMMA MessageFacts ==
  /\ \A m \in Message : m.source \in Proc \cup {Interrupt} /\ m.body \in Body
  /\ \A s \in Proc \cup {Interrupt}, b \in Body : [source |-> s, body |-> b] \in Message
  /\ \A m \in Message, s \in Proc \cup {Interrupt} : [m EXCEPT !.source = s] \in Message
  /\ \A m \in Message, b \in Body : [m EXCEPT !.body = b] \in Message
  /\ HwInt \in Body /\ Blank \in Body /\ Payload \subseteq Body
  BY DEF Message, Body

\* TypeOK is kept by every step from a state that satisfies CallOK.
LEMMA TypeStep ==
  ASSUME TypeOK, CallOK, [Next]_vars
  PROVE  TypeOK'
<1> USE DEF TypeOK, procVars, listVars, callVars
<1>1. ASSUME NEW d \in Proc, NEW m \in Payload, SendDeadLock(d, m) PROVE TypeOK'
  BY <1>1, MessageFacts, Distinct DEF SendDeadLock, SendCall, Halt, KernelPoint, Fault
<1>2. ASSUME NEW d \in Proc, NEW m \in Payload, SendMeet(d, m) PROVE TypeOK'
  BY <1>2, MessageFacts, Distinct DEF SendMeet, SendCall, KernelPoint, Fault
<1>3. ASSUME NEW d \in Proc, NEW m \in Payload, SendQueue(d, m) PROVE TypeOK'
  <2>1. HeadWith(d, process_ready) \in [Proc -> Proc \cup {Null}]
    BY DEF HeadWith
  <2>2. NextWith(d, process_ready) \in [Proc -> Proc \cup {Null}]
    BY DEF NextWith
  <2>3. buffer' \in [Proc -> Message]
    BY <1>3, MessageFacts DEF SendQueue, SendCall
  <2>4. flags' \in [Proc -> SUBSET Flag]
    BY <1>3 DEF SendQueue, Flag
  <2> QED BY <1>3, <2>1, <2>2, <2>3, <2>4 DEF SendQueue, SendCall, Goto, KernelPoint
<1>4. CASE CallSelf
  <2>1. PICK m \in Payload : SendCall(process_ready, m)
    BY <1>4 DEF CallSelf
  <2>2. buffer' \in [Proc -> Message]
    BY <2>1, MessageFacts DEF SendCall
  <2> QED BY <1>4, <2>2, Distinct DEF CallSelf, Halt, KernelPoint, Fault
<1>5. CASE SendAssert
  BY <1>5, Distinct DEF SendAssert, Goto, Halt, KernelPoint, Fault
<1>6. CASE SendLatch
  BY <1>6, Distinct DEF SendLatch, CallOK, SendPoint, KernelPoint
<1>7. CASE SendSource
  BY <1>7, MessageFacts DEF SendSource, Goto, KernelPoint
<1>8. CASE SendBody
  BY <1>8, MessageFacts DEF SendBody, Goto, KernelPoint
<1>9. CASE SendNull
  BY <1>9 DEF SendNull, Goto, KernelPoint
<1>10. CASE SendWake
  BY <1>10, Distinct DEF SendWake, FlagsWithout, Dispatch, Halt, KernelPoint, Fault
<1>11. ASSUME NEW src \in Proc \cup {AnySource, Interrupt}, ReceiveInterrupt(src)
       PROVE  TypeOK'
  BY <1>11, MessageFacts DEF ReceiveInterrupt
<1>12. ASSUME NEW src \in Proc \cup {AnySource, Interrupt}, NEW m \in Body,
              ReceiveProceed(src, m)
       PROVE  TypeOK'
  BY <1>12, MessageFacts DEF ReceiveProceed, KernelPoint
<1>13. CASE RecvCollect
  <2>1. Sender(process_ready, peer) \in Proc \cup {Null}
    BY DEF Sender
  <2>2. CASE current_send[process_ready] # Null
    <3> DEFINE s == Sender(process_ready, peer)
    <3>1. s \in Proc BY <1>13, <2>1 DEF RecvCollect
    <3>2. HeadWithout(process_ready, s) \in [Proc -> Proc \cup {Null}]
      BY <3>1 DEF HeadWithout
    <3>3. NextWithout(process_ready, s) \in [Proc -> Proc \cup {Null}]
      BY <3>1 DEF NextWithout
    <3>4. Collect(process_ready, s) BY <1>13, <2>2 DEF RecvCollect
    <3> HIDE DEF s
    <3> QED BY <3>1, <3>2, <3>3, <3>4, Distinct
            DEF Collect, FlagsWithout, Dispatch, Halt, KernelPoint, Fault
  <2>3. CASE current_send[process_ready] = Null
    BY <1>13, <2>3, Distinct DEF RecvCollect, Halt, KernelPoint, Fault
  <2> QED BY <2>2, <2>3
<1>14. CASE RecvWait
  <2>1. peer \in Proc \cup {AnySource, Interrupt}
    BY <1>14 DEF RecvWait, CallOK, ReceiveSources
  <2> QED BY <1>14, <2>1 DEF RecvWait, Goto, KernelPoint, Flag
<1>15. CASE Block
  BY <1>15 DEF Block, Goto, Halt, KernelPoint, Fault
<1>16. ASSUME NEW q \in Proc, Schedule(q) PROVE TypeOK'
  BY <1>16 DEF Schedule, Dispatch, KernelPoint
<1>17. ASSUME NEW q \in Proc, ClockSwitch(q) PROVE TypeOK'
  BY <1>17 DEF ClockSwitch, Dispatch, KernelPoint
<1>18. CASE DiskInterrupt
  <2>1. [source |-> Interrupt, body |-> HwInt] \in Message
    BY MessageFacts
  <2>2. buffer' \in [Proc -> Message]
    BY <1>18, <2>1 DEF DiskInterrupt
  <2>3. flags' \in [Proc -> SUBSET Flag]
    BY <1>18 DEF DiskInterrupt, FlagsWithout, Flag
  <2>5. /\ msg' \in [Proc -> BOOLEAN]
        /\ recv_from' \in [Proc -> Proc \cup {AnySource, NoTask, Interrupt}]
        /\ have_int_msg' \in [Proc -> BOOLEAN]
    BY <1>18 DEF DiskInterrupt
  <2>6. UNCHANGED <<send_to, current_send, next_send>>
    BY <1>18 DEF DiskInterrupt
  <2>4. /\ process_ready' \in Proc
        /\ pc' \in KernelPoint
        /\ peer' \in Proc \cup {Null, AnySource, Interrupt}
        /\ latched' \in BOOLEAN
        /\ fault' \in Fault
    BY <1>18, Distinct DEF DiskInterrupt, Halt, KernelPoint, Fault
  <2> QED BY <2>2, <2>3, <2>4, <2>5, <2>6 DEF TypeOK
<1>19. CASE UNCHANGED vars
  BY <1>19 DEF vars
<1> QED
  BY <1>1, <1>2, <1>3, <1>4, <1>5, <1>6, <1>7, <1>8, <1>9, <1>10, <1>11, <1>12,
     <1>13, <1>14, <1>15, <1>16, <1>17, <1>18, <1>19 DEF Next, Send, Receive

--------------------------------------------------------------------------------
(* The linked lists of senders.                                               *)

\* Walking the list from its head meets exactly the senders blocked on d.
LEMMA ChainIsBlocked ==
  ASSUME TypeOK, ListOK, NEW d \in Proc, current_send[d] # Null
  PROVE  Chain(next_send, current_send[d]) = BlockedOn(d)
<1>1. GoodList(d) BY DEF ListOK
<1>2. BlockedOn(d) \in SUBSET Proc BY DEF BlockedOn
<1>3. Closed(BlockedOn(d), next_send)
  BY <1>1, Distinct DEF GoodList, Closed
<1>4. Chain(next_send, current_send[d]) \subseteq BlockedOn(d)
  BY <1>1, <1>2, <1>3 DEF Chain, GoodList
<1>5. ASSUME NEW p \in BlockedOn(d) PROVE p \in Chain(next_send, current_send[d])
  BY <1>1, <1>2 DEF Chain, GoodList
<1> QED BY <1>4, <1>5

\* A step that leaves the blocked senders and the pointers alone keeps the lists.
LEMMA ListFrame ==
  ASSUME ListOK, send_to' = send_to, UNCHANGED listVars,
         \A p \in Proc : "SENDING" \in flags'[p] <=> "SENDING" \in flags[p]
  PROVE  /\ ListOK'
         /\ SendEdge' = SendEdge
         /\ \A d \in Proc : BlockedOn(d)' = BlockedOn(d)
<1>1. \A d \in Proc : BlockedOn(d)' = BlockedOn(d)
  BY DEF BlockedOn
<1>2. current_send' = current_send /\ next_send' = next_send
  BY DEF listVars
<1>3. \A d \in Proc : GoodList(d)'
  BY <1>1, <1>2 DEF ListOK, GoodList, Closed
<1>4. SendEdge' = SendEdge
  BY DEF SendEdge
<1> QED BY <1>1, <1>2, <1>3, <1>4 DEF ListOK

\* p has joined the senders blocked on d and nobody else has moved.
LEMMA EnqueueBlocked ==
  ASSUME TypeOK, NEW d \in Proc, NEW p \in Proc, flags[p] = {},
         flags' = [flags EXCEPT ![p] = @ \cup {"SENDING"}],
         send_to' = [send_to EXCEPT ![p] = d]
  PROVE  /\ BlockedOn(d)' = BlockedOn(d) \cup {p}
         /\ \A e \in Proc \ {d} : BlockedOn(e)' = BlockedOn(e)
         /\ \A e \in Proc : p \notin BlockedOn(e)
  BY DEF TypeOK, BlockedOn

\* Appending p to the list of d, as msg_send does, keeps every list.
LEMMA EnqueueList ==
  ASSUME TypeOK, ListOK, NEW d \in Proc, NEW p \in Proc, flags[p] = {},
         flags' = [flags EXCEPT ![p] = @ \cup {"SENDING"}],
         send_to' = [send_to EXCEPT ![p] = d],
         current_send' = HeadWith(d, p),
         next_send' = NextWith(d, p)
  PROVE  ListOK'
<1>1. /\ BlockedOn(d)' = BlockedOn(d) \cup {p}
      /\ \A e \in Proc \ {d} : BlockedOn(e)' = BlockedOn(e)
      /\ \A e \in Proc : p \notin BlockedOn(e)
  BY EnqueueBlocked
<1>2. /\ next_send'[p] = Null
      /\ \A q \in Proc \ {p} :
           next_send'[q] = IF q \in BlockedOn(d) /\ next_send[q] = Null
                           THEN p ELSE next_send[q]
  <2>1. CASE current_send[d] = Null
    BY <2>1 DEF NextWith, ListOK, GoodList
  <2>2. CASE current_send[d] # Null
    BY <2>2, ChainIsBlocked DEF NextWith
  <2> QED BY <2>1, <2>2
<1>3. /\ current_send'[d] = IF current_send[d] = Null THEN p ELSE current_send[d]
      /\ \A e \in Proc \ {d} : current_send'[e] = current_send[e]
  BY DEF HeadWith, TypeOK
<1>4. next_send[p] = Null
  BY DEF ListOK
<1>5. \A q \in Proc : "SENDING" \notin flags'[q] => next_send'[q] = Null
  BY <1>2 DEF ListOK, BlockedOn, TypeOK
<1>6. ASSUME NEW e \in Proc \ {d} PROVE GoodList(e)'
  <2>1. GoodList(e) BY DEF ListOK
  <2>2. \A q \in BlockedOn(e) : q # p /\ next_send'[q] = next_send[q]
    BY <1>1, <1>2 DEF BlockedOn
  <2>3. ASSUME NEW S \in SUBSET Proc, current_send[e] \in S, Closed(S, next_send')
        PROVE  BlockedOn(e) \subseteq S
    <3>1. current_send[e] \in S \cap BlockedOn(e)
      BY <2>1, <2>3, Distinct DEF GoodList
    <3>2. Closed(S \cap BlockedOn(e), next_send)
      BY <2>1, <2>2, <2>3, Distinct DEF Closed, GoodList
    <3> QED BY <2>1, <3>1, <3>2 DEF GoodList
  <2>4. BlockedOn(e)' = BlockedOn(e) /\ current_send'[e] = current_send[e]
    BY <1>1, <1>3
  <2> QED BY <2>1, <2>2, <2>3, <2>4 DEF GoodList, Closed
<1>7. GoodList(d)'
  <2>1. GoodList(d) BY DEF ListOK
  <2>2. current_send'[d] # Null /\ current_send'[d] \in BlockedOn(d)'
    BY <1>1, <1>3, <2>1, Distinct DEF GoodList
  <2>3. \A q \in BlockedOn(d)' : next_send'[q] # Null => next_send'[q] \in BlockedOn(d)'
    BY <1>1, <1>2, <2>1 DEF GoodList, BlockedOn
  <2>4. \A q, r \in BlockedOn(d)' : next_send'[q] = next_send'[r] => q = r
    BY <1>1, <1>2, <2>1, Distinct DEF GoodList, BlockedOn
  <2>5. \A q \in BlockedOn(d)' : next_send'[q] # current_send'[d]
    BY <1>1, <1>2, <1>3, <2>1, <2>2, Distinct DEF GoodList, BlockedOn
  <2>6. \E q \in BlockedOn(d)' : next_send'[q] = Null
    BY <1>1, <1>2
  <2>7. ASSUME NEW S \in SUBSET Proc, current_send'[d] \in S, Closed(S, next_send')
        PROVE  BlockedOn(d)' \subseteq S
    <3>1. CASE current_send[d] = Null
      BY <1>1, <1>3, <2>1, <2>7, <3>1 DEF GoodList
    <3>2. CASE current_send[d] # Null
      <4>1. Closed(S, next_send)
        BY <1>2, <1>4, <2>7, Distinct DEF Closed
      <4>2. BlockedOn(d) \subseteq S
        BY <1>3, <2>1, <2>7, <3>2, <4>1 DEF GoodList
      <4>3. PICK t \in BlockedOn(d) : next_send[t] = Null
        BY <2>1, <3>2 DEF GoodList
      <4>4. next_send'[t] = p
        BY <1>1, <1>2, <4>3 DEF BlockedOn
      <4> QED BY <1>1, <2>7, <4>2, <4>3, <4>4 DEF Closed
    <3> QED BY <3>1, <3>2
  <2> QED BY <2>2, <2>3, <2>4, <2>5, <2>6, <2>7 DEF GoodList, Closed
<1> QED BY <1>5, <1>6, <1>7 DEF ListOK

\* Taking s out of the list of d, as msg_recv does, keeps every list.
LEMMA DequeueList ==
  ASSUME TypeOK, ListOK, BlockedIsReachable, NEW d \in Proc, NEW s \in BlockedOn(d),
         flags' = FlagsWithout(s, "SENDING"),
         send_to' = [send_to EXCEPT ![s] = NoTask],
         current_send' = HeadWithout(d, s),
         next_send' = NextWithout(d, s)
  PROVE  ListOK'
<1>1. /\ BlockedOn(d)' = BlockedOn(d) \ {s}
      /\ \A e \in Proc \ {d} : BlockedOn(e)' = BlockedOn(e) /\ s \notin BlockedOn(e)
  BY Distinct DEF BlockedOn, FlagsWithout, TypeOK
<1>2. s \in Proc /\ BlockedOn(d) \subseteq Proc
  BY DEF BlockedOn
<1>3. /\ next_send'[s] = Null
      /\ \A q \in Proc \ {s} :
           next_send'[q] = IF current_send[d] # s /\ next_send[q] = s
                           THEN next_send[s] ELSE next_send[q]
  BY <1>2 DEF NextWithout
<1>4. /\ current_send'[d] = IF current_send[d] = s THEN next_send[s] ELSE current_send[d]
      /\ \A e \in Proc \ {d} : current_send'[e] = current_send[e]
  BY DEF HeadWithout, TypeOK
<1>5. GoodList(d)
  BY DEF ListOK
<1>6. ASSUME NEW q \in Proc, next_send[q] = s PROVE q \in BlockedOn(d)
  <2>1. "SENDING" \in flags[q]
    BY <1>2, <1>6, Distinct DEF ListOK
  <2>2. send_to[q] \in Proc /\ q \in BlockedOn(send_to[q])
    BY <2>1 DEF BlockedIsReachable, BlockedOn
  <2>3. s \in BlockedOn(send_to[q])
    BY <1>2, <1>6, <2>2, Distinct DEF ListOK, GoodList
  <2> QED BY <1>1, <2>2, <2>3
<1>7. \A q \in Proc : "SENDING" \notin flags'[q] => next_send'[q] = Null
  <2>1. ASSUME NEW q \in Proc \ {s}, "SENDING" \notin flags'[q] PROVE next_send'[q] = Null
    <3>1. "SENDING" \notin flags[q]
      BY <2>1 DEF FlagsWithout, TypeOK
    <3>2. q \notin BlockedOn(d)
      BY <3>1 DEF BlockedOn
    <3> QED BY <1>3, <1>6, <3>1, <3>2 DEF ListOK
  <2> QED BY <1>3, <2>1
<1>8. ASSUME NEW e \in Proc \ {d} PROVE GoodList(e)'
  <2>1. GoodList(e) BY DEF ListOK
  <2>2. \A q \in BlockedOn(e) : q # s /\ next_send'[q] = next_send[q]
    <3>1. ASSUME NEW q \in BlockedOn(e) PROVE next_send[q] # s /\ q \in Proc \ {s}
      BY <1>1, <1>2, <2>1, Distinct DEF GoodList, BlockedOn
    <3> QED BY <1>3, <3>1
  <2>3. ASSUME NEW S \in SUBSET Proc, current_send[e] \in S, Closed(S, next_send')
        PROVE  BlockedOn(e) \subseteq S
    <3>1. current_send[e] \in S \cap BlockedOn(e)
      BY <2>1, <2>3, Distinct DEF GoodList
    <3>2. Closed(S \cap BlockedOn(e), next_send)
      BY <2>1, <2>2, <2>3, Distinct DEF Closed, GoodList
    <3> QED BY <2>1, <3>1, <3>2 DEF GoodList
  <2>4. BlockedOn(e)' = BlockedOn(e) /\ current_send'[e] = current_send[e]
    BY <1>1, <1>4
  <2> QED BY <2>1, <2>2, <2>3, <2>4 DEF GoodList, Closed
<1>9. CASE current_send[d] = s
  <2>1. \A q \in Proc \ {s} : next_send'[q] = next_send[q]
    BY <1>3, <1>9
  <2>2. next_send[s] = Null => BlockedOn(d) = {s}
    <3>1. next_send[s] = Null => Closed({s}, next_send)
      BY Distinct DEF Closed
    <3> QED BY <1>2, <1>5, <1>9, <3>1 DEF GoodList
  <2>3. current_send'[d] = Null => BlockedOn(d)' = {}
    BY <1>1, <1>4, <1>9, <2>2
  <2>4. current_send'[d] # Null => current_send'[d] \in BlockedOn(d)'
    BY <1>1, <1>4, <1>5, <1>9 DEF GoodList
  <2>5. \A q \in BlockedOn(d)' : next_send'[q] # Null => next_send'[q] \in BlockedOn(d)'
    BY <1>1, <1>2, <1>5, <1>9, <2>1 DEF GoodList
  <2>6. \A q, r \in BlockedOn(d)' : next_send'[q] = next_send'[r] => q = r
    BY <1>1, <1>2, <1>5, <2>1 DEF GoodList
  <2>7. \A q \in BlockedOn(d)' : next_send'[q] # current_send'[d]
    BY <1>1, <1>2, <1>4, <1>5, <1>9, <2>1 DEF GoodList
  <2>8. BlockedOn(d)' # {} => \E q \in BlockedOn(d)' : next_send'[q] = Null
    BY <1>1, <1>2, <1>5, <2>1, <2>2 DEF GoodList
  <2>9. ASSUME NEW S \in SUBSET Proc, current_send'[d] \in S, Closed(S, next_send')
        PROVE  BlockedOn(d)' \subseteq S
    <3>1. Closed(S \cup {s}, next_send)
      BY <1>2, <1>4, <1>9, <2>1, <2>9 DEF Closed
    <3>2. BlockedOn(d) \subseteq S \cup {s}
      BY <1>2, <1>5, <1>9, <3>1 DEF GoodList
    <3> QED BY <1>1, <3>2
  <2>10. GoodList(d)'
    BY <2>3, <2>4, <2>5, <2>6, <2>7, <2>8, <2>9 DEF GoodList, Closed
  <2> QED BY <1>7, <1>8, <2>10 DEF ListOK
<1>10. CASE current_send[d] # s
  <2>1. current_send'[d] = current_send[d]
    BY <1>4, <1>10
  <2>2. \A q \in Proc \ {s} :
          next_send'[q] = IF next_send[q] = s THEN next_send[s] ELSE next_send[q]
    BY <1>3, <1>10
  <2>3. current_send'[d] # Null /\ current_send'[d] \in BlockedOn(d)'
    BY <1>1, <1>5, <1>10, <2>1 DEF GoodList
  <2>4. PICK q0 \in BlockedOn(d) \ {s} : next_send[q0] = s
    <3>1. SUFFICES ASSUME \A q \in BlockedOn(d) \ {s} : next_send[q] # s PROVE FALSE
      OBVIOUS
    <3>2. Closed(BlockedOn(d) \ {s}, next_send)
      BY <1>5, <3>1, Distinct DEF Closed, GoodList
    <3>3. current_send[d] \in BlockedOn(d) \ {s}
      BY <1>5, <1>10 DEF GoodList
    <3> QED BY <1>2, <1>5, <3>2, <3>3 DEF GoodList
  <2>5. next_send[s] # s
    BY <1>5, <2>4 DEF GoodList
  <2>6. \A q \in BlockedOn(d)' : next_send'[q] # Null => next_send'[q] \in BlockedOn(d)'
    BY <1>1, <1>2, <1>5, <2>2, <2>5 DEF GoodList
  <2>7. \A q, r \in BlockedOn(d)' : next_send'[q] = next_send'[r] => q = r
    BY <1>1, <1>2, <1>5, <2>2 DEF GoodList
  <2>8. \A q \in BlockedOn(d)' : next_send'[q] # current_send'[d]
    BY <1>1, <1>2, <1>5, <2>1, <2>2 DEF GoodList
  <2>9. \E q \in BlockedOn(d)' : next_send'[q] = Null
    <3>1. PICK t \in BlockedOn(d) : next_send[t] = Null
      BY <1>5 DEF GoodList
    <3>2. CASE t = s
      BY <1>1, <1>2, <2>2, <2>4, <3>1, <3>2
    <3>3. CASE t # s
      BY <1>1, <1>2, <2>2, <3>1, <3>3, Distinct
    <3> QED BY <3>2, <3>3
  <2>10. ASSUME NEW S \in SUBSET Proc, current_send'[d] \in S, Closed(S, next_send')
         PROVE  BlockedOn(d)' \subseteq S
    <3>1. CASE \E q \in S \ {s} : next_send[q] = s
      <4>1. Closed(S \cup {s}, next_send)
        BY <1>2, <2>2, <2>10, <3>1 DEF Closed
      <4>2. BlockedOn(d) \subseteq S \cup {s}
        BY <1>2, <1>5, <2>1, <2>10, <4>1 DEF GoodList
      <4> QED BY <1>1, <4>2
    <3>2. CASE \A q \in S \ {s} : next_send[q] # s
      <4>1. Closed(S \ {s}, next_send)
        BY <2>2, <2>10, <3>2 DEF Closed
      <4>2. BlockedOn(d) \subseteq S \ {s}
        BY <1>5, <1>10, <2>1, <2>10, <4>1 DEF GoodList
      <4> QED BY <1>1, <4>2
    <3> QED BY <3>1, <3>2
  <2>11. GoodList(d)'
    BY <2>3, <2>6, <2>7, <2>8, <2>9, <2>10 DEF GoodList, Closed
  <2> QED BY <1>7, <1>8, <2>11 DEF ListOK
<1> QED BY <1>9, <1>10

--------------------------------------------------------------------------------
(* No cycle of senders.                                                       *)

\* The chain dead_lock follows from d is closed and holds d.
LEMMA ChainClosed ==
  ASSUME NEW succ, NEW d \in Proc
  PROVE  /\ Chain(succ, d) \subseteq Proc
         /\ d \in Chain(succ, d)
         /\ Closed(Chain(succ, d), succ)
BY DEF Chain, Closed

\* The chain is the least closed set with d in it.
LEMMA ChainLeast ==
  ASSUME NEW succ, NEW d \in Proc, NEW S \in SUBSET Proc, d \in S, Closed(S, succ)
  PROVE  Chain(succ, d) \subseteq S
BY DEF Chain

\* A sender p that dead_lock lets through to d closes no cycle: the part of a new
\* cycle that lies on the chain from d would have been a cycle before.
LEMMA EnqueueNoCycle ==
  ASSUME TypeOK, NoSendCycle, NEW d \in Proc, NEW p \in Proc, p # d, flags[p] = {},
         ~DeadLock(p, d),
         flags' = [flags EXCEPT ![p] = @ \cup {"SENDING"}],
         send_to' = [send_to EXCEPT ![p] = d]
  PROVE  NoSendCycle'
<1> DEFINE R == Chain(SendEdge, d)
<1>1. /\ SendEdge'[p] = d
      /\ \A q \in Proc \ {p} : SendEdge'[q] = SendEdge[q]
  BY DEF SendEdge, TypeOK
<1>2. R \subseteq Proc /\ d \in R /\ Closed(R, SendEdge)
  BY ChainClosed
<1>3. \A q \in R : SendEdge[q] # p
  BY DEF DeadLock
<1>4. p \notin R
  <2>1. Closed(R \ {p}, SendEdge)
    BY <1>2, <1>3 DEF Closed
  <2> QED BY <1>2, <2>1, ChainLeast
<1> HIDE DEF R
<1>5. ASSUME NEW C \in (SUBSET Proc) \ {{}}, \A q \in C : SendEdge'[q] \in C
      PROVE  FALSE
  <2>1. CASE p \notin C
    BY <1>1, <1>5, <2>1 DEF NoSendCycle
  <2>2. CASE p \in C
    <3>1. d \in C \cap R
      BY <1>1, <1>2, <1>5, <2>2
    <3>2. \A q \in C \cap R : SendEdge[q] \in C \cap R
      BY <1>1, <1>2, <1>4, <1>5 DEF Closed
    <3>3. C \cap R \in (SUBSET Proc) \ {{}}
      BY <3>1
    <3> QED BY <3>2, <3>3 DEF NoSendCycle
  <2> QED BY <2>1, <2>2
<1> QED BY <1>5 DEF NoSendCycle

\* A sender that is served leaves no new edge.
LEMMA DequeueNoCycle ==
  ASSUME TypeOK, NoSendCycle, NEW s \in Proc,
         flags' = FlagsWithout(s, "SENDING"),
         send_to' = [send_to EXCEPT ![s] = NoTask]
  PROVE  NoSendCycle'
<1>1. /\ SendEdge'[s] = Null
      /\ \A q \in Proc \ {s} : SendEdge'[q] = SendEdge[q]
  BY DEF SendEdge, FlagsWithout, TypeOK
<1>2. ASSUME NEW C \in (SUBSET Proc) \ {{}}, \A q \in C : SendEdge'[q] \in C
      PROVE  FALSE
  <2>1. s \notin C
    BY <1>1, <1>2, Distinct
  <2> QED BY <1>1, <1>2, <2>1 DEF NoSendCycle
<1> QED BY <1>2 DEF NoSendCycle

--------------------------------------------------------------------------------
(* The steps of the kernel.                                                   *)

\* What holds of the processes and the lists, whatever the call in progress.
TableOK == BlockedIsReachable /\ NoMissedRendezvous /\ ListOK /\ NoSendCycle

\* A step that leaves the process table alone keeps what holds of it.
LEMMA TableFrame ==
  ASSUME IInv, UNCHANGED <<flags, msg, recv_from, send_to, current_send, next_send>>,
         pc # "send_wake"
  PROVE  TableOK'
<1>1. ListOK' /\ SendEdge' = SendEdge /\ \A d \in Proc : BlockedOn(d)' = BlockedOn(d)
  BY ListFrame DEF IInv, listVars
<1>2. NoSendCycle'
  BY <1>1 DEF IInv, NoSendCycle
<1>3. NoMissedRendezvous'
  BY <1>1 DEF IInv, NoMissedRendezvous
<1>4. BlockedIsReachable'
  BY DEF IInv, BlockedIsReachable
<1> QED BY <1>1, <1>2, <1>3, <1>4 DEF TableOK

\* A halted machine satisfies CallOK.
LEMMA HaltedOK ==
  ASSUME pc' = "halted"
  PROVE  CallOK'
BY DEF CallOK, SendPoint

LEMMA SendCallsStep ==
  ASSUME IInv, NEW d \in Proc, NEW m \in Payload,
         SendDeadLock(d, m) \/ SendMeet(d, m) \/ SendQueue(d, m)
  PROVE  CallOK' /\ TableOK' /\ FaultOK'
<1> USE DEF IInv
<1>1. flags[process_ready] = {} /\ process_ready \in Proc
  BY DEF SendDeadLock, SendMeet, SendQueue, SendCall, CallOK, TypeOK
<1>2. CASE SendDeadLock(d, m)
  <2>1. TableOK'
    BY <1>2, TableFrame DEF SendDeadLock, SendCall, procVars, listVars
  <2>2. CallOK' /\ FaultOK'
    BY <1>2, HaltedOK DEF SendDeadLock, Halt, FaultOK
  <2> QED BY <2>1, <2>2
<1>3. CASE SendMeet(d, m)
  <2>1. TableOK'
    BY <1>3, TableFrame DEF SendMeet, SendCall, procVars, listVars
  <2>2. FaultOK'
    BY <1>3 DEF SendMeet, FaultOK
  <2>3. flags[d] = {"RECVING"}
    BY <1>3 DEF SendMeet, Accepts, BlockedIsReachable, TypeOK, Flag
  <2>4. msg[d]
    BY <1>3 DEF SendMeet, SendCall, Accepts, BlockedIsReachable
  <2>5. CallOK'
    BY <1>1, <1>3, <2>3, <2>4
       DEF SendMeet, CallOK, SendPoint, Accepts, procVars
  <2> QED BY <2>1, <2>2, <2>5
<1>4. CASE SendQueue(d, m)
  <2> DEFINE p == process_ready
  <2>1. /\ d # p /\ ~DeadLock(p, d) /\ ~Accepts(d, p)
        /\ flags' = [flags EXCEPT ![p] = @ \cup {"SENDING"}]
        /\ send_to' = [send_to EXCEPT ![p] = d]
        /\ msg' = [msg EXCEPT ![p] = TRUE]
        /\ current_send' = HeadWith(d, p)
        /\ next_send' = NextWith(d, p)
        /\ pc = "user" /\ pc' = "block" /\ process_ready' = p
        /\ UNCHANGED <<recv_from, fault>>
    BY <1>4 DEF SendQueue, SendCall, Goto
  <2>2. p \in Proc /\ flags[p] = {}
    BY <1>1
  <2> HIDE DEF p
  <2>3. ListOK'
    BY <2>1, <2>2, EnqueueList
  <2>4. NoSendCycle'
    BY <2>1, <2>2, EnqueueNoCycle
  <2>5. flags'[p] = {"SENDING"} /\ \A q \in Proc \ {p} : flags'[q] = flags[q]
    BY <2>1, <2>2 DEF TypeOK
  <2>6. BlockedIsReachable'
    BY <2>1, <2>2, <2>5 DEF BlockedIsReachable, TypeOK, Flag
  <2>7. NoMissedRendezvous'
    <3>1. /\ BlockedOn(d)' = BlockedOn(d) \cup {p}
          /\ \A e \in Proc \ {d} : BlockedOn(e)' = BlockedOn(e)
      BY <2>1, <2>2, EnqueueBlocked
    <3> QED BY <2>1, <2>2, <2>5, <3>1 DEF NoMissedRendezvous, Accepts
  <2>8. CallOK'
    BY <2>1, <2>2, <2>5 DEF CallOK, SendPoint
  <2>9. FaultOK'
    BY <2>1 DEF FaultOK
  <2> QED BY <2>3, <2>4, <2>6, <2>7, <2>8, <2>9 DEF TableOK
<1> QED BY <1>2, <1>3, <1>4

\* CallSelf halts; the copy of a message touches nothing but buffers.
LEMMA CopyStep ==
  ASSUME IInv, CallSelf \/ SendAssert \/ SendLatch \/ SendSource \/ SendBody
  PROVE  CallOK' /\ TableOK' /\ FaultOK'
<1> USE DEF IInv
<1>1. TableOK'
  BY TableFrame
     DEF CallSelf, SendCall, SendAssert, SendLatch, SendSource, SendBody, procVars, listVars
<1>2. FaultOK'
  BY DEF CallSelf, SendAssert, SendLatch, SendSource, SendBody, Goto, Halt, FaultOK
<1>3. CASE CallSelf
  BY <1>3, <1>1, <1>2, HaltedOK DEF CallSelf, Halt
<1>4. CASE SendAssert
  <2>1. CASE msg[peer]
    BY <1>1, <1>2, <1>4, <2>1
       DEF SendAssert, Goto, CallOK, SendPoint, Accepts, procVars
  <2>2. CASE ~msg[peer]
    BY <1>1, <1>2, <1>4, <2>2, HaltedOK DEF SendAssert, Halt
  <2> QED BY <2>1, <2>2
<1>5. CASE SendLatch
  BY <1>1, <1>2, <1>5 DEF SendLatch, CallOK, SendPoint, Accepts, procVars
<1>6. CASE SendSource
  <2>1. peer \in Proc \ {process_ready} /\ process_ready \in Proc
    BY <1>6 DEF SendSource, CallOK, SendPoint, TypeOK
  <2>2. peer # HddTask => buffer'[peer].source = buffer'[process_ready].source
    BY <1>6, <2>1 DEF SendSource, CallOK, SendPoint, TypeOK, Message
  <2> QED BY <1>1, <1>2, <1>6, <2>1, <2>2
          DEF SendSource, Goto, CallOK, SendPoint, Accepts, procVars
<1>7. CASE SendBody
  <2>1. peer \in Proc \ {process_ready} /\ process_ready \in Proc
    BY <1>7 DEF SendBody, CallOK, SendPoint, TypeOK
  <2>2. peer # HddTask => buffer'[peer] = buffer'[process_ready]
    <3>1. SUFFICES ASSUME peer # HddTask
                   PROVE  buffer'[peer] = buffer'[process_ready]
      OBVIOUS
    <3>2. latched /\ buffer[peer].source = buffer[process_ready].source
      BY <1>7, <3>1 DEF SendBody, CallOK, SendPoint
    <3>3. /\ buffer'[process_ready] = buffer[process_ready]
          /\ buffer'[peer] = [buffer[peer] EXCEPT !.body = buffer[process_ready].body]
      BY <1>7, <2>1, <3>2 DEF SendBody, TypeOK
    <3>4. buffer[peer] \in Message /\ buffer[process_ready] \in Message
      BY <2>1 DEF TypeOK
    <3> QED BY <3>2, <3>3, <3>4 DEF Message
  <2> QED BY <1>1, <1>2, <1>7, <2>1, <2>2
          DEF SendBody, Goto, CallOK, SendPoint, Accepts, procVars
<1> QED BY <1>3, <1>4, <1>5, <1>6, <1>7

LEMMA SendNullStep ==
  ASSUME IInv, SendNull
  PROVE  CallOK' /\ TableOK' /\ FaultOK'
<1> USE DEF IInv
<1>1. /\ peer \in Proc \ {process_ready} /\ flags[peer] \in {{}, {"RECVING"}}
      /\ msg' = [msg EXCEPT ![peer] = FALSE]
      /\ UNCHANGED <<flags, recv_from, send_to, have_int_msg, listVars, buffer,
                     process_ready, peer, fault>>
      /\ pc = "send_null" /\ pc' = "send_wake"
  BY DEF SendNull, Goto, CallOK, SendPoint
<1>2. ListOK' /\ SendEdge' = SendEdge /\ \A d \in Proc : BlockedOn(d)' = BlockedOn(d)
  BY <1>1, ListFrame
<1>3. NoSendCycle' /\ NoMissedRendezvous'
  BY <1>1, <1>2 DEF NoSendCycle, NoMissedRendezvous
<1>4. BlockedIsReachable'
  BY <1>1 DEF BlockedIsReachable, TypeOK
<1>5. CallOK'
  BY <1>1 DEF CallOK, SendPoint, Accepts
<1> QED BY <1>1, <1>2, <1>3, <1>4, <1>5 DEF TableOK, FaultOK

LEMMA SendWakeStep ==
  ASSUME IInv, SendWake
  PROVE  CallOK' /\ TableOK' /\ FaultOK'
<1> USE DEF IInv
<1>1. /\ peer \in Proc \ {process_ready} /\ flags[peer] \in {{}, {"RECVING"}}
      /\ flags[process_ready] = {} /\ process_ready \in Proc
  BY DEF SendWake, CallOK, SendPoint, TypeOK
<1>2. flags' = [flags EXCEPT ![peer] = {}]
  BY <1>1 DEF SendWake, FlagsWithout, TypeOK
<1>3. /\ pc = "send_wake" /\ pc' = "user"
      /\ recv_from' = [recv_from EXCEPT ![peer] = NoTask]
      /\ UNCHANGED <<msg, send_to, listVars, process_ready, fault>>
  BY <1>1, <1>2 DEF SendWake, Unblock, Dispatch, TypeOK
<1>4. ListOK' /\ SendEdge' = SendEdge /\ \A d \in Proc : BlockedOn(d)' = BlockedOn(d)
  BY <1>1, <1>2, <1>3, ListFrame DEF TypeOK
<1>5. NoSendCycle'
  BY <1>4 DEF NoSendCycle
<1>6. NoMissedRendezvous'
  BY <1>1, <1>2, <1>3, <1>4 DEF NoMissedRendezvous, TypeOK
<1>7. BlockedIsReachable'
  BY <1>1, <1>2, <1>3 DEF BlockedIsReachable, TypeOK, Flag
<1>8. CallOK'
  BY <1>1, <1>2, <1>3 DEF CallOK, SendPoint, TypeOK
<1> QED BY <1>3, <1>4, <1>5, <1>6, <1>7, <1>8 DEF TableOK, FaultOK

LEMMA ReceiveCallsStep ==
  ASSUME IInv,
         NEW src \in Proc \cup {AnySource, Interrupt},
         ReceiveInterrupt(src) \/ \E m \in Body : ReceiveProceed(src, m)
  PROVE  CallOK' /\ TableOK' /\ FaultOK'
<1> USE DEF IInv
<1>1. CASE ReceiveInterrupt(src)
  <2>1. pc = "user"
    BY <1>1 DEF ReceiveInterrupt, ReceiveCall
  <2> QED BY <1>1, <2>1, TableFrame
          DEF ReceiveInterrupt, CallOK, SendPoint, FaultOK, listVars, callVars
<1>2. ASSUME NEW m \in Body, ReceiveProceed(src, m)
      PROVE  CallOK' /\ TableOK' /\ FaultOK'
  <2>1. pc = "user" /\ src \in ReceiveSources(process_ready)
    BY <1>2 DEF ReceiveProceed, ReceiveCall
  <2>2. TableOK'
    BY <1>2, <2>1, TableFrame DEF ReceiveProceed, procVars, listVars
  <2>3. CallOK'
    BY <1>2, <2>1 DEF ReceiveProceed, CallOK, SendPoint, ReceiveSources, procVars
  <2> QED BY <1>2, <2>2, <2>3 DEF ReceiveProceed, FaultOK
<1> QED BY <1>1, <1>2

\* The sender that is served is blocked on the receiver, which has a list.
LEMMA SenderIsBlocked ==
  ASSUME IInv, pc = "recv", Sender(process_ready, peer) # Null
  PROVE  /\ Sender(process_ready, peer) \in BlockedOn(process_ready)
         /\ current_send[process_ready] # Null
<1>1. process_ready \in Proc /\ peer \in ReceiveSources(process_ready)
  BY DEF IInv, TypeOK, CallOK
<1>2. GoodList(process_ready)
  BY <1>1 DEF IInv, ListOK
<1>3. Sender(process_ready, peer) \in BlockedOn(process_ready)
  BY <1>1, <1>2 DEF Sender, GoodList, BlockedOn
<1> QED BY <1>2, <1>3 DEF GoodList

LEMMA CollectStep ==
  ASSUME IInv, RecvCollect
  PROVE  CallOK' /\ TableOK' /\ FaultOK'
<1> USE DEF IInv
<1> DEFINE p == process_ready
           s == Sender(process_ready, peer)
<1>1. pc = "recv" /\ s # Null
  BY DEF RecvCollect
<1>2. s \in BlockedOn(p) /\ current_send[p] # Null
  BY <1>1, SenderIsBlocked
<1>3. Collect(p, s)
  BY <1>2 DEF RecvCollect
<1>4. p \in Proc /\ s \in Proc /\ flags[p] = {} /\ flags[s] = {"SENDING"}
  BY <1>1, <1>2 DEF BlockedOn, BlockedIsReachable, CallOK, TypeOK, Flag
<1>5. flags' = [flags EXCEPT ![s] = {}] /\ flags' = FlagsWithout(s, "SENDING")
  BY <1>3, <1>4 DEF Collect, FlagsWithout
<1>6. /\ current_send' = HeadWithout(p, s)
      /\ next_send' = NextWithout(p, s)
      /\ msg' = [msg EXCEPT ![s] = FALSE]
      /\ send_to' = [send_to EXCEPT ![s] = NoTask]
      /\ pc' = "user" /\ process_ready' = p
      /\ UNCHANGED <<recv_from, fault>>
  BY <1>3, <1>4, <1>5 DEF Collect, Unblock, Dispatch, TypeOK
<1> HIDE DEF p, s
<1>7. ListOK'
  BY <1>2, <1>4, <1>5, <1>6, DequeueList
<1>8. NoSendCycle'
  BY <1>4, <1>5, <1>6, DequeueNoCycle
<1>9. \A d \in Proc : BlockedOn(d)' \subseteq BlockedOn(d)
  BY <1>4, <1>5, <1>6, Distinct DEF BlockedOn, TypeOK
<1>10. NoMissedRendezvous'
  BY <1>4, <1>5, <1>6, <1>9 DEF NoMissedRendezvous, TypeOK
<1>11. BlockedIsReachable'
  BY <1>1, <1>4, <1>5, <1>6 DEF BlockedIsReachable, TypeOK, Flag
<1>12. CallOK'
  BY <1>4, <1>5, <1>6 DEF CallOK, SendPoint, TypeOK
<1> QED BY <1>6, <1>7, <1>8, <1>10, <1>11, <1>12 DEF TableOK, FaultOK

LEMMA WaitStep ==
  ASSUME IInv, RecvWait
  PROVE  CallOK' /\ TableOK' /\ FaultOK'
<1> USE DEF IInv
<1> DEFINE p == process_ready
<1>1. /\ pc = "recv" /\ pc' = "block"
      /\ Sender(p, peer) = Null
      /\ p \in Proc /\ flags[p] = {} /\ peer \in ReceiveSources(p)
      /\ msg' = [msg EXCEPT ![p] = TRUE]
      /\ recv_from' = [recv_from EXCEPT ![p] = peer]
      /\ UNCHANGED <<send_to, listVars, process_ready, fault>>
  BY DEF RecvWait, Goto, CallOK, TypeOK
<1>2. flags' = [flags EXCEPT ![p] = {"RECVING"}]
  BY <1>1 DEF RecvWait
<1> HIDE DEF p
<1>3. flags'[p] = {"RECVING"} /\ \A q \in Proc \ {p} : flags'[q] = flags[q]
  BY <1>1, <1>2 DEF TypeOK
<1>4. ListOK' /\ SendEdge' = SendEdge /\ \A d \in Proc : BlockedOn(d)' = BlockedOn(d)
  BY <1>1, <1>3, ListFrame
<1>5. NoSendCycle'
  BY <1>4 DEF NoSendCycle
<1>6. \A s \in BlockedOn(p) : peer \notin {s, AnySource}
  <2>1. peer = AnySource => BlockedOn(p) = {}
    BY <1>1 DEF Sender, ListOK, GoodList
  <2>2. peer \notin BlockedOn(p)
    BY <1>1, Distinct DEF Sender, BlockedOn
  <2> QED BY <2>1, <2>2
<1>7. NoMissedRendezvous'
  BY <1>1, <1>3, <1>4, <1>6 DEF NoMissedRendezvous, TypeOK
<1>8. BlockedIsReachable'
  <2>1. peer \in (Proc \ {p}) \cup {AnySource, Interrupt}
    BY <1>1 DEF ReceiveSources
  <2> QED BY <1>1, <1>3, <2>1 DEF BlockedIsReachable, TypeOK, Flag
<1>9. CallOK'
  BY <1>1, <1>3 DEF CallOK, SendPoint, p
<1> QED BY <1>1, <1>4, <1>5, <1>7, <1>8, <1>9 DEF TableOK, FaultOK

LEMMA BlockStep ==
  ASSUME IInv, Block \/ \E q \in Proc : Schedule(q) \/ ClockSwitch(q)
  PROVE  CallOK' /\ TableOK' /\ FaultOK'
<1> USE DEF IInv
<1>1. TableOK'
  BY TableFrame DEF Block, Schedule, ClockSwitch, procVars, listVars
<1>2. FaultOK'
  BY DEF Block, Schedule, ClockSwitch, Goto, Halt, Dispatch, FaultOK
<1>3. CallOK'
  BY DEF Block, Schedule, ClockSwitch, Goto, Halt, Dispatch, CallOK, SendPoint, procVars
<1> QED BY <1>1, <1>2, <1>3

LEMMA DiskStep ==
  ASSUME IInv, DiskInterrupt
  PROVE  CallOK' /\ TableOK' /\ FaultOK'
<1> USE DEF IInv
<1>1. HddTask \in Proc
  BY HddTaskAssumption
<1>2. CASE /\ "RECVING" \in flags[HddTask]
           /\ recv_from[HddTask] \in {Interrupt, AnySource}
  <2>1. flags[HddTask] = {"RECVING"}
    BY <1>1, <1>2 DEF BlockedIsReachable, TypeOK, Flag
  <2>2. flags' = [flags EXCEPT ![HddTask] = {}]
    BY <1>2, <2>1 DEF DiskInterrupt, FlagsWithout
  <2>3. /\ buffer' = IF msg[HddTask]
                     THEN [buffer EXCEPT ![HddTask] = [source |-> Interrupt, body |-> HwInt]]
                     ELSE buffer
        /\ msg' = [msg EXCEPT ![HddTask] = FALSE]
        /\ recv_from' = [recv_from EXCEPT ![HddTask] = NoTask]
        /\ UNCHANGED <<send_to, listVars, process_ready, pc, peer, latched, fault>>
    BY <1>1, <1>2, <2>2 DEF DiskInterrupt, Unblock, callVars, TypeOK
  <2>4. ListOK' /\ SendEdge' = SendEdge /\ \A d \in Proc : BlockedOn(d)' = BlockedOn(d)
    BY <1>1, <2>1, <2>2, <2>3, ListFrame DEF TypeOK
  <2>5. NoSendCycle'
    BY <2>4 DEF NoSendCycle
  <2>6. NoMissedRendezvous'
    BY <1>1, <2>2, <2>3, <2>4 DEF NoMissedRendezvous, TypeOK
  <2>7. BlockedIsReachable'
    BY <1>1, <2>2, <2>3 DEF BlockedIsReachable, TypeOK, Flag
  <2>8. pc \in {"user", "recv"} \cup SendPoint => process_ready # HddTask
    BY <2>1 DEF CallOK
  <2>9. CallOK'
    BY <1>1, <2>1, <2>2, <2>3, <2>8 DEF CallOK, SendPoint, Accepts, ReceiveSources, TypeOK
  <2> QED BY <2>3, <2>4, <2>5, <2>6, <2>7, <2>9 DEF TableOK, FaultOK
<1>3. CASE ~ /\ "RECVING" \in flags[HddTask]
             /\ recv_from[HddTask] \in {Interrupt, AnySource}
  <2>1. UNCHANGED <<flags, msg, recv_from, send_to, listVars, buffer, callVars>>
    BY <1>3 DEF DiskInterrupt
  <2>2. ListOK' /\ SendEdge' = SendEdge /\ \A d \in Proc : BlockedOn(d)' = BlockedOn(d)
    BY <2>1, ListFrame
  <2>3. NoSendCycle' /\ NoMissedRendezvous' /\ BlockedIsReachable'
    BY <2>1, <2>2 DEF NoSendCycle, NoMissedRendezvous, BlockedIsReachable, callVars
  <2>4. CallOK' /\ FaultOK'
    BY <2>1 DEF CallOK, Accepts, ReceiveSources, FaultOK, callVars
  <2> QED BY <2>2, <2>3, <2>4 DEF TableOK
<1> QED BY <1>2, <1>3

--------------------------------------------------------------------------------
(* The theorems.                                                              *)

LEMMA InitIInv ==
  ASSUME Init
  PROVE  IInv
<1> USE DEF Init
<1>1. TypeOK
  BY Distinct, MessageFacts DEF TypeOK, KernelPoint, Fault
<1>2. CallOK
  BY Distinct DEF CallOK, SendPoint
<1>3. BlockedIsReachable /\ FaultOK
  BY DEF BlockedIsReachable, FaultOK, Flag
<1>4. \A d \in Proc : BlockedOn(d) = {}
  BY DEF BlockedOn
<1>5. NoMissedRendezvous
  BY <1>4 DEF NoMissedRendezvous
<1>6. ListOK
  BY <1>4 DEF ListOK, GoodList
<1>7. NoSendCycle
  <2>1. \A q \in Proc : SendEdge[q] = Null
    BY DEF SendEdge
  <2> QED BY <2>1, Distinct DEF NoSendCycle
<1> QED BY <1>1, <1>2, <1>3, <1>5, <1>6, <1>7 DEF IInv

LEMMA StepIInv ==
  ASSUME IInv, [Next]_vars
  PROVE  IInv'
<1>1. TypeOK'
  BY TypeStep DEF IInv
<1>2. CallOK' /\ TableOK' /\ FaultOK'
  <2>1. CASE Send
    BY <2>1, SendCallsStep, CopyStep, SendNullStep, SendWakeStep DEF Send
  <2>2. CASE Receive
    BY <2>2, ReceiveCallsStep, CollectStep, WaitStep DEF Receive
  <2>3. CASE Block \/ \E q \in Proc : Schedule(q) \/ ClockSwitch(q)
    BY <2>3, BlockStep
  <2>4. CASE DiskInterrupt
    BY <2>4, DiskStep
  <2>5. CASE UNCHANGED vars
    <3>1. ListOK' /\ SendEdge' = SendEdge /\ \A d \in Proc : BlockedOn(d)' = BlockedOn(d)
      BY <2>5, ListFrame DEF IInv, vars, procVars
    <3>2. NoSendCycle' /\ NoMissedRendezvous' /\ BlockedIsReachable'
      BY <2>5, <3>1 DEF IInv, NoSendCycle, NoMissedRendezvous, BlockedIsReachable,
                        vars, procVars, callVars
    <3>3. CallOK' /\ FaultOK'
      BY <2>5 DEF IInv, CallOK, Accepts, ReceiveSources, FaultOK, vars, procVars, callVars
    <3> QED BY <3>1, <3>2, <3>3 DEF TableOK
  <2> QED BY <2>1, <2>2, <2>3, <2>4, <2>5 DEF Next
<1> QED BY <1>1, <1>2 DEF IInv, TableOK

\* The inductive invariant holds in every reachable state, for any number of
\* processes and any payloads: what sys_send_recv, msg_send, msg_recv and
\* deliver_int_to_proc rely on between their steps.
THEOREM Inductive == Spec => []IInv
  BY InitIInv, StepIInv, PTL DEF Spec

\* Every variable of the message passing keeps its type.
THEOREM TypeCorrect == Spec => []TypeOK
<1>1. IInv => TypeOK BY DEF IInv
<1> QED BY <1>1, Inductive, PTL

\* dead_lock lets no cycle of blocked senders form, whatever its length: msg_send
\* never blocks a process that would close one.
THEOREM NoSendCycleEver == Spec => []NoSendCycle
<1>1. IInv => NoSendCycle BY DEF IInv
<1> QED BY <1>1, Inductive, PTL

\* The linked list of a receiver is always exactly its blocked senders: neither
\* the enqueue of msg_send nor the unlink of msg_recv loses or duplicates one.
THEOREM ListsAreBlockedSenders == Spec => []ListIsBlockedSenders
<1>1. IInv => ListIsBlockedSenders
  BY ChainIsBlocked DEF IInv, ListIsBlockedSenders, ListOK, GoodList
<1> QED BY <1>1, Inductive, PTL

\* No process is ever blocked in a state from which its partner could not
\* complete it: the flags, buffer and filter msg_send and msg_recv test are set.
THEOREM BlockedStaysReachable == Spec => []BlockedIsReachable
<1>1. IInv => BlockedIsReachable BY DEF IInv
<1> QED BY <1>1, Inductive, PTL

\* A blocked sender and a receiver that accepts it never coexist: msg_send and
\* msg_recv always find each other.
THEOREM NoRendezvousMissed == Spec => []NoMissedRendezvous
<1>1. IInv => NoMissedRendezvous BY DEF IInv
<1> QED BY <1>1, Inductive, PTL

\* Without a disk interrupt at the driver's expense no assertion of message.c
\* fails, for any number of processes.
THEOREM AssertsHoldButForInterrupt == Spec => []OnlyInterruptBreaksAsserts
<1>1. IInv => OnlyInterruptBreaksAsserts
  BY DEF IInv, CallOK, SendPoint, FaultOK, OnlyInterruptBreaksAsserts
<1> QED BY <1>1, Inductive, PTL

\* A message handed over by msg_send to any process but the driver is complete
\* and unmixed when the receiver becomes runnable.
THEOREM MessagesAreIntact == Spec => HandedOverIntact
<1>1. ASSUME IInv, IInv', [Next]_vars, NEW d \in Proc \ {HddTask},
             flags[d] = {"RECVING"}, flags'[d] = {}
      PROVE  buffer[d] = buffer[process_ready] /\ recv_from[d] \in {process_ready, AnySource}
  <2>1. TypeOK /\ CallOK
    BY <1>1 DEF IInv
  <2>2. flags' # flags
    BY <1>1
  <2>3. CASE SendWake
    <3>1. d = peer
      BY <1>1, <2>1, <2>3 DEF SendWake, FlagsWithout, TypeOK
    <3>2. pc \in SendPoint /\ pc = "send_wake" /\ peer # HddTask
      BY <2>3, <3>1 DEF SendWake, SendPoint
    <3> QED BY <2>1, <3>1, <3>2 DEF CallOK, Accepts
  <2>4. CASE RecvCollect
    <3>1. /\ Sender(process_ready, peer) \in BlockedOn(process_ready)
          /\ flags' = FlagsWithout(Sender(process_ready, peer), "SENDING")
      BY <1>1, <2>4, SenderIsBlocked DEF RecvCollect, Collect
    <3> QED BY <1>1, <2>1, <3>1 DEF FlagsWithout, BlockedOn, TypeOK
  <2>5. CASE DiskInterrupt
    BY <1>1, <2>1, <2>5 DEF DiskInterrupt, FlagsWithout, TypeOK
  <2>6. CASE RecvWait
    BY <1>1, <2>1, <2>6 DEF RecvWait, TypeOK
  <2>7. ASSUME NEW e \in Proc, NEW m \in Payload, SendQueue(e, m) PROVE FALSE
    BY <1>1, <2>1, <2>7 DEF SendQueue, TypeOK
  <2> QED BY <1>1, <2>2, <2>3, <2>4, <2>5, <2>6, <2>7
          DEF Next, Send, Receive, vars, procVars, SendDeadLock, SendMeet, CallSelf,
              SendAssert, SendLatch, SendSource, SendBody, SendNull, ReceiveInterrupt,
              ReceiveProceed, Block, Schedule, ClockSwitch
<1> DEFINE Intact ==
      \A d \in Proc \ {HddTask} :
        flags[d] = {"RECVING"} /\ flags'[d] = {} =>
          /\ buffer[d] = buffer[process_ready]
          /\ recv_from[d] \in {process_ready, AnySource}
<1>2. IInv /\ IInv' /\ [Next]_vars => [Intact]_vars
  BY <1>1
<1>3. HandedOverIntact <=> [][Intact]_vars
  BY DEF HandedOverIntact
<1> HIDE DEF Intact
<1>4. Spec => [][Intact]_vars
  BY <1>2, Inductive, PTL DEF Spec
<1> QED BY <1>3, <1>4

================================================================================
