----------------------------- MODULE KeyboardProofs -----------------------------
(******************************************************************************)
(* The keyboard's proofs, for every length of the ring and any of the keys.   *)
(*                                                                            *)
(* The ring kb_in keeps its shape: between cli and sti the task works on a    *)
(* count nobody changes.  Then what the user typed is what read_keyboard      *)
(* passes on: the bytes it has taken, those in the ring, in the port and not  *)
(* yet sent are, in this order, a run of whole codes, and decoding them from  *)
(* what read_keyboard knows ends in what the user sees (KeyInv).              *)
(******************************************************************************)
EXTENDS Keyboard, SequenceTheorems, TLAPS

\* The ring's part of TypeOK.
RingTypeOK ==
  /\ head \in 0 .. BufLength - 1 /\ tail \in 0 .. BufLength - 1
  /\ count \in 0 .. BufLength

\* get_byte_from_kb_buf has the ring to itself, and something is in it.
Exclusive ==
  /\ interrupts = (pc \notin {"take", "count"})
  /\ pc \in {"take", "count"} => count # 0
  /\ pc = "count" => loaded = count

IInv == RingTypeOK /\ Exclusive /\ RingConsistent

\* An index stays within the ring, and goes round by one.
LEMMA WrapInRange ==
  ASSUME NEW i \in 0 .. BufLength - 1
  PROVE  Wrap(i) \in 0 .. BufLength - 1 /\ Wrap(i) \in {i + 1, i + 1 - BufLength}
BY BufAssumption DEF Wrap

\* The ring starts empty, with interrupts on.
LEMMA InitInv == Init => IInv
BY BufAssumption DEF Init, IInv, RingTypeOK, Exclusive, RingConsistent

\* A step that leaves the ring alone, outside of cli and sti.
LEMMA Elsewhere ==
  ASSUME IInv, UNCHANGED <<ring, loaded, interrupts>>,
         pc' = pc \/ (pc \notin {"take", "count"} /\ pc' \notin {"take", "count"})
  PROVE  IInv'
BY DEF IInv, RingTypeOK, Exclusive, RingConsistent, ring

\* The handler adds a byte only when there is room, and never under cli.
LEMMA HandlerInv == IInv /\ Handler => IInv'
<1> SUFFICES ASSUME IInv, Handler PROVE IInv'
  OBVIOUS
<1>1. pc \notin {"take", "count"} /\ UNCHANGED <<pc, tail, loaded, interrupts>>
  BY DEF IInv, Exclusive, Handler, decoder
<1>2. CASE ~HasRoom /\ UNCHANGED <<buf, head, count>>
  BY <1>1, <1>2, Elsewhere DEF ring
<1>3. CASE HasRoom /\ head' = Wrap(head) /\ count' = count + 1
  <2>1. head' \in 0 .. BufLength - 1 /\ head' \in {head + 1, head + 1 - BufLength}
    BY <1>3, WrapInRange DEF IInv, RingTypeOK
  <2>2. RingTypeOK'
    BY <1>1, <1>3, <2>1, BufAssumption DEF IInv, RingTypeOK, HasRoom
  <2>3. Exclusive'
    BY <1>1 DEF IInv, Exclusive
  <2>4. RingConsistent'
    BY <1>1, <1>3, <2>1, <2>2, BufAssumption DEF IInv, RingTypeOK, RingConsistent, HasRoom
  <2> QED
    BY <2>2, <2>3, <2>4 DEF IInv
<1> QED
  BY <1>2, <1>3 DEF Handler

\* The three steps of get_byte_from_kb_buf.
LEMMA GetByteInv == IInv /\ (Cli \/ Take \/ Taken) => IInv'
<1> SUFFICES ASSUME IInv, Cli \/ Take \/ Taken PROVE IInv'
  OBVIOUS
<1>1. CASE Cli
  BY <1>1 DEF Cli, IInv, RingTypeOK, Exclusive, RingConsistent, ring
<1>2. CASE Take
  <2>1. pc = "take" /\ pc' = "count" /\ UNCHANGED <<head, count, interrupts>> /\ loaded' = count
    BY <1>2 DEF Take
  <2>2. tail' \in 0 .. BufLength - 1 /\ tail' \in {tail + 1, tail + 1 - BufLength}
    BY <1>2, WrapInRange DEF Take, IInv, RingTypeOK
  <2>3. RingTypeOK' /\ Exclusive'
    BY <2>1, <2>2 DEF IInv, RingTypeOK, Exclusive
  <2>4. RingConsistent'
    <3>1. head \in {tail + count, tail + count - BufLength}
      BY <2>1 DEF IInv, RingTypeOK, RingConsistent
    <3>2. count \in 1 .. BufLength /\ head \in 0 .. BufLength - 1 /\ tail \in 0 .. BufLength - 1
      BY <2>1, BufAssumption DEF IInv, RingTypeOK, Exclusive
    <3>3. head \in {tail' + count - 1, tail' + count - 1 - BufLength}
      <4>1. CASE tail' = tail + 1
        BY <4>1, <3>1, <3>2, BufAssumption
      <4>2. CASE tail' = tail + 1 - BufLength
        BY <4>2, <2>2, <3>1, <3>2, BufAssumption
      <4> QED
        BY <4>1, <4>2, <2>2
    <3> QED
      BY <2>1, <2>3, <3>3, BufAssumption DEF RingTypeOK, RingConsistent
  <2> QED
    BY <2>3, <2>4 DEF IInv
<1>3. CASE Taken
  <2>1. pc = "count" /\ pc' \notin {"take", "count"}
    BY <1>3 DEF Taken
  <2>2. count' = loaded - 1 /\ interrupts' = TRUE /\ UNCHANGED <<head, tail>>
    BY <1>3 DEF Taken, Sti
  <2>3. count' = count - 1 /\ count # 0
    BY <2>1, <2>2 DEF IInv, Exclusive
  <2>4. RingTypeOK' /\ RingConsistent'
    BY <2>1, <2>2, <2>3, BufAssumption DEF IInv, RingTypeOK, RingConsistent
  <2>5. Exclusive'
    BY <2>1, <2>2 DEF Exclusive
  <2> QED
    BY <2>4, <2>5 DEF IInv
<1> QED
  BY <1>1, <1>2, <1>3

\* Everything else leaves the ring alone.
LEMMA OtherInv ==
  IInv /\ (User \/ Arrive \/ Start \/ Decode \/ Store \/ LedOut \/ KbAck) => IInv'
<1> SUFFICES ASSUME IInv, User \/ Arrive \/ Start \/ Decode \/ Store \/ LedOut \/ KbAck
             PROVE  IInv'
  OBVIOUS
<1>1. CASE User \/ Arrive
  <2>1. UNCHANGED <<ring, loaded, interrupts, pc>>
    BY <1>1 DEF User, Press, Release, Arrive, decoder
  <2> QED
    BY <2>1, Elsewhere
<1>2. CASE Start \/ Decode \/ Store \/ LedOut \/ KbAck
  <2>1. UNCHANGED <<ring, loaded, interrupts>>
    BY <1>2 DEF Start, Decode, Store, LedOut, KbAck
  <2>2. pc \notin {"take", "count"} /\ pc' \notin {"take", "count"}
    BY <1>2 DEF Start, Decode, Store, LedOut, KbAck
  <2> QED
    BY <2>1, <2>2, Elsewhere
<1> QED
  BY <1>1, <1>2

\* The ring and cli/sti, in every reachable state.
THEOREM Inductive == Spec => []IInv
<1>1. IInv /\ [Next]_vars => IInv'
  <2> SUFFICES ASSUME IInv, [Next]_vars PROVE IInv'
    OBVIOUS
  <2>1. CASE Next
    BY <2>1, HandlerInv, GetByteInv, OtherInv DEF Next, Task
  <2>2. CASE UNCHANGED vars
    BY <2>2, Elsewhere DEF vars, decoder
  <2> QED
    BY <2>1, <2>2
<1> QED
  BY InitInv, <1>1, PTL DEF Spec

\* keyboard_int_handler and get_byte_from_kb_buf agree on the ring: head, tail and
\* count are consistent at every step of either, for every KB_IN_BUF_LENGTH.
THEOREM RingStaysConsistent == Spec => []RingConsistent
<1>1. IInv => RingConsistent
  BY DEF IInv
<1> QED
  BY Inductive, <1>1, PTL

--------------------------------------------------------------------------------
(* Scan codes: what a key sends, and where read_keyboard sees its end.        *)

KeySet == Modifiers \cup Locks \cup {"A", "PAD_7", "PAD_SLASH", "PRINT", "PAUSE"}

\* s begins as t does, as far as it goes.
Begins(s, t) == Len(s) <= Len(t) /\ \A i \in 1 .. Len(s) : s[i] = t[i]

LEMMA SpecialIs ==
  Special = {<<225, 29, 69, 225, 157, 197>>, <<224, 42, 224, 55>>, <<224, 183, 224, 170>>}
<1>1. KeyCode("PAUSE") = <<225, 29, 69, 225, 157, 197>>
  BY SMT DEF KeyCode
<1>2. KeyCode("PRINT") = <<224, 42, 224, 55>>
  BY SMT DEF KeyCode
<1>3. BreakCode("PRINT") = <<224, 183, 224, 170>>
  BY SMT DEF BreakCode
<1> QED
  BY <1>1, <1>2, <1>3 DEF Special

LEMMA SpecialFacts ==
  ASSUME NEW t \in Special
  PROVE  /\ t \in Seq(Byte) /\ Len(t) \in {4, 6}
         /\ t[1] \in {224, 225}
         /\ t[1] = 224 => t[2] \in {42, 183}
<1>1. CASE t = <<225, 29, 69, 225, 157, 197>>
  BY <1>1 DEF Byte
<1>2. CASE t = <<224, 42, 224, 55>>
  BY <1>2 DEF Byte
<1>3. CASE t = <<224, 183, 224, 170>>
  BY <1>3 DEF Byte
<1> QED
  BY <1>1, <1>2, <1>3, SpecialIs

\* Beginning with t or being t, byte by byte.
LEMMA SameSequence ==
  ASSUME NEW X, NEW s \in Seq(X), NEW t \in Seq(X), Len(s) = Len(t),
         \A i \in 1 .. Len(s) : s[i] = t[i]
  PROVE  s = t
OBVIOUS

LEMMA UnfinishedIs ==
  ASSUME NEW s \in Seq(Byte)
  PROVE  Unfinished(s) <=> \E t \in Special : Begins(s, t) /\ Len(s) < Len(t)
<1>1. ASSUME NEW t \in Special
      PROVE  IsStrictPrefix(s, t) <=> Begins(s, t) /\ Len(s) < Len(t)
  <2>1. t \in Seq(Byte)
    BY SpecialFacts
  <2>2. Len(s) <= Len(t) =>
          (SubSeq(s, 1, Len(s)) = SubSeq(t, 1, Len(s)) <=> \A i \in 1 .. Len(s) : s[i] = t[i])
    <3> SUFFICES ASSUME Len(s) <= Len(t)
                 PROVE  SubSeq(s, 1, Len(s)) = SubSeq(t, 1, Len(s)) <=> \A i \in 1 .. Len(s) : s[i] = t[i]
      OBVIOUS
    <3>1. /\ SubSeq(s, 1, Len(s)) \in Seq(Byte) /\ SubSeq(t, 1, Len(s)) \in Seq(Byte)
          /\ Len(SubSeq(s, 1, Len(s))) = Len(s) /\ Len(SubSeq(t, 1, Len(s))) = Len(s)
          /\ \A i \in 1 .. Len(s) : SubSeq(s, 1, Len(s))[i] = s[i] /\ SubSeq(t, 1, Len(s))[i] = t[i]
      BY <2>1
    <3> QED
      BY <3>1, SameSequence
  <2>3. s = t <=> Len(s) = Len(t) /\ \A i \in 1 .. Len(s) : s[i] = t[i]
    BY <2>1, SameSequence
  <2> QED
    BY <2>1, <2>2, <2>3 DEF IsStrictPrefix, IsPrefix, Begins
<1> QED
  BY <1>1 DEF Unfinished

\* The beginnings of sequences are one byte to five.
LEMMA UnfinishedIsShort ==
  ASSUME NEW s \in Seq(Byte), Unfinished(s)
  PROVE  Len(s) <= 5
BY UnfinishedIs, SpecialFacts DEF Begins

LEMMA PrefixIsUnfinished ==
  ASSUME NEW s \in Seq(Byte), Len(s) = 1, s[1] \in {224, 225}
  PROVE  Unfinished(s)
<1>1. \E t \in Special : t[1] = s[1] /\ Len(t) > 1
  BY SpecialIs
<1> QED
  BY <1>1, UnfinishedIs, SpecialFacts DEF Begins

LEMMA OneByteEnds ==
  ASSUME NEW s \in Seq(Byte), Len(s) = 1, s[1] \notin {224, 225}
  PROVE  ~Unfinished(s) /\ s \notin Special
BY UnfinishedIs, SpecialFacts DEF Begins

LEMMA TwoBytesEnd ==
  ASSUME NEW s \in Seq(Byte), Len(s) = 2, s[1] = 224, s[2] \notin {42, 183}
  PROVE  ~Unfinished(s) /\ s \notin Special
BY UnfinishedIs, SpecialFacts DEF Begins

LEMMA SpecialEnds ==
  ASSUME NEW s \in Special
  PROVE  ~Unfinished(s)
<1>1. s \in Seq(Byte)
  BY SpecialFacts
<1>2. \A t \in Special : Len(s) < Len(t) => s[1] # t[1]
  BY SpecialIs
<1> QED
  BY <1>1, <1>2, UnfinishedIs, SpecialFacts DEF Begins

--------------------------------------------------------------------------------
(* What the keyboard sends: a key going down or up, or an acknowledgement.    *)

Events == [act : {"press", "release"}, key : KeySet] \cup {[act |-> "ack", key |-> "none"]}

Code(e) ==
  IF e.act = "press" THEN KeyCode(e.key)
  ELSE IF e.act = "release" THEN BreakCode(e.key)
  ELSE <<Ack>>

\* The sequences read_keyboard passes over.
Skipped(e) == e.act # "ack" /\ e.key \in {"PRINT", "PAUSE"}

\* The one byte that tells the key, and the two shapes of the codes with one.
Single(e) == IF e.act # "ack" /\ e.key \in {"CTRL_R", "PAD_SLASH"} THEN 2 ELSE 1
Raw(k) ==
  CASE k = "SHIFT_L"   -> 42
    [] k = "SHIFT_R"   -> 54
    [] k = "CTRL_L"    -> 29
    [] k = "CTRL_R"    -> 29
    [] k = "A"         -> 30
    [] k = "CAPS_LOCK" -> 58
    [] k = "NUM_LOCK"  -> 69
    [] k = "PAD_7"     -> 71
    [] k = "PAD_SLASH" -> 53
Told(e) ==
  IF e.act = "press" THEN Raw(e.key)
  ELSE IF e.act = "release" THEN Raw(e.key) + 128
  ELSE Ack

LEMMA CodeIs ==
  ASSUME NEW e \in Events, ~Skipped(e)
  PROVE  Code(e) = IF Single(e) = 2 THEN <<224, Told(e)>> ELSE <<Told(e)>>
<1>1. CASE e.act = "ack"
  BY <1>1 DEF Code, Single, Told, Events
<1> DEFINE K == e.key
<1>2. CASE e.act # "ack"
  <2>1. K \in KeySet \ {"PRINT", "PAUSE"} /\ e.act \in {"press", "release"}
    BY <1>2 DEF Skipped, Events
  <2>2. CASE K \in {"CTRL_R", "PAD_SLASH"}
    <3>1. KeyCode(K) = <<224, Raw(K)>> /\ Raw(K) \in {29, 53}
      BY <2>2, SMT DEF KeyCode, Raw
    <3>2. BreakCode(K) = <<224, Raw(K) + 128>>
      BY <2>2, <3>1, SMT DEF BreakCode
    <3> QED
      BY <2>1, <2>2, <3>1, <3>2 DEF Code, Single, Told
  <2>3. CASE K \notin {"CTRL_R", "PAD_SLASH"}
    <3>0. K \in {"SHIFT_L", "SHIFT_R", "CTRL_L", "A", "CAPS_LOCK", "NUM_LOCK", "PAD_7"}
      BY <2>1, <2>3 DEF KeySet, Modifiers, Locks
    <3>1. KeyCode(K) = <<Raw(K)>> /\ Raw(K) \in {42, 54, 29, 30, 58, 69, 71}
      BY <3>0, SMT DEF KeyCode, Raw
    <3>2. BreakCode(K) = <<Raw(K) + 128>>
      BY <3>0, <3>1, SMT DEF BreakCode
    <3> QED
      BY <2>1, <2>3, <3>1, <3>2 DEF Code, Single, Told
  <2> QED
    BY <2>2, <2>3
<1> QED
  BY <1>1, <1>2

LEMMA ToldFacts ==
  ASSUME NEW e \in Events, ~Skipped(e)
  PROVE  /\ Told(e) \in Byte
         /\ Single(e) = 1 => Told(e) \notin {224, 225}
         /\ Single(e) = 2 => Told(e) \notin {42, 183, 250}
         /\ e.act = "press" => Told(e) = Raw(e.key)
         /\ e.act = "press" => Told(e) < 128 /\ Told(e) % 128 = Raw(e.key)
         /\ e.act = "release" => Told(e) >= 128 /\ Told(e) % 128 = Raw(e.key)
         /\ e.act # "ack" => Told(e) # Ack
<1>1. CASE e.act = "ack"
  BY <1>1 DEF Single, Told, Byte, Ack
<1>2. CASE e.act # "ack"
  <2>1. e.key \in KeySet \ {"PRINT", "PAUSE"} /\ e.act \in {"press", "release"}
    BY <1>2 DEF Skipped, Events
  <2>2. /\ Raw(e.key) \in {42, 54, 29, 30, 58, 69, 71, 53}
        /\ e.key \in {"CTRL_R", "PAD_SLASH"} => Raw(e.key) \in {29, 53}
    <3> DEFINE K == e.key
    <3>1. K \in {"SHIFT_L", "SHIFT_R", "CTRL_L", "A", "CAPS_LOCK", "NUM_LOCK", "PAD_7"}
            \cup {"CTRL_R", "PAD_SLASH"}
      BY <2>1 DEF KeySet, Modifiers, Locks
    <3> HIDE DEF K
    <3>2. K \in {"SHIFT_L", "SHIFT_R", "CTRL_L", "A", "CAPS_LOCK", "NUM_LOCK", "PAD_7"} =>
            Raw(K) \in {42, 54, 29, 30, 58, 69, 71}
      BY SMT DEF Raw
    <3>3. K \in {"CTRL_R", "PAD_SLASH"} => Raw(K) \in {29, 53}
      BY SMT DEF Raw
    <3> QED
      BY <3>1, <3>2, <3>3 DEF K
  <2> QED
    BY <1>2, <2>1, <2>2 DEF Single, Told, Byte, Ack
<1> QED
  BY <1>1, <1>2

LEMMA SkippedIs ==
  ASSUME NEW e \in Events, Skipped(e)
  PROVE  Code(e) \in Special \cup {<<>>}
<1>1. KeyCode("PAUSE") \in Special /\ KeyCode("PRINT") \in Special /\ BreakCode("PRINT") \in Special
  BY DEF Special
<1>2. BreakCode("PAUSE") = <<>>
  BY SMT DEF BreakCode
<1> QED
  BY <1>1, <1>2 DEF Code, Skipped, Events

\* Every code is a sequence of bytes, at most six.
LEMMA CodeType ==
  ASSUME NEW e \in Events
  PROVE  Code(e) \in Seq(Byte) /\ Len(Code(e)) \in 0 .. 6
<1>1. CASE Skipped(e)
  <2>1. CASE Code(e) = <<>>
    BY <2>1
  <2>2. CASE Code(e) \in Special
    BY <2>2, SpecialFacts
  <2> QED
    BY <1>1, <2>1, <2>2, SkippedIs
<1>2. CASE ~Skipped(e)
  <2>1. Told(e) \in Byte /\ 224 \in Byte
    BY <1>2, ToldFacts DEF Byte
  <2> DEFINE b == Told(e)
  <2>2. <<224, b>> \in Seq(Byte) /\ Len(<<224, b>>) = 2 /\ <<b>> \in Seq(Byte) /\ Len(<<b>>) = 1
    <3> HIDE DEF b
    <3> QED
      BY <2>1 DEF b
  <2>3. Code(e) = <<224, b>> \/ Code(e) = <<b>>
    BY <1>2, CodeIs
  <2>4. CASE Code(e) = <<224, b>>
    BY <2>2, <2>4
  <2>5. CASE Code(e) = <<b>>
    BY <2>2, <2>5
  <2> QED
    BY <2>3, <2>4, <2>5
<1> QED
  BY <1>1, <1>2

\* read_keyboard sees the end of each code where it is: before it, what it has taken
\* is the beginning of a sequence it knows, then it is none.
LEMMA EndIsSeen ==
  ASSUME NEW e \in Events, NEW s \in Seq(Byte), Begins(s, Code(e)), Len(s) >= 1
  PROVE  /\ Unfinished(s) <=> Len(s) < Len(Code(e))
         /\ Len(s) = Len(Code(e)) => (s \in Special <=> Skipped(e))
<1>0. Len(s) \in 1 .. Len(Code(e)) /\ s[1] = Code(e)[1]
  <2>1. Len(s) \in Nat /\ Len(s) >= 1 /\ Len(Code(e)) \in Nat
    BY CodeType
  <2> QED
    BY <2>1 DEF Begins
<1>1. CASE Skipped(e)
  <2>1. Code(e) \in Special
    BY <1>1, SkippedIs, CodeType DEF Begins
  <2>2. CASE Len(s) < Len(Code(e))
    BY <1>1, <2>1, <2>2, UnfinishedIs
  <2>3. CASE Len(s) = Len(Code(e))
    <3>1. s = Code(e)
      BY <2>3, CodeType, SameSequence DEF Begins
    <3> QED
      BY <1>1, <2>1, <2>3, <3>1, SpecialEnds
  <2> QED
    BY <2>2, <2>3, CodeType DEF Begins
<1>2. CASE ~Skipped(e) /\ Single(e) = 1
  <2>1. Len(Code(e)) = 1 /\ Code(e)[1] = Told(e)
    BY <1>2, CodeIs
  <2>2. Told(e) \notin {224, 225}
    BY <1>2, ToldFacts
  <2>3. Len(s) = 1 /\ s[1] = Told(e)
    BY <1>0, <2>1
  <2> QED
    BY <1>2, <2>1, <2>2, <2>3, OneByteEnds
<1>3. CASE ~Skipped(e) /\ Single(e) = 2
  <2>1. Len(Code(e)) = 2 /\ Code(e)[1] = 224 /\ Code(e)[2] = Told(e)
    BY <1>3, CodeIs
  <2>2. CASE Len(s) = 1
    <3>1. s[1] = 224
      BY <2>1, <2>2 DEF Begins
    <3> QED
      BY <2>1, <2>2, <3>1, PrefixIsUnfinished
  <2>3. CASE Len(s) = 2
    <3>1. s[1] = 224 /\ s[2] \notin {42, 183}
      BY <1>3, <2>1, <2>3, ToldFacts DEF Begins
    <3> QED
      BY <1>3, <2>1, <2>3, <3>1, TwoBytesEnd
  <2>4. Len(s) \in {1, 2}
    BY <1>0, <2>1
  <2> QED
    BY <2>2, <2>3, <2>4
<1> QED
  BY <1>1, <1>2, <1>3 DEF Single

\* An acknowledgement is no part of what a key sends.
LEMMA AckIsAlone ==
  ASSUME NEW e \in Events, NEW i \in 1 .. Len(Code(e)), Code(e)[i] = Ack
  PROVE  e.act = "ack" /\ Len(Code(e)) = 1
<1>1. CASE Skipped(e)
  <2>1. \A t \in Special : \A j \in 1 .. Len(t) : t[j] # 250
    BY SpecialIs
  <2> QED
    BY <1>1, <2>1, SkippedIs DEF Ack
<1>2. CASE ~Skipped(e)
  BY <1>2, CodeIs, ToldFacts DEF Ack, Single
<1> QED
  BY <1>1, <1>2

--------------------------------------------------------------------------------
(* What read_keyboard makes of a code.                                        *)

\* The locks and modifiers before it and what has been stored, and after it.
After(e, s) ==
  [mods |-> IF e.act = "press" THEN s.mods \cup ({e.key} \cap Modifiers)
            ELSE IF e.act = "release" THEN s.mods \ {e.key} ELSE s.mods,
   locks |-> IF e.act = "press" /\ e.key \in Locks THEN Toggle(s.locks, e.key) ELSE s.locks,
   made |-> IF e.act = "press" /\ ~Skipped(e) THEN s.made + 1 ELSE s.made]

\* seen is all of the code of e.
Complete(e) == seen \in Seq(Byte) /\ Begins(seen, Code(e)) /\ Len(seen) = Len(Code(e))

LEMMA ScanIs ==
  ASSUME NEW e \in Events, ~Skipped(e), Complete(e)
  PROVE  /\ scan_code = Told(e)
         /\ code_e0 <=> Single(e) = 2
         /\ is_make <=> e.act = "press"
<1>0. Told(e) < 128 <=> e.act = "press"
  <2>1. CASE e.act = "ack"
    BY <2>1 DEF Told, Ack
  <2>2. CASE e.act # "ack"
    <3>1. e.act \in {"press", "release"}
      BY <2>2 DEF Events
    <3>2. Told(e) \in Int /\ (e.act = "press" => Told(e) < 128) /\ (e.act = "release" => Told(e) >= 128)
      BY ToldFacts DEF Byte
    <3> QED
      BY <3>1, <3>2
  <2> QED
    BY <2>1, <2>2
<1>1. CASE Single(e) = 1
  <2>1. seen[1] = Told(e)
    BY <1>1, CodeIs DEF Complete, Begins
  <2>2. ~code_e0
    BY <1>1, <2>1, ToldFacts DEF code_e0
  <2>3. scan_code = Told(e)
    BY <2>1, <2>2 DEF scan_code
  <2>4. Told(e) < 128 <=> e.act = "press"
    BY <1>0
  <2> QED
    BY <1>1, <2>2, <2>3, <2>4 DEF is_make
<1>2. CASE Single(e) = 2
  <2>1. seen[1] = 224 /\ seen[2] = Told(e)
    BY <1>2, CodeIs DEF Complete, Begins
  <2>2. code_e0
    BY <1>2, <2>1, ToldFacts DEF code_e0
  <2>3. scan_code = Told(e)
    BY <2>1, <2>2 DEF scan_code
  <2>4. Told(e) < 128 <=> e.act = "press"
    BY <1>0
  <2> QED
    BY <1>2, <2>2, <2>3, <2>4 DEF is_make
<1> QED
  BY <1>1, <1>2 DEF Single

Shift == mods \cap {"SHIFT_L", "SHIFT_R"} # {}
Found == LET row == key_map(scan_code % 128) IN row[Column(row)]

LEMMA RowIs ==
  ASSUME NEW k \in KeySet \ {"A", "PRINT", "PAUSE"}
  PROVE  /\ key_map(Raw(k))[1] # "a"
         /\ k \in {"CTRL_R", "PAD_SLASH"} => key_map(Raw(k))[3] = k
         /\ k \notin {"CTRL_R", "PAD_SLASH"} =>
              /\ key_map(Raw(k))[1] = k
              /\ key_map(Raw(k))[2] = IF k = "PAD_7" THEN "7" ELSE k
<1>1. k \in {"SHIFT_L", "SHIFT_R", "CTRL_L", "CTRL_R", "CAPS_LOCK", "NUM_LOCK", "PAD_7", "PAD_SLASH"}
  BY DEF KeySet, Modifiers, Locks
<1>2. CASE k = "SHIFT_L"
  <2>1. Raw(k) = 42
    BY <1>2, SMT DEF Raw
  <2>2. key_map(42) = <<"SHIFT_L", "SHIFT_L", "none">>
    BY SMT DEF key_map
  <2> QED
    BY <1>2, <2>1, <2>2
<1>3. CASE k = "SHIFT_R"
  <2>1. Raw(k) = 54
    BY <1>3, SMT DEF Raw
  <2>2. key_map(54) = <<"SHIFT_R", "SHIFT_R", "none">>
    BY SMT DEF key_map
  <2> QED
    BY <1>3, <2>1, <2>2
<1>4. CASE k = "CTRL_L"
  <2>1. Raw(k) = 29
    BY <1>4, SMT DEF Raw
  <2>2. key_map(29) = <<"CTRL_L", "CTRL_L", "CTRL_R">>
    BY SMT DEF key_map
  <2> QED
    BY <1>4, <2>1, <2>2
<1>5. CASE k = "CTRL_R"
  <2>1. Raw(k) = 29
    BY <1>5, SMT DEF Raw
  <2>2. key_map(29) = <<"CTRL_L", "CTRL_L", "CTRL_R">>
    BY SMT DEF key_map
  <2> QED
    BY <1>5, <2>1, <2>2
<1>6. CASE k = "CAPS_LOCK"
  <2>1. Raw(k) = 58
    BY <1>6, SMT DEF Raw
  <2>2. key_map(58) = <<"CAPS_LOCK", "CAPS_LOCK", "none">>
    BY SMT DEF key_map
  <2> QED
    BY <1>6, <2>1, <2>2
<1>7. CASE k = "NUM_LOCK"
  <2>1. Raw(k) = 69
    BY <1>7, SMT DEF Raw
  <2>2. key_map(69) = <<"NUM_LOCK", "NUM_LOCK", "none">>
    BY SMT DEF key_map
  <2> QED
    BY <1>7, <2>1, <2>2
<1>8. CASE k = "PAD_7"
  <2>1. Raw(k) = 71
    BY <1>8, SMT DEF Raw
  <2>2. key_map(71) = <<"PAD_7", "7", "HOME">>
    BY SMT DEF key_map
  <2> QED
    BY <1>8, <2>1, <2>2
<1>9. CASE k = "PAD_SLASH"
  <2>1. Raw(k) = 53
    BY <1>9, SMT DEF Raw
  <2>2. key_map(53) = <<"/", "?", "PAD_SLASH">>
    BY SMT DEF key_map
  <2> QED
    BY <1>9, <2>1, <2>2
<1> QED
  BY <1>1, <1>2, <1>3, <1>4, <1>5, <1>6, <1>7, <1>8, <1>9

LEMMA FoundIs ==
  ASSUME NEW e \in Events, ~Skipped(e), Complete(e)
  PROVE  /\ e.act = "ack" => Found = "none"
         /\ e.act # "ack" =>
              Found = IF e.key = "A" THEN IF Shift # ("CAPS_LOCK" \in locks) THEN "A" ELSE "a"
                      ELSE IF e.key = "PAD_7" THEN IF Shift THEN "7" ELSE "PAD_7"
                      ELSE e.key
<1> DEFINE code == scan_code % 128
           row == key_map(code)
<1>1. Found = row[Column(row)]
  BY DEF Found
<1>2. CASE e.act = "ack"
  <2>1. code = 122
    BY <1>2, ScanIs DEF Told, Ack
  <2>2. row = <<"none", "none", "none">>
    BY <2>1, SMT DEF key_map
  <2>3. Column(row) \in {1, 2, 3}
    BY DEF Column
  <2> QED
    BY <1>1, <1>2, <2>2, <2>3
<1>3. CASE e.act # "ack"
  <2>0. e.key \in KeySet \ {"PRINT", "PAUSE"}
    BY <1>3 DEF Skipped, Events
  <2>1. code = Raw(e.key)
    BY <1>3, ScanIs, ToldFacts DEF Events
  <2>2. code_e0 <=> e.key \in {"CTRL_R", "PAD_SLASH"}
    BY <1>3, ScanIs DEF Single
  <2>3. CASE e.key = "A"
    <3>1. row = <<"a", "A", "none">>
      BY <2>1, <2>3, SMT DEF key_map, Raw
    <3>2. Column(row) = IF Shift # ("CAPS_LOCK" \in locks) THEN 2 ELSE 1
      BY <2>2, <2>3, <3>1 DEF Column, Shift
    <3> QED
      BY <1>1, <1>3, <2>3, <3>1, <3>2
  <2>4. CASE e.key # "A"
    <3>0. e.key \in KeySet \ {"A", "PRINT", "PAUSE"}
      BY <2>0, <2>4
    <3>1. row[1] # "a"
      BY <2>1, <3>0, RowIs
    <3>2. Column(row) = IF code_e0 THEN 3 ELSE IF Shift THEN 2 ELSE 1
      BY <3>1 DEF Column, Shift
    <3>3. CASE e.key \in {"CTRL_R", "PAD_SLASH"}
      <4>1. row[3] = e.key
        BY <2>1, <3>0, <3>3, RowIs
      <4> QED
        BY <1>1, <1>3, <2>2, <3>2, <3>3, <4>1
    <3>4. CASE e.key \notin {"CTRL_R", "PAD_SLASH"}
      <4>1. row[1] = e.key /\ row[2] = IF e.key = "PAD_7" THEN "7" ELSE e.key
        BY <2>1, <3>0, <3>4, RowIs
      <4> QED
        BY <1>1, <1>3, <2>2, <2>4, <3>2, <3>4, <4>1
    <3> QED
      BY <3>3, <3>4
  <2> QED
    BY <2>3, <2>4
<1> QED
  BY <1>2, <1>3

\* A stroke stands for the same with whatever else is held.
LEMMA MeaningOfModifiers ==
  ASSUME NEW k, NEW down, NEW on
  PROVE  Meaning(k, down, on) = Meaning(k, down \cap Modifiers, on)
<1>1. /\ (down \cap Modifiers) \cap Modifiers = down \cap Modifiers
      /\ (down \cap Modifiers) \cap {"SHIFT_L", "SHIFT_R"} = down \cap {"SHIFT_L", "SHIFT_R"}
  BY DEF Modifiers
<1> QED
  BY <1>1 DEF Meaning

Becomes(e) == After(e, [mods |-> mods, locks |-> locks, made |-> 0])

LEMMA DecodeIs ==
  ASSUME NEW e \in Events, ~Skipped(e), Complete(e), Decode,
         mods \subseteq Modifiers, locks \subseteq Locks
  PROVE  /\ mods' = Becomes(e).mods
         /\ locks' = Becomes(e).locks
         /\ e.act # "press" => pc' = "idle"
         /\ e.act = "press" => pc' \in {"led", "store"} /\ key' = Meaning(e.key, mods', locks')
         /\ pc' = "led" <=> e.act = "press" /\ e.key \in Locks
<1>1. /\ mods' = Modified(Found)
      /\ locks' = IF Found \in Locks /\ is_make THEN Toggle(locks, Found) ELSE locks
      /\ key' = IF is_make
                THEN [of |-> Padded(Found),
                      flags |-> mods' \cup (IF Found \in {"PAD_SLASH", "PAD_7"} THEN {"PAD"} ELSE {})]
                ELSE NoKey
      /\ pc' = CASE ~is_make -> "idle" [] is_make /\ Found \in Locks -> "led" [] OTHER -> "store"
  BY DEF Decode, Found
<1>2. CASE e.act = "ack"
  <2>1. Found = "none" /\ ~is_make
    BY <1>2, ScanIs, FoundIs
  <2> QED
    BY <1>1, <1>2, <2>1 DEF Modified, Modifiers, Locks, Becomes, After
<1>3. CASE e.act # "ack"
  <2>0. e.key \in KeySet \ {"PRINT", "PAUSE"} /\ e.act \in {"press", "release"}
    BY <1>3 DEF Skipped, Events
  <2>1. Found = IF e.key = "A" THEN IF Shift # ("CAPS_LOCK" \in locks) THEN "A" ELSE "a"
                ELSE IF e.key = "PAD_7" THEN IF Shift THEN "7" ELSE "PAD_7"
                ELSE e.key
    BY <1>3, FoundIs
  <2>2. Found \in Modifiers \cup Locks => Found = e.key
    BY <2>1 DEF Modifiers, Locks
  <2>3. e.key \in Modifiers \cup Locks => Found = e.key
    BY <2>1 DEF Modifiers, Locks
  <2>4. CASE e.act = "release"
    <3>1. ~is_make
      BY <2>4, ScanIs
    <3>2. locks' = locks /\ pc' = "idle"
      <4>1. locks' = locks
        BY <1>1, <3>1
      <4>2. pc' = "idle"
        BY <1>1, <3>1, SMT
      <4> QED
        BY <4>1, <4>2
    <3>3. mods' = mods \ {e.key}
      <4>1. CASE e.key \in Modifiers
        BY <1>1, <2>3, <3>1, <4>1 DEF Modified
      <4>2. CASE e.key \notin Modifiers
        BY <1>1, <2>2, <3>1, <4>2 DEF Modified
      <4> QED
        BY <4>1, <4>2
    <3> QED
      BY <2>4, <3>2, <3>3 DEF Becomes, After
  <2>5. CASE e.act = "press"
    <3>1. is_make
      BY <2>5, ScanIs
    <3>2. mods' = Becomes(e).mods /\ locks' = Becomes(e).locks
      BY <1>1, <2>0, <2>2, <2>3, <2>5, <3>1 DEF Modified, Becomes, After
    <3>3. pc' = IF Found \in Locks THEN "led" ELSE "store"
      BY <1>1, <3>1
    <3>4. key' = Meaning(e.key, mods', locks')
      <4> DEFINE pad == IF Found \in {"PAD_SLASH", "PAD_7"} THEN {"PAD"} ELSE {}
                 shift == mods' \cap {"SHIFT_L", "SHIFT_R"} # {}
      <4>1. key' = [of |-> Padded(Found), flags |-> mods' \cup pad]
        BY <1>1, <3>1
      <4>2. mods' \cap Modifiers = mods'
        BY <3>2 DEF Becomes, After
      <4>3. e.key \notin Modifiers => mods' = mods /\ shift = Shift
        BY <2>5, <3>2 DEF Becomes, After, Shift
      <4>4. e.key \notin Locks => locks' = locks
        BY <2>5, <3>2 DEF Becomes, After
      <4>5. CASE e.key = "A"
        <5>1. Padded(Found) = Found /\ pad = {}
          BY <2>1, <4>5 DEF Padded
        <5>2. Meaning(e.key, mods', locks') =
                [of |-> IF shift # ("CAPS_LOCK" \in locks') THEN "A" ELSE "a", flags |-> mods' \cup {}]
          BY <4>2, <4>5 DEF Meaning
        <5>3. shift = Shift /\ locks' = locks
          BY <4>3, <4>4, <4>5 DEF Modifiers, Locks
        <5> QED
          BY <2>1, <4>1, <4>5, <5>1, <5>2, <5>3
      <4>6. CASE e.key = "PAD_7"
        <5>1. shift = Shift /\ locks' = locks
          BY <4>3, <4>4, <4>6 DEF Modifiers, Locks
        <5>2. CASE shift
          <6>1. Found = "7" /\ Padded(Found) = "7" /\ pad = {}
            BY <2>1, <4>6, <5>1, <5>2 DEF Padded
          <6>2. Meaning(e.key, mods', locks') = [of |-> "7", flags |-> mods' \cup {}]
            BY <4>2, <4>6, <5>2 DEF Meaning
          <6> QED
            BY <4>1, <6>1, <6>2
        <5>3. CASE ~shift
          <6>1. Found = "PAD_7" /\ pad = {"PAD"}
                /\ Padded(Found) = IF "NUM_LOCK" \in locks' THEN "7" ELSE "HOME"
            BY <2>1, <4>6, <5>1, <5>3 DEF Padded
          <6>2. Meaning(e.key, mods', locks') =
                  [of |-> IF "NUM_LOCK" \in locks' THEN "7" ELSE "HOME", flags |-> mods' \cup {"PAD"}]
            BY <4>2, <4>6, <5>3 DEF Meaning
          <6> QED
            BY <4>1, <6>1, <6>2
        <5> QED
          BY <5>2, <5>3
      <4>7. CASE e.key = "PAD_SLASH"
        <5>1. Padded(Found) = "/" /\ pad = {"PAD"}
          BY <2>1, <4>7 DEF Padded
        <5>2. Meaning(e.key, mods', locks') = [of |-> "/", flags |-> mods' \cup {"PAD"}]
          BY <4>2, <4>7 DEF Meaning
        <5> QED
          BY <4>1, <5>1, <5>2
      <4>8. CASE e.key \notin {"A", "PAD_7", "PAD_SLASH"}
        <5>1. Found = e.key /\ Padded(Found) = e.key /\ pad = {}
          BY <2>1, <4>8 DEF Padded
        <5>2. Meaning(e.key, mods', locks') = [of |-> e.key, flags |-> mods' \cup {}]
          BY <4>2, <4>8 DEF Meaning
        <5> QED
          BY <4>1, <5>1, <5>2
      <4> QED
        BY <4>5, <4>6, <4>7, <4>8
    <3> QED
      BY <2>2, <2>3, <2>5, <3>2, <3>3, <3>4
  <2> QED
    BY <2>0, <2>4, <2>5
<1> QED
  BY <1>2, <1>3

--------------------------------------------------------------------------------
(* The bytes on their way spell the strokes still to be passed on.  Each byte *)
(* is byte off[i] of the code of event ev[i]; st[i] is what read_keyboard     *)
(* knows once it has taken it.                                                *)

State == [mods : SUBSET Modifiers, locks : SUBSET Locks, made : Int]

Ends(ev, off, i) == off[i] = Len(Code(ev[i]))

\* Byte i goes on where the byte before it ended.
Joins(ev, off, i) ==
  /\ off[i] <= Len(Code(ev[i]))
  /\ off[i] # 1 => i > 1 /\ ev[i - 1] = ev[i] /\ off[i - 1] = off[i] - 1
  /\ off[i] = 1 /\ i > 1 => Ends(ev, off, i - 1)

\* A stroke is the next in ex, of which `done` have been taken away before.
Strikes(ex, done, st, ev, off, i) ==
  Ends(ev, off, i) /\ ev[i].act = "press" /\ ~Skipped(ev[i]) =>
    /\ st[i].made - done \in 1 .. Len(ex)
    /\ ex[st[i].made - done] = Meaning(ev[i].key, st[i].mods, st[i].locks)

SpellTypes(n, done, st, ev, off) ==
  /\ n \in Nat /\ done \in Int
  /\ st \in [0 .. n -> State] /\ ev \in [1 .. n -> Events] /\ off \in [1 .. n -> 1 .. 6]

Spells(b, n, ex, done, st, ev, off) ==
  /\ SpellTypes(n, done, st, ev, off)
  /\ \A i \in 1 .. n :
       /\ Joins(ev, off, i)
       /\ b[i] = Code(ev[i])[off[i]]
       /\ st[i] = IF Ends(ev, off, i) THEN After(ev[i], st[i - 1]) ELSE st[i - 1]
       /\ Strikes(ex, done, st, ev, off, i)
  /\ \A i, j \in 0 .. n : i <= j => st[i].made <= st[j].made
  /\ n >= 1 => Ends(ev, off, n)

LEMMA AfterType ==
  ASSUME NEW e \in Events, NEW s \in State
  PROVE  After(e, s) \in State /\ After(e, s).made >= s.made
<1>1. e.act = "press" => {e.key} \cap Modifiers \subseteq Modifiers
  OBVIOUS
<1>2. e.key \in Locks => Toggle(s.locks, e.key) \subseteq Locks
  BY DEF Toggle, State
<1> DEFINE m == After(e, s).mods
           l == After(e, s).locks
           c == After(e, s).made
<1>3. m \in SUBSET Modifiers
  BY DEF After, State
<1>4. l \in SUBSET Locks
  BY <1>2 DEF After, State
<1>5. c \in Int /\ c >= s.made
  BY DEF After, State
<1> QED
  BY <1>3, <1>4, <1>5 DEF After, State

\* The l bytes of the code of e come behind the n of b.
Behind(b, c, n, e, l) ==
  /\ l = Len(Code(e))
  /\ \A i \in 1 .. n : c[i] = b[i]
  /\ \A i \in 1 .. l : c[n + i] = Code(e)[i]

Prolongs(ex, ex2) ==
  /\ Len(ex) \in Nat /\ Len(ex2) \in Nat /\ Len(ex) <= Len(ex2)
  /\ \A i \in 1 .. Len(ex) : ex2[i] = ex[i]

NextStroke(ex, done, e, s) ==
  e.act = "press" /\ ~Skipped(e) =>
    s.made - done \in 1 .. Len(ex) /\ ex[s.made - done] = Meaning(e.key, s.mods, s.locks)

\* Another code behind the others.
LEMMA SpellMore ==
  ASSUME NEW b, NEW n, NEW ex, NEW done, NEW st, NEW ev, NEW off,
         Spells(b, n, ex, done, st, ev, off),
         NEW c, NEW e \in Events, NEW ex2, NEW l \in 1 .. 6,
         Behind(b, c, n, e, l), Prolongs(ex, ex2), NextStroke(ex2, done, e, After(e, st[n]))
  PROVE  \E st2, ev2, off2 :
           /\ Spells(c, n + l, ex2, done, st2, ev2, off2)
           /\ st2[0] = st[0] /\ st2[n + l] = After(e, st[n])
           /\ \A i \in 1 .. n : st2[i] = st[i] /\ ev2[i] = ev[i] /\ off2[i] = off[i]
<1> DEFINE m == n + l
           end == After(e, st[n])
           st2 == [i \in 0 .. m |-> IF i <= n THEN st[i] ELSE IF i < m THEN st[n] ELSE end]
           ev2 == [i \in 1 .. m |-> IF i <= n THEN ev[i] ELSE e]
           off2 == [i \in 1 .. m |-> IF i <= n THEN off[i] ELSE i - n]
<1>1. l \in 1 .. 6
  OBVIOUS
<1>2. n \in Nat /\ done \in Int /\ st[n] \in State /\ end \in State /\ end.made >= st[n].made
  BY AfterType DEF Spells, SpellTypes
<1>0. n \in Nat /\ m \in Nat /\ m = n + l /\ l \in 1 .. 6
  <2>1. n \in Nat
    BY <1>2
  <2> QED
    BY <1>1, <2>1
<1>3. SpellTypes(m, done, st2, ev2, off2)
  <2>1. m \in Nat
    BY <1>1, <1>2
  <2>2. st2 \in [0 .. m -> State]
    <3>1. \A i \in 0 .. m : st2[i] \in State
      BY <1>1, <1>2 DEF Spells, SpellTypes
    <3> QED
      BY <3>1
  <2>3. ev2 \in [1 .. m -> Events] /\ off2 \in [1 .. m -> 1 .. 6]
    <3>1. \A i \in 1 .. m : ev2[i] \in Events /\ off2[i] \in 1 .. 6
      <4> SUFFICES ASSUME NEW i \in 1 .. m PROVE ev2[i] \in Events /\ off2[i] \in 1 .. 6
        OBVIOUS
      <4>1. CASE i <= n
        BY <1>2, <4>1 DEF Spells, SpellTypes
      <4>2. CASE i > n
        <5>1. i - n \in 1 .. 6 /\ ~(i <= n)
          BY <1>0, <4>2
        <5>2. ev2[i] = e /\ off2[i] = i - n
          BY <5>1
        <5> QED
          BY <5>1, <5>2
      <4> QED
        BY <1>1, <1>2, <4>1, <4>2
    <3> QED
      BY <3>1
  <2> QED
    BY <1>2, <2>1, <2>2, <2>3 DEF SpellTypes
<1>4. /\ \A i \in 0 .. n : st2[i] = st[i]
      /\ \A i \in 1 .. n : ev2[i] = ev[i] /\ off2[i] = off[i]
      /\ \A i \in n + 1 .. m : ev2[i] = e /\ off2[i] = i - n
      /\ \A i \in n + 1 .. m - 1 : st2[i] = st[n]
      /\ st2[m] = end
  BY <1>1, <1>2
<1> HIDE DEF st2, ev2, off2
<1>5. ASSUME NEW i \in 1 .. n
      PROVE  /\ Joins(ev2, off2, i)
             /\ c[i] = Code(ev2[i])[off2[i]]
             /\ st2[i] = IF Ends(ev2, off2, i) THEN After(ev2[i], st2[i - 1]) ELSE st2[i - 1]
             /\ Strikes(ex2, done, st2, ev2, off2, i)
  <2>1. /\ ev2[i] = ev[i] /\ off2[i] = off[i] /\ st2[i] = st[i] /\ st2[i - 1] = st[i - 1]
        /\ i > 1 => ev2[i - 1] = ev[i - 1] /\ off2[i - 1] = off[i - 1]
    <3>1. i \in 0 .. n /\ i - 1 \in 0 .. n /\ (i > 1 => i - 1 \in 1 .. n)
      BY <1>2
    <3> QED
      BY <1>4, <3>1
  <2>2. Joins(ev2, off2, i)
    BY <2>1, <1>2 DEF Spells, Joins, Ends
  <2>3. Strikes(ex2, done, st2, ev2, off2, i)
    <3>1. Strikes(ex, done, st, ev, off, i)
      BY DEF Spells
    <3>2. \A k : k \in 1 .. Len(ex) => k \in 1 .. Len(ex2) /\ ex2[k] = ex[k]
      BY DEF Prolongs
    <3> QED
      BY <2>1, <3>1, <3>2 DEF Strikes, Ends
  <2>4. b[i] = Code(ev[i])[off[i]] /\ st[i] = IF Ends(ev, off, i) THEN After(ev[i], st[i - 1]) ELSE st[i - 1]
    BY DEF Spells
  <2>5. c[i] = b[i]
    BY DEF Behind
  <2> QED
    BY <2>1, <2>2, <2>3, <2>4, <2>5 DEF Ends
<1>6. ASSUME NEW i \in n + 1 .. m
      PROVE  /\ Joins(ev2, off2, i)
             /\ c[i] = Code(ev2[i])[off2[i]]
             /\ st2[i] = IF Ends(ev2, off2, i) THEN After(ev2[i], st2[i - 1]) ELSE st2[i - 1]
             /\ Strikes(ex2, done, st2, ev2, off2, i)
  <2>1. /\ ev2[i] = e /\ off2[i] = i - n /\ i - n \in 1 .. l
        /\ Ends(ev2, off2, i) <=> i = m
        /\ st2[i - 1] = st[n]
        /\ i > n + 1 => ev2[i - 1] = e /\ off2[i - 1] = i - 1 - n
        /\ i = n + 1 /\ i > 1 => ev2[i - 1] = ev[n] /\ off2[i - 1] = off[n] /\ Ends(ev, off, n)
    <3>1. ev2[i] = e /\ off2[i] = i - n /\ i - n \in 1 .. l
      BY <1>1, <1>2, <1>4
    <3>2. Ends(ev2, off2, i) <=> i = m
      <4>1. Ends(ev2, off2, i) <=> i - n = l
        BY <3>1 DEF Ends, Behind
      <4> QED
        BY <1>0, <4>1
    <3>3. CASE i = n + 1
      <4>1. i - 1 = n /\ n \in 0 .. n /\ (i > 1 => n \in 1 .. n /\ n >= 1)
        BY <1>2, <3>3
      <4>2. st2[i - 1] = st[n] /\ (i > 1 => ev2[i - 1] = ev[n] /\ off2[i - 1] = off[n])
        BY <1>4, <4>1
      <4>3. i > 1 => Ends(ev, off, n)
        BY <4>1 DEF Spells
      <4> QED
        BY <1>2, <3>1, <3>2, <3>3, <4>2, <4>3
    <3>4. CASE i # n + 1
      <4>1. i - 1 \in n + 1 .. m /\ i - 1 \in n + 1 .. m - 1
        BY <1>1, <1>2, <3>4
      <4> QED
        BY <1>4, <3>1, <3>2, <3>4, <4>1
    <3> QED
      BY <3>3, <3>4
  <2>2. Joins(ev2, off2, i)
    BY <1>1, <1>2, <2>1 DEF Joins, Ends, Behind
  <2>3. c[i] = Code(ev2[i])[off2[i]]
    <3>1. c[n + (i - n)] = Code(e)[i - n]
      BY <2>1 DEF Behind
    <3> QED
      BY <1>2, <2>1, <3>1
  <2>4. st2[i] = IF Ends(ev2, off2, i) THEN After(ev2[i], st2[i - 1]) ELSE st2[i - 1]
    BY <1>1, <1>2, <1>4, <2>1
  <2>5. Strikes(ex2, done, st2, ev2, off2, i)
    BY <1>4, <2>1 DEF Strikes, NextStroke
  <2> QED
    BY <2>2, <2>3, <2>4, <2>5
<1>7. \A i, j \in 0 .. m : i <= j => st2[i].made <= st2[j].made
  <2>1. \A i, j \in 0 .. n : i <= j => st[i].made <= st[j].made
    BY DEF Spells
  <2>2. \A i \in 0 .. n : st[i].made <= st[n].made /\ st[i].made \in Int
    BY <1>2, <2>1 DEF Spells, SpellTypes, State
  <2>3. st[n].made \in Int /\ end.made \in Int
    BY <1>2 DEF State
  <2>4. \A i \in 0 .. m : /\ i <= n => st2[i].made = st[i].made
                          /\ i > n /\ i < m => st2[i].made = st[n].made
                          /\ i = m => st2[i].made = end.made
    <3> SUFFICES ASSUME NEW i \in 0 .. m
                 PROVE  /\ i <= n => st2[i] = st[i]
                        /\ i > n /\ i < m => st2[i] = st[n]
                        /\ i = m => st2[i] = end
      OBVIOUS
    <3>1. i <= n => i \in 0 .. n
      BY <1>0
    <3>2. i > n /\ i < m => i \in n + 1 .. m - 1
      BY <1>0
    <3> QED
      BY <1>4, <3>1, <3>2
  <2> SUFFICES ASSUME NEW i \in 0 .. m, NEW j \in 0 .. m, i <= j
               PROVE  st2[i].made <= st2[j].made
    OBVIOUS
  <2>5. CASE j <= n
    BY <1>1, <1>2, <2>1, <2>4, <2>5
  <2>6. CASE j > n /\ i <= n
    <3>0. st2[i].made = st[i].made
      BY <2>4, <2>6, <1>0
    <3>1. st2[j].made = IF j = m THEN end.made ELSE st[n].made
      <4>1. CASE j = m
        BY <2>4, <4>1
      <4>2. CASE j # m
        <5>1. j < m
          BY <1>0, <4>2
        <5> QED
          BY <2>4, <2>6, <4>2, <5>1
      <4> QED
        BY <4>1, <4>2
    <3>2. st[i].made \in Int /\ st[i].made <= st[n].made /\ st[n].made <= end.made
      BY <1>0, <1>2, <2>2, <2>6
    <3> QED
      BY <2>3, <3>0, <3>1, <3>2
  <2>7. CASE i > n
    <3>0. j > n /\ (i # m => i < m) /\ (j # m => j < m) /\ (i = m => j = m)
      BY <1>0, <2>7
    <3>1. /\ st2[j].made = IF j = m THEN end.made ELSE st[n].made
          /\ st2[i].made = IF i = m THEN end.made ELSE st[n].made
      BY <2>4, <2>7, <3>0
    <3>2. st[n].made <= end.made
      BY <1>2
    <3> QED
      BY <2>3, <3>0, <3>1, <3>2
  <2> QED
    BY <1>1, <1>2, <2>5, <2>6, <2>7
<1>8. Ends(ev2, off2, m)
  <2>1. ev2[m] = e /\ off2[m] = m - n /\ m - n = l
    BY <1>1, <1>2, <1>4
  <2> QED
    BY <2>1 DEF Ends, Behind
<1>9. Spells(c, m, ex2, done, st2, ev2, off2)
  BY <1>1, <1>2, <1>3, <1>5, <1>6, <1>7, <1>8 DEF Spells
<1> QED
  BY <1>2, <1>4, <1>9

\* The same bytes.
LEMMA SpellSame ==
  ASSUME NEW b, NEW n, NEW ex, NEW done, NEW st, NEW ev, NEW off,
         Spells(b, n, ex, done, st, ev, off), NEW c, \A i \in 1 .. n : c[i] = b[i]
  PROVE  Spells(c, n, ex, done, st, ev, off)
BY DEF Spells

\* Without the bytes up to the end of a code.
LEMMA SpellRest ==
  ASSUME NEW b, NEW n, NEW ex, NEW done, NEW st, NEW ev, NEW off,
         Spells(b, n, ex, done, st, ev, off),
         NEW k \in 1 .. n, Ends(ev, off, k), NEW c, \A i \in 1 .. n - k : c[i] = b[i + k]
  PROVE  \E st2, ev2, off2 :
           /\ Spells(c, n - k, ex, done, st2, ev2, off2)
           /\ st2[0] = st[k] /\ st2[n - k] = st[n]
<1> DEFINE m == n - k
           st2 == [i \in 0 .. m |-> st[i + k]]
           ev2 == [i \in 1 .. m |-> ev[i + k]]
           off2 == [i \in 1 .. m |-> off[i + k]]
<1>0. n \in Nat /\ k \in Nat /\ m \in Nat /\ m + k = n
  <2>1. n \in Nat
    BY DEF Spells, SpellTypes
  <2> QED
    BY <2>1
<1>1. /\ \A i \in 0 .. m : i + k \in 0 .. n /\ st2[i] = st[i + k]
      /\ \A i \in 1 .. m : i + k \in 1 .. n /\ ev2[i] = ev[i + k] /\ off2[i] = off[i + k]
      /\ \A i \in 1 .. m : i - 1 \in 0 .. m /\ (i - 1) + k = (i + k) - 1 /\ (i > 1 => i - 1 \in 1 .. m)
  BY <1>0
<1>2. SpellTypes(m, done, st2, ev2, off2)
  BY <1>0, <1>1 DEF Spells, SpellTypes
<1> HIDE DEF st2, ev2, off2
<1>3. ASSUME NEW i \in 1 .. m
      PROVE  /\ Joins(ev2, off2, i)
             /\ c[i] = Code(ev2[i])[off2[i]]
             /\ st2[i] = IF Ends(ev2, off2, i) THEN After(ev2[i], st2[i - 1]) ELSE st2[i - 1]
             /\ Strikes(ex, done, st2, ev2, off2, i)
  <2> DEFINE j == i + k
  <2>1. /\ j \in 1 .. n /\ j > 1 /\ ev2[i] = ev[j] /\ off2[i] = off[j] /\ st2[i] = st[j]
        /\ st2[i - 1] = st[j - 1]
        /\ i > 1 => ev2[i - 1] = ev[j - 1] /\ off2[i - 1] = off[j - 1]
    <3>1. i - 1 \in 0 .. m /\ i \in 0 .. m /\ (i - 1) + k = j - 1 /\ j > 1
      BY <1>0
    <3> QED
      BY <1>1, <3>1
  <2>2. Joins(ev, off, j) /\ Strikes(ex, done, st, ev, off, j) /\ b[j] = Code(ev[j])[off[j]]
        /\ st[j] = IF Ends(ev, off, j) THEN After(ev[j], st[j - 1]) ELSE st[j - 1]
    BY <2>1 DEF Spells
  <2>3. CASE i = 1
    <3>1. j - 1 = k
      BY <1>0, <2>3
    <3>2. off[j] = 1
      <4> SUFFICES ASSUME off[j] # 1 PROVE FALSE
        OBVIOUS
      <4>1. ev[k] = ev[j] /\ off[k] = off[j] - 1 /\ off[j] <= Len(Code(ev[j])) /\ off[k] = Len(Code(ev[k]))
        BY <2>2, <3>1 DEF Joins, Ends
      <4>2. \A x \in 1 .. n : off[x] \in 1 .. 6
        BY <1>0 DEF Spells, SpellTypes
      <4>3. off[j] \in Int
        BY <2>1, <4>2
      <4> QED
        BY <4>1, <4>3
    <3>3. Joins(ev2, off2, i)
      BY <2>1, <2>2, <2>3, <3>2 DEF Joins
    <3> QED
      BY <2>1, <2>2, <3>3 DEF Ends, Strikes
  <2>4. CASE i > 1
    <3>1. Joins(ev2, off2, i)
      BY <2>1, <2>2, <2>4 DEF Joins, Ends
    <3> QED
      BY <2>1, <2>2, <3>1 DEF Ends, Strikes
  <2> QED
    BY <1>0, <2>3, <2>4
<1>4. \A i, j \in 0 .. m : i <= j => st2[i].made <= st2[j].made
  <2> SUFFICES ASSUME NEW i \in 0 .. m, NEW j \in 0 .. m, i <= j
               PROVE  st2[i].made <= st2[j].made
    OBVIOUS
  <2>1. i + k \in 0 .. n /\ j + k \in 0 .. n /\ i + k <= j + k
    BY <1>0
  <2> QED
    BY <1>1, <2>1 DEF Spells
<1>5. m >= 1 => Ends(ev2, off2, m)
  <2> SUFFICES ASSUME m >= 1 PROVE Ends(ev2, off2, m)
    OBVIOUS
  <2>1. m \in 1 .. m /\ n >= 1
    BY <1>0
  <2>2. ev2[m] = ev[n] /\ off2[m] = off[n]
    BY <1>0, <1>1, <2>1
  <2> QED
    BY <2>1, <2>2 DEF Spells, Ends
<1>6. Spells(c, m, ex, done, st2, ev2, off2)
  BY <1>2, <1>3, <1>4, <1>5 DEF Spells
<1>7. st2[0] = st[k] /\ st2[m] = st[n]
  BY <1>0, <1>1
<1> QED
  BY <1>6, <1>7

\* The first stroke of ex has been passed on.
LEMMA SpellStored ==
  ASSUME NEW b, NEW n, NEW ex, NEW done, NEW st, NEW ev, NEW off,
         Spells(b, n, ex, done, st, ev, off),
         NEW X, ex \in Seq(X), ex # <<>>, st[0].made = done + 1
  PROVE  Spells(b, n, Tail(ex), done + 1, st, ev, off)
<1>0. n \in Nat /\ done \in Int /\ SpellTypes(n, done + 1, st, ev, off)
  BY DEF Spells, SpellTypes
<1>1. ASSUME NEW i \in 1 .. n PROVE Strikes(Tail(ex), done + 1, st, ev, off, i)
  <2> SUFFICES ASSUME Ends(ev, off, i), ev[i].act = "press", ~Skipped(ev[i])
               PROVE  /\ st[i].made - (done + 1) \in 1 .. Len(Tail(ex))
                      /\ Tail(ex)[st[i].made - (done + 1)] = Meaning(ev[i].key, st[i].mods, st[i].locks)
    BY DEF Strikes
  <2> DEFINE at == st[i].made - done
  <2>1. at \in 1 .. Len(ex) /\ ex[at] = Meaning(ev[i].key, st[i].mods, st[i].locks)
    BY DEF Spells, Strikes
  <2>2. st[i].made = st[i - 1].made + 1
    <3>1. st[i] = After(ev[i], st[i - 1])
      BY DEF Spells
    <3>2. \A s : After(ev[i], s).made = s.made + 1
      BY DEF After
    <3> QED
      BY <3>1, <3>2
  <2>3. st[0].made <= st[i - 1].made /\ st[i - 1].made \in Int
    <3>1. 0 \in 0 .. n /\ i - 1 \in 0 .. n /\ 0 <= i - 1
      BY <1>0
    <3>2. st[i - 1] \in State
      BY <3>1 DEF Spells, SpellTypes
    <3> QED
      BY <3>1, <3>2 DEF Spells, State
  <2>4. at >= 2 /\ st[i].made - (done + 1) = at - 1
    BY <1>0, <2>2, <2>3
  <2>5. at - 1 \in 1 .. Len(Tail(ex)) /\ Tail(ex)[at - 1] = ex[at]
    <3> HIDE DEF at
    <3>1. Len(ex) \in Nat /\ Len(Tail(ex)) = Len(ex) - 1
      OBVIOUS
    <3> QED
      BY <2>1, <2>4, <3>1
  <2> QED
    BY <2>1, <2>4, <2>5
<1> QED
  BY <1>0, <1>1 DEF Spells

\* Without an acknowledgement.
LEMMA SpellWithout ==
  ASSUME NEW b, NEW n, NEW ex, NEW done, NEW st, NEW ev, NEW off,
         Spells(b, n, ex, done, st, ev, off),
         NEW k \in 1 .. n, b[k] = Ack,
         NEW c, \A i \in 1 .. n - 1 : c[i] = IF i < k THEN b[i] ELSE b[i + 1]
  PROVE  \E st2, ev2, off2 :
           /\ Spells(c, n - 1, ex, done, st2, ev2, off2)
           /\ st2[0] = st[0] /\ st2[n - 1] = st[n]
           /\ \A i \in 1 .. k - 1 : st2[i] = st[i] /\ ev2[i] = ev[i] /\ off2[i] = off[i]
<1> DEFINE m == n - 1
           st2 == [i \in 0 .. m |-> IF i < k THEN st[i] ELSE st[i + 1]]
           ev2 == [i \in 1 .. m |-> IF i < k THEN ev[i] ELSE ev[i + 1]]
           off2 == [i \in 1 .. m |-> IF i < k THEN off[i] ELSE off[i + 1]]
<1>0. n \in Nat /\ k \in Nat /\ m \in Nat /\ m + 1 = n
  <2>1. n \in Nat
    BY DEF Spells, SpellTypes
  <2> QED
    BY <2>1
<1>1. /\ \A i \in 0 .. m : st2[i] = IF i < k THEN st[i] ELSE st[i + 1]
      /\ \A i \in 1 .. m : /\ ev2[i] = IF i < k THEN ev[i] ELSE ev[i + 1]
                         /\ off2[i] = IF i < k THEN off[i] ELSE off[i + 1]
      /\ \A i \in 0 .. m : i \in 0 .. n /\ i + 1 \in 0 .. n
      /\ \A i \in 1 .. m : i \in 1 .. n /\ i + 1 \in 1 .. n
  BY <1>0
<1>2. ev[k] \in Events /\ off[k] \in 1 .. 6 /\ off[k] <= Len(Code(ev[k])) /\ Code(ev[k])[off[k]] = Ack
  BY DEF Spells, SpellTypes, Joins
<1>3. ev[k].act = "ack" /\ Len(Code(ev[k])) = 1 /\ off[k] = 1
  <2>1. off[k] \in 1 .. Len(Code(ev[k]))
    BY <1>2, CodeType
  <2>2. ev[k].act = "ack" /\ Len(Code(ev[k])) = 1
    BY <1>2, <2>1, AckIsAlone
  <2> QED
    BY <2>1, <2>2
<1>4. st[k] = st[k - 1] /\ Ends(ev, off, k)
  <2>1. Ends(ev, off, k)
    BY <1>3 DEF Ends
  <2>2. st[k] = After(ev[k], st[k - 1]) /\ st[k - 1] \in State
    <3>1. k - 1 \in 0 .. n
      BY <1>0
    <3> QED
      BY <2>1, <3>1 DEF Spells, SpellTypes
  <2>3. \A s \in State : After(ev[k], s) = s
    BY <1>3 DEF After, State
  <2> QED
    BY <2>1, <2>2, <2>3
<1>5. SpellTypes(m, done, st2, ev2, off2)
  <2>1. \A i \in 0 .. m : st2[i] \in State
    BY <1>0, <1>1 DEF Spells, SpellTypes
  <2>2. \A i \in 1 .. m : ev2[i] \in Events /\ off2[i] \in 1 .. 6
    BY <1>0, <1>1 DEF Spells, SpellTypes
  <2> QED
    BY <1>0, <2>1, <2>2 DEF Spells, SpellTypes
<1> HIDE DEF st2, ev2, off2
<1>6. ASSUME NEW i \in 1 .. m
      PROVE  /\ Joins(ev2, off2, i)
             /\ c[i] = Code(ev2[i])[off2[i]]
             /\ st2[i] = IF Ends(ev2, off2, i) THEN After(ev2[i], st2[i - 1]) ELSE st2[i - 1]
             /\ Strikes(ex, done, st2, ev2, off2, i)
  <2>0. i \in 0 .. m /\ i - 1 \in 0 .. m /\ (i > 1 => i - 1 \in 1 .. m)
    BY <1>0
  <2>1. CASE i < k
    <3>1. /\ ev2[i] = ev[i] /\ off2[i] = off[i] /\ st2[i] = st[i] /\ st2[i - 1] = st[i - 1]
          /\ i > 1 => ev2[i - 1] = ev[i - 1] /\ off2[i - 1] = off[i - 1]
      <4>1. i - 1 < k
        BY <1>0, <2>1
      <4> QED
        BY <1>1, <2>0, <2>1, <4>1
    <3>2. /\ Joins(ev, off, i) /\ b[i] = Code(ev[i])[off[i]] /\ Strikes(ex, done, st, ev, off, i)
          /\ st[i] = IF Ends(ev, off, i) THEN After(ev[i], st[i - 1]) ELSE st[i - 1]
      <4>1. i \in 1 .. n
        BY <1>0
      <4> QED
        BY <4>1 DEF Spells
    <3>3. c[i] = b[i]
      BY <2>1
    <3>4. Joins(ev2, off2, i)
      BY <3>1, <3>2 DEF Joins, Ends
    <3> QED
      BY <3>1, <3>2, <3>3, <3>4 DEF Ends, Strikes
  <2>2. CASE i >= k
    <3> DEFINE j == i + 1
    <3>0. j \in 1 .. n /\ j - 1 = i /\ j > 1
      BY <1>0
    <3>1. ev2[i] = ev[j] /\ off2[i] = off[j] /\ st2[i] = st[j] /\ c[i] = b[j]
      BY <1>1, <2>0, <2>2
    <3>2. /\ Joins(ev, off, j) /\ b[j] = Code(ev[j])[off[j]] /\ Strikes(ex, done, st, ev, off, j)
          /\ st[j] = IF Ends(ev, off, j) THEN After(ev[j], st[i]) ELSE st[i]
      BY <3>0 DEF Spells
    <3>3. st2[i - 1] = st[i]
      <4>1. CASE i = k
        <5>1. i - 1 < k
          BY <1>0, <4>1
        <5> QED
          BY <1>1, <1>4, <2>0, <4>1, <5>1
      <4>2. CASE i # k
        <5>1. i - 1 >= k /\ (i - 1) + 1 = i
          BY <1>0, <2>2, <4>2
        <5> QED
          BY <1>1, <2>0, <5>1
      <4> QED
        BY <4>1, <4>2
    <3>4. Joins(ev2, off2, i)
      <4>1. CASE i = k
        <5>1. off[j] = 1
          <6> SUFFICES ASSUME off[j] # 1 PROVE FALSE
            OBVIOUS
          <6>1. ev[k] = ev[j] /\ off[k] = off[j] - 1 /\ off[j] <= Len(Code(ev[j]))
            BY <3>0, <3>2, <4>1 DEF Joins
          <6>2. \A x \in 1 .. n : off[x] \in 1 .. 6
            BY DEF Spells, SpellTypes
          <6>3. off[j] \in Int
            BY <3>0, <6>2
          <6> QED
            BY <1>3, <6>1, <6>3
        <5>2. i > 1 => i - 1 < k /\ ev2[i - 1] = ev[i - 1] /\ off2[i - 1] = off[i - 1]
          <6>1. i - 1 < k
            BY <1>0, <4>1
          <6> QED
            BY <1>1, <2>0, <6>1
        <5>3. i > 1 => Ends(ev, off, i - 1)
          BY <1>3, <4>1 DEF Spells, Joins
        <5> QED
          BY <3>1, <3>2, <5>1, <5>2, <5>3 DEF Joins, Ends
      <4>2. CASE i # k
        <5>1. i - 1 >= k /\ (i - 1) + 1 = i /\ i > 1
          BY <1>0, <2>2, <4>2
        <5>2. ev2[i - 1] = ev[i] /\ off2[i - 1] = off[i]
          BY <1>1, <2>0, <5>1
        <5> QED
          BY <3>0, <3>1, <3>2, <5>1, <5>2 DEF Joins, Ends
      <4> QED
        BY <4>1, <4>2
    <3> QED
      BY <3>1, <3>2, <3>3, <3>4 DEF Ends, Strikes
  <2> QED
    BY <1>0, <2>1, <2>2
<1>7. \A i, j \in 0 .. m : i <= j => st2[i].made <= st2[j].made
  <2> SUFFICES ASSUME NEW i \in 0 .. m, NEW j \in 0 .. m, i <= j
               PROVE  st2[i].made <= st2[j].made
    OBVIOUS
  <2>1. \A x, y \in 0 .. n : x <= y => st[x].made <= st[y].made
    BY DEF Spells
  <2>2. CASE j < k
    BY <1>0, <1>1, <2>1, <2>2
  <2>3. CASE j >= k /\ i < k
    <3>1. i \in 0 .. n /\ j + 1 \in 0 .. n /\ i <= j + 1
      BY <1>0
    <3> QED
      BY <1>1, <2>1, <2>3, <3>1
  <2>4. CASE i >= k
    <3>1. i + 1 \in 0 .. n /\ j + 1 \in 0 .. n /\ i + 1 <= j + 1 /\ j >= k
      BY <1>0, <2>4
    <3> QED
      BY <1>1, <2>1, <2>4, <3>1
  <2> QED
    BY <1>0, <2>2, <2>3, <2>4
<1>8. st2[0] = st[0] /\ st2[m] = st[n]
  <2>1. st2[0] = st[0]
    BY <1>0, <1>1
  <2>2. CASE k = n
    <3>1. m < k /\ m = k - 1 /\ m \in 0 .. m
      BY <1>0, <2>2
    <3> QED
      BY <1>1, <1>4, <2>1, <2>2, <3>1
  <2>3. CASE k # n
    <3>1. m >= k /\ m \in 0 .. m
      BY <1>0, <2>3
    <3> QED
      BY <1>0, <1>1, <2>1, <3>1
  <2> QED
    BY <2>2, <2>3
<1>9. m >= 1 => Ends(ev2, off2, m)
  <2> SUFFICES ASSUME m >= 1 PROVE Ends(ev2, off2, m)
    OBVIOUS
  <2>0. m \in 1 .. m /\ n \in 1 .. n /\ n > 1
    BY <1>0
  <2>1. CASE k = n
    <3>1. m < k /\ m = k - 1
      BY <1>0, <2>1
    <3>2. Ends(ev, off, m)
      BY <1>3, <2>0, <2>1, <3>1 DEF Spells, Joins
    <3> QED
      BY <1>1, <2>0, <3>1, <3>2 DEF Ends
  <2>2. CASE k # n
    <3>1. m >= k
      BY <1>0, <2>2
    <3>2. Ends(ev, off, n)
      BY <2>0 DEF Spells
    <3> QED
      BY <1>0, <1>1, <2>0, <3>1, <3>2 DEF Ends
  <2> QED
    BY <2>1, <2>2
<1>10. Spells(c, m, ex, done, st2, ev2, off2)
  BY <1>5, <1>6, <1>7, <1>9 DEF Spells
<1>11. \A i \in 1 .. k - 1 : st2[i] = st[i] /\ ev2[i] = ev[i] /\ off2[i] = off[i]
  BY <1>0, <1>1
<1> QED
  BY <1>8, <1>10, <1>11

--------------------------------------------------------------------------------
(* The types of what the keyboard, the ring and read_keyboard hold.           *)

Strokes == [of : KeySet \cup KeyNames, flags : SUBSET (Modifiers \cup {"PAD"})]

\* What read_keyboard has taken so far: the beginning of a sequence it knows.
TakenOK ==
  /\ pc \in {"get", "take"} => seen = <<>> \/ Unfinished(seen)
  /\ pc \in {"count", "decode"} => Len(seen) >= 1
  /\ pc = "decode" => ~Unfinished(seen)

\* The lights follow the locks once set_kb_led has sent them.
LedsOK == pc \notin {"led", "ack", "value"} => leds = locks

Typed == TypeOK /\ TakenOK /\ LedsOK /\ expected \in Seq(Strokes)

LEMMA KeysAreKnown == Keys \subseteq KeySet
BY KeysAssumption DEF KeySet

LEMMA CodesAreBytes ==
  ASSUME NEW k \in Keys
  PROVE  /\ KeyCode(k) \in Seq(Byte) /\ BreakCode(k) \in Seq(Byte)
         /\ [act |-> "press", key |-> k] \in Events /\ Code([act |-> "press", key |-> k]) = KeyCode(k)
         /\ [act |-> "release", key |-> k] \in Events /\ Code([act |-> "release", key |-> k]) = BreakCode(k)
<1>1. [act |-> "press", key |-> k] \in Events /\ [act |-> "release", key |-> k] \in Events
  BY KeysAreKnown DEF Events
<1>2. /\ Code([act |-> "press", key |-> k]) = KeyCode(k)
      /\ Code([act |-> "release", key |-> k]) = BreakCode(k)
  BY DEF Code
<1> QED
  BY <1>1, <1>2, CodeType

LEMMA MeaningType ==
  ASSUME NEW k \in KeySet, NEW down, NEW on
  PROVE  Meaning(k, down, on) \in Strokes
<1> DEFINE m == Meaning(k, down, on)
<1>1. m.of \in KeySet \cup KeyNames
  BY DEF Meaning, KeyNames
<1>2. m.flags \in SUBSET (Modifiers \cup {"PAD"})
  BY DEF Meaning
<1> QED
  BY <1>1, <1>2 DEF Meaning, Strokes

LEMMA RowNames ==
  ASSUME NEW code, NEW j \in 1 .. 3
  PROVE  key_map(code)[j] \in KeyNames \cup {"PAD_7", "PAD_SLASH"}
<1> DEFINE row == key_map(code)
<1>1. \/ row = <<"SHIFT_L", "SHIFT_L", "none">> \/ row = <<"SHIFT_R", "SHIFT_R", "none">>
      \/ row = <<"CTRL_L", "CTRL_L", "CTRL_R">> \/ row = <<"a", "A", "none">>
      \/ row = <<"/", "?", "PAD_SLASH">> \/ row = <<"*", "*", "none">>
      \/ row = <<"CAPS_LOCK", "CAPS_LOCK", "none">> \/ row = <<"NUM_LOCK", "NUM_LOCK", "none">>
      \/ row = <<"PAD_7", "7", "HOME">> \/ row = <<"none", "none", "none">>
  BY SMT DEF key_map
<1> HIDE DEF row
<1>2. row[j] \in {row[1], row[2], row[3]}
  OBVIOUS
<1>3. {row[1], row[2], row[3]} \subseteq KeyNames \cup {"PAD_7", "PAD_SLASH"}
  BY <1>1 DEF KeyNames, Modifiers, Locks
<1> QED
  BY <1>2, <1>3 DEF row

LEMMA InitTyped == Init => Typed
<1> SUFFICES ASSUME Init PROVE Typed
  OBVIOUS
<1>1. /\ buf \in [0 .. BufLength - 1 -> Byte]
      /\ head \in 0 .. BufLength - 1 /\ tail \in 0 .. BufLength - 1
      /\ count \in 0 .. BufLength /\ loaded \in 0 .. BufLength /\ port \in Byte
  BY BufAssumption DEF Init, Byte, Ack
<1>2. /\ held \subseteq Keys /\ leds \subseteq Locks /\ toggled \subseteq Locks
      /\ locks \subseteq Locks /\ mods \subseteq Modifiers
      /\ key.of \in KeyNames /\ key.flags \subseteq Modifiers \cup {"PAD"}
  BY DEF Init, Locks, NoKey, KeyNames
<1>3. /\ queue \in Seq(Byte) /\ seen \in Seq(Byte) /\ Len(seen) <= 6
      /\ expected \in Seq(Strokes)
  BY DEF Init
<1>4. TypeOK
  BY <1>1, <1>2, <1>3 DEF Init, TypeOK
<1> QED
  BY <1>3, <1>4 DEF Init, Typed, TakenOK, LedsOK

LEMMA UserTyped ==
  ASSUME Typed, User
  PROVE  Typed'
<1>1. PICK k \in Keys : Press(k) \/ Release(k)
  BY DEF User
<1>2. UNCHANGED <<port, full, leds, lost, interrupts, ring, loaded, decoder>>
  BY <1>1 DEF Press, Release, history
<1>3. held' \subseteq Keys /\ queue' \in Seq(Byte)
  <2>1. held' \subseteq Keys
    BY <1>1 DEF Press, Release, Typed, TypeOK
  <2>2. queue \in Seq(Byte) /\ KeyCode(k) \in Seq(Byte) /\ BreakCode(k) \in Seq(Byte)
    BY CodesAreBytes DEF Typed, TypeOK
  <2>3. queue' = queue \o KeyCode(k) \/ queue' = queue \o BreakCode(k)
    BY <1>1 DEF Press, Release
  <2>4. queue' \in Seq(Byte)
    <3>1. CASE queue' = queue \o KeyCode(k)
      BY <2>2, <3>1
    <3>2. CASE queue' = queue \o BreakCode(k)
      BY <2>2, <3>2
    <3> QED
      BY <2>3, <3>1, <3>2
  <2> QED
    BY <2>1, <2>4
<1>4. toggled' \subseteq Locks
  <2>1. CASE Release(k)
    BY <2>1 DEF Release, history, Typed, TypeOK
  <2>2. CASE Press(k)
    <3>1. toggled' = IF k \in Locks THEN Toggle(toggled, k) ELSE toggled
      BY <2>2 DEF Press
    <3> QED
      BY <3>1 DEF Toggle, Typed, TypeOK
  <2> QED
    BY <1>1, <2>1, <2>2
<1>5. expected' \in Seq(Strokes)
  <2>1. CASE Release(k)
    BY <2>1 DEF Release, history, Typed
  <2>2. CASE Press(k)
    <3>1. expected' = expected \/ \E on : expected' = Append(expected, Meaning(k, held', on))
      BY <2>2 DEF Press
    <3>2. \A on : Meaning(k, held', on) \in Strokes
      BY KeysAreKnown, MeaningType
    <3> QED
      BY <3>1, <3>2 DEF Typed
  <2> QED
    BY <1>1, <2>1, <2>2
<1>6. TypeOK'
  BY <1>2, <1>3, <1>4 DEF Typed, TypeOK, ring, decoder
<1> QED
  BY <1>2, <1>5, <1>6 DEF Typed, TakenOK, LedsOK, decoder

LEMMA DeviceTyped ==
  ASSUME Typed, IInv', Arrive \/ Handler
  PROVE  Typed'
<1>1. CASE Arrive
  <2>1. port' \in Byte /\ queue' \in Seq(Byte) /\ full' \in BOOLEAN
    <3>1. queue \in Seq(Byte) /\ queue # <<>>
      BY <1>1 DEF Arrive, Typed, TypeOK
    <3>2. Head(queue) \in Byte /\ Tail(queue) \in Seq(Byte)
      BY <3>1
    <3> QED
      BY <1>1, <3>2 DEF Arrive
  <2> QED
    BY <1>1, <2>1 DEF Arrive, Typed, TypeOK, TakenOK, LedsOK, history, ring, decoder
<1>2. CASE Handler
  <2>1. UNCHANGED <<held, queue, port, leds, toggled, interrupts, tail, loaded, decoder>> /\ full' = FALSE
    BY <1>2 DEF Handler
  <2>2. expected' \in Seq(Strokes) /\ lost' \in BOOLEAN
    <3>1. (expected' = expected \/ expected' = <<>>) /\ (lost' = lost \/ lost' = TRUE)
      BY <1>2 DEF Handler, Forget
    <3>2. expected \in Seq(Strokes) /\ lost \in BOOLEAN
      BY DEF Typed, TypeOK
    <3>3. expected' \in Seq(Strokes)
      <4>1. <<>> \in Seq(Strokes)
        OBVIOUS
      <4> QED
        BY <3>1, <3>2, <4>1
    <3>4. lost' \in BOOLEAN
      BY <3>1, <3>2
    <3> QED
      BY <3>3, <3>4
  <2>3. buf' \in [0 .. BufLength - 1 -> Byte]
    BY <1>2 DEF Handler, Typed, TypeOK
  <2>4. head' \in 0 .. BufLength - 1 /\ count' \in 0 .. BufLength
    BY DEF IInv, RingTypeOK
  <2>5. TypeOK'
    BY <2>1, <2>2, <2>3, <2>4 DEF Typed, TypeOK, decoder
  <2> QED
    BY <2>1, <2>2, <2>5 DEF Typed, TakenOK, LedsOK, decoder
<1> QED
  BY <1>1, <1>2

LEMMA GetTyped ==
  ASSUME Typed, IInv, IInv', Start \/ Cli \/ Take \/ Taken
  PROVE  Typed'
<1>1. CASE Start
  BY <1>1 DEF Start, Typed, TypeOK, TakenOK, LedsOK, keyboard, history, ring
<1>2. CASE Cli
  BY <1>2 DEF Cli, Typed, TypeOK, TakenOK, LedsOK, keyboard, history, ring
<1>3. CASE Take
  <2>1. buf[tail] \in Byte /\ Len(seen) <= 5
    BY <1>3, UnfinishedIsShort DEF Take, Typed, TypeOK, TakenOK
  <2>2. seen' \in Seq(Byte) /\ Len(seen') <= 6 /\ Len(seen') >= 1
    <3>1. seen' = Append(seen, buf[tail]) /\ seen \in Seq(Byte)
      BY <1>3 DEF Take, Typed, TypeOK
    <3> QED
      BY <2>1, <3>1
  <2>3. tail' \in 0 .. BufLength - 1
    BY DEF IInv, RingTypeOK
  <2>4. TypeOK'
    BY <1>3, <2>2, <2>3 DEF Take, Typed, TypeOK, keyboard, history
  <2> QED
    BY <1>3, <2>2, <2>4 DEF Take, Typed, TakenOK, LedsOK, keyboard, history
<1>4. CASE Taken
  <2>1. pc = "count" /\ pc' \in {"get", "idle", "decode"}
    BY <1>4 DEF Taken
  <2>2. (pc' = "get" => Unfinished(seen)) /\ (pc' = "decode" => ~Unfinished(seen))
    BY <1>4 DEF Taken
  <2>3. count' \in 0 .. BufLength /\ loaded' \in 0 .. BufLength /\ interrupts' \in BOOLEAN
    BY <1>4, BufAssumption DEF Taken, Sti, IInv, RingTypeOK
  <2>4. UNCHANGED <<keyboard, history, buf, head, tail, seen, key, mods, locks>>
    BY <1>4 DEF Taken
  <2>5. TypeOK'
    BY <2>1, <2>3, <2>4 DEF Typed, TypeOK, keyboard, history
  <2> QED
    BY <2>1, <2>2, <2>4, <2>5 DEF Typed, TakenOK, LedsOK, Unfinished, keyboard, history
<1> QED
  BY <1>1, <1>2, <1>3, <1>4

LEMMA DecodeTyped ==
  ASSUME Typed, Decode
  PROVE  Typed'
<1>1. pc = "decode" /\ seen' = <<>> /\ UNCHANGED <<keyboard, history, interrupts, ring, loaded>>
  BY DEF Decode
<1>2. pc' \in {"idle", "led", "store"}
  BY DEF Decode
<1>3. /\ mods' = Modified(Found)
      /\ locks' = IF Found \in Locks /\ is_make THEN Toggle(locks, Found) ELSE locks
      /\ key' = IF is_make
                THEN [of |-> Padded(Found),
                      flags |-> mods' \cup (IF Found \in {"PAD_SLASH", "PAD_7"} THEN {"PAD"} ELSE {})]
                ELSE NoKey
      /\ pc' = CASE ~is_make -> "idle" [] is_make /\ Found \in Locks -> "led" [] OTHER -> "store"
  BY DEF Decode, Found
<1>4. mods' \subseteq Modifiers /\ locks' \subseteq Locks
  <2>1. mods' \subseteq Modifiers
    BY <1>3 DEF Modified, Typed, TypeOK
  <2>2. locks' \subseteq Locks
    BY <1>3 DEF Toggle, Typed, TypeOK
  <2> QED
    BY <2>1, <2>2
<1>5. key'.of \in KeyNames /\ key'.flags \subseteq Modifiers \cup {"PAD"}
  <2> DEFINE row == key_map(scan_code % 128)
  <2>1. Found = row[Column(row)] /\ Column(row) \in 1 .. 3
    <3>1. Column(row) \in {1, 2, 3}
      BY DEF Column
    <3> QED
      BY <3>1 DEF Found
  <2>2. Found \in KeyNames \cup {"PAD_7", "PAD_SLASH"}
    BY <2>1, RowNames
  <2>3. Padded(Found) \in KeyNames
    <3>1. CASE Found = "PAD_SLASH"
      BY <3>1 DEF Padded, KeyNames
    <3>2. CASE Found = "PAD_7"
      BY <3>2 DEF Padded, KeyNames
    <3>3. CASE Found \notin {"PAD_7", "PAD_SLASH"}
      BY <2>2, <3>3 DEF Padded
    <3> QED
      BY <3>1, <3>2, <3>3
  <2> QED
    BY <1>3, <1>4, <2>3 DEF NoKey, KeyNames
<1>6. LedsOK'
  <2>1. leds = locks /\ leds' = leds
    BY <1>1 DEF Typed, LedsOK, keyboard
  <2>2. CASE Found \in Locks /\ is_make
    BY <1>3, <2>2, SMT DEF LedsOK
  <2>3. CASE ~(Found \in Locks /\ is_make)
    BY <1>3, <2>1, <2>3 DEF LedsOK
  <2> QED
    BY <2>2, <2>3
<1>7. TypeOK'
  <2>1. seen' \in Seq(Byte) /\ Len(seen') <= 6
    BY <1>1
  <2> QED
    BY <1>1, <1>2, <1>4, <1>5, <2>1 DEF Typed, TypeOK, keyboard, history, ring
<1> QED
  BY <1>1, <1>2, <1>6, <1>7 DEF Typed, TakenOK, history

LEMMA LightTyped ==
  ASSUME Typed, Store \/ LedOut \/ KbAck
  PROVE  Typed'
<1>1. CASE Store
  <2>1. expected' \in Seq(Strokes)
    <3>1. expected \in Seq(Strokes) /\ expected' = IF expected = <<>> THEN <<>> ELSE Tail(expected)
      BY <1>1 DEF Store, Typed
    <3> QED
      BY <3>1
  <2>2. key'.of \in KeyNames /\ key'.flags \subseteq Modifiers \cup {"PAD"}
    BY <1>1 DEF Store, NoKey, KeyNames
  <2>3. UNCHANGED <<keyboard, toggled, lost, interrupts, ring, loaded, seen, mods, locks>> /\ pc' = "idle" /\ pc = "store"
    BY <1>1 DEF Store
  <2>4. TypeOK'
    BY <2>2, <2>3 DEF Typed, TypeOK, keyboard, ring
  <2> QED
    BY <2>1, <2>3, <2>4 DEF Typed, TakenOK, LedsOK, keyboard
<1>2. CASE LedOut
  <2>1. /\ UNCHANGED <<held, port, full, history, interrupts, ring, loaded, seen, key, mods, locks>>
        /\ queue' = Append(queue, Ack)
        /\ \/ pc = "led" /\ pc' = "ack" /\ UNCHANGED leds
           \/ pc = "value" /\ pc' = "ack value" /\ leds' = locks
    BY <1>2 DEF LedOut, LedValue
  <2>2. queue' \in Seq(Byte)
    <3>1. queue \in Seq(Byte)
      BY DEF Typed, TypeOK
    <3>2. Ack \in Byte
      BY DEF Ack, Byte
    <3> QED
      <4>1. Append(queue, Ack) \in Seq(Byte)
        BY <3>1, <3>2
      <4> QED
        BY <2>1, <4>1
  <2>3. leds' \subseteq Locks
    BY <2>1 DEF Typed, TypeOK
  <2>4. TypeOK'
    BY <2>1, <2>2, <2>3 DEF Typed, TypeOK, history, ring
  <2> QED
    BY <2>1, <2>4 DEF Typed, TakenOK, LedsOK, history
<1>3. CASE KbAck
  <2>1. /\ UNCHANGED <<held, queue, port, leds, toggled, interrupts, ring, loaded, seen, key, mods, locks>>
        /\ full' = FALSE
        /\ pc \in {"ack", "ack value"} /\ pc' \in {"ack", "ack value", "value", "store"}
        /\ pc = "ack" => pc' \in {"ack", "value"}
    <3>1. pc \in {"ack", "ack value"}
      BY <1>3 DEF KbAck
    <3>2. CASE port # Ack
      BY <1>3, <3>1, <3>2 DEF KbAck
    <3>3. CASE port = Ack
      <4>1. pc' = IF pc = "ack" THEN "value" ELSE "store"
        BY <1>3, <3>3 DEF KbAck
      <4> QED
        BY <1>3, <3>1, <4>1 DEF KbAck
    <3> QED
      BY <3>2, <3>3
  <2>2. expected' \in Seq(Strokes) /\ lost' \in BOOLEAN
    <3>1. (expected' = expected \/ expected' = <<>>) /\ (lost' = lost \/ lost' = TRUE)
      BY <1>3 DEF KbAck, Forget
    <3>2. expected \in Seq(Strokes) /\ lost \in BOOLEAN
      BY DEF Typed, TypeOK
    <3>3. expected' \in Seq(Strokes)
      <4>1. <<>> \in Seq(Strokes)
        OBVIOUS
      <4> QED
        BY <3>1, <3>2, <4>1
    <3>4. lost' \in BOOLEAN
      BY <3>1, <3>2
    <3> QED
      BY <3>3, <3>4
  <2>3. TypeOK'
    BY <2>1, <2>2 DEF Typed, TypeOK, ring
  <2> QED
    BY <2>1, <2>2, <2>3 DEF Typed, TakenOK, LedsOK
<1> QED
  BY <1>1, <1>2, <1>3

LEMMA StepTyped == Typed /\ IInv /\ IInv' /\ [Next]_vars => Typed'
<1> SUFFICES ASSUME Typed, IInv, IInv', [Next]_vars PROVE Typed'
  OBVIOUS
<1>1. CASE Next
  BY <1>1, UserTyped, DeviceTyped, GetTyped, DecodeTyped, LightTyped DEF Next, Task
<1>2. CASE UNCHANGED vars
  BY <1>2 DEF vars, keyboard, history, ring, decoder, Typed, TypeOK, TakenOK, LedsOK
<1> QED
  BY <1>1, <1>2

\* The types, with what read_keyboard has taken of a code and the lights that follow
\* the locks once set_kb_led has sent them.
THEOREM KeyTyped == Spec => []Typed
<1>1. Typed /\ IInv /\ IInv' /\ [Next]_vars => Typed'
  BY StepTyped
<1> QED
  BY InitTyped, Inductive, <1>1, PTL DEF Spec

--------------------------------------------------------------------------------
(* The bytes on their way: taken for this key, in the ring, in the port, and  *)
(* not yet sent.                                                              *)

Cat(s, t) == s \o t

Flow(hand, ring_, port_, queue_) == Cat(Cat(hand, ring_), Cat(port_, queue_))

RingSeq(b, t, c) ==
  [i \in 1 .. c |-> b[IF t + i - 1 < BufLength THEN t + i - 1 ELSE t + i - 1 - BufLength]]

\* h is what has been taken of b, which is n long; c is b without its first k.
Holds(h, b, n) == Len(h) <= n /\ \A i \in 1 .. Len(h) : b[i] = h[i]
Rest(c, b, n, k) == Len(c) = n - k /\ \A i \in 1 .. n - k : c[i] = b[i + k]

\* c is b without its k-th byte, v.
Without(c, b, n, k, v) ==
  /\ k \in 1 .. n /\ b[k] = v /\ Len(c) = n - 1
  /\ \A i \in 1 .. n - 1 : c[i] = IF i < k THEN b[i] ELSE b[i + 1]

LEMMA CatType ==
  ASSUME NEW s \in Seq(Byte), NEW t \in Seq(Byte)
  PROVE  /\ Cat(s, t) \in Seq(Byte)
         /\ Len(s) \in Nat /\ Len(t) \in Nat /\ Len(Cat(s, t)) = Len(s) + Len(t)
         /\ \A i \in 1 .. Len(s) + Len(t) : Cat(s, t)[i] = IF i <= Len(s) THEN s[i] ELSE t[i - Len(s)]
<1>1. s \o t \in Seq(Byte)
  BY ConcatProperties
<1>2. Len(s) \in Nat /\ Len(t) \in Nat
  BY LenProperties
<1>3. Len(s \o t) = Len(s) + Len(t)
  BY ConcatProperties
<1>4. \A i \in 1 .. Len(s) + Len(t) : (s \o t)[i] = IF i <= Len(s) THEN s[i] ELSE t[i - Len(s)]
  BY ConcatProperties
<1> QED
  BY <1>1, <1>2, <1>3, <1>4 DEF Cat

LEMMA CatIn ==
  ASSUME NEW s \in Seq(Byte), NEW t \in Seq(Byte)
  PROVE  Cat(s, t) \in Seq(Byte)
BY CatType

LEMMA CatAssociates ==
  ASSUME NEW s \in Seq(Byte), NEW t \in Seq(Byte), NEW u \in Seq(Byte)
  PROVE  Cat(Cat(s, t), u) = Cat(s, Cat(t, u))
<1>1. (s \o t) \o u = s \o (t \o u)
  BY ConcatAssociative
<1> QED
  BY <1>1 DEF Cat

LEMMA CatEmpty ==
  ASSUME NEW s \in Seq(Byte)
  PROVE  Cat(<<>>, s) = s /\ Cat(s, <<>>) = s /\ <<>> \in Seq(Byte)
BY ConcatEmptySeq DEF Cat

LEMMA CatByte ==
  ASSUME NEW s \in Seq(Byte), NEW b \in Byte
  PROVE  /\ <<b>> \in Seq(Byte) /\ Len(<<b>>) = 1 /\ <<b>>[1] = b
         /\ Append(s, b) = Cat(s, <<b>>)
<1>1. <<b>> \in Seq(Byte) /\ Len(<<b>>) = 1 /\ <<b>>[1] = b
  OBVIOUS
<1>2. Append(s, b) = s \o <<b>>
  BY AppendIsConcat
<1> QED
  BY <1>1, <1>2 DEF Cat

LEMMA CatSplit ==
  ASSUME NEW s \in Seq(Byte), s # <<>>
  PROVE  Head(s) \in Byte /\ Tail(s) \in Seq(Byte) /\ Cat(<<Head(s)>>, Tail(s)) = s
<1>1. Head(s) \in Byte /\ Tail(s) \in Seq(Byte) /\ s = <<Head(s)>> \o Tail(s)
  OBVIOUS
<1> QED
  BY <1>1 DEF Cat

LEMMA FlowType ==
  ASSUME NEW h \in Seq(Byte), NEW r \in Seq(Byte), NEW p \in Seq(Byte), NEW q \in Seq(Byte)
  PROVE  /\ Flow(h, r, p, q) \in Seq(Byte)
         /\ Flow(h, r, p, q) = Cat(h, Cat(r, Cat(p, q)))
         /\ Cat(r, Cat(p, q)) \in Seq(Byte)
         /\ Len(Cat(r, Cat(p, q))) = Len(r) + Len(p) + Len(q)
<1>1. /\ Cat(h, r) \in Seq(Byte) /\ Cat(p, q) \in Seq(Byte)
      /\ Cat(r, Cat(p, q)) \in Seq(Byte) /\ Cat(Cat(h, r), Cat(p, q)) \in Seq(Byte)
  BY CatIn
<1>2. Cat(Cat(h, r), Cat(p, q)) = Cat(h, Cat(r, Cat(p, q)))
  BY <1>1, CatAssociates
<1>3. Len(Cat(r, Cat(p, q))) = Len(r) + Len(p) + Len(q)
  <2>1. Len(Cat(r, Cat(p, q))) = Len(r) + Len(Cat(p, q)) /\ Len(r) \in Nat
    BY <1>1, CatType
  <2>2. Len(Cat(p, q)) = Len(p) + Len(q) /\ Len(p) \in Nat /\ Len(q) \in Nat
    BY CatType
  <2> HIDE DEF Cat
  <2> QED
    BY <2>1, <2>2
<1> QED
  BY <1>1, <1>2, <1>3 DEF Flow

\* The same bytes, cut elsewhere.
LEMMA Recut ==
  ASSUME NEW h \in Seq(Byte), NEW r \in Seq(Byte), NEW u \in Seq(Byte), NEW q \in Seq(Byte),
         NEW v, v = Cat(r, u)
  PROVE  /\ Cat(Cat(h, v), q) = Cat(Cat(h, r), Cat(u, q))
         /\ Cat(h, v) = Cat(Cat(h, r), u)
<1>1. /\ Cat(h, r) \in Seq(Byte)
  BY CatIn
<1>2. Cat(h, v) = Cat(Cat(h, r), u)
  BY CatAssociates
<1>3. Cat(Cat(Cat(h, r), u), q) = Cat(Cat(h, r), Cat(u, q))
  BY <1>1, CatAssociates
<1> QED
  BY <1>2, <1>3

\* The first bytes are those in hand.
LEMMA FlowHand ==
  ASSUME NEW h \in Seq(Byte), NEW r \in Seq(Byte), NEW p \in Seq(Byte), NEW q \in Seq(Byte)
  PROVE  /\ Len(h) \in Nat /\ Len(r) \in Nat /\ Len(p) \in Nat /\ Len(q) \in Nat
         /\ Len(Flow(h, r, p, q)) = Len(h) + Len(r) + Len(p) + Len(q)
         /\ Holds(h, Flow(h, r, p, q), Len(Flow(h, r, p, q)))
         /\ Rest(Flow(<<>>, r, p, q), Flow(h, r, p, q), Len(Flow(h, r, p, q)), Len(h))
<1> DEFINE f == Flow(h, r, p, q)
           t == Cat(r, Cat(p, q))
<1>0. Len(h) \in Nat /\ Len(r) \in Nat /\ Len(p) \in Nat /\ Len(q) \in Nat
  BY CatType
<1>1. t \in Seq(Byte) /\ f = Cat(h, t) /\ Len(t) = Len(r) + Len(p) + Len(q)
  BY FlowType
<1>3. Flow(<<>>, r, p, q) = t
  <2>1. \A e \in Seq(Byte) : Flow(e, r, p, q) = Cat(e, t)
    BY FlowType
  <2> HIDE DEF t
  <2>2. <<>> \in Seq(Byte) /\ Cat(<<>>, t) = t
    BY <1>1, CatEmpty
  <2> QED
    BY <2>1, <2>2
<1> HIDE DEF f, t
<1>4. /\ Len(f) = Len(h) + Len(t)
      /\ \A i \in 1 .. Len(h) + Len(t) : f[i] = IF i <= Len(h) THEN h[i] ELSE t[i - Len(h)]
  BY <1>1, CatType
<1>5. \A i \in 1 .. Len(f) - Len(h) : t[i] = f[i + Len(h)]
  <2> SUFFICES ASSUME NEW i \in 1 .. Len(f) - Len(h) PROVE t[i] = f[i + Len(h)]
    OBVIOUS
  <2>1. i + Len(h) \in 1 .. Len(h) + Len(t) /\ ~(i + Len(h) <= Len(h)) /\ i + Len(h) - Len(h) = i
    BY <1>0, <1>1, <1>4
  <2> QED
    BY <1>4, <2>1
<1>6. \A i \in 1 .. Len(h) : f[i] = h[i]
  BY <1>0, <1>1, <1>4
<1>7. Len(t) = Len(f) - Len(h) /\ Len(f) = Len(h) + Len(r) + Len(p) + Len(q)
  BY <1>0, <1>1, <1>4
<1> QED
  <2>1. Holds(h, f, Len(f))
    BY <1>0, <1>6, <1>7 DEF Holds
  <2>2. Rest(t, f, Len(f), Len(h))
    BY <1>5, <1>7 DEF Rest
  <2> QED
    BY <1>0, <1>3, <1>7, <2>1, <2>2 DEF f

\* A byte goes from the queue to the port, on to the ring, and from there in hand.
LEMMA FlowArrives ==
  ASSUME NEW h \in Seq(Byte), NEW r \in Seq(Byte), NEW q \in Seq(Byte), q # <<>>
  PROVE  Flow(h, r, <<Head(q)>>, Tail(q)) = Flow(h, r, <<>>, q)
<1>1. Cat(<<Head(q)>>, Tail(q)) = q
  BY CatSplit
<1> QED
  BY <1>1, CatEmpty DEF Flow

LEMMA FlowEnters ==
  ASSUME NEW h \in Seq(Byte), NEW r \in Seq(Byte), NEW b \in Byte, NEW q \in Seq(Byte)
  PROVE  Flow(h, Append(r, b), <<>>, q) = Flow(h, r, <<b>>, q)
<1>1. Append(r, b) = Cat(r, <<b>>) /\ <<b>> \in Seq(Byte)
  BY CatByte
<1>2. Cat(Cat(h, Append(r, b)), q) = Cat(Cat(h, r), Cat(<<b>>, q))
  <2> DEFINE u == <<b>>
             v == Append(r, b)
  <2>1. u \in Seq(Byte) /\ v = Cat(r, u)
    BY <1>1
  <2> HIDE DEF u, v
  <2>2. Cat(Cat(h, v), q) = Cat(Cat(h, r), Cat(u, q))
    BY <2>1, Recut
  <2> QED
    BY <2>2 DEF u, v
<1> QED
  BY <1>2, CatEmpty DEF Flow

LEMMA FlowTaken ==
  ASSUME NEW h \in Seq(Byte), NEW r \in Seq(Byte), NEW p \in Seq(Byte), NEW q \in Seq(Byte),
         r # <<>>
  PROVE  Flow(Append(h, Head(r)), Tail(r), p, q) = Flow(h, r, p, q)
<1>1. Head(r) \in Byte /\ Tail(r) \in Seq(Byte) /\ Cat(<<Head(r)>>, Tail(r)) = r
  BY CatSplit
<1>2. <<Head(r)>> \in Seq(Byte) /\ Append(h, Head(r)) = Cat(h, <<Head(r)>>)
  BY <1>1, CatByte
<1>3. Cat(Cat(h, <<Head(r)>>), Tail(r)) = Cat(h, r)
  <2> DEFINE u == <<Head(r)>>
             w == Tail(r)
  <2>1. u \in Seq(Byte) /\ w \in Seq(Byte) /\ Cat(u, w) = r
    BY <1>1, <1>2
  <2> HIDE DEF u, w
  <2>2. Cat(Cat(h, u), w) = Cat(h, Cat(u, w))
    BY <2>1, CatAssociates
  <2> QED
    BY <2>1, <2>2 DEF u, w
<1> QED
  BY <1>2, <1>3 DEF Flow

\* More to be sent.
LEMMA FlowGrows ==
  ASSUME NEW h \in Seq(Byte), NEW r \in Seq(Byte), NEW p \in Seq(Byte), NEW q \in Seq(Byte),
         NEW s \in Seq(Byte)
  PROVE  Flow(h, r, p, Cat(q, s)) = Cat(Flow(h, r, p, q), s)
<1>1. Cat(h, r) \in Seq(Byte) /\ Cat(p, q) \in Seq(Byte)
  BY CatType
<1>2. Cat(p, Cat(q, s)) = Cat(Cat(p, q), s)
  BY CatAssociates
<1>3. Cat(Cat(h, r), Cat(Cat(p, q), s)) = Cat(Cat(Cat(h, r), Cat(p, q)), s)
  BY <1>1, CatAssociates
<1> QED
  BY <1>2, <1>3 DEF Flow

\* The byte in the port is dropped.
LEMMA FlowDrops ==
  ASSUME NEW h \in Seq(Byte), NEW r \in Seq(Byte), NEW b \in Byte, NEW q \in Seq(Byte)
  PROVE  LET f == Flow(h, r, <<b>>, q)
             g == Flow(h, r, <<>>, q)
         IN Without(g, f, Len(f), Len(h) + Len(r) + 1, b)
<1> DEFINE f == Flow(h, r, <<b>>, q)
           g == Flow(h, r, <<>>, q)
           k == Len(h) + Len(r) + 1
           x == Cat(h, r)
           y == Cat(<<b>>, q)
<1>1. x \in Seq(Byte) /\ Len(x) = Len(h) + Len(r) /\ Len(h) \in Nat /\ Len(r) \in Nat /\ Len(q) \in Nat
  BY CatType
<1>2. <<b>> \in Seq(Byte) /\ Len(<<b>>) = 1 /\ <<b>>[1] = b
  BY CatByte, CatEmpty
<1>3. /\ y \in Seq(Byte) /\ Len(y) = Len(q) + 1
      /\ \A i \in 1 .. 1 + Len(q) : y[i] = IF i <= 1 THEN <<b>>[i] ELSE q[i - 1]
  <2> DEFINE u == <<b>>
  <2>1. u \in Seq(Byte) /\ Len(u) = 1
    BY <1>2
  <2> HIDE DEF u
  <2>2. /\ Cat(u, q) \in Seq(Byte) /\ Len(Cat(u, q)) = Len(u) + Len(q)
        /\ \A i \in 1 .. Len(u) + Len(q) : Cat(u, q)[i] = IF i <= Len(u) THEN u[i] ELSE q[i - Len(u)]
    BY <2>1, CatType
  <2> QED
    BY <1>1, <2>1, <2>2 DEF u
<1>4. f = Cat(x, y) /\ g = Cat(x, q)
  BY CatEmpty DEF Flow
<1> HIDE DEF x, y, f, g, k
<1>5. /\ Len(f) = Len(x) + Len(y) /\ Len(g) = Len(x) + Len(q)
      /\ \A i \in 1 .. Len(x) + Len(y) : f[i] = IF i <= Len(x) THEN x[i] ELSE y[i - Len(x)]
      /\ \A i \in 1 .. Len(x) + Len(q) : g[i] = IF i <= Len(x) THEN x[i] ELSE q[i - Len(x)]
  BY <1>1, <1>3, <1>4, CatType
<1>6. k = Len(x) + 1 /\ Len(x) \in Nat
  BY <1>1 DEF k
<1>7. k \in 1 .. Len(f) /\ f[k] = b
  <2>1. /\ k \in 1 .. Len(x) + Len(y) /\ ~(k <= Len(x)) /\ k - Len(x) = 1 /\ k \in 1 .. Len(f)
        /\ 1 \in 1 .. 1 + Len(q)
    BY <1>1, <1>3, <1>5, <1>6
  <2>2. f[k] = y[1]
    BY <1>5, <2>1
  <2>3. y[1] = b
    BY <1>2, <1>3, <2>1
  <2> QED
    BY <2>1, <2>2, <2>3
<1>8. ASSUME NEW i \in 1 .. Len(f) - 1
      PROVE  g[i] = IF i < k THEN f[i] ELSE f[i + 1]
  <2>0. i \in 1 .. Len(x) + Len(q) /\ i \in 1 .. Len(x) + Len(y) /\ i + 1 \in 1 .. Len(x) + Len(y)
    BY <1>1, <1>3, <1>5, <1>6
  <2>1. CASE i <= Len(x)
    <3>1. i < k
      BY <1>6, <2>1
    <3> QED
      BY <1>5, <2>0, <2>1, <3>1
  <2>2. CASE i > Len(x)
    <3>1. /\ (i + 1) - Len(x) \in 1 .. 1 + Len(q) /\ ((i + 1) - Len(x)) - 1 = i - Len(x)
          /\ ~((i + 1) - Len(x) <= 1) /\ ~(i + 1 <= Len(x)) /\ ~(i <= Len(x)) /\ ~(i < k)
      BY <1>1, <1>3, <1>5, <1>6, <2>2
    <3>2. g[i] = q[i - Len(x)]
      BY <1>5, <2>0, <3>1
    <3>3. f[i + 1] = y[(i + 1) - Len(x)]
      BY <1>5, <2>0, <3>1
    <3>4. y[(i + 1) - Len(x)] = q[i - Len(x)]
      BY <1>3, <3>1
    <3> QED
      BY <3>1, <3>2, <3>3, <3>4
  <2> QED
    BY <1>6, <2>1, <2>2
<1>9. Len(g) = Len(f) - 1
  BY <1>1, <1>3, <1>5, <1>6
<1> QED
  <2>1. Without(g, f, Len(f), k, b)
    BY <1>7, <1>8, <1>9 DEF Without
  <2> QED
    BY <2>1 DEF f, g, k

\* The ring as a sequence, when a byte goes in at its head or out at its tail.
LEMMA RingType ==
  ASSUME NEW b \in [0 .. BufLength - 1 -> Byte], NEW t \in 0 .. BufLength - 1,
         NEW c \in 0 .. BufLength
  PROVE  RingSeq(b, t, c) \in Seq(Byte) /\ Len(RingSeq(b, t, c)) = c
<1>1. \A i \in 1 .. c : b[IF t + i - 1 < BufLength THEN t + i - 1 ELSE t + i - 1 - BufLength] \in Byte
  BY BufAssumption
<1> QED
  BY <1>1, BufAssumption DEF RingSeq

LEMMA RingGrows ==
  ASSUME NEW b \in [0 .. BufLength - 1 -> Byte], NEW t \in 0 .. BufLength - 1,
         NEW c \in 0 .. BufLength - 1, NEW v \in Byte,
         NEW h \in 0 .. BufLength - 1, h \in {t + c, t + c - BufLength}
  PROVE  RingSeq([b EXCEPT ![h] = v], t, c + 1) = Append(RingSeq(b, t, c), v)
<1> DEFINE d == [b EXCEPT ![h] = v]
           r == RingSeq(b, t, c)
           s == RingSeq(d, t, c + 1)
<1>1. d \in [0 .. BufLength - 1 -> Byte] /\ c + 1 \in 0 .. BufLength /\ c \in 0 .. BufLength
  BY BufAssumption
<1>2. r \in Seq(Byte) /\ Len(r) = c /\ s \in Seq(Byte) /\ Len(s) = c + 1
  BY <1>1, RingType
<1>3. /\ Append(r, v) \in Seq(Byte) /\ Len(Append(r, v)) = c + 1
      /\ \A i \in 1 .. c : Append(r, v)[i] = r[i]
      /\ Append(r, v)[c + 1] = v
  BY <1>2, AppendProperties
<1>4. ASSUME NEW i \in 1 .. c + 1 PROVE s[i] = Append(r, v)[i]
  <2> DEFINE j == IF t + i - 1 < BufLength THEN t + i - 1 ELSE t + i - 1 - BufLength
  <2>1. s[i] = d[j] /\ j \in 0 .. BufLength - 1
    BY <1>1, BufAssumption DEF RingSeq
  <2>2. CASE i = c + 1
    <3>1. j = h
      BY <1>1, <2>2, BufAssumption
    <3> QED
      BY <1>3, <2>1, <2>2, <3>1
  <2>3. CASE i # c + 1
    <3>1. i \in 1 .. c /\ j # h
      BY <1>1, <2>3, BufAssumption
    <3>2. r[i] = b[j]
      BY <3>1 DEF RingSeq
    <3> QED
      BY <1>3, <2>1, <3>1, <3>2
  <2> QED
    BY <2>2, <2>3
<1> HIDE DEF r, s
<1> QED
  BY <1>2, <1>3, <1>4, SeqEqual DEF r, s

LEMMA RingShrinks ==
  ASSUME NEW b \in [0 .. BufLength - 1 -> Byte], NEW t \in 0 .. BufLength - 1,
         NEW c \in 1 .. BufLength
  PROVE  /\ RingSeq(b, t, c) # <<>> /\ Head(RingSeq(b, t, c)) = b[t]
         /\ Tail(RingSeq(b, t, c)) = RingSeq(b, Wrap(t), c - 1)
<1> DEFINE r == RingSeq(b, t, c)
           w == Wrap(t)
           s == RingSeq(b, w, c - 1)
<1>1. w \in 0 .. BufLength - 1 /\ w \in {t + 1, t + 1 - BufLength}
  BY WrapInRange
<1>2. c \in 0 .. BufLength /\ c - 1 \in 0 .. BufLength
  BY BufAssumption
<1>3. r \in Seq(Byte) /\ Len(r) = c /\ s \in Seq(Byte) /\ Len(s) = c - 1
  BY <1>1, <1>2, RingType
<1>4. r[1] = b[t]
  BY BufAssumption DEF RingSeq
<1>5. ASSUME NEW i \in 1 .. c - 1 PROVE r[i + 1] = s[i]
  <2>1. i + 1 \in 1 .. c
    BY <1>2
  <2>2. r[i + 1] = b[IF t + (i + 1) - 1 < BufLength THEN t + (i + 1) - 1 ELSE t + (i + 1) - 1 - BufLength]
    BY <2>1 DEF RingSeq
  <2>3. s[i] = b[IF w + i - 1 < BufLength THEN w + i - 1 ELSE w + i - 1 - BufLength]
    BY DEF RingSeq
  <2>4. (IF t + (i + 1) - 1 < BufLength THEN t + (i + 1) - 1 ELSE t + (i + 1) - 1 - BufLength)
          = (IF w + i - 1 < BufLength THEN w + i - 1 ELSE w + i - 1 - BufLength)
    <3> HIDE DEF w
    <3> QED
      BY <1>1, <1>2, <2>1, BufAssumption
  <2> QED
    BY <2>2, <2>3, <2>4
<1> HIDE DEF r, s
<1>6. r # <<>> /\ Head(r) = r[1]
  BY <1>3
<1>7. Tail(r) \in Seq(Byte) /\ Len(Tail(r)) = c - 1 /\ \A i \in 1 .. c - 1 : Tail(r)[i] = r[i + 1]
  BY <1>3, <1>6, HeadTailProperties
<1>8. Tail(r) = s
  BY <1>3, <1>5, <1>7, SeqEqual
<1> QED
  BY <1>4, <1>6, <1>8 DEF r, s

--------------------------------------------------------------------------------
(* The bytes in hand are the beginning of one code.                           *)

TakenAs(h, st, ev, off) ==
  \A i \in 1 .. Len(h) :
    ev[i] = ev[1] /\ off[i] = i /\ (i < Len(Code(ev[1])) => st[i] = st[0])

LEMMA HandBegins ==
  ASSUME NEW b, NEW n, NEW ex, NEW done, NEW st, NEW ev, NEW off,
         Spells(b, n, ex, done, st, ev, off),
         NEW h \in Seq(Byte), h # <<>>, Holds(h, b, n), TakenAs(h, st, ev, off)
  PROVE  /\ n \in Nat /\ Len(h) \in 1 .. n /\ ev[1] \in Events /\ Begins(h, Code(ev[1]))
         /\ Ends(ev, off, Len(h)) <=> Len(h) = Len(Code(ev[1]))
<1>1. n \in Nat /\ Len(h) \in 1 .. n
  <2>1. Len(h) \in Nat /\ Len(h) >= 1
    OBVIOUS
  <2>2. n \in Nat
    BY DEF Spells, SpellTypes
  <2> QED
    BY <2>1, <2>2 DEF Holds
<1>2. ev[1] \in Events
  BY <1>1 DEF Spells, SpellTypes
<1>3. \A i \in 1 .. Len(h) : i \in 1 .. n /\ ev[i] = ev[1] /\ off[i] = i
  BY <1>1 DEF TakenAs
<1>4. \A i \in 1 .. Len(h) : b[i] = Code(ev[1])[i]
  <2> SUFFICES ASSUME NEW i \in 1 .. Len(h) PROVE b[i] = Code(ev[1])[i]
    OBVIOUS
  <2>1. b[i] = Code(ev[i])[off[i]]
    BY <1>3 DEF Spells
  <2> QED
    BY <1>3, <2>1
<1>5. Len(h) <= Len(Code(ev[1]))
  <2>1. off[Len(h)] <= Len(Code(ev[Len(h)]))
    BY <1>1 DEF Spells, Joins
  <2> QED
    BY <1>1, <1>3, <2>1
<1>6. Begins(h, Code(ev[1]))
  BY <1>4, <1>5 DEF Holds, Begins
<1>7. Ends(ev, off, Len(h)) <=> Len(h) = Len(Code(ev[1]))
  BY <1>1, <1>3 DEF Ends
<1> QED
  BY <1>1, <1>2, <1>6, <1>7

\* All of the code taken: what is known then follows from what is known now.
LEMMA HandWhole ==
  ASSUME NEW b, NEW n, NEW ex, NEW done, NEW st, NEW ev, NEW off,
         Spells(b, n, ex, done, st, ev, off),
         NEW h \in Seq(Byte), h # <<>>, Holds(h, b, n), TakenAs(h, st, ev, off),
         Len(h) = Len(Code(ev[1]))
  PROVE  /\ Len(h) \in 1 .. n /\ ev[1] \in Events /\ Begins(h, Code(ev[1])) /\ ev[Len(h)] = ev[1]
         /\ Ends(ev, off, Len(h)) /\ st[Len(h)] = After(ev[1], st[0])
<1> DEFINE l == Len(h)
<1>1. n \in Nat /\ l \in 1 .. n /\ ev[1] \in Events /\ Begins(h, Code(ev[1])) /\ Ends(ev, off, l)
  BY HandBegins
<1>2. ev[l] = ev[1]
  BY <1>1 DEF TakenAs
<1>3. st[l] = After(ev[1], st[l - 1])
  <2>1. st[l] = IF Ends(ev, off, l) THEN After(ev[l], st[l - 1]) ELSE st[l - 1]
    BY <1>1 DEF Spells
  <2> QED
    BY <1>1, <1>2, <2>1
<1>4. st[l - 1] = st[0]
  <2>1. CASE l = 1
    BY <2>1
  <2>2. CASE l # 1
    <3>0. l \in Nat /\ l >= 1 /\ Len(Code(ev[1])) = l
      BY <1>1
    <3> HIDE DEF l
    <3>1. l - 1 \in 1 .. l /\ l - 1 < l
      BY <2>2, <3>0
    <3>2. l - 1 \in 1 .. Len(h) /\ l - 1 < Len(Code(ev[1]))
      BY <3>0, <3>1 DEF l
    <3> USE DEF l
    <3> QED
      BY <3>2 DEF TakenAs
  <2> QED
    BY <2>1, <2>2
<1> QED
  BY <1>1, <1>2, <1>3, <1>4

\* One more byte of it.
LEMMA HandMore ==
  ASSUME NEW b, NEW n, NEW ex, NEW done, NEW st, NEW ev, NEW off,
         Spells(b, n, ex, done, st, ev, off),
         NEW h \in Seq(Byte), Holds(h, b, n), TakenAs(h, st, ev, off),
         h = <<>> \/ Unfinished(h), Len(h) + 1 <= n, NEW v \in Byte
  PROVE  TakenAs(Append(h, v), st, ev, off)
<1> DEFINE l == Len(h)
           m == l + 1
<1>0. n \in Nat /\ l \in Nat /\ m \in 1 .. n /\ Len(Append(h, v)) = m
  <2>1. n \in Nat
    BY DEF Spells, SpellTypes
  <2> QED
    BY <2>1
<1>1. /\ off[m] \in 1 .. 6 /\ off[m] <= Len(Code(ev[m]))
      /\ off[m] # 1 => m > 1 /\ ev[m - 1] = ev[m] /\ off[m - 1] = off[m] - 1
      /\ off[m] = 1 /\ m > 1 => Ends(ev, off, m - 1)
  BY <1>0 DEF Spells, SpellTypes, Joins
<1>2. st[m] = IF Ends(ev, off, m) THEN After(ev[m], st[m - 1]) ELSE st[m - 1]
  BY <1>0 DEF Spells
<1>3. CASE h = <<>>
  <2>1. m = 1
    BY <1>3
  <2>2. off[1] = 1
    BY <1>1, <2>1
  <2>3. 1 < Len(Code(ev[1])) => st[1] = st[0]
    BY <1>2, <2>1, <2>2 DEF Ends
  <2> QED
    BY <1>0, <2>1, <2>2, <2>3 DEF TakenAs
<1>4. CASE h # <<>>
  <2>1. l \in 1 .. n /\ ev[1] \in Events /\ Begins(h, Code(ev[1])) /\ Ends(ev, off, l) <=> l = Len(Code(ev[1]))
    BY <1>4, HandBegins
  <2>2. l >= 1 /\ Unfinished(h)
    BY <1>0, <1>4
  <2>3. ~Ends(ev, off, l) /\ l < Len(Code(ev[1]))
    <3>1. ev[1] \in Events /\ Begins(h, Code(ev[1]))
      BY <1>4, HandBegins
    <3>2. l < Len(Code(ev[1]))
      BY <2>2, <3>1, EndIsSeen
    <3>3. Ends(ev, off, l) <=> l = Len(Code(ev[1]))
      BY <1>4, HandBegins
    <3> QED
      BY <1>0, <3>2, <3>3
  <2>4. ev[l] = ev[1] /\ off[l] = l /\ st[l] = st[0]
    BY <1>0, <2>2, <2>3 DEF TakenAs
  <2>5. m - 1 = l /\ m > 1
    BY <1>0, <2>2
  <2>6. off[m] # 1
    BY <1>1, <2>3, <2>5
  <2>7. ev[m] = ev[1] /\ off[m] = m
    BY <1>0, <1>1, <2>4, <2>5, <2>6
  <2>8. m < Len(Code(ev[1])) => st[m] = st[0]
    BY <1>2, <2>4, <2>5, <2>7 DEF Ends
  <2>9. ASSUME NEW i \in 1 .. m
        PROVE  ev[i] = ev[1] /\ off[i] = i /\ (i < Len(Code(ev[1])) => st[i] = st[0])
    <3>1. CASE i = m
      BY <2>7, <2>8, <3>1
    <3>2. CASE i # m
      <4>1. i \in 1 .. Len(h)
        BY <1>0, <3>2
      <4> QED
        BY <4>1 DEF TakenAs
    <3> QED
      BY <3>1, <3>2
  <2> QED
    BY <1>0, <2>9 DEF TakenAs
<1> QED
  BY <1>3, <1>4

--------------------------------------------------------------------------------
(* The bytes on their way spell what read_keyboard has yet to learn.          *)

Parsing == pc \in {"get", "take", "count", "decode"}
Storing == pc \in {"store", "led", "ack", "value", "ack value"}

Hand == IF Parsing THEN seen ELSE <<>>
InRing == IF pc = "count" THEN count - 1 ELSE count
Ring == RingSeq(buf, tail, InRing)
Port == IF full THEN <<port>> ELSE <<>>
Bytes == Flow(Hand, Ring, Port, queue)

\* What read_keyboard knows, and what it will know when all is read.
Now(done) == [mods |-> mods, locks |-> locks, made |-> IF Storing THEN done + 1 ELSE done]
Final(done) ==
  [mods |-> held \cap Modifiers, locks |-> toggled, made |-> done + Len(expected)]

HandOK(st, ev, off) ==
  /\ TakenAs(Hand, st, ev, off)
  /\ pc = "decode" => Len(Hand) = Len(Code(ev[1])) /\ ~Skipped(ev[1])

Explains(done, st, ev, off) ==
  /\ Spells(Bytes, Len(Bytes), expected, done, st, ev, off)
  /\ st[0] = Now(done) /\ st[Len(Bytes)] = Final(done)
  /\ HandOK(st, ev, off)

Faithful == \E done, st, ev, off : Explains(done, st, ev, off)

\* The key being stored is the first of those expected.
Match == Storing => expected # <<>> /\ key = Head(expected)

KeyInv == ~lost => Faithful /\ Match

LEMMA Parts ==
  ASSUME Typed, IInv
  PROVE  /\ Hand \in Seq(Byte) /\ Ring \in Seq(Byte) /\ Port \in Seq(Byte) /\ queue \in Seq(Byte)
         /\ InRing \in 0 .. BufLength /\ Len(Ring) = InRing
         /\ Bytes \in Seq(Byte) /\ Len(Bytes) \in Nat /\ Len(Hand) \in Nat
         /\ Len(Bytes) = Len(Hand) + Len(Ring) + Len(Port) + Len(queue)
         /\ Holds(Hand, Bytes, Len(Bytes))
<1>1. Hand \in Seq(Byte)
  <2>1. seen \in Seq(Byte) /\ <<>> \in Seq(Byte)
    <3>1. seen \in Seq(Byte)
      BY DEF Typed, TypeOK
    <3> QED
      BY <3>1, CatEmpty
  <2> QED
    BY <2>1 DEF Hand
<1>2. InRing \in 0 .. BufLength
  BY BufAssumption DEF InRing, IInv, RingTypeOK, Exclusive
<1>3. Ring \in Seq(Byte) /\ Len(Ring) = InRing
  <2>1. buf \in [0 .. BufLength - 1 -> Byte] /\ tail \in 0 .. BufLength - 1
    <3>1. buf \in [0 .. BufLength - 1 -> Byte]
      BY Zenon DEF Typed, TypeOK
    <3>2. tail \in 0 .. BufLength - 1
      BY DEF IInv, RingTypeOK
    <3> QED
      BY <3>1, <3>2
  <2> QED
    BY <1>2, <2>1, RingType DEF Ring
<1>4. Port \in Seq(Byte)
  <2>1. port \in Byte
    BY DEF Typed, TypeOK
  <2>2. <<port>> \in Seq(Byte) /\ <<>> \in Seq(Byte)
    BY <2>1
  <2> QED
    BY <2>2 DEF Port
<1>5. queue \in Seq(Byte)
  BY DEF Typed, TypeOK
<1>6. Bytes \in Seq(Byte)
  BY <1>1, <1>3, <1>4, <1>5, FlowType DEF Bytes
<1>7. /\ Len(Hand) \in Nat /\ Len(Ring) \in Nat /\ Len(Port) \in Nat /\ Len(queue) \in Nat
      /\ Len(Bytes) = Len(Hand) + Len(Ring) + Len(Port) + Len(queue)
      /\ Holds(Hand, Bytes, Len(Bytes))
  <2> DEFINE f == Flow(Hand, Ring, Port, queue)
  <2>1. /\ Len(Hand) \in Nat /\ Len(Ring) \in Nat /\ Len(Port) \in Nat /\ Len(queue) \in Nat
        /\ Len(f) = Len(Hand) + Len(Ring) + Len(Port) + Len(queue)
        /\ Holds(Hand, f, Len(f))
    <3> DEFINE h == Hand
               r == Ring
               p == Port
    <3>1. h \in Seq(Byte) /\ r \in Seq(Byte) /\ p \in Seq(Byte) /\ queue \in Seq(Byte)
      BY <1>1, <1>3, <1>4, <1>5
    <3> HIDE DEF h, r, p
    <3>2. Len(h) \in Nat /\ Len(r) \in Nat /\ Len(p) \in Nat /\ Len(queue) \in Nat
      BY <3>1, FlowHand
    <3>3. Len(Flow(h, r, p, queue)) = Len(h) + Len(r) + Len(p) + Len(queue)
      BY <3>1, FlowHand
    <3>4. Holds(h, Flow(h, r, p, queue), Len(Flow(h, r, p, queue)))
      BY <3>1, FlowHand
    <3> QED
      BY <3>2, <3>3, <3>4 DEF h, r, p
  <2> HIDE DEF f
  <2>2. Bytes = f
    BY DEF Bytes, f
  <2> QED
    BY <2>1, <2>2
<1>8. Len(Bytes) \in Nat
  BY <1>7
<1> QED
  BY <1>1, <1>2, <1>3, <1>4, <1>5, <1>6, <1>7, <1>8

\* Nothing has been typed yet.
LEMMA InitFaithful == Init => KeyInv
<1> SUFFICES ASSUME Init PROVE Faithful /\ Match
  BY DEF KeyInv
<1>1. Match
  BY DEF Init, Match, Storing
<1> DEFINE st == [i \in 0 .. 0 |-> Final(0)]
           ev == [i \in 1 .. 0 |-> [act |-> "ack", key |-> "none"]]
           off == [i \in 1 .. 0 |-> 1]
<1>2. Hand = <<>> /\ Port = <<>> /\ queue = <<>> /\ Ring = <<>>
  <2>1. Hand = <<>> /\ Port = <<>> /\ queue = <<>>
    BY DEF Init, Hand, Parsing, Port
  <2>2. Ring = <<>>
    BY DEF Init, Ring, InRing, RingSeq
  <2> QED
    BY <2>1, <2>2
<1>3. Bytes = <<>>
  <2>1. Cat(<<>>, <<>>) = <<>>
    BY DEF Cat
  <2> QED
    BY <1>2, <2>1 DEF Bytes, Flow
<1>4. /\ Final(0) = [mods |-> {}, locks |-> {"NUM_LOCK"}, made |-> 0]
      /\ Now(0) = [mods |-> {}, locks |-> {"NUM_LOCK"}, made |-> 0]
  <2>1. held \cap Modifiers = {} /\ toggled = {"NUM_LOCK"} /\ Len(expected) = 0 /\ mods = {} /\ locks = {"NUM_LOCK"}
    BY DEF Init
  <2>2. ~Storing
    BY DEF Init, Storing
  <2>3. (IF Storing THEN 0 + 1 ELSE 0) = 0 /\ 0 + Len(expected) = 0
    BY <2>1, <2>2
  <2> QED
    BY <2>1, <2>3 DEF Final, Now
<1>5. Spells(Bytes, 0, expected, 0, st, ev, off)
  <2>1. Final(0) \in State
    BY <1>4 DEF State, Locks
  <2>2. SpellTypes(0, 0, st, ev, off)
    BY <2>1 DEF SpellTypes
  <2>3. \A i, j \in 0 .. 0 : i <= j => st[i].made <= st[j].made
    BY <1>4
  <2> QED
    BY <2>2, <2>3 DEF Spells
<1>6. HandOK(st, ev, off)
  BY <1>2 DEF HandOK, TakenAs, Init
<1>7. Explains(0, st, ev, off)
  <2>1. Len(Bytes) = 0
    BY <1>3
  <2>2. st[0] = Final(0)
    OBVIOUS
  <2> HIDE DEF st, ev, off
  <2> QED
    BY <1>4, <1>5, <1>6, <2>1, <2>2 DEF Explains
<1> QED
  BY <1>1, <1>7 DEF Faithful

\* A step that moves no byte out of read_keyboard's hand and adds none.
LEMMA SameBytes ==
  ASSUME Faithful, Bytes' = Bytes, Hand' = Hand, UNCHANGED <<expected, mods, locks, toggled>>,
         held' \cap Modifiers = held \cap Modifiers, Storing' <=> Storing,
         pc' = "decode" => pc = "decode"
  PROVE  Faithful'
<1>1. PICK done, st, ev, off : Explains(done, st, ev, off)
  BY DEF Faithful
<1>2. Now(done)' = Now(done) /\ Final(done)' = Final(done)
  BY DEF Now, Final
<1>3. HandOK(st, ev, off)'
  BY <1>1 DEF Explains, HandOK
<1>4. Explains(done, st, ev, off)'
  BY <1>1, <1>2, <1>3 DEF Explains
<1> QED
  BY <1>4 DEF Faithful

\* What is in hand is told the same way by histories that agree on it.
LEMMA TakenAsToo ==
  ASSUME NEW h \in Seq(Byte), NEW st, NEW ev, NEW off, TakenAs(h, st, ev, off),
         NEW st2, NEW ev2, NEW off2, NEW m \in Nat, Len(h) <= m, st2[0] = st[0],
         \A i \in 1 .. m : st2[i] = st[i] /\ ev2[i] = ev[i] /\ off2[i] = off[i]
  PROVE  /\ TakenAs(h, st2, ev2, off2)
         /\ h # <<>> => ev2[1] = ev[1]
<1>1. h # <<>> => 1 \in 1 .. m
  OBVIOUS
<1>2. Len(h) \in Nat /\ (Len(h) >= 1 => h # <<>>)
  OBVIOUS
<1>3. \A i \in 1 .. Len(h) : i \in 1 .. m /\ h # <<>>
  BY <1>2
<1> QED
  BY <1>1, <1>3 DEF TakenAs

\* The byte in the port is an acknowledgement and is dropped.
LEMMA DropsAck ==
  ASSUME Typed, IInv, Faithful, full, port = Ack, full' = FALSE, Hand' = Hand, Ring' = Ring,
         UNCHANGED <<queue, expected, mods, locks, toggled, held>>, Storing' <=> Storing,
         pc' = "decode" => pc = "decode"
  PROVE  Faithful'
<1>1. PICK done, st, ev, off : Explains(done, st, ev, off)
  BY DEF Faithful
<1> DEFINE n == Len(Bytes)
           k == Len(Hand) + Len(Ring) + 1
<1>2. Without(Bytes', Bytes, n, k, Ack)
  <2>1. Hand \in Seq(Byte) /\ Ring \in Seq(Byte) /\ queue \in Seq(Byte)
    BY Parts
  <2>2. port \in Byte
    BY DEF Typed, TypeOK
  <2>3. Bytes = Flow(Hand, Ring, <<port>>, queue)
    BY DEF Bytes, Port
  <2>4. Bytes' = Flow(Hand, Ring, <<>>, queue)
    BY DEF Bytes, Port
  <2> DEFINE h == Hand
             r == Ring
  <2>5. h \in Seq(Byte) /\ r \in Seq(Byte)
    BY <2>1
  <2> HIDE DEF h, r
  <2>6. LET f == Flow(h, r, <<port>>, queue)
            g == Flow(h, r, <<>>, queue)
        IN Without(g, f, Len(f), Len(h) + Len(r) + 1, port)
    BY <2>1, <2>2, <2>5, FlowDrops
  <2> QED
    BY <2>3, <2>4, <2>6 DEF h, r
<1>3. k \in 1 .. n /\ Len(Hand) \in Nat /\ Len(Hand) <= k - 1 /\ k - 1 \in Nat
  <2>1. k \in 1 .. n
    BY <1>2 DEF Without
  <2>2. Len(Hand) \in Nat /\ Len(Ring) \in Nat
    BY Parts
  <2> QED
    BY <2>1, <2>2
<1>4. Len(Bytes') = n - 1 /\ Bytes[k] = Ack
  BY <1>2 DEF Without
<1>5. PICK st2, ev2, off2 :
        /\ Spells(Bytes', n - 1, expected, done, st2, ev2, off2)
        /\ st2[0] = st[0] /\ st2[n - 1] = st[n]
        /\ \A i \in 1 .. k - 1 : st2[i] = st[i] /\ ev2[i] = ev[i] /\ off2[i] = off[i]
  <2>1. Spells(Bytes, n, expected, done, st, ev, off)
    BY <1>1 DEF Explains
  <2>2. \A i \in 1 .. n - 1 : (Bytes')[i] = IF i < k THEN Bytes[i] ELSE Bytes[i + 1]
    BY <1>2 DEF Without
  <2> HIDE DEF n, k
  <2> QED
    BY <1>3, <1>4, <2>1, <2>2, SpellWithout
<1>6. HandOK(st2, ev2, off2)'
  <2>1. TakenAs(Hand, st, ev, off) /\ Hand \in Seq(Byte)
    BY <1>1, Parts DEF Explains, HandOK
  <2> HIDE DEF k
  <2>2. TakenAs(Hand, st2, ev2, off2) /\ (Hand # <<>> => ev2[1] = ev[1])
    BY <1>3, <1>5, <2>1, TakenAsToo
  <2>3. pc = "decode" => Hand # <<>>
    BY DEF Typed, TakenOK, Hand, Parsing
  <2>4. pc = "decode" => Len(Hand) = Len(Code(ev[1])) /\ ~Skipped(ev[1])
    BY <1>1 DEF Explains, HandOK
  <2> QED
    BY <2>2, <2>3, <2>4 DEF HandOK
<1>7. Now(done)' = Now(done) /\ Final(done)' = Final(done)
  BY DEF Now, Final
<1>8. Explains(done, st2, ev2, off2)'
  <2>1. st[0] = Now(done) /\ st[n] = Final(done)
    BY <1>1 DEF Explains
  <2> HIDE DEF n
  <2> QED
    BY <1>4, <1>5, <1>6, <1>7, <2>1 DEF Explains
<1> QED
  BY <1>8 DEF Faithful

\* What the user makes of e is what read_keyboard will make of it.
Foretells(e) ==
  \A done \in Int :
            /\ After(e, Final(done)) = Final(done)'
            /\ NextStroke(expected', done, e, After(e, Final(done)))

\* The keyboard is to send another code.
LEMMA Grows ==
  ASSUME Typed, IInv, Faithful, NEW e \in Events, Code(e) # <<>>,
         queue' = queue \o Code(e), Hand' = Hand, Ring' = Ring, Port' = Port,
         UNCHANGED <<mods, locks>>, Storing' <=> Storing, pc' = "decode" => pc = "decode",
         Prolongs(expected, expected'), Foretells(e)
  PROVE  Faithful'
<1>1. PICK done, st, ev, off : Explains(done, st, ev, off)
  BY DEF Faithful
<1> DEFINE n == Len(Bytes)
           l == Len(Code(e))
<1>2. Bytes' = Bytes \o Code(e) /\ Code(e) \in Seq(Byte) /\ l \in 1 .. 6
  <2>1. Hand \in Seq(Byte) /\ Ring \in Seq(Byte) /\ Port \in Seq(Byte) /\ queue \in Seq(Byte)
    BY Parts
  <2>2. Code(e) \in Seq(Byte) /\ l \in 0 .. 6
    BY CodeType
  <2>3. l # 0
    BY <2>2
  <2> DEFINE h == Hand
             r == Ring
             p == Port
             c == Code(e)
  <2>4. h \in Seq(Byte) /\ r \in Seq(Byte) /\ p \in Seq(Byte) /\ c \in Seq(Byte)
    BY <2>1, <2>2
  <2> HIDE DEF h, r, p, c
  <2>5. Flow(h, r, p, Cat(queue, c)) = Cat(Flow(h, r, p, queue), c)
    BY <2>1, <2>4, FlowGrows
  <2>6. Flow(h, r, p, queue \o c) = Flow(h, r, p, queue) \o c
    BY <2>5 DEF Cat
  <2>7. Bytes' = Bytes \o Code(e)
    BY <2>6 DEF Bytes, h, r, p, c
  <2> QED
    BY <2>2, <2>3, <2>7
<1>3. Behind(Bytes, Bytes', n, e, l) /\ Len(Bytes') = n + l /\ n \in Nat
  <2>1. Bytes \in Seq(Byte)
    BY Parts
  <2> DEFINE x == Bytes
             y == Code(e)
  <2>2. x \in Seq(Byte) /\ y \in Seq(Byte) /\ Bytes' = Cat(x, y)
    BY <1>2, <2>1 DEF Cat
  <2> HIDE DEF x, y
  <2>3. /\ Len(x) \in Nat /\ Len(y) \in Nat /\ Len(Bytes') = Len(x) + Len(y)
        /\ \A i \in 1 .. Len(x) + Len(y) : (Bytes')[i] = IF i <= Len(x) THEN x[i] ELSE y[i - Len(x)]
    BY <2>2, CatType
  <2>4. \A i \in 1 .. Len(x) : (Bytes')[i] = x[i]
    BY <2>3
  <2>5. ASSUME NEW i \in 1 .. Len(y) PROVE (Bytes')[Len(x) + i] = y[i]
    <3>1. /\ Len(x) + i \in 1 .. Len(x) + Len(y) /\ ~(Len(x) + i <= Len(x))
          /\ (Len(x) + i) - Len(x) = i
      BY <2>3
    <3> QED
      BY <2>3, <3>1
  <2> QED
    BY <2>3, <2>4, <2>5 DEF Behind, x, y
<1>4. PICK st2, ev2, off2 :
        /\ Spells(Bytes', n + l, expected', done, st2, ev2, off2)
        /\ st2[0] = st[0] /\ st2[n + l] = After(e, st[n])
        /\ \A i \in 1 .. n : st2[i] = st[i] /\ ev2[i] = ev[i] /\ off2[i] = off[i]
  <2>1. Spells(Bytes, n, expected, done, st, ev, off)
    BY <1>1 DEF Explains
  <2>2. NextStroke(expected', done, e, After(e, st[n]))
    <3>1. done \in Int /\ st[n] = Final(done)
      BY <1>1 DEF Explains, Spells, SpellTypes
    <3> QED
      BY <3>1 DEF Foretells
  <2>3. l \in 1 .. 6
    BY <1>2
  <2> DEFINE c == Bytes'
             ex2 == expected'
  <2>4. Behind(Bytes, c, n, e, l) /\ Prolongs(expected, ex2) /\ NextStroke(ex2, done, e, After(e, st[n]))
    BY <1>3, <2>2
  <2> HIDE DEF n, l, c, ex2
  <2>5. \E st2, ev2, off2 :
          /\ Spells(c, n + l, ex2, done, st2, ev2, off2)
          /\ st2[0] = st[0] /\ st2[n + l] = After(e, st[n])
          /\ \A i \in 1 .. n : st2[i] = st[i] /\ ev2[i] = ev[i] /\ off2[i] = off[i]
    BY <2>1, <2>3, <2>4, SpellMore
  <2> QED
    BY <2>5 DEF c, ex2
<1>5. HandOK(st2, ev2, off2)'
  <2>1. TakenAs(Hand, st, ev, off) /\ Hand \in Seq(Byte) /\ Len(Hand) <= n
    BY <1>1, Parts DEF Explains, HandOK, Holds
  <2> HIDE DEF n, l
  <2>2. TakenAs(Hand, st2, ev2, off2) /\ (Hand # <<>> => ev2[1] = ev[1])
    BY <1>3, <1>4, <2>1, TakenAsToo
  <2>3. pc = "decode" => Hand # <<>>
    BY DEF Typed, TakenOK, Hand, Parsing
  <2>4. pc = "decode" => Len(Hand) = Len(Code(ev[1])) /\ ~Skipped(ev[1])
    BY <1>1 DEF Explains, HandOK
  <2> QED
    BY <2>2, <2>3, <2>4 DEF HandOK
<1>6. Now(done)' = Now(done)
  BY DEF Now
<1>7. Explains(done, st2, ev2, off2)'
  <2>1. st[0] = Now(done) /\ st[n] = Final(done)
    BY <1>1 DEF Explains
  <2>2. After(e, st[n]) = Final(done)'
    <3>1. done \in Int
      BY <1>1 DEF Explains, Spells, SpellTypes
    <3> QED
      BY <2>1, <3>1 DEF Foretells
  <2> HIDE DEF n, l
  <2> QED
    BY <1>3, <1>4, <1>5, <1>6, <2>1, <2>2 DEF Explains
<1> QED
  BY <1>7 DEF Faithful

LEMMA KeyEvents ==
  ASSUME NEW k \in Keys
  PROVE  [act |-> "press", key |-> k] \in Events /\ [act |-> "release", key |-> k] \in Events
BY KeysAreKnown DEF Events

\* A key goes down.
LEMMA PressFaithful ==
  ASSUME Typed, IInv, Faithful, NEW k \in Keys, Press(k)
  PROVE  Faithful' /\ (Match => Match')
<1> DEFINE e == [act |-> "press", key |-> k]
           on == IF k \in Locks THEN Toggle(toggled, k) ELSE toggled
           skip == k \in {"PRINT", "PAUSE"}
<1>1. /\ held' = held \cup {k} /\ queue' = queue \o KeyCode(k) /\ toggled' = on
      /\ expected' = IF skip THEN expected ELSE Append(expected, Meaning(k, held', on))
      /\ UNCHANGED <<port, full, buf, tail, count, pc, seen, key, mods, locks>>
  BY DEF Press, ring, decoder
<1>2. e \in Events /\ e.act = "press" /\ e.key = k /\ Code(e) = KeyCode(k) /\ (Skipped(e) <=> skip)
  <2>1. e \in Events
    BY KeyEvents
  <2>2. e.act = "press" /\ e.key = k
    OBVIOUS
  <2> HIDE DEF e
  <2> QED
    BY <2>1, <2>2 DEF Code, Skipped
<1> HIDE DEF e, on
<1>3. Code(e) # <<>>
  <2>1. CASE Skipped(e)
    <3>1. k \in {"PRINT", "PAUSE"}
      BY <1>2, <2>1
    <3>2. KeyCode(k) \in Special
      BY <3>1 DEF Special
    <3>3. \A t \in Special : t # <<>>
      BY SpecialFacts
    <3> QED
      BY <1>2, <3>2, <3>3
  <2>2. CASE ~Skipped(e)
    BY <1>2, <2>2, CodeIs
  <2> QED
    BY <2>1, <2>2
<1>4. expected \in Seq(Strokes) /\ Len(expected) \in Nat
  BY DEF Typed
<1>5. /\ Prolongs(expected, expected')
      /\ skip => expected' = expected
      /\ ~skip => /\ Len(expected') = Len(expected) + 1
                  /\ expected'[Len(expected) + 1] = Meaning(k, held', toggled')
  <2> DEFINE v == Meaning(k, held', on)
  <2>1. CASE skip
    BY <1>1, <1>4, <2>1 DEF Prolongs
  <2>2. CASE ~skip
    <3>1. expected' = Append(expected, v)
      BY <1>1, <2>2
    <3> HIDE DEF v
    <3>2. /\ Len(expected') = Len(expected) + 1
          /\ expected'[Len(expected) + 1] = v
          /\ \A i \in 1 .. Len(expected) : expected'[i] = expected[i]
      BY <1>4, <3>1
    <3>3. Prolongs(expected, expected')
      BY <1>4, <3>2 DEF Prolongs
    <3>4. v = Meaning(k, held', toggled')
      BY <1>1 DEF v
    <3> QED
      BY <2>2, <3>2, <3>3, <3>4
  <2> QED
    BY <2>1, <2>2
<1>6. ASSUME NEW done \in Int
      PROVE  /\ After(e, Final(done)) = Final(done)'
             /\ NextStroke(expected', done, e, After(e, Final(done)))
  <2> DEFINE a == After(e, Final(done))
             length == Len(expected)
  <2>0. length \in Nat /\ Len(expected') = IF skip THEN length ELSE length + 1
    BY <1>4, <1>5
  <2>1. a.mods = held' \cap Modifiers
    <3>1. held' \cap Modifiers = (held \cap Modifiers) \cup ({k} \cap Modifiers)
      BY <1>1
    <3> QED
      BY <1>2, <3>1 DEF After, Final
  <2>2. a.locks = toggled'
    BY <1>1, <1>2 DEF After, Final, on
  <2>3. a.made = IF skip THEN done + length ELSE (done + length) + 1
    BY <1>2 DEF After, Final
  <2>4. a = [mods |-> a.mods, locks |-> a.locks, made |-> a.made]
    BY DEF After
  <2> HIDE DEF a, length
  <2>5. a.made = done + Len(expected')
    BY <2>0, <2>3
  <2>6. a = Final(done)'
    BY <2>1, <2>2, <2>4, <2>5 DEF Final
  <2>7. NextStroke(expected', done, e, a)
    <3> SUFFICES ASSUME ~skip
                 PROVE  /\ a.made - done \in 1 .. Len(expected')
                        /\ expected'[a.made - done] = Meaning(k, a.mods, a.locks)
      BY <1>2 DEF NextStroke
    <3>1. a.made - done = length + 1 /\ a.made - done \in 1 .. Len(expected')
      BY <2>0, <2>3
    <3>2. expected'[length + 1] = Meaning(k, held', toggled')
      BY <1>5 DEF length
    <3>3. Meaning(k, held', toggled') = Meaning(k, a.mods, a.locks)
      BY <2>1, <2>2, MeaningOfModifiers
    <3> QED
      BY <3>1, <3>2, <3>3
  <2> QED
    BY <2>6, <2>7 DEF a
<1>7. Foretells(e)
  BY <1>6 DEF Foretells
<1>8. /\ Hand' = Hand /\ Ring' = Ring /\ Port' = Port /\ (Storing' <=> Storing)
      /\ pc' = pc /\ mods' = mods /\ locks' = locks /\ key' = key
  <2>1. UNCHANGED <<port, full, buf, tail, count, pc, seen, mods, locks>>
    BY <1>1
  <2> QED
    BY <1>1, <2>1 DEF Hand, Parsing, Ring, InRing, Port, Storing
<1>9. Faithful'
  <2>1. queue' = queue \o Code(e)
    BY <1>1, <1>2
  <2> QED
    BY <1>2, <1>3, <1>5, <1>7, <1>8, <2>1, Grows
<1>10. ASSUME Match PROVE Match'
  <2> SUFFICES ASSUME Storing PROVE expected' # <<>> /\ key = Head(expected')
    BY <1>8 DEF Match
  <2>1. expected # <<>> /\ key = Head(expected)
    BY <1>10 DEF Match
  <2>2. expected' = expected \/ \E v : expected' = Append(expected, v) /\ v \in Strokes
    <3>1. Meaning(k, held', on) \in Strokes
      BY KeysAreKnown, MeaningType
    <3> QED
      BY <1>1, <3>1
  <2>3. CASE expected' = expected
    BY <2>1, <2>3
  <2>4. ASSUME NEW v \in Strokes, expected' = Append(expected, v)
        PROVE  expected' # <<>> /\ key = Head(expected')
    BY <1>4, <2>1, <2>4
  <2> QED
    BY <2>2, <2>3, <2>4
<1> QED
  BY <1>9, <1>10

\* A key goes up: Pause has nothing to say, the others send a code.
LEMMA ReleaseFaithful ==
  ASSUME Typed, IInv, Faithful, NEW k \in Keys, Release(k)
  PROVE  Faithful' /\ (Match => Match')
<1> DEFINE e == [act |-> "release", key |-> k]
<1>1. /\ held' = held \ {k} /\ queue' = queue \o BreakCode(k)
      /\ UNCHANGED <<port, full, buf, tail, count, pc, seen, key, mods, locks, expected, toggled>>
  BY DEF Release, ring, decoder, history
<1>2. e \in Events /\ e.act = "release" /\ e.key = k /\ Code(e) = BreakCode(k)
  <2>1. e \in Events
    BY KeyEvents
  <2>2. e.act = "release" /\ e.key = k
    OBVIOUS
  <2> HIDE DEF e
  <2> QED
    BY <2>1, <2>2 DEF Code
<1> HIDE DEF e
<1>3. expected \in Seq(Strokes) /\ Len(expected) \in Nat
  BY DEF Typed
<1>4. Match => Match'
  BY <1>1 DEF Match, Storing
<1>5. /\ Hand' = Hand /\ Ring' = Ring /\ Port' = Port /\ (Storing' <=> Storing)
      /\ pc' = pc /\ mods' = mods /\ locks' = locks
  BY <1>1 DEF Hand, Parsing, Ring, InRing, Port, Storing
<1>6. CASE BreakCode(k) = <<>>
  <2>1. queue' = queue
    <3>1. queue \in Seq(Byte)
      BY Parts
    <3> QED
      BY <1>1, <1>6, <3>1
  <2>2. Bytes' = Bytes
    BY <1>5, <2>1 DEF Bytes
  <2>3. k \notin Modifiers
    <3>1. CASE Skipped(e)
      BY <1>2, <3>1 DEF Skipped, Modifiers
    <3>2. CASE ~Skipped(e)
      BY <1>2, <1>6, <3>2, CodeIs
    <3> QED
      BY <3>1, <3>2
  <2>4. held' \cap Modifiers = held \cap Modifiers
    BY <1>1, <2>3
  <2> QED
    BY <1>1, <1>4, <1>5, <2>2, <2>4, SameBytes
<1>7. CASE BreakCode(k) # <<>>
  <2>1. ASSUME NEW done \in Int
        PROVE  /\ After(e, Final(done)) = Final(done)'
               /\ NextStroke(expected', done, e, After(e, Final(done)))
    <3>1. held' \cap Modifiers = (held \cap Modifiers) \ {k}
      BY <1>1
    <3> QED
      BY <1>1, <1>2, <3>1 DEF After, Final, NextStroke
  <2>2. Foretells(e)
    BY <2>1 DEF Foretells
  <2>3. Prolongs(expected, expected')
    BY <1>1, <1>3 DEF Prolongs
  <2>4. queue' = queue \o Code(e) /\ Code(e) # <<>>
    BY <1>1, <1>2, <1>7
  <2> QED
    BY <1>2, <1>4, <1>5, <2>2, <2>3, <2>4, Grows
<1> QED
  BY <1>6, <1>7

--------------------------------------------------------------------------------
(* The bytes move on.                                                         *)

\* From the keyboard to the port.
LEMMA ArriveFaithful ==
  ASSUME Typed, IInv, Faithful, Arrive
  PROVE  Faithful' /\ (Match => Match')
<1>1. /\ ~full /\ queue # <<>> /\ port' = Head(queue) /\ full' /\ queue' = Tail(queue)
      /\ UNCHANGED <<held, buf, tail, count, pc, seen, key, mods, locks, expected, toggled>>
  BY DEF Arrive, ring, decoder, history
<1>2. Match => Match'
  BY <1>1 DEF Match, Storing
<1>3. Hand' = Hand /\ Ring' = Ring /\ (Storing' <=> Storing) /\ Port = <<>> /\ Port' = <<Head(queue)>>
  BY <1>1 DEF Hand, Parsing, Ring, InRing, Port, Storing
<1>4. Bytes' = Bytes
  <2>1. Hand \in Seq(Byte) /\ Ring \in Seq(Byte) /\ queue \in Seq(Byte)
    BY Parts
  <2> DEFINE h == Hand
             r == Ring
  <2>2. h \in Seq(Byte) /\ r \in Seq(Byte)
    BY <2>1
  <2> HIDE DEF h, r
  <2>3. Flow(h, r, <<Head(queue)>>, Tail(queue)) = Flow(h, r, <<>>, queue)
    BY <1>1, <2>1, <2>2, FlowArrives
  <2> QED
    BY <1>1, <1>3, <2>3 DEF Bytes, h, r
<1> QED
  BY <1>1, <1>2, <1>3, <1>4, SameBytes

\* keyboard_int_handler: into the ring, or dropped.
LEMMA HandlerFaithful ==
  ASSUME Typed, IInv, Faithful, Handler, ~lost'
  PROVE  Faithful' /\ (Match => Match')
<1>1. /\ full /\ full' = FALSE /\ interrupts
      /\ UNCHANGED <<held, queue, port, toggled, tail, pc, seen, key, mods, locks>>
  BY DEF Handler, decoder
<1>2. pc \notin {"take", "count"}
  BY <1>1 DEF IInv, Exclusive
<1>3. Hand' = Hand /\ (Storing' <=> Storing) /\ Port = <<port>> /\ Port' = <<>>
  BY <1>1 DEF Hand, Parsing, Port, Storing
<1>4. CASE ~HasRoom /\ UNCHANGED <<buf, head, count>>
  <2>0. HasRoom \/ (IF port = Ack THEN UNCHANGED <<expected, lost>> ELSE Forget)
    BY DEF Handler
  <2>1. port = Ack /\ expected' = expected
    BY <1>4, <2>0 DEF Forget
  <2>2. Ring' = Ring
    BY <1>1, <1>4 DEF Ring, InRing
  <2>3. Match => Match'
    BY <1>1, <2>1 DEF Match, Storing
  <2>4. Faithful'
    BY <1>1, <1>3, <2>1, <2>2, DropsAck
  <2> QED
    BY <2>3, <2>4
<1>5. CASE /\ HasRoom
           /\ buf' = [buf EXCEPT ![head] = port]
           /\ head' = Wrap(head)
           /\ count' = count + 1
           /\ UNCHANGED <<expected, lost>>
  <2>1. Ring' = Append(Ring, port)
    <3>1. InRing = count /\ InRing' = count + 1
      BY <1>1, <1>2, <1>5 DEF InRing
    <3>2. /\ count \in 0 .. BufLength - 1 /\ head \in 0 .. BufLength - 1
          /\ tail \in 0 .. BufLength - 1 /\ head \in {tail + count, tail + count - BufLength}
      <4>1. count \in 0 .. BufLength /\ count < BufLength
        BY <1>5 DEF IInv, RingTypeOK, HasRoom
      <4>2. head \in {tail + count, tail + count - BufLength}
        BY <1>2, <4>1, BufAssumption DEF IInv, RingTypeOK, RingConsistent
      <4> QED
        BY <4>1, <4>2, BufAssumption DEF IInv, RingTypeOK
    <3>3. buf \in [0 .. BufLength - 1 -> Byte] /\ port \in Byte
      <4>1. buf \in [0 .. BufLength - 1 -> Byte]
        BY Zenon DEF Typed, TypeOK
      <4>2. port \in Byte
        BY DEF Typed, TypeOK
      <4> QED
        BY <4>1, <4>2
    <3>4. RingSeq([buf EXCEPT ![head] = port], tail, count + 1) = Append(RingSeq(buf, tail, count), port)
      BY <3>2, <3>3, RingGrows
    <3> QED
      BY <1>1, <1>5, <3>1, <3>4 DEF Ring
  <2>2. Bytes' = Bytes
    <3>1. Hand \in Seq(Byte) /\ Ring \in Seq(Byte) /\ queue \in Seq(Byte)
      BY Parts
    <3>2. port \in Byte
      BY DEF Typed, TypeOK
    <3> DEFINE h == Hand
               r == Ring
    <3>3. h \in Seq(Byte) /\ r \in Seq(Byte)
      BY <3>1
    <3> HIDE DEF h, r
    <3>4. Flow(h, Append(r, port), <<>>, queue) = Flow(h, r, <<port>>, queue)
      BY <3>1, <3>2, <3>3, FlowEnters
    <3> QED
      BY <1>1, <1>3, <2>1, <3>4 DEF Bytes, h, r
  <2>3. Match => Match'
    BY <1>1, <1>5 DEF Match, Storing
  <2>4. Faithful'
    BY <1>1, <1>3, <1>5, <2>2, SameBytes
  <2> QED
    BY <2>3, <2>4
<1>6. \/ HasRoom /\ buf' = [buf EXCEPT ![head] = port] /\ head' = Wrap(head)
            /\ count' = count + 1 /\ UNCHANGED <<expected, lost>>
      \/ ~HasRoom /\ UNCHANGED <<buf, head, count>>
  BY DEF Handler
<1> QED
  BY <1>4, <1>5, <1>6

\* The lights: a command sent is acknowledged behind what is under way.
LEMMA LedOutFaithful ==
  ASSUME Typed, IInv, Faithful, LedOut
  PROVE  Faithful' /\ (Match => Match')
<1> DEFINE e == [act |-> "ack", key |-> "none"]
<1>1. /\ queue' = Append(queue, Ack) /\ pc \in {"led", "value"} /\ pc' \in {"ack", "ack value"}
      /\ UNCHANGED <<held, port, full, buf, tail, count, seen, key, mods, locks, expected, toggled>>
  BY DEF LedOut, ring, history
<1>2. e \in Events /\ e.act = "ack" /\ Code(e) = <<Ack>>
  BY DEF Events, Code
<1> HIDE DEF e
<1>3. Match => Match'
  BY <1>1 DEF Match, Storing
<1>4. /\ Hand' = Hand /\ Ring' = Ring /\ Port' = Port /\ Storing /\ Storing' /\ pc' # "decode"
      /\ UNCHANGED <<mods, locks>>
  BY <1>1 DEF Hand, Parsing, Ring, InRing, Port, Storing
<1>5. queue' = queue \o Code(e) /\ Code(e) # <<>>
  <2>1. queue \in Seq(Byte) /\ Ack \in Byte
    BY Parts DEF Ack, Byte
  <2>2. Append(queue, Ack) = queue \o <<Ack>>
    BY <2>1, CatByte DEF Cat
  <2>3. queue' = queue \o <<Ack>>
    BY <1>1, <2>2, Zenon
  <2>4. <<Ack>> # <<>>
    OBVIOUS
  <2> QED
    BY <1>2, <2>3, <2>4, Zenon
<1>6. Prolongs(expected, expected')
  <2>1. Len(expected) \in Nat
    BY DEF Typed
  <2>2. expected' = expected
    BY <1>1
  <2>3. Prolongs(expected, expected)
    BY <2>1 DEF Prolongs
  <2> QED
    BY <2>2, <2>3
<1>7. Foretells(e)
  BY <1>1, <1>2 DEF Foretells, After, Final, NextStroke
<1> QED
  BY <1>2, <1>3, <1>4, <1>5, <1>6, <1>7, Grows

\* kb_ack: the acknowledgement, or another byte, which is lost.
LEMMA KbAckFaithful ==
  ASSUME Typed, IInv, Faithful, KbAck, ~lost'
  PROVE  Faithful' /\ (Match => Match')
<1>1. /\ pc \in {"ack", "ack value"} /\ pc' \in {"ack", "ack value", "value", "store"}
      /\ full' = FALSE
      /\ UNCHANGED <<held, queue, port, toggled, buf, tail, count, seen, key, mods, locks>>
  BY DEF KbAck, ring
<1>2. (full => port = Ack) /\ expected' = expected
  BY DEF KbAck, Forget
<1>3. /\ Hand' = Hand /\ Ring' = Ring /\ Storing /\ Storing' /\ pc' # "decode"
  BY <1>1 DEF Hand, Parsing, Ring, InRing, Storing
<1>4. Match => Match'
  BY <1>1, <1>2 DEF Match, Storing
<1>5. CASE full
  BY <1>1, <1>2, <1>3, <1>4, <1>5, DropsAck
<1>6. CASE ~full
  <2>1. Port' = Port
    BY <1>1, <1>6 DEF Port
  <2>2. Bytes' = Bytes
    BY <1>1, <1>3, <2>1 DEF Bytes
  <2> QED
    BY <1>1, <1>2, <1>3, <1>4, <2>2, SameBytes
<1> QED
  BY <1>5, <1>6

--------------------------------------------------------------------------------
(* read_keyboard.                                                             *)

\* The wait for a byte, and cli.
LEMMA WaitFaithful ==
  ASSUME Typed, IInv, Faithful, Start \/ Cli
  PROVE  Faithful' /\ (Match => Match')
<1>1. /\ UNCHANGED <<held, queue, port, full, toggled, buf, tail, count, key, mods, locks, expected>>
      /\ pc \in {"idle", "get"} /\ pc' \in {"get", "take"}
  BY DEF Start, Cli, keyboard, history, ring
<1>2. Hand' = Hand
  BY DEF Start, Cli, Hand, Parsing
<1>3. Ring' = Ring /\ Port' = Port /\ ~Storing /\ ~Storing'
  BY <1>1 DEF Ring, InRing, Port, Storing
<1>4. Bytes' = Bytes
  BY <1>1, <1>2, <1>3 DEF Bytes
<1>5. Faithful'
  BY <1>1, <1>2, <1>3, <1>4, SameBytes
<1> QED
  BY <1>3, <1>5 DEF Match

\* A byte goes from the ring in hand.
LEMMA TakeFaithful ==
  ASSUME Typed, IInv, Faithful, Take
  PROVE  Faithful' /\ (Match => Match')
<1>1. /\ pc = "take" /\ pc' = "count" /\ seen' = Append(seen, buf[tail]) /\ tail' = Wrap(tail)
      /\ UNCHANGED <<held, queue, port, full, toggled, buf, count, key, mods, locks, expected>>
  BY DEF Take, keyboard, history
<1>2. Hand = seen /\ Hand' = Append(Hand, buf[tail]) /\ ~Storing /\ ~Storing' /\ Port' = Port
  BY <1>1 DEF Hand, Parsing, Storing, Port
<1>3. /\ buf \in [0 .. BufLength - 1 -> Byte] /\ tail \in 0 .. BufLength - 1
      /\ count \in 1 .. BufLength /\ buf[tail] \in Byte
  <2>1. buf \in [0 .. BufLength - 1 -> Byte]
    BY Zenon DEF Typed, TypeOK
  <2>2. tail \in 0 .. BufLength - 1 /\ count \in 1 .. BufLength
    BY <1>1, BufAssumption DEF IInv, RingTypeOK, Exclusive
  <2> QED
    BY <2>1, <2>2
<1>4. Ring # <<>> /\ Head(Ring) = buf[tail] /\ Tail(Ring) = Ring'
  <2>1. Ring = RingSeq(buf, tail, count) /\ Ring' = RingSeq(buf, Wrap(tail), count - 1)
    BY <1>1 DEF Ring, InRing
  <2> QED
    BY <1>3, <2>1, RingShrinks
<1>5. Bytes' = Bytes
  <2>1. Hand \in Seq(Byte) /\ Ring \in Seq(Byte) /\ Port \in Seq(Byte) /\ queue \in Seq(Byte)
    BY Parts
  <2> DEFINE h == Hand
             r == Ring
             p == Port
  <2>2. h \in Seq(Byte) /\ r \in Seq(Byte) /\ p \in Seq(Byte) /\ r # <<>>
    BY <1>4, <2>1
  <2> HIDE DEF h, r, p
  <2>3. Flow(Append(h, Head(r)), Tail(r), p, queue) = Flow(h, r, p, queue)
    BY <2>1, <2>2, FlowTaken
  <2>4. Flow(Hand', Ring', Port', queue') = Flow(Append(h, Head(r)), Tail(r), p, queue)
    BY <1>1, <1>2, <1>4 DEF h, r, p
  <2>5. Flow(h, r, p, queue) = Bytes
    BY DEF Bytes, h, r, p
  <2> QED
    BY <2>3, <2>4, <2>5 DEF Bytes
<1>6. PICK done, st, ev, off : Explains(done, st, ev, off)
  BY DEF Faithful
<1>7. TakenAs(Hand', st, ev, off)
  <2>1. /\ Hand \in Seq(Byte) /\ Holds(Hand, Bytes, Len(Bytes))
        /\ Len(Bytes) = Len(Hand) + Len(Ring) + Len(Port) + Len(queue)
        /\ Len(Hand) \in Nat /\ Len(Ring) \in Nat /\ Len(Port) \in Nat /\ Len(queue) \in Nat
    <3>1. Port \in Seq(Byte) /\ queue \in Seq(Byte) /\ Ring \in Seq(Byte)
      BY Parts
    <3> QED
      BY <3>1, Parts
  <2>2. Len(Hand) + 1 <= Len(Bytes)
    <3>1. Len(Ring) >= 1
      BY <1>3, <1>1, Parts DEF InRing
    <3> QED
      BY <2>1, <3>1
  <2>3. Hand = <<>> \/ Unfinished(Hand)
    BY <1>1, <1>2 DEF Typed, TakenOK
  <2>4. /\ Spells(Bytes, Len(Bytes), expected, done, st, ev, off)
        /\ TakenAs(Hand, st, ev, off)
    BY <1>6 DEF Explains, HandOK
  <2>5. TakenAs(Append(Hand, buf[tail]), st, ev, off)
    BY <1>3, <2>1, <2>2, <2>3, <2>4, HandMore
  <2> QED
    BY <1>2, <2>5
<1>8. Now(done)' = Now(done) /\ Final(done)' = Final(done)
  BY <1>1, <1>2 DEF Now, Final
<1>9. HandOK(st, ev, off)'
  BY <1>1, <1>7 DEF HandOK
<1>10. Explains(done, st, ev, off)'
  BY <1>1, <1>5, <1>6, <1>8, <1>9 DEF Explains
<1> QED
  BY <1>2, <1>10 DEF Faithful, Match

\* After a skipped code read_keyboard knows what it knew.
LEMMA SkippedChangesNothing ==
  ASSUME NEW e \in Events, Skipped(e), NEW s \in State
  PROVE  After(e, s) = s
<1>1. e.key \in {"PRINT", "PAUSE"}
  BY DEF Skipped
<1>2. {e.key} \cap Modifiers = {} /\ e.key \notin Modifiers /\ e.key \notin Locks
  BY <1>1 DEF Modifiers, Locks
<1>3. s = [mods |-> s.mods, locks |-> s.locks, made |-> s.made] /\ s.mods \subseteq Modifiers
  BY DEF State
<1>4. s.mods \ {e.key} = s.mods /\ s.mods \cup ({e.key} \cap Modifiers) = s.mods
  BY <1>2, <1>3
<1> DEFINE a == After(e, s)
<1>5. a.mods = s.mods
  BY <1>4 DEF After
<1>6. a.locks = s.locks
  BY <1>2 DEF After
<1>7. a.made = s.made
  BY DEF After
<1>8. a = [mods |-> a.mods, locks |-> a.locks, made |-> a.made]
  BY DEF After
<1> HIDE DEF a
<1> QED
  BY <1>3, <1>5, <1>6, <1>7, <1>8 DEF a

\* The code in hand is complete and put aside.
LEMMA DropsHand ==
  ASSUME Typed, IInv, NEW done, NEW st, NEW ev, NEW off, Explains(done, st, ev, off),
         Hand # <<>>, Len(Hand) = Len(Code(ev[1])), Hand' = <<>>, Ring' = Ring, Port' = Port,
         UNCHANGED <<queue, expected, held, toggled>>, pc' # "decode",
         After(ev[1], Now(done)) = Now(done)'
  PROVE  Faithful'
<1> DEFINE n == Len(Bytes)
           k == Len(Hand)
<1>1. /\ Hand \in Seq(Byte) /\ Ring \in Seq(Byte) /\ Port \in Seq(Byte) /\ queue \in Seq(Byte)
      /\ Holds(Hand, Bytes, n) /\ n \in Nat /\ k \in Nat
  BY Parts
<1>2. /\ Spells(Bytes, n, expected, done, st, ev, off) /\ TakenAs(Hand, st, ev, off)
      /\ st[0] = Now(done) /\ st[n] = Final(done)
  BY DEF Explains, HandOK
<1>3. k \in 1 .. n /\ Ends(ev, off, k) /\ st[k] = After(ev[1], st[0])
  <2> HIDE DEF n
  <2> QED
    BY <1>1, <1>2, HandWhole
<1>4. Rest(Bytes', Bytes, n, k)
  <2> DEFINE h == Hand
             r == Ring
             p == Port
  <2>1. h \in Seq(Byte) /\ r \in Seq(Byte) /\ p \in Seq(Byte)
    BY <1>1
  <2> HIDE DEF h, r, p
  <2>2. Rest(Flow(<<>>, r, p, queue), Flow(h, r, p, queue), Len(Flow(h, r, p, queue)), Len(h))
    BY <1>1, <2>1, FlowHand
  <2> QED
    BY <2>2 DEF Bytes, h, r, p
<1>5. Len(Bytes') = n - k /\ \A i \in 1 .. n - k : (Bytes')[i] = Bytes[i + k]
  BY <1>4 DEF Rest
<1>6. PICK st2, ev2, off2 :
        /\ Spells(Bytes', n - k, expected, done, st2, ev2, off2)
        /\ st2[0] = st[k] /\ st2[n - k] = st[n]
  <2> HIDE DEF n, k
  <2> QED
    BY <1>2, <1>3, <1>5, SpellRest
<1>7. HandOK(st2, ev2, off2)'
  BY DEF HandOK, TakenAs
<1>8. st2[0] = Now(done)' /\ Final(done)' = Final(done)
  BY <1>2, <1>3, <1>6 DEF Final
<1>9. Explains(done, st2, ev2, off2)'
  <2> HIDE DEF n, k
  <2> QED
    BY <1>2, <1>5, <1>6, <1>7, <1>8 DEF Explains
<1> QED
  BY <1>9 DEF Faithful

\* Where a code ends.
LEMMA TakenFaithful ==
  ASSUME Typed, IInv, Faithful, Taken
  PROVE  Faithful' /\ (Match => Match')
<1>1. /\ pc = "count" /\ pc' \in {"get", "idle", "decode"} /\ count' = loaded - 1
      /\ UNCHANGED <<held, queue, port, full, toggled, buf, tail, seen, key, mods, locks, expected>>
  BY DEF Taken, keyboard, history
<1>2. /\ pc' = "get" => Unfinished(seen)
      /\ pc' = "idle" => ~Unfinished(seen) /\ seen \in Special
      /\ pc' = "decode" => ~Unfinished(seen) /\ seen \notin Special
  <2>1. pc' = CASE Unfinished(seen) -> "get" [] seen \in Special -> "idle" [] OTHER -> "decode"
    BY DEF Taken
  <2>2. Unfinished(seen) => seen \notin Special
    BY SpecialEnds
  <2>3. CASE Unfinished(seen)
    BY <2>1, <2>2, <2>3
  <2>4. CASE ~Unfinished(seen)
    BY <2>1, <2>4
  <2> QED
    BY <2>3, <2>4
<1>3. Hand = seen /\ ~Storing /\ ~Storing' /\ Port' = Port /\ Ring' = Ring
  <2>1. count' = count - 1
    BY <1>1 DEF IInv, Exclusive
  <2>2. InRing' = InRing
    BY <1>1, <2>1 DEF InRing
  <2> QED
    BY <1>1, <2>2 DEF Hand, Parsing, Storing, Port, Ring
<1>4. PICK done, st, ev, off : Explains(done, st, ev, off)
  BY DEF Faithful
<1>5. Hand \in Seq(Byte) /\ Len(Hand) >= 1 /\ Hand # <<>>
  <2>1. Hand \in Seq(Byte) /\ Len(Hand) >= 1
    BY <1>1, <1>3, Parts DEF Typed, TakenOK
  <2> QED
    BY <2>1
<1>6. /\ ev[1] \in Events /\ Begins(Hand, Code(ev[1]))
  <2>1. /\ Spells(Bytes, Len(Bytes), expected, done, st, ev, off)
        /\ TakenAs(Hand, st, ev, off)
        /\ Holds(Hand, Bytes, Len(Bytes))
    BY <1>4, Parts DEF Explains, HandOK
  <2> QED
    BY <1>5, <2>1, HandBegins
<1>7. /\ Unfinished(seen) <=> Len(Hand) < Len(Code(ev[1]))
      /\ Len(Hand) = Len(Code(ev[1])) => (seen \in Special <=> Skipped(ev[1]))
      /\ Len(Hand) <= Len(Code(ev[1])) /\ Len(Hand) \in Nat /\ Len(Code(ev[1])) \in Nat
  <2>1. /\ Unfinished(Hand) <=> Len(Hand) < Len(Code(ev[1]))
        /\ Len(Hand) = Len(Code(ev[1])) => (Hand \in Special <=> Skipped(ev[1]))
    BY <1>5, <1>6, EndIsSeen
  <2>2. Len(Hand) <= Len(Code(ev[1])) /\ Len(Hand) \in Nat /\ Len(Code(ev[1])) \in Nat
    BY <1>5, <1>6, CodeType DEF Begins
  <2> QED
    BY <1>3, <2>1, <2>2
<1>8. Now(done)' = Now(done) /\ Final(done)' = Final(done)
  BY <1>1, <1>3 DEF Now, Final
<1>9. CASE pc' = "idle"
  <2>1. Hand' = <<>>
    BY <1>9 DEF Hand, Parsing
  <2>2. Len(Hand) = Len(Code(ev[1])) /\ Skipped(ev[1])
    BY <1>2, <1>7, <1>9
  <2>3. Now(done) \in State
    <3>1. done \in Int /\ mods \subseteq Modifiers /\ locks \subseteq Locks
      <4>1. done \in Int
        BY <1>4 DEF Explains, Spells, SpellTypes
      <4>2. mods \subseteq Modifiers /\ locks \subseteq Locks
        BY DEF Typed, TypeOK
      <4> QED
        BY <4>1, <4>2
    <3>2. Now(done) = [mods |-> mods, locks |-> locks, made |-> done]
      BY <1>3 DEF Now
    <3> QED
      BY <3>1, <3>2 DEF State
  <2>4. After(ev[1], Now(done)) = Now(done)'
    BY <1>6, <1>8, <2>2, <2>3, SkippedChangesNothing
  <2>5. Faithful'
    BY <1>1, <1>3, <1>4, <1>5, <1>9, <2>1, <2>2, <2>4, DropsHand
  <2> QED
    BY <1>3, <2>5 DEF Match
<1>10. CASE pc' \in {"get", "decode"}
  <2>1. Hand' = Hand
    BY <1>1, <1>3, <1>10 DEF Hand, Parsing
  <2>2. Bytes' = Bytes
    BY <1>1, <1>3, <2>1 DEF Bytes
  <2>3. HandOK(st, ev, off)'
    <3>1. pc' = "decode" => Len(Hand) = Len(Code(ev[1])) /\ ~Skipped(ev[1])
      BY <1>2, <1>7
    <3> QED
      BY <1>4, <2>1, <3>1 DEF Explains, HandOK
  <2>4. Explains(done, st, ev, off)'
    BY <1>1, <1>4, <1>8, <2>2, <2>3 DEF Explains
  <2> QED
    BY <1>3, <2>4 DEF Faithful, Match
<1> QED
  BY <1>1, <1>9, <1>10

\* The key it is.
LEMMA DecodeFaithful ==
  ASSUME Typed, IInv, Faithful, Decode
  PROVE  Faithful' /\ Match'
<1>1. /\ pc = "decode" /\ pc' \in {"idle", "led", "store"}
      /\ UNCHANGED <<held, queue, port, full, toggled, buf, tail, count, expected>>
  BY DEF Decode, keyboard, history, ring
<1>2. Hand = seen /\ ~Storing /\ Hand' = <<>> /\ Port' = Port /\ Ring' = Ring /\ (Storing' <=> pc' # "idle")
  BY <1>1 DEF Hand, Parsing, Storing, Port, Ring, InRing
<1>3. PICK done, st, ev, off : Explains(done, st, ev, off)
  BY DEF Faithful
<1>4. Hand \in Seq(Byte) /\ Len(Hand) >= 1 /\ Hand # <<>>
  <2>1. Hand \in Seq(Byte) /\ Len(Hand) >= 1
    BY <1>1, <1>2, Parts DEF Typed, TakenOK
  <2> QED
    BY <2>1
<1> DEFINE e == ev[1]
           k == Len(Hand)
<1>5. k = Len(Code(e)) /\ ~Skipped(e)
  BY <1>1, <1>3 DEF Explains, HandOK
<1>6. /\ Spells(Bytes, Len(Bytes), expected, done, st, ev, off)
      /\ st[0] = Now(done)
  BY <1>3 DEF Explains
<1>7. /\ k \in 1 .. Len(Bytes) /\ e \in Events /\ Begins(Hand, Code(e)) /\ ev[k] = e
      /\ Ends(ev, off, k) /\ st[k] = After(e, st[0])
  <2>1. TakenAs(Hand, st, ev, off) /\ Holds(Hand, Bytes, Len(Bytes))
    BY <1>3, Parts DEF Explains, HandOK
  <2> QED
    BY <1>4, <1>5, <1>6, <2>1, HandWhole
<1> HIDE DEF e, k
<1>8. Complete(e)
  BY <1>2, <1>4, <1>5, <1>7 DEF Complete, k
<1>9. mods \subseteq Modifiers /\ locks \subseteq Locks /\ done \in Int
  <2>1. mods \subseteq Modifiers /\ locks \subseteq Locks
    BY DEF Typed, TypeOK
  <2>2. done \in Int
    BY <1>6 DEF Spells, SpellTypes
  <2> QED
    BY <2>1, <2>2
<1>10. /\ mods' = Becomes(e).mods
       /\ locks' = Becomes(e).locks
       /\ e.act # "press" => pc' = "idle"
       /\ e.act = "press" => pc' \in {"led", "store"} /\ key' = Meaning(e.key, mods', locks')
  BY <1>5, <1>7, <1>8, <1>9, DecodeIs
<1>11. Now(done) = [mods |-> mods, locks |-> locks, made |-> done]
  BY <1>2 DEF Now
<1> DEFINE a == After(e, Now(done))
<1>12. a.mods = mods' /\ a.locks = locks'
  BY <1>10, <1>11 DEF Becomes, After
<1>13. a.made = IF e.act = "press" THEN done + 1 ELSE done
  BY <1>5, <1>11 DEF After
<1>14. a = [mods |-> a.mods, locks |-> a.locks, made |-> a.made]
  BY DEF After
<1> HIDE DEF a
<1>15. a = Now(done)'
  <2>1. Storing' <=> e.act = "press"
    BY <1>2, <1>10
  <2>2. a.made = IF Storing' THEN done + 1 ELSE done
    BY <1>13, <2>1
  <2> QED
    BY <1>12, <1>14, <2>2 DEF Now
<1>16. Faithful'
  <2>1. After(ev[1], Now(done)) = Now(done)' /\ Len(Hand) = Len(Code(ev[1]))
    BY <1>5, <1>15 DEF a, e, k
  <2>2. pc' # "decode"
    BY <1>1
  <2> QED
    BY <1>1, <1>2, <1>3, <1>4, <2>1, <2>2, DropsHand
<1>17. Match'
  <2> SUFFICES ASSUME Storing' PROVE expected # <<>> /\ key' = Head(expected)
    BY <1>1 DEF Match
  <2>1. e.act = "press" /\ key' = Meaning(e.key, mods', locks')
    BY <1>2, <1>10
  <2>2. Strikes(expected, done, st, ev, off, k)
    BY <1>6, <1>7 DEF Spells
  <2>3. /\ st[k].made - done \in 1 .. Len(expected)
        /\ expected[st[k].made - done] = Meaning(e.key, st[k].mods, st[k].locks)
    BY <1>5, <1>7, <2>1, <2>2 DEF Strikes
  <2>4. st[k] = a
    BY <1>6, <1>7 DEF a
  <2>5. st[k].made - done = 1
    <3>1. a.made = done + 1
      BY <1>13, <2>1
    <3> QED
      BY <1>9, <2>4, <3>1
  <2>6. 1 \in 1 .. Len(expected) /\ expected[1] = key'
    BY <1>12, <2>1, <2>3, <2>4, <2>5
  <2>7. expected \in Seq(Strokes)
    BY DEF Typed
  <2> QED
    BY <2>6, <2>7
<1> QED
  BY <1>16, <1>17

\* store_key_into_console takes the stroke that came first.
LEMMA StoreFaithful ==
  ASSUME Typed, IInv, Faithful, Match, Store
  PROVE  Faithful' /\ Match'
<1>1. /\ pc = "store" /\ pc' = "idle"
      /\ expected' = IF expected = <<>> THEN <<>> ELSE Tail(expected)
      /\ UNCHANGED <<held, queue, port, full, toggled, buf, tail, count, seen, mods, locks>>
  BY DEF Store, keyboard, ring
<1>2. Hand = <<>> /\ Hand' = <<>> /\ Port' = Port /\ Ring' = Ring /\ Storing /\ ~Storing'
  BY <1>1 DEF Hand, Parsing, Storing, Port, Ring, InRing
<1>3. expected # <<>> /\ expected \in Seq(Strokes)
  BY <1>2 DEF Match, Typed
<1>4. expected' = Tail(expected) /\ Len(expected') = Len(expected) - 1 /\ Len(expected) \in Nat
  <2>1. expected' = Tail(expected)
    BY <1>1, <1>3
  <2>2. Len(Tail(expected)) = Len(expected) - 1 /\ Len(expected) \in Nat
    BY <1>3
  <2> QED
    BY <2>1, <2>2
<1>5. Bytes' = Bytes
  BY <1>1, <1>2 DEF Bytes
<1>6. PICK done, st, ev, off : Explains(done, st, ev, off)
  BY DEF Faithful
<1>7. Spells(Bytes, Len(Bytes), expected, done, st, ev, off) /\ st[0] = Now(done) /\ st[Len(Bytes)] = Final(done)
  BY <1>6 DEF Explains
<1>8. done \in Int
  BY <1>7 DEF Spells, SpellTypes
<1>9. Now(done).made = done + 1
  BY <1>2 DEF Now
<1>10. Spells(Bytes, Len(Bytes), Tail(expected), done + 1, st, ev, off)
  BY <1>3, <1>7, <1>9, SpellStored
<1>11. Now(done + 1)' = Now(done)
  <2>1. Now(done) = [mods |-> mods, locks |-> locks, made |-> done + 1]
    BY <1>2 DEF Now
  <2>2. Now(done + 1)' = [mods |-> mods, locks |-> locks, made |-> done + 1]
    BY <1>1, <1>2 DEF Now
  <2> QED
    BY <2>1, <2>2
<1>12. Final(done + 1)' = Final(done)
  <2>1. (done + 1) + Len(expected') = done + Len(expected)
    <3> DEFINE m == Len(expected)
               m2 == Len(expected')
    <3>1. m2 = m - 1 /\ m \in Nat
      BY <1>4
    <3> HIDE DEF m, m2
    <3>2. (done + 1) + m2 = done + m
      BY <1>8, <3>1
    <3> QED
      BY <3>2 DEF m, m2
  <2> QED
    BY <1>1, <2>1 DEF Final
<1>13. HandOK(st, ev, off)'
  BY <1>1, <1>2 DEF HandOK, TakenAs
<1>14. Explains(done + 1, st, ev, off)'
  BY <1>4, <1>5, <1>7, <1>10, <1>11, <1>12, <1>13 DEF Explains
<1> QED
  BY <1>2, <1>14 DEF Faithful, Match

--------------------------------------------------------------------------------
LEMMA StepFaithful ==
  ASSUME Typed, IInv, KeyInv, [Next]_vars
  PROVE  KeyInv'
<1> SUFFICES ASSUME ~lost' PROVE Faithful' /\ Match'
  BY DEF KeyInv
<1>1. CASE UNCHANGED vars
  <2>1. /\ Hand' = Hand /\ Ring' = Ring /\ Port' = Port /\ Bytes' = Bytes /\ (Storing' <=> Storing)
        /\ UNCHANGED <<expected, mods, locks, toggled, held, pc, lost, key>>
    BY <1>1 DEF vars, keyboard, history, ring, decoder, Hand, Parsing, Ring, InRing, Port, Bytes, Flow,
                Storing
  <2>2. Faithful /\ Match
    BY <2>1 DEF KeyInv
  <2>3. Faithful'
    BY <2>1, <2>2, SameBytes
  <2> QED
    BY <2>1, <2>2, <2>3 DEF Match
<1>2. CASE Next
  <2>1. ~lost
    BY <1>2 DEF Next, User, Press, Release, Arrive, Handler, Forget, Task, Start, Cli, Take, Taken,
                Decode, Store, LedOut, KbAck, history
  <2>2. Faithful /\ Match
    BY <2>1 DEF KeyInv
  <2>3. CASE User
    BY <2>2, <2>3, PressFaithful, ReleaseFaithful DEF User
  <2>4. CASE Arrive
    BY <2>2, <2>4, ArriveFaithful
  <2>5. CASE Handler
    BY <2>2, <2>5, HandlerFaithful
  <2>6. CASE Start \/ Cli
    BY <2>2, <2>6, WaitFaithful
  <2>7. CASE Take
    BY <2>2, <2>7, TakeFaithful
  <2>8. CASE Taken
    BY <2>2, <2>8, TakenFaithful
  <2>9. CASE Decode
    BY <2>2, <2>9, DecodeFaithful
  <2>10. CASE Store
    BY <2>2, <2>10, StoreFaithful
  <2>11. CASE LedOut
    BY <2>2, <2>11, LedOutFaithful
  <2>12. CASE KbAck
    BY <2>2, <2>12, KbAckFaithful
  <2> QED
    BY <1>2, <2>3, <2>4, <2>5, <2>6, <2>7, <2>8, <2>9, <2>10, <2>11, <2>12 DEF Next, Task
<1> QED
  BY <1>1, <1>2

\* Unless a byte of a scan code was dropped, the bytes between the keyboard and
\* read_keyboard, with what it knows, spell what the user did.
THEOREM KeysAreFaithful == Spec => []KeyInv
<1>1. Init => KeyInv
  BY InitFaithful
<1>2. Typed /\ IInv /\ KeyInv /\ [Next]_vars => KeyInv'
  BY StepFaithful
<1> QED
  BY Inductive, KeyTyped, <1>1, <1>2, PTL DEF Spec

\* The types, for every length of the ring and any of the keys.
THEOREM TypeCorrect == Spec => []TypeOK
<1>1. Typed => TypeOK
  BY DEF Typed
<1> QED
  BY KeyTyped, <1>1, PTL

\* read_keyboard passes on the strokes of the user in their order, with the
\* characters and the modifiers they had, unless a byte was dropped.
THEOREM StoredAsTypedEver == Spec => []StoredAsTyped
<1>1. KeyInv => StoredAsTyped
  BY DEF KeyInv, Match, Storing, StoredAsTyped
<1> QED
  BY KeysAreFaithful, <1>1, PTL

\* With nothing left to read, no stroke is missing, and modifiers, locks and lights
\* are the user's, unless a byte was dropped.
THEOREM QuietAgreesEver == Spec => []QuietAgrees
<1>1. ASSUME Typed, IInv, KeyInv PROVE QuietAgrees
  <2> SUFFICES ASSUME Quiet, ~lost
               PROVE  /\ expected = <<>> /\ mods = held \cap Modifiers
                      /\ locks = toggled /\ leds = toggled
    BY DEF QuietAgrees
  <2>1. pc = "idle" /\ count = 0 /\ ~full /\ queue = <<>>
    BY DEF Quiet
  <2>2. Hand = <<>> /\ Port = <<>> /\ InRing = 0 /\ ~Storing
    BY <2>1 DEF Hand, Parsing, Port, InRing, Storing
  <2>3. Len(Bytes) = 0
    <3>1. Len(Bytes) = Len(Hand) + Len(Ring) + Len(Port) + Len(queue) /\ Len(Ring) = InRing
      BY <1>1, Parts
    <3>2. Len(Hand) = 0 /\ Len(Port) = 0 /\ Len(queue) = 0
      BY <2>1, <2>2
    <3> QED
      BY <2>2, <3>1, <3>2
  <2>4. PICK done, st, ev, off : Explains(done, st, ev, off)
    BY <1>1 DEF KeyInv, Faithful
  <2>5. Now(done) = Final(done) /\ done \in Int
    BY <2>3, <2>4 DEF Explains, Spells, SpellTypes
  <2>6. mods = held \cap Modifiers /\ locks = toggled /\ done = done + Len(expected)
    <3>1. /\ Now(done).mods = mods /\ Now(done).locks = locks /\ Now(done).made = done
      BY <2>2 DEF Now
    <3>2. /\ Final(done).mods = held \cap Modifiers /\ Final(done).locks = toggled
          /\ Final(done).made = done + Len(expected)
      BY DEF Final
    <3> QED
      BY <2>5, <3>1, <3>2
  <2>7. expected = <<>>
    <3>1. expected \in Seq(Strokes) /\ Len(expected) \in Nat
      BY <1>1 DEF Typed
    <3>2. Len(expected) = 0
      BY <2>5, <2>6, <3>1
    <3> QED
      BY <3>1, <3>2
  <2>8. leds = locks
    BY <1>1, <2>1 DEF Typed, LedsOK
  <2> QED
    BY <2>6, <2>7, <2>8
<1> QED
  BY Inductive, KeyTyped, KeysAreFaithful, <1>1, PTL

================================================================================
