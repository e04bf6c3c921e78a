-------------------------------- MODULE Keyboard --------------------------------
(******************************************************************************)
(* The keyboard (kernel/interrupt.c): keyboard_int_handler fills the ring     *)
(* kb_in, the console task empties it with get_byte_from_kb_buf and decodes   *)
(* scan codes in read_keyboard; set_kb_led talks to the keyboard through the  *)
(* port the handler reads.                                                    *)
(*                                                                            *)
(* Scan codes are numbers, keys are names.  The keyboard and its controller   *)
(* are external, as the code takes them: bytes come one at a time through one *)
(* port, the port keeps the last byte, a command is acknowledged behind the   *)
(* bytes already under way.  `expected`, `toggled` and `lost` are history.    *)
(******************************************************************************)
EXTENDS Integers, Sequences, FiniteSets, SequencesExt

CONSTANTS
  Keys,        \* the keys that are used, names of KeyCode
  BufLength,   \* KB_IN_BUF_LENGTH
  MaxQueue     \* a bound: the bytes the keyboard has not sent yet

ASSUME BufAssumption == BufLength \in Nat \ {0} /\ MaxQueue \in Nat

VARIABLES
  held,        \* the keys that are down
  queue,       \* bytes on their way from the keyboard
  port,        \* the byte KB_DATA shows
  full,        \* it has not been read
  leds,        \* the locks whose light is on
  expected,    \* the keystrokes that read_keyboard has yet to pass on
  toggled,     \* the locks that are on, as the user sees it
  lost,        \* a scan code was dropped
  interrupts,  \* the interrupt flag
  buf, head, tail, count,    \* kb_in
  loaded,      \* kb_in.count as get_byte_from_kb_buf has read it
  pc,          \* where read_keyboard is
  seen,        \* the scan codes it has taken for this key
  key,         \* its key, with the FLAG_ bits as a set
  mods,        \* l_shift .. r_ctrl, those that are true
  locks        \* num_lock, caps_lock, scroll_lock, those that are true

keyboard == <<held, queue, port, full, leds>>
history == <<expected, toggled, lost>>
ring == <<buf, head, tail, count>>
decoder == <<pc, seen, key, mods, locks>>
vars == <<keyboard, history, interrupts, ring, loaded, decoder>>

Ack == 250
Modifiers == {"SHIFT_L", "SHIFT_R", "CTRL_L", "CTRL_R"}
Locks == {"NUM_LOCK", "CAPS_LOCK"}

\* The keys of KeyCode.
ASSUME KeysAssumption ==
  Keys \subseteq Modifiers \cup Locks \cup {"A", "PAD_7", "PAD_SLASH", "PRINT", "PAUSE"}

NoKey == [of |-> "none", flags |-> {}]

\* What a key sends when it goes down; 224 is the prefix 0xe0.
KeyCode(k) ==
  CASE k = "SHIFT_L"   -> <<42>>
    [] k = "SHIFT_R"   -> <<54>>
    [] k = "CTRL_L"    -> <<29>>
    [] k = "CTRL_R"    -> <<224, 29>>
    [] k = "A"         -> <<30>>
    [] k = "CAPS_LOCK" -> <<58>>
    [] k = "NUM_LOCK"  -> <<69>>
    [] k = "PAD_7"     -> <<71>>
    [] k = "PAD_SLASH" -> <<224, 53>>
    [] k = "PRINT"     -> <<224, 42, 224, 55>>
    [] k = "PAUSE"     -> <<225, 29, 69, 225, 157, 197>>

\* What it sends when it goes up: Pause sends nothing.
BreakCode(k) ==
  CASE k = "PAUSE" -> <<>>
    [] k = "PRINT" -> <<224, 183, 224, 170>>
    [] OTHER       -> LET m == KeyCode(k) IN [m EXCEPT ![Len(m)] = @ + 128]

\* The rows of key_map for these codes: plain, shifted, after 0xe0.
key_map(code) ==
  CASE code = 42 -> <<"SHIFT_L", "SHIFT_L", "none">>
    [] code = 54 -> <<"SHIFT_R", "SHIFT_R", "none">>
    [] code = 29 -> <<"CTRL_L", "CTRL_L", "CTRL_R">>
    [] code = 30 -> <<"a", "A", "none">>
    [] code = 53 -> <<"/", "?", "PAD_SLASH">>
    [] code = 55 -> <<"*", "*", "none">>
    [] code = 58 -> <<"CAPS_LOCK", "CAPS_LOCK", "none">>
    [] code = 69 -> <<"NUM_LOCK", "NUM_LOCK", "none">>
    [] code = 71 -> <<"PAD_7", "7", "HOME">>
    [] OTHER     -> <<"none", "none", "none">>

\* The sequences read_keyboard knows, and their beginnings.
Special == {KeyCode("PAUSE"), KeyCode("PRINT"), BreakCode("PRINT")}
Unfinished(s) == \E t \in Special : IsStrictPrefix(s, t)

\* Mutant of Wrap: the reset of head and tail is forgotten.
WrapNot(i) == i + 1

Wrap(i) == IF i + 1 = BufLength THEN 0 ELSE i + 1

\* As init_keyboard leaves it.
Init ==
  /\ held = {} /\ queue = <<>> /\ port = Ack /\ full = FALSE
  /\ leds = {"NUM_LOCK"}
  /\ expected = <<>> /\ toggled = {"NUM_LOCK"} /\ lost = FALSE
  /\ interrupts = TRUE
  /\ buf = [i \in 0 .. BufLength - 1 |-> 0]
  /\ head = 0 /\ tail = 0 /\ count = 0 /\ loaded = 0
  /\ pc = "idle" /\ seen = <<>> /\ key = NoKey
  /\ mods = {} /\ locks = {"NUM_LOCK"}

--------------------------------------------------------------------------------
(* The user and the keyboard.                                                 *)

Toggle(set, k) == IF k \in set THEN set \ {k} ELSE set \cup {k}

\* What the stroke of k stands for, with `down` held and `on` locked.
Meaning(k, down, on) ==
  LET shift == down \cap {"SHIFT_L", "SHIFT_R"} # {}
      of == CASE k = "A" -> IF shift # ("CAPS_LOCK" \in on) THEN "A" ELSE "a"
              [] k = "PAD_7" -> IF shift \/ "NUM_LOCK" \in on THEN "7" ELSE "HOME"
              [] k = "PAD_SLASH" -> "/"
              [] OTHER -> k
      pad == k = "PAD_SLASH" \/ (k = "PAD_7" /\ ~shift)
  IN [of |-> of, flags |-> (down \cap Modifiers) \cup (IF pad THEN {"PAD"} ELSE {})]

\* A bound: nothing is said of what follows a dropped byte, so the user stops.
Typing == ~lost

\* A key goes down, or repeats.
Press(k) ==
  LET on == IF k \in Locks THEN Toggle(toggled, k) ELSE toggled
  IN /\ Typing
     /\ k \in held => k \notin {"PRINT", "PAUSE"}
     /\ Len(queue) + Len(KeyCode(k)) <= MaxQueue
     /\ held' = held \cup {k}
     /\ queue' = queue \o KeyCode(k)
     /\ toggled' = on
     /\ expected' = IF k \in {"PRINT", "PAUSE"} THEN expected
                    ELSE Append(expected, Meaning(k, held', on))
     /\ UNCHANGED <<port, full, leds, lost, interrupts, ring, loaded, decoder>>

Release(k) ==
  /\ Typing /\ k \in held
  /\ Len(queue) + Len(BreakCode(k)) <= MaxQueue
  /\ held' = held \ {k}
  /\ queue' = queue \o BreakCode(k)
  /\ UNCHANGED <<port, full, leds, history, interrupts, ring, loaded, decoder>>

\* The next byte reaches the port once the last one has been read.
Arrive ==
  /\ ~full /\ queue # <<>>
  /\ port' = Head(queue) /\ full' = TRUE
  /\ queue' = Tail(queue)
  /\ UNCHANGED <<held, leds, history, interrupts, ring, loaded, decoder>>

--------------------------------------------------------------------------------
(* keyboard_int_handler.                                                      *)

Forget == lost' = TRUE /\ expected' = <<>>

HasRoom == count < BufLength

Handler ==
  /\ interrupts /\ full
  /\ full' = FALSE
  /\ \/ /\ HasRoom
        /\ buf' = [buf EXCEPT ![head] = port]
        /\ head' = Wrap(head)
        /\ count' = count + 1
        /\ UNCHANGED <<expected, lost>>
     \/ /\ ~HasRoom
        /\ IF port = Ack THEN UNCHANGED <<expected, lost>> ELSE Forget
        /\ UNCHANGED <<buf, head, count>>
  /\ UNCHANGED <<held, queue, port, leds, toggled, interrupts, tail, loaded, decoder>>

--------------------------------------------------------------------------------
(* read_keyboard.                                                             *)

Start ==
  /\ pc = "idle" /\ count # 0
  /\ pc' = "get" /\ seen' = <<>>
  /\ UNCHANGED <<keyboard, history, interrupts, ring, loaded, key, mods, locks>>

\* Mutant of Cli: get_byte_from_kb_buf leaves interrupts on.
CliNot ==
  /\ pc = "get" /\ count # 0
  /\ pc' = "take"
  /\ UNCHANGED <<keyboard, history, interrupts, ring, loaded, seen, key, mods, locks>>

\* get_byte_from_kb_buf: the wait, which only the handler ends, and cli.
Cli ==
  /\ pc = "get" /\ count # 0
  /\ interrupts' = FALSE
  /\ pc' = "take"
  /\ UNCHANGED <<keyboard, history, ring, loaded, seen, key, mods, locks>>

\* The byte is taken; count-- reads and writes.
Take ==
  /\ pc = "take"
  /\ seen' = Append(seen, buf[tail])
  /\ tail' = Wrap(tail)
  /\ loaded' = count
  /\ pc' = "count"
  /\ UNCHANGED <<keyboard, history, interrupts, buf, head, count, key, mods, locks>>

\* Mutant of Sti: interrupts stay off.
StiNot == interrupts

Sti == TRUE

\* A known sequence is followed to its end, or until a byte does not belong to it.
Taken ==
  /\ pc = "count"
  /\ count' = loaded - 1
  /\ loaded' = 0
  /\ interrupts' = Sti
  /\ pc' = CASE Unfinished(seen) -> "get"
             [] seen \in Special -> "idle"
             [] OTHER            -> "decode"
  /\ UNCHANGED <<keyboard, history, buf, head, tail, seen, key, mods, locks>>

\* After 0xe0 the second byte counts; after a broken 0xe1 the 0xe1 itself.
code_e0 == seen[1] = 224
scan_code == IF code_e0 THEN seen[2] ELSE seen[1]
is_make == scan_code < 128

\* Mutant of Column: caps_lock is not looked at.
ColumnNoCaps(row) ==
  IF code_e0 THEN 3 ELSE IF mods \cap {"SHIFT_L", "SHIFT_R"} # {} THEN 2 ELSE 1

\* caps_lock inverts shift for letters.
Column(row) ==
  LET shift == mods \cap {"SHIFT_L", "SHIFT_R"} # {}
      caps == shift # ("CAPS_LOCK" \in locks /\ row[1] = "a")
  IN IF code_e0 THEN 3 ELSE IF caps THEN 2 ELSE 1

\* The key pad.
Padded(k) ==
  CASE k = "PAD_SLASH" -> "/"
    [] k = "PAD_7"     -> IF "NUM_LOCK" \in locks THEN "7" ELSE "HOME"
    [] OTHER           -> k

Modified(k) ==
  IF k \notin Modifiers THEN mods
  ELSE IF is_make THEN mods \cup {k} ELSE mods \ {k}

Decode ==
  LET k == LET row == key_map(scan_code % 128) IN row[Column(row)]
      pad == IF k \in {"PAD_SLASH", "PAD_7"} THEN {"PAD"} ELSE {}
  IN /\ pc = "decode"
     /\ mods' = Modified(k)
     /\ locks' = IF k \in Locks /\ is_make THEN Toggle(locks, k) ELSE locks
     /\ key' = IF is_make THEN [of |-> Padded(k), flags |-> mods' \cup pad] ELSE NoKey
     /\ pc' = CASE ~is_make -> "idle" [] is_make /\ k \in Locks -> "led" [] OTHER -> "store"
     /\ seen' = <<>>
     /\ UNCHANGED <<keyboard, history, interrupts, ring, loaded>>

\* store_key_into_console(con, key).
Store ==
  /\ pc = "store"
  /\ pc' = "idle" /\ key' = NoKey
  /\ expected' = IF expected = <<>> THEN <<>> ELSE Tail(expected)
  /\ UNCHANGED <<keyboard, toggled, lost, interrupts, ring, loaded, seen, mods, locks>>

--------------------------------------------------------------------------------
(* set_kb_led: a command and a byte, each acknowledged.                       *)

\* Mutant of LedValue: the lights as they were.
LedValueOld == leds

LedValue == locks

LedOut ==
  /\ \/ pc = "led" /\ pc' = "ack" /\ UNCHANGED leds
     \/ pc = "value" /\ pc' = "ack value" /\ leds' = LedValue
  /\ queue' = Append(queue, Ack)
  /\ UNCHANGED <<held, port, full, history, interrupts, ring, loaded, seen, key, mods, locks>>

\* kb_ack: one turn of its loop, which takes whatever the port shows.
KbAck ==
  /\ pc \in {"ack", "ack value"}
  /\ full' = FALSE
  /\ pc' = CASE port # Ack -> pc [] port = Ack /\ pc = "ack" -> "value" [] OTHER -> "store"
  /\ IF full /\ port # Ack THEN Forget ELSE UNCHANGED <<expected, lost>>
  /\ UNCHANGED <<held, queue, port, leds, toggled, interrupts, ring, loaded, seen, key, mods, locks>>

--------------------------------------------------------------------------------
User == \E k \in Keys : Press(k) \/ Release(k)
Task == Start \/ Cli \/ Take \/ Taken \/ Decode \/ Store \/ LedOut \/ KbAck

Next == User \/ Arrive \/ Handler \/ Task

Spec == Init /\ [][Next]_vars

\* The controller delivers, interrupts are taken, and the console task, which
\* never blocks, gets the processor again and again (Scheduler!NoStarvation).
Fairness == WF_vars(Arrive) /\ WF_vars(Handler) /\ WF_vars(Task)
FairSpec == Spec /\ Fairness

--------------------------------------------------------------------------------
Byte == 0 .. 255
KeyNames == Modifiers \cup Locks \cup {"none", "a", "A", "7", "HOME", "/", "?", "*"}

\* Types, of the ring's indices and counters in particular.
TypeOK ==
  /\ held \subseteq Keys
  /\ queue \in Seq(Byte) /\ port \in Byte /\ full \in BOOLEAN
  /\ leds \subseteq Locks /\ toggled \subseteq Locks /\ locks \subseteq Locks
  /\ mods \subseteq Modifiers
  /\ lost \in BOOLEAN
  /\ buf \in [0 .. BufLength - 1 -> Byte]
  /\ head \in 0 .. BufLength - 1 /\ tail \in 0 .. BufLength - 1
  /\ count \in 0 .. BufLength /\ loaded \in 0 .. BufLength
  /\ pc \in {"idle", "get", "take", "count", "decode", "store", "led", "ack", "value", "ack value"}
  /\ seen \in Seq(Byte) /\ Len(seen) <= 6
  /\ key.of \in KeyNames /\ key.flags \subseteq Modifiers \cup {"PAD"}
  /\ interrupts \in BOOLEAN

\* head, tail and count describe the same ring whatever the handler does between
\* the steps of get_byte_from_kb_buf.
RingConsistent ==
  LET distance == count - (IF pc = "count" THEN 1 ELSE 0)
  IN head \in {tail + distance, tail + distance - BufLength}

\* Unless a scan code was dropped, read_keyboard passes on the strokes of the
\* user, one by one, in their order, with the character and the modifiers they
\* had when they were made, however far it is behind.
StoredAsTyped ==
  pc = "store" /\ ~lost => expected # <<>> /\ key = Head(expected)

\* Once everything is read, and unless a scan code was dropped, no stroke is
\* missing, and modifiers, locks and lights are what the user sees.
Quiet == pc = "idle" /\ count = 0 /\ ~full /\ queue = <<>>

QuietAgrees ==
  Quiet /\ ~lost =>
    /\ expected = <<>>
    /\ mods = held \cap Modifiers
    /\ locks = toggled /\ leds = toggled

\* The handler has taken the acknowledgement and a later byte hides it from kb_ack.
Overtaken ==
  /\ pc \in {"ack", "ack value"}
  /\ port # Ack
  /\ \A i \in DOMAIN queue : queue[i] # Ack

\* The decoder comes back to the console's loop, with one exception besides a
\* dropped byte: kb_ack waits for ever for an acknowledgement the handler took.
DecodeEnds == (pc # "idle") ~> (pc = "idle" \/ lost \/ Overtaken)

================================================================================
