--------------------------------- MODULE Console ---------------------------------
(******************************************************************************)
(* The text consoles (kernel/console.c).  console_task echoes keys with       *)
(* print_character, scrolls and switches; sys_printx prints on the same       *)
(* consoles for a task or a process.                                          *)
(*                                                                            *)
(* The task is preempted between any two of its reads and writes.  A system   *)
(* call is not: the clock schedules nobody while one is running, so a call    *)
(* prints a character in one step, and a string in as many steps with nothing *)
(* in between.                                                                *)
(*                                                                            *)
(* Positions are words relative to vga_mem_start.  `written` and `raced` are  *)
(* history.                                                                   *)
(******************************************************************************)
EXTENDS Integers, Sequences, FiniteSets

CONSTANTS
  Consoles,    \* CONSOLE_CNT
  Width,       \* TEXT_MODE_WIDTH
  Size,        \* TEXT_MODE_SIZE
  Memory,      \* vga_mem_end - vga_mem_start
  Printed,     \* the consoles tasks and processes print on
  BufLength    \* CONSOLE_BUF_LENGTH

\* The memory of a console holds more than a screen, and no whole number of rows.
ASSUME SizesAssumption ==
  /\ Consoles \in Nat \ {0} /\ Width \in Nat \ {0} /\ BufLength \in Nat \ {0}
  /\ Size \in Nat /\ Size % Width = 0 /\ Size > 0
  /\ Memory \in Nat /\ Memory > Size /\ Memory % Width # 0

Console == 0 .. Consoles - 1
ASSUME PrintedAssumption == Printed \subseteq Console

VARIABLES
  cursor, start,     \* cursor_pos and vga_start_addr of each console
  input,             \* in_buf of each console
  current,           \* current_console
  i,                 \* the loop of console_task
  pc,                \* where the task is in it
  back,              \* where it goes when the registers are written
  ch,                \* the character it prints
  vmem_ptr,          \* the cell it found the cursor at
  direction,         \* the one it scrolls in
  loaded,            \* a field it has read and will write back
  outs,              \* the registers it has yet to write
  arg,               \* and the argument of the first, once evaluated
  shown,             \* the cursor and start address of the VGA
  hung,              \* a call loops for ever
  written,           \* the last cell the task wrote
  raced              \* a call came between a read and a write on the same console

fields == <<cursor, start>>
turn == <<i, back>>
print == <<ch, vmem_ptr, written>>
scroll == <<direction, loaded>>
vga == <<outs, arg, shown>>
history == <<hung, raced>>
vars == <<fields, input, current, pc, turn, print, scroll, vga, history>>

Char == {"glyph", "newline", "backspace"}
None == -1

\* The last start address scroll_console reaches.
Screens == {s \in 0 .. Memory : s % Width = 0 /\ s + Size < Memory + Width}
LastScreen == CHOOSE s \in Screens : \A t \in Screens : t <= s

--------------------------------------------------------------------------------
(* print_character, the parts that the task and the calls share.              *)

\* Mutant of Room: the last cell is not kept free.
RoomPlus(c, pos) ==
  CASE c = "newline" -> pos < Memory - Width
    [] c = "backspace" -> pos > 0
    [] OTHER    -> pos < Memory

Room(c, pos) ==
  CASE c = "newline" -> pos < Memory - Width
    [] c = "backspace" -> pos > 0
    [] OTHER    -> pos < Memory - 1

Moved(c, pos) ==
  CASE c = "newline" -> Width * (pos \div Width + 1)
    [] c = "backspace" -> pos - 1
    [] OTHER    -> pos + 1

\* The cursor is below the screen.
Below(pos, top) == pos >= top + Size

\* Mutant of MayScroll: the memory's end is not looked at.
MayScrollOn(dir, top) == IF dir > 0 THEN top > 0 ELSE TRUE

\* Mutant of MayScroll: it stops a row early.
MayScrollEarly(dir, top) == IF dir > 0 THEN top > 0 ELSE top + Size + Width < Memory

\* scroll_console: up when direction is positive.
MayScroll(dir, top) == IF dir > 0 THEN top > 0 ELSE top + Size < Memory

\* Where `while (cursor_pos >= ...) scroll_console(con, -1)` ends.
Followed(top, pos) ==
  LET ends == {s \in top .. top + Memory :
                 (s - top) % Width = 0 /\ (~Below(pos, s) \/ ~MayScroll(-1, s))}
  IN CHOOSE s \in ends : \A t \in ends : s <= t

\* init_consoles and change_current_console(0): the first console goes on where the
\* early output stopped, the others have printed their prompt.
Prompt == 3
ASSUME PromptAssumption == Prompt < Memory

Init ==
  /\ \E position \in 0 .. Size - 1 :
       /\ cursor = [c \in Console |-> IF c = 0 THEN position ELSE Prompt]
       /\ shown = [cursor |-> <<0, position>>, start |-> <<0, 0>>]
  /\ start = [c \in Console |-> IF c = 0 THEN 0 ELSE Followed(0, Prompt)]
  /\ input = [c \in Console |-> <<>>]
  /\ current = 0 /\ i = 0
  /\ pc = "read" /\ back = "read" /\ ch = "glyph" /\ vmem_ptr = 0 /\ direction = 0
  /\ loaded = 0 /\ outs = <<>> /\ arg = None
  /\ hung = FALSE /\ written = 0 /\ raced = FALSE

--------------------------------------------------------------------------------
(* sys_printx, for any process but the console task.  What it does with a     *)
(* failed assertion, halting the machine, is left out.                        *)

\* Mutant of Shown: the registers are left to the console task.
ShownNot(c, pos, top) == shown

Shown(c, pos, top) ==
  IF c = current THEN [cursor |-> <<c, pos>>, start |-> <<c, top>>] ELSE shown

\* The task has read something of console c that it will use after the call.
Between(c) ==
  \/ c = i /\ pc \in {"test", "load", "store", "scroll load", "scroll store"}
  \/ c = current /\ arg # None

\* console_write prints one character.
Call(c, char) ==
  LET pos == IF Room(char, cursor[c]) THEN Moved(char, cursor[c]) ELSE cursor[c]
      top == Followed(start[c], pos)
  IN /\ ~hung
     /\ cursor' = [cursor EXCEPT ![c] = pos]
     /\ start' = [start EXCEPT ![c] = top]
     /\ hung' = Below(pos, top)
     /\ shown' = IF hung' THEN shown ELSE Shown(c, pos, top)
     /\ raced' = (raced \/ Between(c))
     /\ UNCHANGED <<input, current, pc, turn, print, scroll, outs, arg>>

--------------------------------------------------------------------------------
(* console_task.                                                              *)

\* console_read_key: nothing, a key that is echoed, one that scrolls or switches.
ReadNothing ==
  /\ pc = "read"
  /\ pc' = "write"
  /\ UNCHANGED <<fields, input, current, turn, print, scroll, vga, history>>

ReadChar ==
  /\ pc = "read" /\ i = current
  /\ \E c \in Char :
       input' = IF Len(input[i]) < BufLength THEN [input EXCEPT ![i] = Append(@, c)] ELSE input
  /\ pc' = "write"
  /\ UNCHANGED <<fields, current, turn, print, scroll, vga, history>>

ReadScroll ==
  /\ pc = "read" /\ i = current
  /\ direction' \in {1, -1}
  /\ pc' = "scroll" /\ back' = "write"
  /\ UNCHANGED <<fields, input, current, i, print, loaded, vga, history>>

\* change_current_console.
ReadSwitch ==
  /\ pc = "read" /\ i = current
  /\ current' \in Console
  /\ pc' = "out" /\ outs' = <<"cursor", "start">> /\ back' = "write"
  /\ UNCHANGED <<fields, input, i, print, scroll, arg, shown, history>>

\* The next console; what the last turn left in its locals is dead.
Advance ==
  /\ i' = (i + 1) % Consoles /\ pc' = "read"
  /\ back' = "read" /\ ch' = "glyph" /\ vmem_ptr' = 0
  /\ direction' = 0 /\ loaded' = 0 /\ written' = 0

HasInput == input[i] # <<>>

\* console_write_key.
WriteKey ==
  /\ pc = "write"
  /\ \/ /\ ~HasInput
        /\ Advance
        /\ UNCHANGED input
     \/ /\ HasInput
        /\ ch' = Head(input[i])
        /\ input' = [input EXCEPT ![i] = Tail(@)]
        /\ vmem_ptr' = cursor[i]
        /\ pc' = "test"
        /\ UNCHANGED <<turn, written, scroll>>
  /\ UNCHANGED <<fields, current, vga, history>>

\* print_character: the test of the cursor, ...
PrintTest ==
  /\ pc = "test"
  /\ pc' = IF Room(ch, cursor[i]) THEN "load" ELSE "while"
  /\ UNCHANGED <<fields, input, current, turn, print, scroll, vga, history>>

\* ... which is read again for the assignment ...
PrintLoad ==
  /\ pc = "load"
  /\ loaded' = cursor[i]
  /\ pc' = "store"
  /\ UNCHANGED <<fields, input, current, turn, print, direction, vga, history>>

Cell == CASE ch = "newline" -> written [] ch = "backspace" -> vmem_ptr - 1 [] OTHER -> vmem_ptr

\* ... and the cell, which was found before all of it.
PrintStore ==
  /\ pc = "store"
  /\ cursor' = [cursor EXCEPT ![i] = Moved(ch, loaded)]
  /\ written' = Cell
  /\ pc' = "while"
  /\ UNCHANGED <<start, input, current, turn, ch, vmem_ptr, scroll, vga, history>>

\* The loop that scrolls, and the registers if the console is the current one.
PrintWhile ==
  /\ pc = "while"
  /\ \/ /\ Below(cursor[i], start[i])
        /\ pc' = "scroll" /\ direction' = -1 /\ back' = "while"
        /\ UNCHANGED <<i, print, loaded, outs>>
     \/ /\ ~Below(cursor[i], start[i]) /\ i = current
        /\ pc' = "out" /\ outs' = <<"cursor", "start">> /\ back' = "next"
        /\ UNCHANGED <<i, print, scroll>>
     \/ /\ ~Below(cursor[i], start[i]) /\ i # current
        /\ Advance
        /\ UNCHANGED outs
  /\ UNCHANGED <<fields, input, current, arg, shown, history>>

\* scroll_console.
ScrollEnd ==
  IF i = current THEN pc' = "out" /\ outs' = <<"start", "cursor">>
  ELSE pc' = back /\ UNCHANGED outs

ScrollTest ==
  /\ pc = "scroll"
  /\ IF MayScroll(direction, start[i]) THEN pc' = "scroll load" /\ UNCHANGED outs
     ELSE ScrollEnd
  /\ UNCHANGED <<fields, input, current, turn, print, scroll, arg, shown, history>>

ScrollLoad ==
  /\ pc = "scroll load"
  /\ loaded' = start[i]
  /\ pc' = "scroll store"
  /\ UNCHANGED <<fields, input, current, turn, print, direction, vga, history>>

ScrollStore ==
  /\ pc = "scroll store"
  /\ start' = [start EXCEPT ![i] = loaded - direction * Width]
  /\ ScrollEnd
  /\ UNCHANGED <<cursor, input, current, turn, print, scroll, arg, shown, history>>

\* set_cursor, set_start_address: the argument, then the register.
OutArg ==
  /\ pc = "out" /\ arg = None
  /\ arg' = IF Head(outs) = "cursor" THEN cursor[current] ELSE start[current]
  /\ UNCHANGED <<fields, input, current, pc, turn, print, scroll, outs, shown, history>>

OutRegister ==
  /\ pc = "out" /\ arg # None
  /\ shown' = [shown EXCEPT ![Head(outs)] = <<current, arg>>]
  /\ arg' = None
  /\ outs' = Tail(outs)
  /\ \/ Tail(outs) = <<>> /\ back = "next" /\ Advance
     \/ Tail(outs) = <<>> /\ back # "next" /\ pc' = back /\ UNCHANGED <<turn, print, scroll>>
     \/ Tail(outs) # <<>> /\ UNCHANGED <<pc, turn, print, scroll>>
  /\ UNCHANGED <<fields, input, current, history>>

--------------------------------------------------------------------------------
Calls == \E c \in Printed, char \in Char \ {"backspace"} : Call(c, char)
Task ==
  /\ ~hung
  /\ \/ ReadNothing \/ ReadChar \/ ReadScroll \/ ReadSwitch \/ WriteKey
     \/ PrintTest \/ PrintLoad \/ PrintStore \/ PrintWhile
     \/ ScrollTest \/ ScrollLoad \/ ScrollStore \/ OutArg \/ OutRegister

Next == Calls \/ Task

Spec == Init /\ [][Next]_vars

\* The console task never blocks, so it gets the processor again and again.
FairSpec == Spec /\ WF_vars(Task)

--------------------------------------------------------------------------------
\* The first row that begins behind the memory.
NextRow == Width * (Memory \div Width + 1)

\* Types, with every field in the range its console's memory and one row allow.
TypeOK ==
  /\ cursor \in [Console -> 0 .. NextRow]
  /\ start \in [Console -> 0 .. LastScreen + Width]
  /\ \A c \in Console : Len(input[c]) <= BufLength /\ \A k \in DOMAIN input[c] : input[c][k] \in Char
  /\ current \in Console /\ i \in Console
  /\ pc \in {"read", "write", "test", "load", "store", "while",
             "scroll", "scroll load", "scroll store", "out"}
  /\ back \in {"read", "write", "while", "next"}
  /\ ch \in Char /\ direction \in {-1, 0, 1}
  /\ vmem_ptr \in 0 .. NextRow /\ loaded \in 0 .. NextRow
  /\ arg \in {None} \cup 0 .. NextRow
  /\ shown.cursor \in Console \X (0 .. NextRow) /\ shown.start \in Console \X (0 .. NextRow)
  /\ hung \in BOOLEAN /\ raced \in BOOLEAN

\* As long as no call came between a read and a write of the task, every cursor
\* stays on a cell of its console, every cell the task writes is its console's,
\* and no screen is scrolled beyond the console's last.
WithinMemory ==
  ~raced => /\ \A c \in Console : cursor[c] < Memory /\ start[c] <= LastScreen
            /\ written \in 0 .. Memory - 1

\* Between two keys the VGA shows the cursor and the screen of the current console,
\* whoever printed last, unless a call came between.
ShownIsCurrent ==
  pc \in {"read", "write"} /\ ~raced =>
    /\ shown.cursor = <<current, cursor[current]>>
    /\ shown.start = <<current, start[current]>>

\* The loop in print_character ends, unless a call came between.
ScrollEnds == (pc = "while") ~> (pc = "read" \/ raced)

================================================================================
