------------------------------- MODULE ConsoleProofs -------------------------------
(******************************************************************************)
(* Every cursor and every screen stays inside its console's memory, and the   *)
(* VGA shows the console in front, whoever prints, for any number of consoles *)
(* of any size, unless a call comes between a read and a write of the task.   *)
(******************************************************************************)
EXTENDS Console, TLAPS

--------------------------------------------------------------------------------
(* Rows.                                                                      *)

LEMMA DivMod ==
  ASSUME NEW a \in Nat, NEW b \in Nat \ {0}
  PROVE  /\ a \div b \in Nat /\ a % b \in 0 .. b - 1
         /\ a = b * (a \div b) + (a % b)
OBVIOUS

\* A product that is small is none.
LEMMA NoneFits ==
  ASSUME NEW b \in Nat \ {0}, NEW d \in Int, b * d < b, -b < b * d
  PROVE  d = 0
<1>1. CASE d >= 1
  <2>1. PICK e \in Nat : d = 1 + e
    <3>1. d - 1 \in Nat /\ d = 1 + (d - 1)
      BY <1>1
    <3> QED
      BY <3>1
  <2>2. b * d = b + b * e /\ b * e \in Nat
    BY <2>1
  <2> QED
    BY <2>2
<1>2. CASE d <= -1
  <2>1. PICK e \in Nat : d = -1 - e
    <3>1. -1 - d \in Nat /\ d = -1 - (-1 - d)
      BY <1>2
    <3> QED
      BY <3>1
  <2>2. b * d = -b - b * e /\ b * e \in Nat
    BY <2>1
  <2> QED
    BY <2>2
<1> QED
  BY <1>1, <1>2

\* How a number divides is known from any way to write it.
LEMMA DivModUnique ==
  ASSUME NEW b \in Nat \ {0}, NEW q \in Nat, NEW r \in 0 .. b - 1
  PROVE  (b * q + r) \div b = q /\ (b * q + r) % b = r
<1> DEFINE a == b * q + r
<1>1. a \in Nat
  <2>1. b * q \in Nat
    OBVIOUS
  <2> QED
    BY <2>1
<1> HIDE DEF a
<1>2. a \div b \in Nat /\ a % b \in 0 .. b - 1 /\ a = b * (a \div b) + (a % b)
  BY <1>1, DivMod
<1> DEFINE d == q - (a \div b)
<1>3. b * d = (a % b) - r /\ d \in Int
  <2>1. b * d = b * q - b * (a \div b)
    BY <1>2
  <2>2. a = b * q + r
    BY DEF a
  <2>3. b * q \in Int /\ b * (a \div b) \in Int /\ b * q - b * (a \div b) = (a % b) - r
    BY <1>2, <2>2
  <2> QED
    BY <1>2, <2>1, <2>3
<1>4. d = 0
  <2>1. b * d < b /\ -b < b * d
    BY <1>2, <1>3
  <2> QED
    BY <1>3, <2>1, NoneFits
<1>5. q = a \div b /\ r = a % b
  <2>1. q = a \div b
    BY <1>2, <1>4
  <2>2. (a % b) - r = 0
    BY <1>3, <1>4
  <2> QED
    BY <1>2, <2>1, <2>2
<1> QED
  BY <1>5 DEF a

\* The multiples of the width are the beginnings of rows.
LEMMA RowsAre ==
  ASSUME NEW w \in Nat \ {0}, NEW s \in Nat
  PROVE  s % w = 0 <=> \E k \in Nat : s = w * k
<1>1. ASSUME s % w = 0 PROVE \E k \in Nat : s = w * k
  <2>1. s \div w \in Nat /\ s = w * (s \div w)
    BY <1>1, DivMod
  <2> QED
    BY <2>1
<1>2. ASSUME NEW k \in Nat, s = w * k PROVE s % w = 0
  BY <1>2, DivModUnique
<1> QED
  BY <1>1, <1>2

\* From row to row.
LEMMA NextRowIsRow ==
  ASSUME NEW w \in Nat \ {0}, NEW s \in Nat, s % w = 0
  PROVE  (s + w) % w = 0 /\ (s > 0 => s >= w /\ s - w \in Nat /\ (s - w) % w = 0)
<1>1. PICK k \in Nat : s = w * k
  BY RowsAre
<1>2. s + w = w * (k + 1) /\ s + w \in Nat /\ k + 1 \in Nat
  BY <1>1
<1>3. (s + w) % w = 0
  BY <1>2, RowsAre
<1>4. ASSUME s > 0 PROVE s >= w /\ s - w \in Nat /\ (s - w) % w = 0
  <2>1. k # 0
    BY <1>1, <1>4
  <2>2. k - 1 \in Nat /\ s = w * (k - 1) + w /\ w * (k - 1) \in Nat
    BY <1>1, <2>1
  <2> QED
    BY <2>2, RowsAre
<1> QED
  BY <1>3, <1>4

LEMMA RowsAdd ==
  ASSUME NEW w \in Nat \ {0}, NEW s \in Nat, NEW t \in Nat, s % w = 0
  PROVE  (s + t) % w = t % w
<1>1. PICK k \in Nat : s = w * k
  BY RowsAre
<1>2. t \div w \in Nat /\ t % w \in 0 .. w - 1 /\ t = w * (t \div w) + (t % w)
  BY DivMod
<1> DEFINE q == t \div w
           r == t % w
<1> HIDE DEF q, r
<1>3. q \in Nat /\ r \in 0 .. w - 1 /\ t = w * q + r
  BY <1>2 DEF q, r
<1>4. PICK m \in Nat : s + t = w * m + r
  <2>1. w * (k + q) = w * k + w * q /\ k + q \in Nat
    BY <1>3
  <2>2. s + t = w * (k + q) + r
    BY <1>1, <1>3, <2>1
  <2> QED
    BY <2>1, <2>2
<1>5. (s + t) % w = r
  <2>1. (w * m + r) % w = r
    BY <1>3, DivModUnique
  <2> QED
    BY <1>4, <2>1
<1> QED
  BY <1>5 DEF r

\* The first row at n or behind it.
LEMMA FirstRow ==
  ASSUME NEW w \in Nat \ {0}, NEW n \in Nat
  PROVE  \E k \in Nat : /\ n <= w * k /\ w * k < n + w
                        /\ \A j \in Nat : n <= w * j => w * k <= w * j
<1>1. n + w - 1 \in Nat
  OBVIOUS
<1> DEFINE k == (n + w - 1) \div w
           r == (n + w - 1) % w
<1>2. k \in Nat /\ r \in 0 .. w - 1 /\ n + w - 1 = w * k + r
  BY <1>1, DivMod
<1> HIDE DEF k, r
<1>3. n <= w * k /\ w * k < n + w
  <2>1. w * k \in Nat
    BY <1>2
  <2> QED
    BY <1>2, <2>1
<1>4. ASSUME NEW j \in Nat, n <= w * j PROVE w * k <= w * j
  <2>1. CASE j < k
    <3>1. PICK e \in Nat : k = j + 1 + e
      <4>1. k - j - 1 \in Nat /\ k = j + 1 + (k - j - 1)
        BY <1>2, <2>1
      <4> QED
        BY <4>1
    <3>2. w * k = w * j + w + w * e /\ w * e \in Nat /\ w * j \in Nat
      BY <3>1
    <3> QED
      BY <1>3, <1>4, <3>2
  <2>2. CASE j >= k
    <3>1. PICK e \in Nat : j = k + e
      <4>1. j - k \in Nat /\ j = k + (j - k)
        BY <1>2, <2>2
      <4> QED
        BY <4>1
    <3>2. w * j = w * k + w * e /\ w * e \in Nat /\ w * k \in Nat
      BY <1>2, <3>1
    <3> QED
      BY <3>2
  <2> QED
    BY <1>2, <2>1, <2>2
<1> QED
  BY <1>2, <1>3, <1>4

\* Two rows are apart by a row.
LEMMA RowsApart ==
  ASSUME NEW w \in Nat \ {0}, NEW a \in Nat, NEW b \in Nat, a % w = 0, b % w = 0, a < b + w
  PROVE  a <= b
<1>1. PICK j \in Nat : a = w * j
  BY RowsAre
<1>2. PICK k \in Nat : b = w * k
  BY RowsAre
<1>3. CASE k < j
  <2>1. PICK e \in Nat : j = k + 1 + e
    <3>1. j - k - 1 \in Nat /\ j = k + 1 + (j - k - 1)
      BY <1>3
    <3> QED
      BY <3>1
  <2>2. w * j = w * k + w + w * e /\ w * e \in Nat
    BY <2>1
  <2> QED
    BY <1>1, <1>2, <2>2
<1>4. CASE j <= k
  <2>1. PICK e \in Nat : k = j + e
    <3>1. k - j \in Nat /\ k = j + (k - j)
      BY <1>4
    <3> QED
      BY <3>1
  <2>2. w * k = w * j + w * e /\ w * e \in Nat
    BY <2>1
  <2> QED
    BY <1>1, <1>2, <2>2
<1> QED
  BY <1>3, <1>4

--------------------------------------------------------------------------------
(* The memory of a console.                                                   *)

LEMMA Sizes ==
  /\ Width \in Nat \ {0} /\ Size \in Nat /\ Memory \in Nat
  /\ Width <= Size /\ Size < Memory
  /\ NextRow \in Nat /\ NextRow % Width = 0 /\ Memory < NextRow
<1>1. Width \in Nat \ {0} /\ Size \in Nat /\ Size > 0 /\ Memory \in Nat /\ Size < Memory
  BY SizesAssumption
<1>2. Width <= Size
  <2>1. Size % Width = 0
    BY SizesAssumption
  <2> QED
    BY <1>1, <2>1, NextRowIsRow
<1> DEFINE q == Memory \div Width
           r == Memory % Width
<1>3. q \in Nat /\ r \in 0 .. Width - 1 /\ Memory = Width * q + r
  BY <1>1, DivMod
<1>4. NextRow = Width * (q + 1)
  BY DEF NextRow
<1> HIDE DEF q, r
<1>5. q + 1 \in Nat /\ Width * (q + 1) = Width * q + Width /\ Width * q \in Nat
  BY <1>1, <1>3
<1>6. NextRow \in Nat /\ Memory < NextRow
  BY <1>1, <1>3, <1>4, <1>5
<1>7. NextRow % Width = 0
  BY <1>1, <1>4, <1>5, <1>6, RowsAre
<1> QED
  BY <1>1, <1>2, <1>6, <1>7

LEMMA LastScreenFacts ==
  /\ LastScreen \in Nat /\ LastScreen % Width = 0
  /\ Memory <= LastScreen + Size /\ LastScreen + Width <= NextRow
  /\ \A s \in Nat : s % Width = 0 /\ s + Size < Memory + Width => s <= LastScreen
<1>1. Memory - Size \in Nat
  BY Sizes
<1>2. PICK k \in Nat : Memory - Size <= Width * k /\ Width * k < Memory - Size + Width
  BY <1>1, Sizes, FirstRow
<1>3. PICK s0 \in Nat : s0 = Width * k
  BY Sizes
<1>4. s0 % Width = 0 /\ Memory <= s0 + Size /\ s0 + Size < Memory + Width /\ s0 <= Memory
  <2>1. s0 % Width = 0
    BY <1>3, Sizes, RowsAre
  <2> QED
    BY <1>2, <1>3, <2>1, Sizes
<1>5. ASSUME NEW s \in Nat, s % Width = 0, s + Size < Memory + Width
      PROVE  s <= s0
  <2>1. s < s0 + Width
    BY <1>4, <1>5, Sizes
  <2> QED
    BY <1>4, <1>5, <2>1, Sizes, RowsApart
<1>6. LastScreen = s0
  <2>1. s0 \in Screens /\ \A t \in Screens : t \in Nat /\ t <= s0
    <3>1. s0 \in Screens
      BY <1>4, Sizes DEF Screens
    <3>2. ASSUME NEW t \in Screens PROVE t \in Nat /\ t <= s0
      <4>1. t \in 0 .. Memory /\ t % Width = 0 /\ t + Size < Memory + Width
        BY DEF Screens
      <4>2. t \in Nat
        BY <4>1, Sizes
      <4> QED
        BY <1>5, <4>1, <4>2
    <3> QED
      BY <3>1, <3>2
  <2>2. LastScreen \in Screens /\ \A t \in Screens : t <= LastScreen
    BY <2>1 DEF LastScreen
  <2> QED
    BY <2>1, <2>2
<1>7. LastScreen + Width <= NextRow
  <2>1. s0 + Width \in Nat /\ (s0 + Width) % Width = 0
    BY <1>4, Sizes, NextRowIsRow
  <2>2. s0 + Width < NextRow + Width
    BY <1>4, Sizes
  <2> QED
    BY <1>6, <2>1, <2>2, Sizes, RowsApart
<1> QED
  BY <1>4, <1>5, <1>6, <1>7

\* Where the loop of print_character leaves the screen: not above where it was, not
\* below the last but where it was there before, and not above the cursor but at the
\* last.
LEMMA FollowedFacts ==
  ASSUME NEW top \in Nat, top % Width = 0, NEW pos \in Nat
  PROVE  /\ Followed(top, pos) \in Nat /\ Followed(top, pos) % Width = 0
         /\ top <= Followed(top, pos)
         /\ top < Followed(top, pos) => Followed(top, pos) <= LastScreen
         /\ pos < Memory => ~Below(pos, Followed(top, pos))
<1> DEFINE Stops(s) == pos < s + Size \/ Memory <= s + Size
           ends == {s \in top .. top + Memory :
                      (s - top) % Width = 0 /\ (~Below(pos, s) \/ ~MayScroll(-1, s))}
           end == Followed(top, pos)
<1>1. \A s \in Nat : (~Below(pos, s) \/ ~MayScroll(-1, s)) <=> Stops(s)
  BY Sizes DEF Below, MayScroll
<1>2. end = CHOOSE s \in ends : \A t \in ends : s <= t
  BY DEF Followed
<1>3. PICK bound \in Nat : \A s \in Nat : Stops(s) <=> bound <= s
  <2>1. CASE pos < Memory
    <3>1. CASE pos + 1 <= Size
      <4>1. \A s \in Nat : Stops(s) <=> 0 <= s
        BY <3>1, Sizes
      <4> QED
        BY <4>1
    <3>2. CASE ~(pos + 1 <= Size)
      <4>1. pos + 1 - Size \in Nat /\ \A s \in Nat : Stops(s) <=> pos + 1 - Size <= s
        BY <2>1, <3>2, Sizes
      <4> QED
        BY <4>1
    <3> QED
      BY <3>1, <3>2
  <2>2. CASE ~(pos < Memory)
    <3>1. Memory - Size \in Nat /\ \A s \in Nat : Stops(s) <=> Memory - Size <= s
      BY <2>2, Sizes
    <3> QED
      BY <3>1
  <2> QED
    BY <2>1, <2>2
<1> HIDE DEF Stops
<1>4. PICK n \in Nat : (\A d \in Nat : Stops(top + d) <=> n <= d) /\ n <= Memory - Size
  <2>1. bound <= Memory - Size
    <3>1. Memory - Size \in Nat /\ Stops(Memory - Size)
      BY Sizes DEF Stops
    <3> QED
      BY <1>3, <3>1
  <2>2. CASE bound <= top
    <3>1. (\A d \in Nat : Stops(top + d) <=> 0 <= d) /\ 0 <= Memory - Size
      BY <1>3, <2>2, Sizes
    <3> QED
      BY <3>1
  <2>3. CASE ~(bound <= top)
    <3>1. bound - top \in Nat /\ (\A d \in Nat : Stops(top + d) <=> bound - top <= d)
      BY <1>3, <2>3
    <3>2. bound - top <= Memory - Size
      BY <2>1, <2>3, Sizes
    <3> QED
      BY <3>1, <3>2
  <2> QED
    BY <2>2, <2>3
<1>5. PICK k \in Nat : /\ n <= Width * k /\ Width * k < n + Width
                       /\ \A j \in Nat : n <= Width * j => Width * k <= Width * j
  BY Sizes, FirstRow
<1>6. PICK d0 \in Nat : d0 = Width * k
  BY Sizes
<1>7. d0 % Width = 0 /\ n <= d0 /\ d0 <= Memory
  <2>1. d0 % Width = 0
    BY <1>6, Sizes, RowsAre
  <2> QED
    BY <1>4, <1>5, <1>6, <2>1, Sizes
<1>8. \A d \in Nat : d % Width = 0 /\ n <= d => d0 <= d
  <2> SUFFICES ASSUME NEW d \in Nat, d % Width = 0, n <= d PROVE d0 <= d
    OBVIOUS
  <2>1. PICK j \in Nat : d = Width * j
    BY Sizes, RowsAre
  <2> QED
    BY <1>5, <1>6, <2>1
<1>9. \A s : s \in ends <=> /\ s \in top .. top + Memory
                            /\ (s - top) % Width = 0 /\ n <= s - top
  <2> SUFFICES ASSUME NEW s \in top .. top + Memory
               PROVE  (~Below(pos, s) \/ ~MayScroll(-1, s)) <=> n <= s - top
    OBVIOUS
  <2>1. s \in Nat /\ s - top \in Nat /\ s = top + (s - top)
    BY Sizes
  <2>2. Stops(s) <=> n <= s - top
    BY <1>4, <2>1
  <2> QED
    BY <1>1, <2>1, <2>2
<1> HIDE DEF ends, end
<1>10. end = top + d0
  <2>1. top + d0 \in ends
    <3>1. top + d0 \in top .. top + Memory /\ (top + d0) - top = d0
      BY <1>7, Sizes
    <3> QED
      BY <1>7, <1>9, <3>1
  <2>2. \A t \in ends : top + d0 <= t /\ t \in Nat
    <3> SUFFICES ASSUME NEW t \in ends PROVE top + d0 <= t /\ t \in Nat
      OBVIOUS
    <3>1. t \in Nat /\ t - top \in Nat /\ (t - top) % Width = 0 /\ n <= t - top
      BY <1>9, Sizes
    <3>2. d0 <= t - top
      BY <1>8, <3>1
    <3> QED
      BY <3>1, <3>2
  <2>3. end \in ends /\ \A t \in ends : end <= t
    BY <1>2, <2>1, <2>2
  <2> QED
    BY <2>1, <2>2, <2>3
<1>11. end \in Nat /\ top <= end
  BY <1>10
<1>12. end % Width = 0
  <2>1. (top + d0) % Width = d0 % Width
    BY Sizes, RowsAdd
  <2> QED
    BY <1>7, <1>10, <2>1
<1>13. top < end => end <= LastScreen
  <2> SUFFICES ASSUME top < end PROVE end <= LastScreen
    OBVIOUS
  <2>1. Width <= d0 /\ d0 - Width \in Nat /\ (d0 - Width) % Width = 0
    <3>1. d0 > 0
      BY <1>10
    <3> QED
      BY <1>7, <3>1, Sizes, NextRowIsRow
  <2>2. ~(n <= d0 - Width)
    <3>1. ~(d0 <= d0 - Width)
      BY Sizes
    <3> QED
      BY <1>8, <2>1, <3>1
  <2>3. ~Stops(top + (d0 - Width))
    BY <1>4, <2>1, <2>2
  <2>4. end + Size < Memory + Width
    BY <1>10, <2>1, <2>3, Sizes DEF Stops
  <2> QED
    BY <1>11, <1>12, <2>4, LastScreenFacts
<1>14. pos < Memory => ~Below(pos, end)
  <2>1. Stops(end)
    BY <1>4, <1>7, <1>10
  <2> QED
    BY <1>11, <2>1, Sizes DEF Stops, Below
<1> QED
  BY <1>11, <1>12, <1>13, <1>14 DEF end

\* Where printing a character leaves the cursor.
LEMMA MovedFacts ==
  ASSUME NEW c \in Char, NEW pos \in Nat,
         IF c = "backspace" THEN pos > 0 /\ pos <= NextRow ELSE pos < Memory
  PROVE  /\ Moved(c, pos) \in 0 .. NextRow
         /\ c # "backspace" => pos <= Moved(c, pos)
         /\ Room(c, pos) /\ pos < Memory => Moved(c, pos) < Memory
<1>1. CASE c = "backspace"
  <2>1. Moved(c, pos) = pos - 1
    BY <1>1 DEF Moved
  <2> QED
    BY <1>1, <2>1, Sizes
<1>2. CASE c = "newline"
  <2>1. Moved(c, pos) = Width * (pos \div Width + 1) /\ (Room(c, pos) => pos < Memory - Width)
    BY <1>2 DEF Moved, Room
  <2> DEFINE q == pos \div Width
             r == pos % Width
  <2>2. q \in Nat /\ r \in 0 .. Width - 1 /\ pos = Width * q + r
    BY Sizes, DivMod
  <2> HIDE DEF q, r
  <2>3. Width * (q + 1) = Width * q + Width /\ Width * q \in Nat /\ q + 1 \in Nat
    BY <2>2, Sizes
  <2>4. PICK m \in Nat : m = Width * (q + 1)
    BY <2>3, Sizes
  <2>5. pos <= m /\ m <= pos + Width
    BY <2>2, <2>3, <2>4, Sizes
  <2>6. m % Width = 0
    BY <2>3, <2>4, Sizes, RowsAre
  <2>7. pos < Memory
    BY <1>2
  <2>8. m <= NextRow
    <3>1. m < NextRow + Width
      BY <2>5, <2>7, Sizes
    <3> QED
      BY <2>6, <3>1, Sizes, RowsApart
  <2>9. Moved(c, pos) = m
    BY <2>1, <2>4 DEF q
  <2> QED
    BY <1>2, <2>1, <2>5, <2>8, <2>9, Sizes
<1>3. CASE c = "glyph"
  <2>1. Moved(c, pos) = pos + 1 /\ (Room(c, pos) => pos < Memory - 1)
    BY <1>3 DEF Moved, Room
  <2> QED
    BY <1>3, <2>1, Sizes
<1> QED
  BY <1>1, <1>2, <1>3 DEF Char

--------------------------------------------------------------------------------
(* The inductive invariant.                                                   *)

Position == 0 .. NextRow
Top == {s \in 0 .. LastScreen + Width : s % Width = 0}
Register == {"cursor", "start"}
Labels == {"read", "write", "test", "load", "store", "while",
           "scroll", "scroll load", "scroll store", "out"}
Orders == {<<"cursor", "start">>, <<"start", "cursor">>, <<"cursor">>, <<"start">>}

FieldsOK == cursor \in [Console -> Position] /\ start \in [Console -> Top]

InputOK == input \in [Console -> Seq(Char)] /\ \A c \in Console : Len(input[c]) <= BufLength

\* The types of the rest, and where the task is when it has registers to write.
TaskOK ==
  /\ current \in Console /\ i \in Console
  /\ pc \in Labels /\ back \in {"read", "write", "while", "next"}
  /\ ch \in Char /\ direction \in {-1, 0, 1}
  /\ vmem_ptr \in Position /\ loaded \in Position
  /\ written \in Int
  /\ arg \in {None} \cup Position
  /\ shown \in [Register -> Console \X Position]
  /\ hung \in BOOLEAN /\ raced \in BOOLEAN
  /\ outs \in {<<>>} \cup Orders
  /\ pc = "out" <=> outs # <<>>
  /\ arg # None => pc = "out"
  /\ pc = "out" => back # "read"
  /\ pc \in {"scroll", "scroll load", "scroll store"} =>
       back \in {"write", "while"} /\ direction \in {-1, 1}

\* What a test has established still holds when the task goes by it, even if a call
\* came between: a call moves the cursor and the screen down, and only inside the memory.
TestsHold ==
  /\ pc = "load" => IF ch = "backspace" THEN cursor[i] > 0 ELSE cursor[i] < Memory
  /\ pc = "store" => IF ch = "backspace" THEN loaded > 0 ELSE loaded < Memory
  /\ pc = "scroll load" => IF direction = 1 THEN start[i] > 0 ELSE start[i] <= LastScreen
  /\ pc = "scroll store" => loaded \in Top /\ IF direction = 1 THEN loaded > 0 ELSE loaded <= LastScreen

\* What the task has read is what is there.
Field(reg) == IF reg = "cursor" THEN cursor[current] ELSE start[current]

ReadsFresh ==
  /\ pc \in {"test", "load", "store"} => vmem_ptr = cursor[i]
  /\ pc \in {"load", "store"} => Room(ch, cursor[i])
  /\ pc = "store" => loaded = cursor[i]
  /\ pc \in {"scroll load", "scroll store"} /\ direction = -1 => start[i] + Size < Memory
  /\ pc = "scroll store" => loaded = start[i]
  /\ arg # None => arg = Field(Head(outs))

\* The registers the task is still going to write, before it comes to its next key.
Due(reg) ==
  \/ \E k \in DOMAIN outs : outs[k] = reg
  \/ i = current /\ pc \in {"while", "scroll", "scroll load", "scroll store"}

ShownFresh == \A reg \in Register : Due(reg) \/ shown[reg] = <<current, Field(reg)>>

Inside ==
  /\ \A c \in Console : cursor[c] < Memory /\ start[c] <= LastScreen
  /\ written \in 0 .. Memory - 1

ConsoleInv ==
  /\ FieldsOK /\ InputOK /\ TaskOK /\ TestsHold
  /\ ~raced => ~hung /\ Inside /\ ReadsFresh /\ ShownFresh

--------------------------------------------------------------------------------
(* The invariant holds initially.                                             *)

\* Positions and screens are numbers, whatever the console.
LEMMA Ranges ==
  /\ \A s \in Top : s \in Nat /\ s % Width = 0 /\ s <= NextRow
  /\ \A pos \in Position : pos \in Nat /\ pos <= NextRow
  /\ \A s \in Nat : s % Width = 0 /\ s <= LastScreen => s \in Top /\ s \in Position
  /\ 0 \in Top /\ 0 \in Position /\ Memory \in Position /\ NextRow \in Nat
<1>1. 0 % Width = 0
  BY Sizes, RowsAre
<1> QED
  BY <1>1, Sizes, LastScreenFacts DEF Top, Position

LEMMA InitKeeps == Init => ConsoleInv
<1> SUFFICES ASSUME Init PROVE ConsoleInv
  OBVIOUS
<1> DEFINE top0 == Followed(0, Prompt)
<1>1. top0 \in Nat /\ top0 % Width = 0 /\ top0 <= LastScreen
  <2>1. 0 % Width = 0 /\ Prompt \in Nat
    BY Sizes, RowsAre DEF Prompt
  <2>2. top0 \in Nat /\ top0 % Width = 0 /\ 0 <= top0 /\ (0 < top0 => top0 <= LastScreen)
    BY <2>1, FollowedFacts
  <2> QED
    BY <2>2, LastScreenFacts
<1> HIDE DEF top0
<1>2. 0 \in Console /\ None = -1
  BY SizesAssumption DEF Console, None
<1>3. PICK position \in 0 .. Size - 1 :
        /\ cursor = [c \in Console |-> IF c = 0 THEN position ELSE Prompt]
        /\ shown = [cursor |-> <<0, position>>, start |-> <<0, 0>>]
  BY DEF Init
<1>4. start = [c \in Console |-> IF c = 0 THEN 0 ELSE top0]
  BY DEF Init, top0
<1>5. \A c \in Console : cursor[c] \in Nat /\ cursor[c] < Memory /\ cursor[c] \in Position
                         /\ start[c] \in Top /\ start[c] <= LastScreen
  BY <1>1, <1>3, <1>4, Sizes, LastScreenFacts, Ranges, PromptAssumption DEF Prompt, Position
<1>6. FieldsOK
  BY <1>3, <1>4, <1>5 DEF FieldsOK
<1>7. InputOK
  <2>1. input = [c \in Console |-> <<>>] /\ BufLength \in Nat
    BY SizesAssumption DEF Init
  <2> QED
    BY <2>1 DEF InputOK
<1>8. /\ current = 0 /\ i = 0
      /\ pc = "read" /\ back = "read" /\ ch = "glyph" /\ vmem_ptr = 0 /\ direction = 0
      /\ loaded = 0 /\ outs = <<>> /\ arg = None /\ written = 0
  BY DEF Init
<1>9. hung = FALSE /\ raced = FALSE
  BY DEF Init
<1>10. TaskOK
  <2>1. hung \in BOOLEAN /\ raced \in BOOLEAN
    BY <1>9
  <2>2. shown \in [Register -> Console \X Position]
    BY <1>2, <1>3, Sizes, Ranges DEF Register, Position
  <2> QED
    BY <1>2, <1>8, <2>1, <2>2, Ranges DEF TaskOK, Labels, Orders, Char
<1>11. TestsHold
  BY <1>8 DEF TestsHold
<1>12. Inside
  BY <1>5, <1>8, Sizes DEF Inside
<1>13. ReadsFresh
  BY <1>8 DEF ReadsFresh
<1>14. ShownFresh
  BY <1>2, <1>3, <1>4, <1>8 DEF ShownFresh, Register, Field
<1> QED
  BY <1>6, <1>7, <1>9, <1>10, <1>11, <1>12, <1>13, <1>14 DEF ConsoleInv

--------------------------------------------------------------------------------
(* A call keeps it.                                                           *)

LEMMA CallKeeps ==
  ASSUME ConsoleInv, NEW c \in Console, NEW char \in Char \ {"backspace"}, Call(c, char)
  PROVE  ConsoleInv'
<1> DEFINE pos == IF Room(char, cursor[c]) THEN Moved(char, cursor[c]) ELSE cursor[c]
           top == Followed(start[c], pos)
<1>1. /\ cursor' = [cursor EXCEPT ![c] = pos]
      /\ start' = [start EXCEPT ![c] = top]
  BY DEF Call
<1>2. UNCHANGED <<input, current, pc, i, back, ch, vmem_ptr, written, direction, loaded, outs, arg>>
  BY DEF Call, turn, print, scroll
<1>3. /\ hung' = Below(pos, top)
      /\ shown' = IF hung' THEN shown ELSE Shown(c, pos, top)
      /\ raced' = (raced \/ Between(c))
  BY DEF Call
<1>4. /\ cursor \in [Console -> Position] /\ start \in [Console -> Top]
      /\ cursor[c] \in Nat /\ cursor[c] <= NextRow /\ start[c] \in Top
      /\ start[c] \in Nat /\ start[c] % Width = 0
  BY Ranges DEF ConsoleInv, FieldsOK
<1>5. /\ pos \in Nat /\ pos <= NextRow /\ cursor[c] <= pos
      /\ (pos # cursor[c] => pos < Memory) /\ (cursor[c] < Memory => pos < Memory)
  <2>1. CASE Room(char, cursor[c])
    <3>1. cursor[c] < Memory
      BY <1>4, <2>1, Sizes DEF Room
    <3>2. /\ Moved(char, cursor[c]) \in 0 .. NextRow
          /\ cursor[c] <= Moved(char, cursor[c])
          /\ Moved(char, cursor[c]) < Memory
      BY <1>4, <2>1, <3>1, MovedFacts
    <3> QED
      BY <2>1, <3>2
  <2>2. CASE ~Room(char, cursor[c])
    BY <1>4, <2>2
  <2> QED
    BY <2>1, <2>2
<1> HIDE DEF pos
<1>6. /\ top \in Nat /\ top % Width = 0 /\ start[c] <= top
      /\ start[c] < top => top <= LastScreen
      /\ pos < Memory => ~Below(pos, top)
  BY <1>4, <1>5, FollowedFacts
<1> HIDE DEF top
<1>7. pos \in Position /\ top \in Top /\ top \in Position /\ (start[c] <= LastScreen => top <= LastScreen)
  <2>1. pos \in Position
    BY <1>5, Sizes DEF Position
  <2>2. top \in Top
    BY <1>4, <1>6, LastScreenFacts, Ranges
  <2> QED
    BY <1>4, <1>6, <2>1, <2>2, LastScreenFacts, Sizes DEF Top, Position
<1>8. FieldsOK'
  BY <1>1, <1>4, <1>7 DEF FieldsOK
<1>9. InputOK'
  BY <1>2 DEF InputOK, ConsoleInv
<1>10. TaskOK'
  <2>1. hung' \in BOOLEAN /\ raced' \in BOOLEAN
    <3>1. Below(pos, top) \in BOOLEAN
      BY DEF Below
    <3> QED
      BY <1>3, <3>1, Zenon
  <2>2. shown' \in [Register -> Console \X Position]
    <3>1. shown \in [Register -> Console \X Position]
      BY DEF ConsoleInv, TaskOK
    <3>2. Shown(c, pos, top) \in [Register -> Console \X Position]
      BY <1>7, <3>1 DEF Shown, Register
    <3> QED
      BY <1>3, <3>1, <3>2, Zenon
  <2> QED
    BY <1>2, <2>1, <2>2 DEF ConsoleInv, TaskOK
<1>11. TestsHold'
  <2>1. \A d \in Console : cursor[d] \in Nat /\ start[d] \in Nat /\ start[d] % Width = 0
    BY <1>4, Ranges
  <2>2. i \in Console /\ ch \in Char
    BY DEF ConsoleInv, TaskOK
  <2>3. \A d \in Console : /\ cursor[d] <= cursor'[d] /\ start[d] <= start'[d]
                           /\ (cursor[d] < Memory => cursor'[d] < Memory)
                           /\ (start[d] <= LastScreen => start'[d] <= LastScreen)
                           /\ cursor'[d] \in Nat /\ start'[d] \in Nat
    BY <1>1, <1>4, <1>5, <1>6, <1>7, <2>1
  <2>4. TestsHold
    BY DEF ConsoleInv
  <2>5. /\ cursor[i] <= cursor'[i] /\ start[i] <= start'[i]
        /\ (cursor[i] < Memory => cursor'[i] < Memory)
        /\ (start[i] <= LastScreen => start'[i] <= LastScreen)
        /\ cursor[i] \in Nat /\ start[i] \in Nat /\ cursor'[i] \in Nat /\ start'[i] \in Nat
    BY <2>1, <2>2, <2>3
  <2>6. pc = "load" => IF ch = "backspace" THEN cursor'[i] > 0 ELSE cursor'[i] < Memory
    BY <2>4, <2>5, Sizes DEF TestsHold
  <2>7. pc = "scroll load" => IF direction = 1 THEN start'[i] > 0 ELSE start'[i] <= LastScreen
    <3>1. CASE direction = 1
      <4>1. pc = "scroll load" => start[i] > 0
        BY <2>4, <3>1, Zenon DEF TestsHold
      <4>2. ASSUME pc = "scroll load" PROVE start'[i] > 0
        <5>1. start[i] > 0
          BY <4>1, <4>2, Zenon
        <5>2. start[i] <= start'[i] /\ start[i] \in Nat /\ start'[i] \in Nat
          BY <2>5, Zenon
        <5> QED
          BY <5>1, <5>2
      <4> QED
        BY <3>1, <4>2, Zenon
    <3>2. CASE direction # 1
      <4>1. pc = "scroll load" => start[i] <= LastScreen
        BY <2>4, <3>2, Zenon DEF TestsHold
      <4>2. pc = "scroll load" => start'[i] <= LastScreen
        BY <2>5, <4>1
      <4> QED
        BY <3>2, <4>2, Zenon
    <3> QED
      BY <3>1, <3>2
  <2> QED
    BY <1>2, <2>4, <2>6, <2>7, Zenon DEF TestsHold
<1>12. ASSUME ~raced' PROVE ~hung' /\ Inside' /\ ReadsFresh' /\ ShownFresh'
  <2>1. ~raced /\ ~Between(c)
    BY <1>3, <1>12, Zenon
  <2>2. Inside /\ ReadsFresh /\ ShownFresh
    BY <2>1, Zenon DEF ConsoleInv
  <2>3. cursor[c] < Memory /\ start[c] <= LastScreen
    BY <2>2 DEF Inside
  <2>4. ~hung'
    BY <1>3, <1>5, <1>6, <2>3, Zenon
  <2>5. shown' = Shown(c, pos, top)
    BY <1>3, <2>4, Zenon
  <2>6. Inside'
    BY <1>1, <1>2, <1>4, <1>5, <1>7, <2>2, <2>3 DEF Inside
  <2>7. /\ c = i => pc \notin {"test", "load", "store", "scroll load", "scroll store"}
        /\ c = current => arg = None
    BY <2>1, Zenon DEF Between
  <2>8. /\ c = current => shown' = [cursor |-> <<c, pos>>, start |-> <<c, top>>]
        /\ c # current => shown' = shown
    BY <2>5, Zenon DEF Shown
  <2>9. i \in Console /\ current \in Console
    BY DEF ConsoleInv, TaskOK
  <2>10. \A reg : Field(reg)' = IF c # current THEN Field(reg)
                                ELSE IF reg = "cursor" THEN pos ELSE top
    BY <1>1, <1>2, <1>4, <2>9 DEF Field
  <2>11. ReadsFresh'
    <3>1. c # i => cursor'[i] = cursor[i] /\ start'[i] = start[i]
      BY <1>1, <1>4, <2>9
    <3>2. arg' # None => arg' = Field(Head(outs))'
      <4>1. c # current => cursor'[current] = cursor[current] /\ start'[current] = start[current]
        BY <1>1, <1>4, <2>9
      <4> QED
        BY <1>2, <2>2, <2>7, <4>1 DEF ReadsFresh, Field
    <3>3. /\ pc \in {"test", "load", "store"} => vmem_ptr = cursor'[i]
          /\ pc \in {"load", "store"} => Room(ch, cursor'[i])
          /\ pc = "store" => loaded = cursor'[i]
          /\ pc \in {"scroll load", "scroll store"} /\ direction = -1 => start'[i] + Size < Memory
          /\ pc = "scroll store" => loaded = start'[i]
      BY <2>2, <2>7, <3>1 DEF ReadsFresh
    <3> QED
      BY <1>2, <3>2, <3>3 DEF ReadsFresh
  <2>12. ShownFresh'
    <3> SUFFICES ASSUME NEW reg \in Register, ~Due(reg)'
                 PROVE  shown'[reg] = <<current', Field(reg)'>>
      BY DEF ShownFresh
    <3>1. ~Due(reg)
      BY <1>2 DEF Due
    <3>2. CASE c = current
      BY <1>2, <2>8, <2>10, <3>2 DEF Register
    <3>3. CASE c # current
      BY <1>2, <2>2, <2>8, <2>10, <3>1, <3>3 DEF ShownFresh
    <3> QED
      BY <3>2, <3>3
  <2> QED
    BY <2>4, <2>6, <2>11, <2>12
<1> QED
  BY <1>8, <1>9, <1>10, <1>11, <1>12 DEF ConsoleInv

--------------------------------------------------------------------------------
(* The task keeps it where no cursor and no screen moves.                     *)

\* What the invariant says of a step that changes none.
Fresh == ~raced /\ ReadsFresh /\ ShownFresh

LEMMA NothingMoves ==
  ASSUME ConsoleInv, UNCHANGED <<fields, history>>, InputOK', TaskOK', TestsHold',
         Fresh => (written' = written \/ written' = 0) /\ ReadsFresh' /\ ShownFresh'
  PROVE  ConsoleInv'
<1>1. cursor' = cursor /\ start' = start /\ hung' = hung /\ raced' = raced
  BY DEF fields, history
<1>2. FieldsOK'
  BY <1>1 DEF FieldsOK, ConsoleInv
<1>3. ASSUME ~raced PROVE ~hung' /\ Inside' /\ ReadsFresh' /\ ShownFresh'
  <2>1. ~hung /\ Inside /\ Fresh
    BY <1>3, Zenon DEF ConsoleInv, Fresh
  <2>2. (written' = written \/ written' = 0) /\ ReadsFresh' /\ ShownFresh'
    BY <2>1
  <2>3. Inside'
    BY <1>1, <2>1, <2>2, Sizes DEF Inside
  <2> QED
    BY <1>1, <2>1, <2>2, <2>3, Zenon
<1> QED
  BY <1>1, <1>2, <1>3, Zenon DEF ConsoleInv

\* Outside the registers' code there are none to write.
LEMMA NothingDue ==
  ASSUME ConsoleInv, pc # "out"
  PROVE  outs = <<>> /\ arg = None
BY DEF ConsoleInv, TaskOK

LEMMA Indices ==
  ASSUME ConsoleInv
  PROVE  /\ i \in Console /\ current \in Console
         /\ (i + 1) % Consoles \in Console
         /\ \A c \in Console : /\ cursor[c] \in Position /\ cursor[c] \in Nat /\ cursor[c] <= NextRow
                               /\ start[c] \in Top /\ start[c] \in Position
                               /\ start[c] \in Nat /\ start[c] % Width = 0
<1>1. i \in Console /\ current \in Console
  BY DEF ConsoleInv, TaskOK
<1>2. (i + 1) % Consoles \in Console
  <2>1. i + 1 \in Nat /\ Consoles \in Nat \ {0}
    BY <1>1, SizesAssumption DEF Console
  <2>2. (i + 1) % Consoles \in 0 .. Consoles - 1
    BY <2>1, DivMod
  <2> QED
    BY <2>2 DEF Console
<1>3. \A c \in Console : cursor[c] \in Position /\ start[c] \in Top
  BY DEF ConsoleInv, FieldsOK
<1>4. \A s \in Top : s \in Position
  BY Ranges, Sizes DEF Position
<1> QED
  BY <1>1, <1>2, <1>3, <1>4, Ranges

LEMMA ReadNothingKeeps == ConsoleInv /\ ReadNothing => ConsoleInv'
<1> SUFFICES ASSUME ConsoleInv, ReadNothing PROVE ConsoleInv'
  OBVIOUS
<1>1. /\ pc = "read" /\ pc' = "write" /\ outs = <<>> /\ arg = None
      /\ UNCHANGED <<cursor, start, input, current, i, back, ch, vmem_ptr, written,
                     direction, loaded, outs, arg, shown, hung, raced>>
  BY NothingDue DEF ReadNothing, fields, turn, print, scroll, vga, history
<1>2. InputOK' /\ TaskOK' /\ TestsHold'
  BY <1>1 DEF ConsoleInv, InputOK, TaskOK, TestsHold, Labels
<1>3. Fresh => ReadsFresh' /\ ShownFresh'
  BY <1>1 DEF Fresh, ReadsFresh, ShownFresh, Due, Field
<1> QED
  BY <1>1, <1>2, <1>3, NothingMoves DEF fields, history

LEMMA ReadCharKeeps == ConsoleInv /\ ReadChar => ConsoleInv'
<1> SUFFICES ASSUME ConsoleInv, ReadChar PROVE ConsoleInv'
  OBVIOUS
<1>1. /\ pc = "read" /\ pc' = "write" /\ outs = <<>> /\ arg = None
      /\ UNCHANGED <<cursor, start, current, i, back, ch, vmem_ptr, written,
                     direction, loaded, outs, arg, shown, hung, raced>>
  BY NothingDue DEF ReadChar, fields, turn, print, scroll, vga, history
<1>2. PICK c \in Char :
        input' = IF Len(input[i]) < BufLength THEN [input EXCEPT ![i] = Append(@, c)] ELSE input
  BY DEF ReadChar
<1>3. InputOK'
  <2>1. InputOK /\ i \in Console /\ BufLength \in Nat
    BY SizesAssumption DEF ConsoleInv, TaskOK
  <2>2. CASE Len(input[i]) < BufLength
    <3>1. input' = [input EXCEPT ![i] = Append(input[i], c)]
      BY <1>2, <2>2
    <3>2. Append(input[i], c) \in Seq(Char) /\ Len(Append(input[i], c)) <= BufLength
      BY <2>1, <2>2 DEF InputOK
    <3> QED
      BY <2>1, <3>1, <3>2 DEF InputOK
  <2>3. CASE ~(Len(input[i]) < BufLength)
    BY <1>2, <2>1, <2>3 DEF InputOK
  <2> QED
    BY <2>2, <2>3
<1>4. TaskOK' /\ TestsHold'
  BY <1>1 DEF ConsoleInv, TaskOK, TestsHold, Labels
<1>5. Fresh => ReadsFresh' /\ ShownFresh'
  BY <1>1 DEF Fresh, ReadsFresh, ShownFresh, Due, Field
<1> QED
  BY <1>1, <1>3, <1>4, <1>5, NothingMoves DEF fields, history

LEMMA ReadScrollKeeps == ConsoleInv /\ ReadScroll => ConsoleInv'
<1> SUFFICES ASSUME ConsoleInv, ReadScroll PROVE ConsoleInv'
  OBVIOUS
<1>1. /\ pc = "read" /\ pc' = "scroll" /\ outs = <<>> /\ arg = None
      /\ i = current /\ direction' \in {1, -1} /\ back' = "write"
      /\ UNCHANGED <<cursor, start, input, current, i, ch, vmem_ptr, written,
                     loaded, outs, arg, shown, hung, raced>>
  BY NothingDue DEF ReadScroll, fields, print, vga, history
<1>2. InputOK' /\ TaskOK' /\ TestsHold'
  BY <1>1 DEF ConsoleInv, InputOK, TaskOK, TestsHold, Labels
<1>3. Fresh => ReadsFresh' /\ ShownFresh'
  BY <1>1 DEF Fresh, ReadsFresh, ShownFresh, Due, Field
<1> QED
  BY <1>1, <1>2, <1>3, NothingMoves DEF fields, history

LEMMA ReadSwitchKeeps == ConsoleInv /\ ReadSwitch => ConsoleInv'
<1> SUFFICES ASSUME ConsoleInv, ReadSwitch PROVE ConsoleInv'
  OBVIOUS
<1>1. /\ pc = "read" /\ pc' = "out" /\ outs = <<>> /\ arg = None
      /\ current' \in Console /\ outs' = <<"cursor", "start">> /\ back' = "write"
      /\ UNCHANGED <<cursor, start, input, i, ch, vmem_ptr, written, direction,
                     loaded, arg, shown, hung, raced>>
  BY NothingDue DEF ReadSwitch, fields, print, scroll, history
<1>2. InputOK' /\ TaskOK' /\ TestsHold'
  BY <1>1 DEF ConsoleInv, InputOK, TaskOK, TestsHold, Labels, Orders
<1>3. Fresh => ReadsFresh' /\ ShownFresh'
  BY <1>1 DEF Fresh, ReadsFresh, ShownFresh, Due, Register
<1> QED
  BY <1>1, <1>2, <1>3, NothingMoves DEF fields, history

LEMMA WriteKeyKeeps == ConsoleInv /\ WriteKey => ConsoleInv'
<1> SUFFICES ASSUME ConsoleInv, WriteKey PROVE ConsoleInv'
  OBVIOUS
<1>1. /\ pc = "write" /\ outs = <<>> /\ arg = None
      /\ UNCHANGED <<cursor, start, current, outs, arg, shown, hung, raced>>
  BY NothingDue DEF WriteKey, fields, vga, history
<1>2. i \in Console /\ current \in Console /\ cursor[i] \in Position /\ InputOK
  BY Indices DEF ConsoleInv
<1>3. CASE ~HasInput /\ Advance /\ UNCHANGED input
  <2>1. /\ i' = (i + 1) % Consoles /\ i' \in Console /\ pc' = "read"
        /\ back' = "read" /\ ch' = "glyph" /\ vmem_ptr' = 0
        /\ direction' = 0 /\ loaded' = 0 /\ written' = 0 /\ input' = input
    BY <1>3, Indices DEF Advance
  <2>2. InputOK' /\ TaskOK' /\ TestsHold'
    BY <1>1, <1>2, <2>1, Ranges DEF ConsoleInv, InputOK, TaskOK, TestsHold, Labels, Char
  <2>3. Fresh => ReadsFresh' /\ ShownFresh'
    BY <1>1, <2>1 DEF Fresh, ReadsFresh, ShownFresh, Due, Field
  <2> QED
    BY <1>1, <2>1, <2>2, <2>3, NothingMoves DEF fields, history
<1>4. CASE /\ HasInput
           /\ ch' = Head(input[i])
           /\ input' = [input EXCEPT ![i] = Tail(@)]
           /\ vmem_ptr' = cursor[i]
           /\ pc' = "test"
           /\ UNCHANGED <<turn, written, scroll>>
  <2>1. UNCHANGED <<i, back, written, direction, loaded>>
    BY <1>4 DEF turn, scroll
  <2>2. /\ Head(input[i]) \in Char /\ Tail(input[i]) \in Seq(Char)
        /\ Len(Tail(input[i])) <= BufLength
    <3>1. input[i] \in Seq(Char) /\ input[i] # <<>> /\ Len(input[i]) <= BufLength
      BY <1>2, <1>4 DEF InputOK, HasInput
    <3>2. BufLength \in Nat
      BY SizesAssumption
    <3> QED
      BY <3>1, <3>2
  <2>3. InputOK'
    BY <1>2, <1>4, <2>2 DEF InputOK
  <2>4. TaskOK' /\ TestsHold'
    BY <1>1, <1>2, <1>4, <2>1, <2>2 DEF ConsoleInv, TaskOK, TestsHold, Labels
  <2>5. Fresh => ReadsFresh' /\ ShownFresh'
    BY <1>1, <1>4, <2>1 DEF Fresh, ReadsFresh, ShownFresh, Due, Field
  <2> QED
    BY <1>1, <2>1, <2>3, <2>4, <2>5, NothingMoves DEF fields, history
<1> QED
  BY <1>3, <1>4 DEF WriteKey

LEMMA PrintTestKeeps == ConsoleInv /\ PrintTest => ConsoleInv'
<1> SUFFICES ASSUME ConsoleInv, PrintTest PROVE ConsoleInv'
  OBVIOUS
<1>1. /\ pc = "test" /\ outs = <<>> /\ arg = None
      /\ pc' = IF Room(ch, cursor[i]) THEN "load" ELSE "while"
      /\ UNCHANGED <<cursor, start, input, current, i, back, ch, vmem_ptr, written,
                     direction, loaded, outs, arg, shown, hung, raced>>
  BY NothingDue DEF PrintTest, fields, turn, print, scroll, vga, history
<1>2. CASE Room(ch, cursor[i])
  <2>1. pc' = "load"
    BY <1>1, <1>2
  <2>2. InputOK' /\ TaskOK'
    BY <1>1, <2>1 DEF ConsoleInv, InputOK, TaskOK, Labels
  <2>3. TestsHold'
    <3>1. ch \in Char /\ cursor[i] \in Nat
      BY Indices DEF ConsoleInv, TaskOK
    <3>2. CASE ch = "backspace"
      <4>1. cursor[i] > 0
        BY <1>2, <3>2 DEF Room
      <4> QED
        BY <1>1, <2>1, <3>2, <4>1, Zenon DEF TestsHold
    <3>3. CASE ch # "backspace"
      <4>1. cursor[i] < Memory
        BY <1>2, <3>1, <3>3, Sizes DEF Room, Char
      <4> QED
        BY <1>1, <2>1, <3>3, <4>1, Zenon DEF TestsHold
    <3> QED
      BY <3>2, <3>3
  <2>4. Fresh => ReadsFresh' /\ ShownFresh'
    BY <1>1, <1>2, <2>1 DEF Fresh, ReadsFresh, ShownFresh, Due, Field
  <2> QED
    BY <1>1, <2>2, <2>3, <2>4, NothingMoves DEF fields, history
<1>3. CASE ~Room(ch, cursor[i])
  <2>1. pc' = "while"
    BY <1>1, <1>3
  <2>2. InputOK' /\ TaskOK' /\ TestsHold'
    BY <1>1, <2>1 DEF ConsoleInv, InputOK, TaskOK, TestsHold, Labels
  <2>3. Fresh => ReadsFresh' /\ ShownFresh'
    BY <1>1, <2>1 DEF Fresh, ReadsFresh, ShownFresh, Due, Field
  <2> QED
    BY <1>1, <2>2, <2>3, NothingMoves DEF fields, history
<1> QED
  BY <1>2, <1>3

LEMMA PrintLoadKeeps == ConsoleInv /\ PrintLoad => ConsoleInv'
<1> SUFFICES ASSUME ConsoleInv, PrintLoad PROVE ConsoleInv'
  OBVIOUS
<1>1. /\ pc = "load" /\ pc' = "store" /\ outs = <<>> /\ arg = None /\ loaded' = cursor[i]
      /\ UNCHANGED <<cursor, start, input, current, i, back, ch, vmem_ptr, written,
                     direction, outs, arg, shown, hung, raced>>
  BY NothingDue DEF PrintLoad, fields, turn, print, vga, history
<1>2. InputOK' /\ TaskOK'
  <2>1. cursor[i] \in Position
    BY Indices
  <2> QED
    BY <1>1, <2>1 DEF ConsoleInv, InputOK, TaskOK, Labels
<1>3. TestsHold'
  <2>1. IF ch = "backspace" THEN cursor[i] > 0 ELSE cursor[i] < Memory
    BY <1>1, Zenon DEF ConsoleInv, TestsHold
  <2> QED
    BY <1>1, <2>1, Zenon DEF TestsHold
<1>4. Fresh => ReadsFresh' /\ ShownFresh'
  BY <1>1 DEF Fresh, ReadsFresh, ShownFresh, Due, Field
<1> QED
  BY <1>1, <1>2, <1>3, <1>4, NothingMoves DEF fields, history

LEMMA PrintWhileKeeps == ConsoleInv /\ PrintWhile => ConsoleInv'
<1> SUFFICES ASSUME ConsoleInv, PrintWhile PROVE ConsoleInv'
  OBVIOUS
<1>1. /\ pc = "while" /\ outs = <<>> /\ arg = None
      /\ UNCHANGED <<cursor, start, input, current, arg, shown, hung, raced>>
  BY NothingDue DEF PrintWhile, fields, history
<1>2. InputOK'
  BY <1>1 DEF ConsoleInv, InputOK
<1>3. CASE /\ pc' = "scroll" /\ direction' = -1 /\ back' = "while"
           /\ UNCHANGED <<i, print, loaded, outs>>
  <2>1. UNCHANGED <<i, ch, vmem_ptr, written, loaded, outs>>
    BY <1>3 DEF print
  <2>2. TaskOK' /\ TestsHold'
    BY <1>1, <1>3, <2>1 DEF ConsoleInv, TaskOK, TestsHold, Labels
  <2>3. Fresh => ReadsFresh' /\ ShownFresh'
    BY <1>1, <1>3, <2>1 DEF Fresh, ReadsFresh, ShownFresh, Due, Field
  <2> QED
    BY <1>1, <1>2, <2>1, <2>2, <2>3, NothingMoves DEF fields, history
<1>4. CASE /\ i = current
           /\ pc' = "out" /\ outs' = <<"cursor", "start">> /\ back' = "next"
           /\ UNCHANGED <<i, print, scroll>>
  <2>1. UNCHANGED <<i, ch, vmem_ptr, written, direction, loaded>>
    BY <1>4 DEF print, scroll
  <2>2. TaskOK' /\ TestsHold'
    BY <1>1, <1>4, <2>1 DEF ConsoleInv, TaskOK, TestsHold, Labels, Orders
  <2>3. Fresh => ReadsFresh' /\ ShownFresh'
    BY <1>1, <1>4, <2>1 DEF Fresh, ReadsFresh, ShownFresh, Due, Register
  <2> QED
    BY <1>1, <1>2, <2>1, <2>2, <2>3, NothingMoves DEF fields, history
<1>5. CASE i # current /\ Advance /\ UNCHANGED outs
  <2>1. /\ i' = (i + 1) % Consoles /\ i' \in Console /\ pc' = "read"
        /\ back' = "read" /\ ch' = "glyph" /\ vmem_ptr' = 0
        /\ direction' = 0 /\ loaded' = 0 /\ written' = 0 /\ outs' = outs
    BY <1>5, Indices DEF Advance
  <2>2. TaskOK' /\ TestsHold'
    BY <1>1, <2>1, Ranges DEF ConsoleInv, TaskOK, TestsHold, Labels, Char
  <2>3. Fresh => ReadsFresh' /\ ShownFresh'
    BY <1>1, <1>5, <2>1 DEF Fresh, ReadsFresh, ShownFresh, Due, Field
  <2> QED
    BY <1>1, <1>2, <2>1, <2>2, <2>3, NothingMoves DEF fields, history
<1> QED
  BY <1>3, <1>4, <1>5 DEF PrintWhile

\* scroll_console, where it does not move the screen.
LEMMA ScrollTestKeeps == ConsoleInv /\ ScrollTest => ConsoleInv'
<1> SUFFICES ASSUME ConsoleInv, ScrollTest PROVE ConsoleInv'
  OBVIOUS
<1>1. /\ pc = "scroll" /\ outs = <<>> /\ arg = None
      /\ UNCHANGED <<cursor, start, input, current, i, back, ch, vmem_ptr, written,
                     direction, loaded, arg, shown, hung, raced>>
  BY NothingDue DEF ScrollTest, fields, turn, print, scroll, history
<1>2. /\ InputOK' /\ direction \in {-1, 1} /\ back \in {"write", "while"}
      /\ start[i] \in Nat /\ start[i] % Width = 0
  BY <1>1, Indices DEF ConsoleInv, InputOK, TaskOK
<1>3. CASE MayScroll(direction, start[i])
  <2>1. pc' = "scroll load" /\ outs' = outs
    BY <1>3 DEF ScrollTest
  <2>2. TaskOK'
    BY <1>1, <2>1 DEF ConsoleInv, TaskOK, Labels
  <2>3. CASE direction = 1
    <3>1. start[i] > 0
      BY <1>3, <2>3 DEF MayScroll
    <3>2. TestsHold'
      BY <1>1, <2>1, <2>3, <3>1, Zenon DEF TestsHold
    <3>3. Fresh => ReadsFresh' /\ ShownFresh'
      <4>1. direction' # -1
        BY <1>1, <2>3
      <4>2. Fresh => ReadsFresh'
        BY <1>1, <2>1, <4>1, Zenon DEF Fresh, ReadsFresh
      <4>3. Fresh => ShownFresh'
        BY <1>1, <2>1 DEF Fresh, ShownFresh, Due, Field
      <4> QED
        BY <4>2, <4>3
    <3> QED
      BY <1>1, <1>2, <2>1, <2>2, <3>2, <3>3, NothingMoves DEF fields, history
  <2>4. CASE direction = -1
    <3>1. start[i] + Size < Memory
      BY <1>3, <2>4 DEF MayScroll
    <3>2. start[i] <= LastScreen /\ direction # 1
      BY <1>2, <2>4, <3>1, Sizes, LastScreenFacts
    <3>3. TestsHold'
      BY <1>1, <2>1, <3>2, Zenon DEF TestsHold
    <3>4. Fresh => ReadsFresh' /\ ShownFresh'
      BY <1>1, <2>1, <3>1 DEF Fresh, ReadsFresh, ShownFresh, Due, Field
    <3> QED
      BY <1>1, <1>2, <2>1, <2>2, <3>3, <3>4, NothingMoves DEF fields, history
  <2> QED
    BY <1>2, <2>3, <2>4
<1>4. CASE ~MayScroll(direction, start[i])
  <2>1. ScrollEnd
    BY <1>4 DEF ScrollTest
  <2>2. CASE i = current
    <3>1. pc' = "out" /\ outs' = <<"start", "cursor">>
      BY <2>1, <2>2 DEF ScrollEnd
    <3>2. TaskOK' /\ TestsHold'
      BY <1>1, <1>2, <3>1 DEF ConsoleInv, TaskOK, TestsHold, Labels, Orders
    <3>3. Fresh => ReadsFresh' /\ ShownFresh'
      BY <1>1, <3>1 DEF Fresh, ReadsFresh, ShownFresh, Due, Register
    <3> QED
      BY <1>1, <1>2, <3>2, <3>3, NothingMoves DEF fields, history
  <2>3. CASE i # current
    <3>1. pc' = back /\ outs' = outs
      BY <2>1, <2>3 DEF ScrollEnd
    <3>2. TaskOK' /\ TestsHold'
      BY <1>1, <1>2, <3>1 DEF ConsoleInv, TaskOK, TestsHold, Labels
    <3>3. Fresh => ReadsFresh' /\ ShownFresh'
      BY <1>1, <1>2, <2>3, <3>1 DEF Fresh, ReadsFresh, ShownFresh, Due, Field
    <3> QED
      BY <1>1, <1>2, <3>2, <3>3, NothingMoves DEF fields, history
  <2> QED
    BY <2>2, <2>3
<1> QED
  BY <1>3, <1>4

LEMMA ScrollLoadKeeps == ConsoleInv /\ ScrollLoad => ConsoleInv'
<1> SUFFICES ASSUME ConsoleInv, ScrollLoad PROVE ConsoleInv'
  OBVIOUS
<1>1. /\ pc = "scroll load" /\ pc' = "scroll store" /\ outs = <<>> /\ arg = None
      /\ loaded' = start[i]
      /\ UNCHANGED <<cursor, start, input, current, i, back, ch, vmem_ptr, written,
                     direction, outs, arg, shown, hung, raced>>
  BY NothingDue DEF ScrollLoad, fields, turn, print, vga, history
<1>2. start[i] \in Top /\ start[i] \in Position
  BY Indices
<1>3. InputOK' /\ TaskOK'
  BY <1>1, <1>2 DEF ConsoleInv, InputOK, TaskOK, Labels
<1>4. TestsHold'
  <2>1. IF direction = 1 THEN start[i] > 0 ELSE start[i] <= LastScreen
    BY <1>1, Zenon DEF ConsoleInv, TestsHold
  <2> QED
    BY <1>1, <1>2, <2>1, Zenon DEF TestsHold
<1>5. Fresh => ReadsFresh' /\ ShownFresh'
  BY <1>1 DEF Fresh, ReadsFresh, ShownFresh, Due, Field
<1> QED
  BY <1>1, <1>3, <1>4, <1>5, NothingMoves DEF fields, history

\* set_cursor and set_start_address.
LEMMA OutArgKeeps == ConsoleInv /\ OutArg => ConsoleInv'
<1> SUFFICES ASSUME ConsoleInv, OutArg PROVE ConsoleInv'
  OBVIOUS
<1>1. /\ pc = "out" /\ arg' = Field(Head(outs))
      /\ UNCHANGED <<cursor, start, input, current, pc, i, back, ch, vmem_ptr, written,
                     direction, loaded, outs, shown, hung, raced>>
  BY DEF OutArg, Field, fields, turn, print, scroll, history
<1>2. Field(Head(outs)) \in Position
  BY Indices DEF Field
<1>3. InputOK' /\ TaskOK' /\ TestsHold'
  BY <1>1, <1>2 DEF ConsoleInv, InputOK, TaskOK, TestsHold
<1>4. Fresh => ReadsFresh' /\ ShownFresh'
  BY <1>1 DEF Fresh, ReadsFresh, ShownFresh, Due, Field
<1> QED
  BY <1>1, <1>3, <1>4, NothingMoves DEF fields, history

LEMMA OutRegisterKeeps == ConsoleInv /\ OutRegister => ConsoleInv'
<1> SUFFICES ASSUME ConsoleInv, OutRegister PROVE ConsoleInv'
  OBVIOUS
<1>1. /\ pc = "out" /\ arg # None /\ arg' = None /\ outs' = Tail(outs)
      /\ shown' = [shown EXCEPT ![Head(outs)] = <<current, arg>>]
      /\ UNCHANGED <<cursor, start, input, current, hung, raced>>
  BY DEF OutRegister, fields, history
<1>2. /\ outs \in Orders /\ arg \in Position /\ current \in Console
      /\ back \in {"write", "while", "next"} /\ shown \in [Register -> Console \X Position]
  BY <1>1 DEF ConsoleInv, TaskOK
<1>3. /\ Head(outs) \in Register /\ Tail(outs) \in {<<>>} \cup Orders
      /\ \A reg \in Register : (\E k \in DOMAIN outs : outs[k] = reg) =>
           reg = Head(outs) \/ \E k \in DOMAIN Tail(outs) : Tail(outs)[k] = reg
  <2>1. CASE outs = <<"cursor", "start">>
    <3>1. Head(outs) = "cursor" /\ Tail(outs) = <<"start">>
      BY <2>1
    <3> QED
      BY <2>1, <3>1 DEF Orders, Register
  <2>2. CASE outs = <<"start", "cursor">>
    <3>1. Head(outs) = "start" /\ Tail(outs) = <<"cursor">>
      BY <2>2
    <3> QED
      BY <2>2, <3>1 DEF Orders, Register
  <2>3. CASE outs = <<"cursor">>
    <3>1. Head(outs) = "cursor" /\ Tail(outs) = <<>>
      BY <2>3
    <3> QED
      BY <2>3, <3>1 DEF Orders, Register
  <2>4. CASE outs = <<"start">>
    <3>1. Head(outs) = "start" /\ Tail(outs) = <<>>
      BY <2>4
    <3> QED
      BY <2>4, <3>1 DEF Orders, Register
  <2> QED
    BY <1>2, <2>1, <2>2, <2>3, <2>4 DEF Orders
<1>4. InputOK' /\ shown' \in [Register -> Console \X Position]
  BY <1>1, <1>2, <1>3 DEF ConsoleInv, InputOK
<1>5. ASSUME Fresh, NEW reg \in Register
      PROVE  \/ \E k \in DOMAIN outs' : outs'[k] = reg
             \/ shown'[reg] = <<current', Field(reg)'>>
  <2>1. Field(reg)' = Field(reg)
    BY <1>1 DEF Field
  <2>2. CASE reg = Head(outs)
    BY <1>1, <1>2, <1>3, <1>5, <2>1, <2>2 DEF Fresh, ReadsFresh
  <2>3. CASE reg # Head(outs)
    BY <1>1, <1>2, <1>3, <1>5, <2>1, <2>3 DEF Fresh, ShownFresh, Due
  <2> QED
    BY <2>2, <2>3
<1>6. CASE Tail(outs) = <<>> /\ back = "next" /\ Advance
  <2>1. /\ i' = (i + 1) % Consoles /\ i' \in Console /\ pc' = "read"
        /\ back' = "read" /\ ch' = "glyph" /\ vmem_ptr' = 0
        /\ direction' = 0 /\ loaded' = 0 /\ written' = 0 /\ outs' = <<>>
    BY <1>1, <1>6, Indices DEF Advance
  <2>2. TaskOK' /\ TestsHold'
    BY <1>1, <1>4, <2>1, Ranges DEF ConsoleInv, TaskOK, TestsHold, Labels, Char
  <2>3. Fresh => ReadsFresh' /\ ShownFresh'
    <3>1. pc' = "read" /\ arg' = None /\ outs' = <<>>
      BY <1>1, <2>1
    <3>2. Fresh => ReadsFresh'
      BY <3>1 DEF ReadsFresh
    <3>3. \A reg : ~ \E k \in DOMAIN outs' : outs'[k] = reg
      BY <3>1
    <3>4. Fresh => ShownFresh'
      BY <1>5, <3>3 DEF ShownFresh
    <3> QED
      BY <3>2, <3>4
  <2> QED
    BY <1>1, <1>4, <2>1, <2>2, <2>3, NothingMoves DEF fields, history
<1>7. CASE /\ Tail(outs) = <<>> /\ back # "next" /\ pc' = back
           /\ UNCHANGED <<turn, print, scroll>>
  <2>1. /\ outs' = <<>> /\ pc' = back /\ back \in {"write", "while"}
        /\ UNCHANGED <<i, back, ch, vmem_ptr, written, direction, loaded>>
    BY <1>1, <1>2, <1>7 DEF turn, print, scroll
  <2>2. TaskOK' /\ TestsHold'
    BY <1>1, <1>4, <2>1 DEF ConsoleInv, TaskOK, TestsHold, Labels
  <2>3. Fresh => ReadsFresh' /\ ShownFresh'
    <3>1. pc' \in {"write", "while"} /\ arg' = None /\ outs' = <<>>
      BY <1>1, <2>1
    <3>2. Fresh => ReadsFresh'
      BY <3>1 DEF ReadsFresh
    <3>3. \A reg : ~ \E k \in DOMAIN outs' : outs'[k] = reg
      BY <3>1
    <3>4. Fresh => ShownFresh'
      BY <1>5, <3>3 DEF ShownFresh
    <3> QED
      BY <3>2, <3>4
  <2> QED
    BY <1>1, <1>4, <2>1, <2>2, <2>3, NothingMoves DEF fields, history
<1>8. CASE Tail(outs) # <<>> /\ UNCHANGED <<pc, turn, print, scroll>>
  <2>1. UNCHANGED <<pc, i, back, ch, vmem_ptr, written, direction, loaded>>
    BY <1>8 DEF turn, print, scroll
  <2>2. TaskOK' /\ TestsHold'
    BY <1>1, <1>3, <1>4, <1>8, <2>1 DEF ConsoleInv, TaskOK, TestsHold
  <2>3. Fresh => ReadsFresh' /\ ShownFresh'
    BY <1>1, <1>5, <2>1 DEF Fresh, ReadsFresh, ShownFresh, Due
  <2> QED
    BY <1>1, <1>4, <2>1, <2>2, <2>3, NothingMoves DEF fields, history
<1> QED
  BY <1>6, <1>7, <1>8 DEF OutRegister

--------------------------------------------------------------------------------
(* The task keeps it where it moves its console's cursor or screen.           *)

LEMMA PrintStoreKeeps == ConsoleInv /\ PrintStore => ConsoleInv'
<1> SUFFICES ASSUME ConsoleInv, PrintStore PROVE ConsoleInv'
  OBVIOUS
<1> DEFINE pos == Moved(ch, loaded)
<1>1. /\ pc = "store" /\ pc' = "while" /\ outs = <<>> /\ arg = None
      /\ cursor' = [cursor EXCEPT ![i] = pos] /\ written' = Cell
      /\ UNCHANGED <<start, input, current, i, back, ch, vmem_ptr, direction, loaded,
                     outs, arg, shown, hung, raced>>
  BY NothingDue DEF PrintStore, turn, scroll, vga, history
<1>2. /\ i \in Console /\ current \in Console /\ ch \in Char
      /\ cursor \in [Console -> Position] /\ start \in [Console -> Top]
      /\ loaded \in Position /\ vmem_ptr \in Position
  BY DEF ConsoleInv, TaskOK, FieldsOK
<1>3. loaded \in Nat /\ IF ch = "backspace" THEN loaded > 0 /\ loaded <= NextRow ELSE loaded < Memory
  <2>1. IF ch = "backspace" THEN loaded > 0 ELSE loaded < Memory
    BY <1>1, Zenon DEF ConsoleInv, TestsHold
  <2>2. loaded \in Nat /\ loaded <= NextRow
    BY <1>2, Ranges
  <2> QED
    BY <2>1, <2>2, Zenon
<1>4. /\ pos \in Position
      /\ Room(ch, loaded) /\ loaded < Memory => pos < Memory
  BY <1>2, <1>3, MovedFacts DEF Position
<1> HIDE DEF pos
<1>5. FieldsOK' /\ InputOK'
  BY <1>1, <1>2, <1>4 DEF ConsoleInv, FieldsOK, InputOK
<1>6. written' \in Int
  <2>1. written \in Int /\ vmem_ptr \in Int
    <3>1. written \in Int
      BY DEF ConsoleInv, TaskOK
    <3>2. vmem_ptr \in Nat
      BY <1>2, Ranges
    <3> QED
      BY <3>1, <3>2
  <2> QED
    BY <1>1, <1>2, <2>1 DEF Cell, Char
<1>7. TaskOK' /\ TestsHold'
  BY <1>1, <1>6 DEF ConsoleInv, TaskOK, TestsHold, Labels
<1>8. ASSUME ~raced PROVE ~hung /\ Inside' /\ ReadsFresh' /\ ShownFresh'
  <2>1. ~hung /\ Inside /\ ReadsFresh /\ ShownFresh
    BY <1>8, Zenon DEF ConsoleInv
  <2>2. vmem_ptr = cursor[i] /\ Room(ch, cursor[i]) /\ loaded = cursor[i] /\ cursor[i] < Memory
    BY <1>1, <1>2, <2>1 DEF ReadsFresh, Inside
  <2>3. pos < Memory
    BY <1>4, <2>2
  <2>4. written' \in 0 .. Memory - 1
    <3>1. CASE ch = "newline"
      BY <1>1, <2>1, <3>1 DEF Cell, Inside
    <3>2. CASE ch = "backspace"
      <4>1. written' = loaded - 1 /\ loaded > 0 /\ loaded < Memory
        BY <1>1, <1>3, <2>2, <3>2 DEF Cell
      <4> QED
        BY <1>3, <4>1, Sizes
    <3>3. CASE ch = "glyph"
      <4>1. written' = loaded /\ loaded < Memory
        BY <1>1, <2>2, <3>3 DEF Cell
      <4> QED
        BY <1>3, <4>1, Sizes
    <3> QED
      BY <1>2, <3>1, <3>2, <3>3 DEF Char
  <2>5. Inside'
    <3>1. \A c \in Console : cursor'[c] < Memory /\ start'[c] <= LastScreen
      BY <1>1, <1>2, <2>1, <2>3 DEF Inside
    <3> QED
      BY <2>4, <3>1 DEF Inside
  <2>6. ReadsFresh'
    BY <1>1 DEF ReadsFresh
  <2>7. ShownFresh'
    <3>1. CASE i = current
      BY <1>1, <3>1 DEF ShownFresh, Due
    <3>2. CASE i # current
      <4>1. cursor'[current] = cursor[current]
        BY <1>1, <1>2, <3>2
      <4> QED
        BY <1>1, <2>1, <3>2, <4>1 DEF ShownFresh, Due, Field
    <3> QED
      BY <3>1, <3>2
  <2> QED
    BY <2>1, <2>5, <2>6, <2>7
<1> QED
  BY <1>1, <1>5, <1>7, <1>8, Zenon DEF ConsoleInv

LEMMA ScrollStoreKeeps == ConsoleInv /\ ScrollStore => ConsoleInv'
<1> SUFFICES ASSUME ConsoleInv, ScrollStore PROVE ConsoleInv'
  OBVIOUS
<1> DEFINE top == loaded - direction * Width
<1>1. /\ pc = "scroll store" /\ outs = <<>> /\ arg = None
      /\ start' = [start EXCEPT ![i] = top] /\ ScrollEnd
      /\ UNCHANGED <<cursor, input, current, i, back, ch, vmem_ptr, written, direction,
                     loaded, arg, shown, hung, raced>>
  BY NothingDue DEF ScrollStore, turn, print, scroll, history
<1>2. /\ i \in Console /\ current \in Console
      /\ cursor \in [Console -> Position] /\ start \in [Console -> Top]
      /\ back \in {"write", "while"} /\ direction \in {-1, 1}
      /\ start[i] \in Nat
  BY <1>1, Indices DEF ConsoleInv, TaskOK, FieldsOK
<1>3. /\ loaded \in Top /\ loaded \in Nat /\ loaded % Width = 0
      /\ direction = 1 => loaded > 0
      /\ direction = -1 => loaded <= LastScreen
  <2>1. loaded \in Top /\ IF direction = 1 THEN loaded > 0 ELSE loaded <= LastScreen
    BY <1>1, Zenon DEF ConsoleInv, TestsHold
  <2>2. direction = -1 => direction # 1
    OBVIOUS
  <2> QED
    BY <2>1, <2>2, Ranges
<1>4. /\ top \in Top
      /\ direction = 1 => top < loaded
      /\ direction = -1 => top = loaded + Width
  <2>1. /\ (loaded + Width) % Width = 0
        /\ loaded > 0 => loaded >= Width /\ loaded - Width \in Nat /\ (loaded - Width) % Width = 0
    BY <1>3, Sizes, NextRowIsRow
  <2>2. CASE direction = 1
    <3>1. top = loaded - Width
      BY <1>3, <2>2, Sizes
    <3>2. loaded <= LastScreen + Width
      BY <1>3 DEF Top
    <3> QED
      BY <1>3, <2>1, <2>2, <3>1, <3>2, Sizes, LastScreenFacts DEF Top
  <2>3. CASE direction = -1
    <3>1. top = loaded + Width
      BY <1>3, <2>3, Sizes
    <3> QED
      BY <1>3, <2>1, <2>3, <3>1, Sizes, LastScreenFacts DEF Top
  <2> QED
    BY <1>2, <2>2, <2>3
<1> HIDE DEF top
<1>5. FieldsOK' /\ InputOK'
  BY <1>1, <1>2, <1>4 DEF ConsoleInv, FieldsOK, InputOK
<1>6. Inside /\ ReadsFresh => Inside'
  <2> SUFFICES ASSUME Inside, ReadsFresh PROVE Inside'
    OBVIOUS
  <2>1. top <= LastScreen
    <3>1. loaded = start[i] /\ start[i] <= LastScreen /\ (direction = -1 => start[i] + Size < Memory)
      BY <1>1, <1>2 DEF Inside, ReadsFresh
    <3>2. top \in Nat /\ top % Width = 0
      BY <1>4, Ranges
    <3>3. CASE direction = 1
      BY <1>3, <1>4, <3>1, <3>2, <3>3, LastScreenFacts
    <3>4. CASE direction = -1
      <4>1. top + Size < Memory + Width
        BY <1>3, <1>4, <3>1, <3>4, Sizes
      <4> QED
        BY <3>2, <4>1, LastScreenFacts
    <3> QED
      BY <1>2, <3>3, <3>4
  <2>2. \A c \in Console : cursor'[c] < Memory /\ start'[c] <= LastScreen
    BY <1>1, <1>2, <2>1 DEF Inside
  <2> QED
    BY <1>1, <2>2 DEF Inside
<1>7. CASE i = current
  <2>1. pc' = "out" /\ outs' = <<"start", "cursor">>
    BY <1>1, <1>7 DEF ScrollEnd
  <2>2. TaskOK' /\ TestsHold'
    BY <1>1, <1>2, <2>1 DEF ConsoleInv, TaskOK, TestsHold, Labels, Orders
  <2>3. ReadsFresh' /\ ShownFresh'
    <3>1. ReadsFresh'
      BY <1>1, <2>1 DEF ReadsFresh
    <3>2. \A reg \in Register : \E k \in DOMAIN outs' : outs'[k] = reg
      BY <2>1 DEF Register
    <3>3. ShownFresh'
      BY <3>2 DEF ShownFresh, Due
    <3> QED
      BY <3>1, <3>3
  <2> QED
    BY <1>1, <1>5, <1>6, <2>2, <2>3, Zenon DEF ConsoleInv
<1>8. CASE i # current
  <2>1. pc' = back /\ outs' = outs
    BY <1>1, <1>8 DEF ScrollEnd
  <2>2. TaskOK' /\ TestsHold'
    BY <1>1, <1>2, <2>1 DEF ConsoleInv, TaskOK, TestsHold, Labels
  <2>3. ReadsFresh'
    BY <1>1, <1>2, <2>1 DEF ReadsFresh
  <2>4. ShownFresh => ShownFresh'
    <3>1. start'[current] = start[current]
      BY <1>1, <1>2, <1>8
    <3> QED
      BY <1>1, <1>8, <2>1, <3>1 DEF ShownFresh, Due, Field
  <2> QED
    BY <1>1, <1>5, <1>6, <2>2, <2>3, <2>4, Zenon DEF ConsoleInv
<1> QED
  BY <1>7, <1>8

--------------------------------------------------------------------------------
(* The theorems.                                                              *)

\* However calls and the task's own reads and writes interleave, what a test of
\* print_character or scroll_console has found still holds when the task acts on it,
\* and if no call came between, so does everything else it has read: ConsoleInv.
THEOREM ConsoleInductive == Spec => []ConsoleInv
<1>1. Init => ConsoleInv
  BY InitKeeps
<1>2. ConsoleInv /\ [Next]_vars => ConsoleInv'
  <2> SUFFICES ASSUME ConsoleInv, [Next]_vars PROVE ConsoleInv'
    OBVIOUS
  <2>1. CASE Calls
    <3>1. PICK c \in Printed, char \in Char \ {"backspace"} : Call(c, char)
      BY <2>1 DEF Calls
    <3>2. c \in Console
      BY PrintedAssumption
    <3> QED
      BY <3>1, <3>2, CallKeeps
  <2>2. CASE Task
    BY <2>2, ReadNothingKeeps, ReadCharKeeps, ReadScrollKeeps, ReadSwitchKeeps,
       WriteKeyKeeps, PrintTestKeeps, PrintLoadKeeps, PrintStoreKeeps, PrintWhileKeeps,
       ScrollTestKeeps, ScrollLoadKeeps, ScrollStoreKeeps, OutArgKeeps, OutRegisterKeeps
       DEF Task
  <2>3. CASE UNCHANGED vars
    <3>1. UNCHANGED <<cursor, start, input, current, pc, i, back, ch, vmem_ptr, written,
                      direction, loaded, outs, arg, shown, hung, raced>>
      BY <2>3 DEF vars, fields, turn, print, scroll, vga, history
    <3>2. InputOK' /\ TaskOK' /\ TestsHold'
      BY <3>1 DEF ConsoleInv, InputOK, TaskOK, TestsHold
    <3>3. Fresh => ReadsFresh' /\ ShownFresh'
      BY <3>1 DEF Fresh, ReadsFresh, ShownFresh, Due, Field
    <3> QED
      BY <3>1, <3>2, <3>3, NothingMoves DEF fields, history
  <2> QED
    BY <2>1, <2>2, <2>3 DEF Next
<1> QED
  BY <1>1, <1>2, PTL DEF Spec

\* TypeOK of the run, for any sizes: no cursor gets farther than the first row behind
\* the memory, no screen farther than one row below the last, even after a race.
THEOREM TypeCorrect == Spec => []TypeOK
<1>1. ConsoleInv => TypeOK
  <2> SUFFICES ASSUME ConsoleInv PROVE TypeOK
    OBVIOUS
  <2>1. FieldsOK /\ InputOK /\ TaskOK
    BY DEF ConsoleInv
  <2>2. cursor \in [Console -> 0 .. NextRow] /\ start \in [Console -> 0 .. LastScreen + Width]
    BY <2>1, Sizes, LastScreenFacts DEF FieldsOK, Position, Top
  <2>3. \A c \in Console : Len(input[c]) <= BufLength /\ \A k \in DOMAIN input[c] : input[c][k] \in Char
    BY <2>1 DEF InputOK
  <2>4. shown["cursor"] \in Console \X (0 .. NextRow) /\ shown["start"] \in Console \X (0 .. NextRow)
    BY <2>1 DEF TaskOK, Register, Position
  <2>5. hung \in BOOLEAN /\ raced \in BOOLEAN
    BY <2>1 DEF TaskOK
  <2>6. /\ current \in Console /\ i \in Console
        /\ pc \in Labels /\ back \in {"read", "write", "while", "next"}
        /\ ch \in Char /\ direction \in {-1, 0, 1}
        /\ vmem_ptr \in Position /\ loaded \in Position /\ arg \in {None} \cup Position
    BY <2>1 DEF TaskOK
  <2> QED
    BY <2>2, <2>3, <2>4, <2>5, <2>6 DEF TypeOK, Labels, Position
<1> QED
  BY <1>1, ConsoleInductive, PTL

\* print_character and scroll_console: a cursor never leaves its console's cells, no
\* cell of another console is written, no screen is scrolled beyond the last one.
THEOREM WithinMemoryEver == Spec => []WithinMemory
<1>1. ConsoleInv => WithinMemory
  BY Zenon DEF ConsoleInv, WithinMemory, Inside
<1> QED
  BY <1>1, ConsoleInductive, PTL

\* Whoever prints, scrolls or switches leaves the VGA with the cursor and the screen
\* of the console in front when the task comes to its next key.
THEOREM ShownIsCurrentEver == Spec => []ShownIsCurrent
<1>1. ConsoleInv => ShownIsCurrent
  <2> SUFFICES ASSUME ConsoleInv, pc \in {"read", "write"}, ~raced
               PROVE  /\ shown["cursor"] = <<current, cursor[current]>>
                      /\ shown["start"] = <<current, start[current]>>
    BY DEF ShownIsCurrent
  <2>1. ShownFresh
    BY Zenon DEF ConsoleInv
  <2>2. outs = <<>>
    BY NothingDue
  <2>3. \A reg \in Register : ~Due(reg)
    <3>1. \A reg : ~ \E k \in DOMAIN outs : outs[k] = reg
      BY <2>2
    <3>2. pc \notin {"while", "scroll", "scroll load", "scroll store"}
      OBVIOUS
    <3> QED
      BY <3>1, <3>2, Zenon DEF Due
  <2> QED
    BY <2>1, <2>3 DEF ShownFresh, Register, Field
<1> QED
  BY <1>1, ConsoleInductive, PTL

================================================================================
