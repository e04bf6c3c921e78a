----------------------------------- MODULE Lib -----------------------------------
(******************************************************************************)
(* The numbers of lib/common.c: what vsprintf prints for a %d or a %x, what   *)
(* atoi reads, and how delay counts time.  An int has a sign bit and wraps.   *)
(*                                                                            *)
(* A character is not a code but what it says: a printed number is a record   *)
(* of its filling, its sign and its digits, the most significant first.       *)
(******************************************************************************)
EXTENDS Integers, Sequences

CONSTANT SignBit   \* what the sign bit of an int counts: 2^31, less in small instances

ASSUME SignBitAssumption == SignBit \in Nat \ {0}

INT_MIN == -SignBit

\* The int that has the bits of n.
Signed(n) == ((n + SignBit) % (2 * SignBit)) - SignBit

\* The unsigned int that has the bits of n.
Unsigned(n) == n % (2 * SignBit)

\* Division of C: towards zero.
Quot(a, b) == IF a >= 0 THEN a \div b ELSE -((-a) \div b)
Rem(a, b) == a - b * Quot(a, b)

--------------------------------------------------------------------------------
(* itoa_base and vsprintf.                                                    *)

\* The digits of n >= 0 as the loop of itoa_base finds them, the last one first.
DigitsUp(n, radix) ==
  LET digits[v \in 0 .. n] ==
        IF v = 0 THEN <<>> ELSE <<v % radix>> \o digits[v \div radix]
  IN digits[n]

\* reverse.
Reversed(s) == [i \in 1 .. Len(s) |-> s[Len(s) + 1 - i]]

\* What the loop leaves of a value that stayed negative: every remainder is, too,
\* and so no digit.
NotDigits(s) == [i \in 1 .. Len(s) |-> -s[i]]

\* itoa_base(value, radix); the smallest int is its own negation.
Itoa(value, radix) ==
  LET magnitude == IF value < 0 THEN Signed(-value) ELSE value
  IN [negative |-> value < 0,
      digits |->
        CASE magnitude = 0 -> <<0>>
          [] magnitude > 0 -> Reversed(DigitsUp(magnitude, radix))
          [] magnitude < 0 -> NotDigits(Reversed(DigitsUp(-magnitude, radix)))]

Width(number) == Len(number.digits) + (IF number.negative THEN 1 ELSE 0)

\* A %d (radix 10) or a %x (16) with a field as wide as align: what is missing is
\* filled from the left, in front of the sign.
Formatted(value, radix, align) ==
  LET number == Itoa(value, radix)
  IN [filled |-> IF Width(number) < align THEN align - Width(number) ELSE 0,
      negative |-> number.negative,
      digits |-> number.digits]

--------------------------------------------------------------------------------
(* atoi.                                                                      *)

\* num = num * 10 + digit, over the digits.
Accumulated(digits) ==
  LET num[k \in 0 .. Len(digits)] ==
        IF k = 0 THEN 0 ELSE Signed(num[k - 1] * 10 + digits[k])
  IN num[Len(digits)]

\* num | 0x80000000 as an int: the sign bit is set, nothing is negated.
WithSignBit(num) == IF num < 0 THEN num ELSE num - SignBit

Atoi(negative, digits) ==
  IF negative THEN WithSignBit(Accumulated(digits)) ELSE Accumulated(digits)

--------------------------------------------------------------------------------
(* delay, and get_status in the driver, wait by this measure.                 *)

\* (get_ticks() - t) * 1000 / HZ, with 100 ticks to the second.
Elapsed(now, t) == Quot(Signed(Signed(now - t) * 1000), 100)

\* The loop goes on.
Waits(now, t, milli) == Elapsed(now, t) < milli

--------------------------------------------------------------------------------
(* What a reader makes of a number (no code).                                 *)

ReadBack(number, radix) ==
  LET upTo[k \in 0 .. Len(number.digits)] ==
        IF k = 0 THEN 0 ELSE upTo[k - 1] * radix + number.digits[k]
  IN IF number.negative THEN -upTo[Len(number.digits)] ELSE upTo[Len(number.digits)]

\* Every character of it is a digit.
Legible(number, radix) == \A i \in 1 .. Len(number.digits) : number.digits[i] \in 0 .. radix - 1

================================================================================
