--------------------------------- MODULE MCHdd ---------------------------------
(******************************************************************************)
(* Small instances of the disk driver for TLC: two slots on the disk, and three  *)
(* logical partitions of each that the driver keeps.                          *)
(******************************************************************************)
EXTENDS HddOpen

none == [kind |-> "none", chain |-> 1, back |-> FALSE]
plain == [kind |-> "plain", chain |-> 1, back |-> FALSE]
one == [kind |-> "extended", chain |-> 1, back |-> FALSE]
long == [kind |-> "extended", chain |-> 4, back |-> FALSE]
circle == [kind |-> "extended", chain |-> 1, back |-> TRUE]

Disk(first, second) == [s \in PartSlot |-> IF s = 0 THEN first ELSE second]

SmallLayouts ==
  {Disk(none, one), Disk(plain, circle), Disk(long, none), Disk(circle, plain),
   Disk(long, one), Disk(one, long), Disk(plain, none)}

\* itoa_base of every int but the smallest reads back, and so does what atoi makes
\* of it if it is not negative; negative numbers atoi gets wrong, but one.
ASSUME NumbersReadBack ==
  \A v \in INT_MIN + 1 .. -INT_MIN - 1 :
    /\ \A radix \in {10, 16} :
         Legible(Itoa(v, radix), radix) /\ ReadBack(Itoa(v, radix), radix) = v
    /\ Atoi(Itoa(v, 10).negative, Itoa(v, 10).digits) = v <=> v >= 0 \/ 2 * v = INT_MIN

\* The smallest int comes out with characters that are no digits.
ASSUME SmallestIntIllegible == \A radix \in {10, 16} : ~Legible(Itoa(INT_MIN, radix), radix)

================================================================================
