------------------------------ MODULE MCKeyboard ------------------------------
(******************************************************************************)
(* Small instances of the keyboard for TLC: keyboards with a few keys each.   *)
(******************************************************************************)
EXTENDS Keyboard

\* Letters under shift and caps lock; the key pad under num lock and under shift;
\* keys with prefixes.  With each, the bytes it keeps to be sent.
Kits ==
  { [keys |-> {"SHIFT_L", "A", "CAPS_LOCK"}, bytes |-> 1],
    [keys |-> {"PAD_7", "NUM_LOCK"}, bytes |-> 1],
    [keys |-> {"PAD_7", "SHIFT_R"}, bytes |-> 1],
    [keys |-> {"CTRL_R", "PAUSE"}, bytes |-> 6],
    [keys |-> {"PRINT", "PAD_SLASH"}, bytes |-> 4] }

VARIABLE kit   \* the one there is

mcvars == <<vars, kit>>

MCInit == Init /\ kit \in Kits

Types == \E k \in kit.keys : (Press(k) \/ Release(k)) /\ Len(queue') <= kit.bytes

MCNext == (Types \/ Arrive \/ Handler \/ Task) /\ UNCHANGED kit

MCSpec == MCInit /\ [][MCNext]_mcvars /\ Fairness

================================================================================
