SPECIFICATION MCSpec
CONSTANTS
  Keys = {"SHIFT_L", "SHIFT_R", "CTRL_L", "CTRL_R", "A", "CAPS_LOCK", "NUM_LOCK", "PAD_7", "PAD_SLASH", "PRINT", "PAUSE"}
  BufLength = 2
  MaxQueue = 6
INVARIANTS
  TypeOK
  RingConsistent
  StoredAsTyped
  QuietAgrees
PROPERTY DecodeEnds
CHECK_DEADLOCK FALSE
