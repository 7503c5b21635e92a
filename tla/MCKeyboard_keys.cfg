\* Sequences of keys: what the decoder makes of them, and the ring buffer
\* before and after the callback is installed.
CONSTANTS
  MAX_KEYBOARD_BUFF_SIZE = 2
  Keys = {"a", "star", "shift", "enter", "print", "up", "pause"}
  KeyBound = 4
  Make <- MCMake
  Break <- MCBreak
  Code <- MCCode
SPECIFICATION Spec
INVARIANTS
  TypeOK
  DecodedAsTyped
  PlainKeyResynchronises
  HalvesAreUsedOnce
PROPERTIES
  ImplementsEventQueue
CHECK_DEADLOCK FALSE
