\* What the Pause key is decoded as.
CONSTANTS
  MAX_KEYBOARD_BUFF_SIZE = 24
  Keys = {"pause"}
  KeyBound = 1
  Make <- MCMake
  Break <- MCBreak
  Code <- MCCode
SPECIFICATION Spec
INVARIANT
  PauseIsReported
CHECK_DEADLOCK FALSE
