\* The line buffer and Enter against interrupts anywhere in the loop.
CONSTANTS
  Letters <- TwoLetters
  Buffers = {b1, b2, b3}
  PressBound = 6
  NULL = NULL
SPECIFICATION Spec
INVARIANTS
  OnlyResetRaces
  NoBufferLeaks
  LineIsWhatIsShown
  NoPromptWithoutEnter
PROPERTY
  EnterIsServed
CHECK_DEADLOCK FALSE
