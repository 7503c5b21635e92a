\* From kmain to the prompt, with interrupts.
CONSTANTS
  Lines <- DeviceLines
  MaxRaises = 1
  MAX_RETRY_COUNT = 2
  MaxResends = 1
  MaxKeys = 1
  width = 8
  height = 6
  pitch = 9
  FONT_WIDTH = 1
  FONT_HEIGHT = 1
  font_scale = 2
  font8x8_buff <- Font
  NL = NL
  Headers <- WrittenHeaders
  Damage <- Turned
  Info <- InfoMessage
  Fatal <- FatalMessage
  Prompt <- ShellPrompt
  Letter = "k"
SPECIFICATION Spec
INVARIANTS
  DriverWasAskedFor
  NothingLeftInService
  InitMeansReady
  KeyboardStaysAlive
  DamageIsNoticed
  StaysOnScreen
  ShowsTheText
PROPERTIES
  RequestsAreServed
  BootEnds
CHECK_DEADLOCK FALSE
