\* A main that is only slow in slow work: the sleep timer fires in the wrong place.
SPECIFICATION PromptSpec
CONSTANTS
  SYS_MAX_EV = 3
  KeyEvents = {"SYS_KEY_ENTER"}
  Sources = {"INT0", "CN", "ADC", "T1", "T4"}
  RingDelay = 1
  CidTimeout = 2
  RingWait = 2
  HangDelay = 1
  EndWait = 1
  SleepTimeout = 2
INVARIANT
  NoSleepInCall
