\* The queue of the code, ten events, and a main that is only slow while it writes
\* to the SD card: interrupts fill the queue.
SPECIFICATION PromptSpec
CONSTANTS
  SYS_MAX_EV = 10
  KeyEvents = {"SYS_KEY_ENTER"}
  Sources = {"INT0", "ADC", "T4"}
  RingDelay = 1
  CidTimeout = 2
  RingWait = 2
  HangDelay = 1
  EndWait = 1
  SleepTimeout = 2
INVARIANT
  QueueIsNeverOverrun
