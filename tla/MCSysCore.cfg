\* Every interrupt source, a queue of three events and timers of one or two ticks.
SPECIFICATION FairSpec
CONSTANTS
  SYS_MAX_EV = 3
  KeyEvents = {"SYS_KEY_ENTER"}
  Sources = {"INT0", "CN", "ADC", "T1", "T4"}
  RingDelay = 1
  CidTimeout = 2
  RingWait = 2
  HangDelay = 1
  EndWait = 1
  SleepTimeout = 2
INVARIANTS
  TypeOK
  CallHasTimer
  LineDiscipline
  CallStateIsClean
  AwakeHasSleepTimer
PROPERTIES
  ImplementsCallScreen
  WokenForEvent
  MessageIsPlayed
  CallEnds
  GoesToSleep
