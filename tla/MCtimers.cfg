SPECIFICATION FairSpec
CONSTANTS
  GUI_MAX_TIMERS = 2
  TimerIDs = {1, 2, 3}
  TimeOuts = {1, 3}
  MSEC = 2
  USEC = 2
  MaxTime = 7
INVARIANTS
  TypeOK
PROPERTIES
  KeepsTimeService
  CanRearm
  OncePerSweep
  EveryTimerEnds
