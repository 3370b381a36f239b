SPECIFICATION Spec
VIEW View
CONSTANTS
  MaxTimer = 3
  Wrap = 5
  HandlerMaxDelay = 1
  Latency = 1
  Jitter = 1
  Timeouts = {1, 4}
  MaxLost = 1
  off = off
  none = none
  Off = off
  None = none
INVARIANTS
  ListIsRunning
  CountLeftIsExact
  AlwaysArmed
  NoSpuriousInterrupt
PROPERTY
  TimersExpireInTime
