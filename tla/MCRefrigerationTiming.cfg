SPECIFICATION TimedSpec
VIEW TimedView
CONSTANTS
  StartDelay = 1
  FanStopDelay = 2
  CompInterval = 1
  StartupDelay = 0
  LowPressShield = 0
  MinRuntime = 1
  StopDelay = 0
  TimerMod = 4
  AlarmBypass = FALSE
  FrostIds = {}
  AlarmIds = {"E7"}
PROPERTIES
  CompDelaysHonoured
  IntervalsHonoured
  FanDelaysHonoured
