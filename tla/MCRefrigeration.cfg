SPECIFICATION FairSpec
CONSTANTS
  StartDelay = 1
  FanStopDelay = 1
  CompInterval = 1
  StartupDelay = 0
  LowPressShield = 0
  MinRuntime = 1
  StopDelay = 0
  TimerMod = 4
  AlarmBypass = FALSE
  FrostIds = {"comp1"}
  AlarmIds = {"E7"}
INVARIANTS
  TypeOK
  MachinesAgree
  NoAirflowOnlyInStop
PROPERTIES
  SafeStart
  StaggeredStop
  PowerOffStops
  PowerOnRuns
  AirflowRestored
