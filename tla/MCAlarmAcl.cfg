SPECIFICATION FairSpec
CONSTANTS
  N = 3
  WordBits = 2
  CntMax = 2
  Delay <- OneDelay
  HandReset = {1, 2}
  Critical = {1}
  CanHold = {0}
  NoClear = {}
  E11 = 1
  E12 = 2
  LogDepth = 2
INVARIANTS
  TypeOK
  RecordsAgree
  CommandPending
  LogAlternates
PROPERTIES
  HandResetLatched
  ConditionReported
  ConditionGone
