SPECIFICATION FairSpec
CONSTANTS
  CfDelay = 2
  ColdStart = 2
  ColdFv = 1
  CheckDelay = 1
  Interval = 2
  Wrap = 4
  CloseTime = 2
  U8 = 4
  Scenes <- All
INVARIANTS TypeOK Judged ValvesNested RestartsLimited
PROPERTIES ValveDelay FullRests IceFollows HumidityObeyed DisplayReturns
