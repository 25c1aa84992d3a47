SPECIFICATION FairSpec
CONSTANTS
  Configs <- RacedPortions
  MaxTime = 3
  CloseHeatMax = 2
  WriteHeatMax = 4
  ChildKeyLose = 1
  HeatRate = 50
  FirstFlow = 45
  MaxHeatTime = 4
  MaxCount = 1200
  MaxLoss = 1
  U16 = 6
  AlwaysLit = 9
PROPERTIES OutletCloses
