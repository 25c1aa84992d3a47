SPECIFICATION Spec
CONSTANTS
  NumRegs = 2
  SidStart = 1
  Bits <- TwoBits
  BadWord <- AllButTop
  Valid <- Ranges
  Dft <- DefaultWords
  Cleared = {}
  CoreRegs = {0}
  WifiReg = 1
  WifiOn <- OneBit
  Scenarios <- DurableScenes
INVARIANTS
  Durable
  ChecksumsVote
