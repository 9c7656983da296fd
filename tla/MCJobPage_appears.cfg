CONSTANTS
  PanelSets = {{"editor", "figures"}}
  Colleagues = {"save"}
  InOrder = TRUE
  MaxChanges = 3
  MaxLost = 0
  MaxCalls <- TwoCalls
SPECIFICATION PageFairSpec
PROPERTY ExtractionAppears
CHECK_DEADLOCK FALSE
