CONSTANTS
  PanelSets = {{"editor"}}
  Colleagues = {"save"}
  InOrder = FALSE
  MaxChanges = 3
  MaxLost = 1
  MaxCalls <- TwoCalls
SPECIFICATION PageFairSpec
PROPERTY PageSettles
CHECK_DEADLOCK FALSE
