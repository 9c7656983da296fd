CONSTANTS
  PanelSets = {{"editor"}}
  Colleagues = {"save"}
  InOrder = TRUE
  MaxChanges = 3
  MaxLost = 1
  MaxCalls <- TwoCalls
SPECIFICATION PageFairSpec
PROPERTY TypingTaken
CHECK_DEADLOCK FALSE
