CONSTANTS
  PanelSets = {{"override", "overrides"}}
  Colleagues = {"save"}
  InOrder = TRUE
  MaxChanges = 3
  MaxLost = 1
  MaxCalls <- TwoCalls
SPECIFICATION PageSpec
PROPERTY TypingTaken
CHECK_DEADLOCK FALSE
