CONSTANTS
  PanelSets = {{"editor"}, {"override"}, {"exception"}, {"revision"}, {"share"}}
  Colleagues = {"save", "approve"}
  InOrder = TRUE
  MaxChanges = 3
  MaxLost = 1
  MaxCalls <- TwoCalls
SPECIFICATION PageFairSpec
INVARIANT PageTypeOK
PROPERTIES TypingKept PageSettles
CHECK_DEADLOCK FALSE
