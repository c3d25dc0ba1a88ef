CONSTANTS
  Sources = {1}
  Hour = 6
  MAX_GAP = 2
  MaxFetch = 0
  MaxDown = 0
SPECIFICATION Spec
INVARIANT ThreeInARowPromote
CHECK_DEADLOCK FALSE
