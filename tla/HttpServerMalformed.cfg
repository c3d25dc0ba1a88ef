CONSTANTS
  MaxPieces = 2
SPECIFICATION FairSpec
PROPERTY MalformedIsRefused
CHECK_DEADLOCK FALSE
