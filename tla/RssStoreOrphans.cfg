CONSTANTS
  Sources = {1}
  Links = {a, b}
  MaxEntries = 2
  MaxFetches = 2
SPECIFICATION Spec
INVARIANT EveryItemHasDocument
CHECK_DEADLOCK FALSE
