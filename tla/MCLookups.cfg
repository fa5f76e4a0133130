SPECIFICATION Spec
CONSTANTS
  Ids = {1, 2, 3}
  Urls = {x, y}
  Inputs <- ShortLists
  None = None
INVARIANTS TypeOK Kept ExactCheck
CHECK_DEADLOCK FALSE
