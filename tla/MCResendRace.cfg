SPECIFICATION Spec
CONSTANTS
  Requests = {r1, r2}
  OldUsers = {u1}
  Emails = {e1}
  Names = {n1}
  None = None
PROPERTY OneCodePerWindow
CHECK_DEADLOCK FALSE
