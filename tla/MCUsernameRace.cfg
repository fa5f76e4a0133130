SPECIFICATION Spec
CONSTANTS
  Requests = {r1, r2}
  OldUsers = {u1, u2}
  Emails = {e1, e2}
  Names = {n1}
  None = None
INVARIANT UniqueUsername
CHECK_DEADLOCK FALSE
