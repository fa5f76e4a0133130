SPECIFICATION Spec
CONSTANTS
  Requests = {r1, r2}
  OldUsers = {u1}
  Emails = {e1, e2}
  Names = {n1}
  None = None
INVARIANT UniqueEmail
CHECK_DEADLOCK FALSE
