SPECIFICATION FairSpec
CONSTANTS
  Users = {u1}
  Agents = {a1, a2}
  OldTokens = {t1, t2}
  Requests = {r1, r2}
  None = None
PROPERTIES
  Answered
CHECK_DEADLOCK FALSE
