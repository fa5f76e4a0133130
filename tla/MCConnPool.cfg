SPECIFICATION MCSpec
CONSTANTS
  Conns = {c1, c2, c3}
  Requests = {r1, r2, r3}
  r1 = r1
  r2 = r2
  r3 = r3
  Users = {u1}
  None = None
INVARIANTS
  TypeOK
  NothingLeaks
  NoStall
PROPERTIES
  Served
CHECK_DEADLOCK FALSE
