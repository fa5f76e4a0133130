SPECIFICATION Spec
CONSTANTS
  Requests = {r1, r2, r3}
  OldUsers = {u1}
  Emails = {e1, e2}
  Names = {n1}
  None = None
SYMMETRY Symmetry
INVARIANTS TypeOK SessionVerified ProvenAddress NoPhantomMail OverlapOnly
PROPERTIES AccountSpec
CHECK_DEADLOCK FALSE
