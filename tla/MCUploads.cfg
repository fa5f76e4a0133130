SPECIFICATION Spec
CONSTANTS
  Senders = {s1, s2, s3}
  Readers = {g1}
  MaxClock = 1
  None = None
SYMMETRY Symmetry
INVARIANTS TypeOK FilesFound OneAnswer
PROPERTIES NamesStay
CHECK_DEADLOCK FALSE
