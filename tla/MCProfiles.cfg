SPECIFICATION Spec
CONSTANTS
  Requests = {r1, r2}
  Users = {u1, u2}
  Owners = {u1}
  Countries = {c1, c2}
  States = {s1}
  Regions = {g1}
  Above <- OneRegion
  Forms <- FourForms
  Deletable = {c1, g1}
  c1 = c1
  c2 = c2
  s1 = s1
  g1 = g1
  None = None
SYMMETRY Symmetry
VIEW View
INVARIANTS TypeOK VerifiedData LinksFit AnswersForward
CHECK_DEADLOCK FALSE
