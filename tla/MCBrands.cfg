SPECIFICATION Spec
CONSTANTS
  Requests = {r1, r2}
  OldBrands = {b1}
  Users = {u1, u2}
  Names = {n1, n2}
  ListCount = 2
  Drafts <- ThreeDrafts
  u1 = u1
  u2 = u2
  n1 = n1
  n2 = n2
  None = None
SYMMETRY Symmetry
INVARIANTS TypeOK WholeBrand AnswerForward NamesChecked PublishedAllowed
PROPERTIES BrandSpec
CHECK_DEADLOCK FALSE
