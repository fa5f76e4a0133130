SPECIFICATION MarketFairSpec
CONSTANTS
  Requests = {r1, r2}
  OldBrands = {b1}
  Users = {u1}
  Names = {n1}
  ListCount = 1
  Drafts <- OneDraft
  StoreRequests = {s1}
  OldStores = {o1}
  StoreDrafts <- OneStoreDraft
  u1 = u1
  n1 = n1
  None = None
INVARIANTS StoresTypeOK StoreAnswers StoresAllowed
PROPERTIES AllAnswered MarketStoreSpec
CHECK_DEADLOCK FALSE
