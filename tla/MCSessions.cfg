SPECIFICATION Spec
CONSTANTS
  Users = {u1}
  Agents = {a1, a2}
  OldTokens = {t1}
  Requests = {r1, r2, r3}
  None = None
SYMMETRY Symmetry
INVARIANTS
  TypeOK
  TokenAccounting
  TokensStored
  LogoutFinal
  NoneStuck
PROPERTIES
  NoResurrection
  StoreSpec
CHECK_DEADLOCK FALSE
