\* Two owners and two requests that overlap.
CONSTANTS
  Users = {u1, u2}
  Requests = {r1, r2}
  Lesser = {"contributor"}
  DefaultUser = NoUser
  Production = TRUE
  MaxTokens = 2
  Absent = Absent
  NoUser = NoUser
SPECIFICATION Spec
INVARIANT OwnerRemains
CHECK_DEADLOCK FALSE
