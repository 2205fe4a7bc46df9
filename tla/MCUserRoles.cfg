\* Three user ids, one of them the default user's, and two
\* requests, one unexpired token at a time.  The instance stops
\* when its ids are used up and nobody is left with a token.
CONSTANTS
  Users = {u1, u2, u3}
  Requests = {r1, r2}
  Lesser = {"contributor"}
  DefaultUser = u3
  Production = FALSE
  MaxTokens = 1
  Absent = Absent
  NoUser = NoUser
SPECIFICATION Spec
SYMMETRY Interchangeable
INVARIANTS TypeOK RemovedForGood
PROPERTIES LastOwnerGuarded OwnersDecide
CHECK_DEADLOCK FALSE
