SPECIFICATION Spec
CONSTANTS
  Entities = {e1}
  Texts = {t1, t2}
  Requests = {r1}
  Jobs = {j1, j2}
  MaxTries = 1
  Trouble = {}
  NoRow = NoRow
  NoEntity = NoEntity
SYMMETRY MCSymmetry
INVARIANT QuietOnlyEnabled
CHECK_DEADLOCK FALSE
