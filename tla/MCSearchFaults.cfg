SPECIFICATION Spec
CONSTANTS
  Entities = {e1}
  Texts = {t1, t2}
  Requests = {r1}
  Jobs = {j1, j2}
  MaxTries = 2
  Trouble = {"request", "raise", "crash", "unconfigured", "switch"}
  NoRow = NoRow
  NoEntity = NoEntity
SYMMETRY MCSymmetry
INVARIANTS
  TypeOK
  LoneJobRepairs
  CommittedTextOnly
