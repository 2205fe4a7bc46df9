SPECIFICATION Spec
CONSTANTS
  j1 = j1
  j2 = j2
  e1 = e1
  e2 = e2
  Jobs = {j1, j2}
  Entities = {e1}
  Admins = {a1}
  NTypes = 2
  TypeOf <- MCOneType
  MaxTries = 1
  Asks = {"askRead", "forceRead"}
  Trouble = {"outside"}
  NoJob = NoJob
  NoEntity = NoEntity
PROPERTY ContractSpec
SYMMETRY MCSymmetry
