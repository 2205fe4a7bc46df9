SPECIFICATION FairSpec
CONSTANTS
  j1 = j1
  j2 = j2
  e1 = e1
  e2 = e2
  Jobs = {j1, j2}
  Entities = {e1, e2}
  Admins = {a1}
  NTypes = 1
  TypeOf <- MCOneType
  MaxTries = 1
  Asks = {"forceRead"}
  Trouble = {"timeout"}
  NoJob = NoJob
  NoEntity = NoEntity
PROPERTY EveryJobEnds
