SPECIFICATION Spec
CONSTANTS
  j1 = j1
  j2 = j2
  e1 = e1
  e2 = e2
  Jobs = {j1}
  Entities = {e1, e2}
  Admins = {a1}
  NTypes = 2
  TypeOf <- MCTypeOf
  MaxTries = 1
  Asks = {"askRead", "forceRead"}
  Trouble = {"raise"}
  NoJob = NoJob
  NoEntity = NoEntity
PROPERTY PartialWorkSurvives
