SPECIFICATION FairSpec
CONSTANTS
  j1 = j1
  j2 = j2
  e1 = e1
  e2 = e2
  Jobs = {j1}
  Entities = {e1, e2}
  Admins = {a1}
  NTypes = 2
  TypeOf <- MCTypeOf
  MaxTries = 2
  Asks = {"askRead", "forceRead"}
  Trouble = {"request", "embedding", "raise", "publish", "crash", "expire"}
  NoJob = NoJob
  NoEntity = NoEntity
INVARIANT TypeOK
INVARIANT CompletedIsDurable
INVARIANT CancelBoundary
INVARIANT NoSilentEnd
INVARIANT FinishedNotRunning
PROPERTY BlockedOnlyForATime
