SPECIFICATION Spec
CONSTANTS
  o1 = o1
  o2 = o2
  t1 = t1
  s1 = s1
  k1 = k1
  l1 = l1
  c1 = c1
  a1 = a1
  d1 = d1
  d2 = d2
  d3 = d3
  p1 = p1
  p2 = p2
  p3 = p3
  r1 = r1
  r2 = r2
  r3 = r3
  Orgs = {o1, o2}
  ConfigTypes = {t1}
  Statuses = {s1}
  AssetTypes = {k1}
  Locations = {l1}
  Configs = {c1}
  Assets = {a1}
  Docs = {d1, d2, d3}
  Passwords = {p1, p2, p3}
  Links = {r1, r2, r3}
  OrgOf <- MCOrgOf
  TypeOf <- MCTypeOf
  StatusOf <- MCStatusOf
  NameOf <- MCNameOf
  Empty = {d3}
  Blank = {}
  WithFile = {c1}
  OwnerOf <- MCOwnerOf
  TargetOf <- MCTargetOf
  KindOf <- MCKindOf
  Rows <- MCRows
  Places <- MCPlaces
  MaxFaults = 1
  MaxJobs = 3
INVARIANTS
  TypeOK
  CompletedIsThere
  DuplicatesHaveCause
  SuccessIsComplete
  ReferencesResolve
  FailuresHaveCause
  SyncFailuresHaveCause
PROPERTIES
  EditsSurvive
  SyncIsComplete
  SyncCreatesOnce
CHECK_DEADLOCK FALSE
