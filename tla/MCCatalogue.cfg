SPECIFICATION Spec
CONSTANTS
  q1 = q1
  q2 = q2
  o1 = o1
  o2 = o2
  t1 = t1
  t2 = t2
  s1 = s1
  k1 = k1
  k2 = k2
  l1 = l1
  p1 = p1
  d1 = d1
  c1 = c1
  a1 = a1
  a2 = a2
  r1 = r1
  r2 = r2
  m1 = m1
  v1 = v1
  n1 = n1
  n2 = n2
  f1 = f1
  f2 = f2
  u1 = u1
  Orgs = {o1, o2}
  ConfigTypes = {t1, t2}
  Statuses = {s1}
  AssetTypes = {k1, k2}
  Locations = {l1}
  Passwords = {p1}
  Documents = {d1}
  Configs = {c1}
  Assets = {a1, a2}
  Links = {r1, r2}
  Attachments = {m1}
  Favorites = {v1}
  Names = {n1, n2}
  FieldIds = {f1, f2}
  Users = {u1}
  Starts <- MCStarts
  Requests = {q1, q2}
  Null = Null
  Idle = Idle
  MaxRequests = 3
  MaxFaults = 1
SYMMETRY Interchangeable
INVARIANTS
  TypeOK
  NothingTwice
  SecretsEncrypted
  AuditIsTrue
  ObjectsHaveRows
PROPERTIES
  EditsKeepOthers
  DeletionSparesReferrers
CHECK_DEADLOCK FALSE
