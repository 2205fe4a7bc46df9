SPECIFICATION Spec
CONSTANTS
  a1 = a1
  a2 = a2
  a3 = a3
  m1 = m1
  m2 = m2
  m3 = m3
  x1 = x1
  x2 = x2
  k1 = k1
  k2 = k2
  g1 = g1
  o1 = o1
  google = google
  oidc = oidc
  ExportIds = {e1}
  NoRow = NoRow
  Chats = {c1, c2}
  Jobs = {j1}
  Sockets = {s1, s2}
  Scripts <- MCScripts
  MaxRetries = 1
  Null = Null
  AxiosCalls = {x, y}
  FetchCalls = {f, g}
  AccountIds = {a1, a2, a3}
  Emails = {m1, m2, m3}
  Credentials = {x1, x2}
  Keys = {k1, k2}
  Subjects = {g1, o1}
  Providers = {google, oidc}
  ProviderOf <- MCProviderOf
  EmailOf <- MCEmailOf
  Enrolled <- MCEnrolled
  Requests = {r1, r2}
  None = None
  Fresh = Fresh
  Ended = Ended
  Me = a2
  OwnerOf <- MCOwnerOf
  MaxStarts = 2
  MaxFaults = 2
INVARIANTS
  TypeOK
  LinksAreGood
  FinishedIsWhole
  CredentialsSound
PROPERTIES
  ExportsEnd
  CallsSettle
CHECK_DEADLOCK FALSE
