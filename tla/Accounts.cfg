CONSTANTS
  u1 = u1
  u2 = u2
  u3 = u3
  f1 = f1
  f2 = f2
  c1 = c1
  c2 = c2
  c3 = c3
  c4 = c4
  x1 = x1
  x2 = x2
  b1 = b1
  b2 = b2
  a1 = a1
  g1 = g1
  t1 = t1
  t2 = t2
  j1 = j1
  j2 = j2
  r1 = r1
  k1 = k1
  k2 = k2
  v1 = v1
  v2 = v2
  o1 = o1
  i1 = i1
  q1 = q1
  d1 = d1
  d2 = d2
  Users = {u1, u2, u3}
  Friends = {u2}
  Subjects = {a1, g1}
  ProviderOf <- MCProviderOf
  Challenges = {c1, c2, c3, c4}
  Families = {f1, f2}
  Grants = {b1, b2}
  Requests = {x1, x2}
  MaxRotations = 2
  Pushers = {x1, x2}
  PushTokens = {t1, t2}
  MaxRevisions = 2
  MAX_SENDS = 2
  ProjectIds = {j1, j2}
  Repositories = {r1}
  MemoryKeys = {k1, k2}
  Contents = {v1, v2}
  Searchable = {v1}
  Objectives = {o1}
  Actors = {x1, x2}
  MAX_MEMORY_REVISIONS_PER_ENTRY = 4
  MAX_MEMORY_ENTRIES_PER_SCOPE = 1
  MAX_PROJECT_REPOSITORIES = 1
  MaxAttempts = 3
  Accounts = {u1, u3}
  Installations = {i1}
  AppRepositories = {q1}
  Transactions = {t1, t2}
  WebhookIds = {d1, d2}
  Handlers = {x1, x2}
SPECIFICATION MCSpec
SYMMETRY Interchangeable
INVARIANTS
  SessionsStayLinear
  AccountsKeepALogin
  ErasedCannotReturn
  LateReceiptsAreHarmless
  MemoryKeepsItsTrail
  ContextStaysFrozen
  DeliveriesApplyOnce
PROPERTY RecordedPushIsFinal
CHECK_DEADLOCK FALSE
