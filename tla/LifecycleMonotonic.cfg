SPECIFICATION LifecycleSpec
CONSTANTS
  guarded = guarded
  keyed = keyed
  queryable = queryable
  readOnly = readOnly
  r1 = r1
  r2 = r2
  p1 = p1
  c1 = c1
  c2 = c2
  c3 = c3
  d1 = d1
  d2 = d2
  Ops = {guarded, queryable}
  Runtimes = {r1, r2}
  Principals = {}
  Profile <- Profiles
  LeaseMs = 1
  MaxClock = 1
  Calls = {c1, c2}
  Workloads <- DisposedWorkloads
  AuthorizerDecisions = {}
  ClaimRetryLimit = 1
  Disposals = {d1, d2}
  DisposedRuntime <- OneRuntime
PROPERTIES
  LifecycleIsMonotonic
