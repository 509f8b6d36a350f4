SPECIFICATION Spec
CONSTANTS
  guarded = guarded
  keyed = keyed
  queryable = queryable
  readOnly = readOnly
  r1 = r1
  r2 = r2
  p1 = p1
  c1 = c1
  c2 = c2
  c3 = c3
  Ops = {readOnly}
  Runtimes = {r1}
  Principals = {}
  Profile <- Profiles
  LeaseMs = 1
  MaxClock = 1
  Calls = {c1, c2}
  Workloads <- TwoReaders
  AuthorizerDecisions = {}
  ClaimRetryLimit = 1
SYMMETRY MCSymmetry
PROPERTIES
  ReadOnlyReplayMayExecute
