SPECIFICATION Spec
CONSTANTS
  guarded = guarded
  keyed = keyed
  queryable = queryable
  readOnly = readOnly
  r1 = r1
  r2 = r2
  p1 = p1
  c1 = c1
  c2 = c2
  c3 = c3
  Ops = {queryable}
  Runtimes = {r1, r2}
  Principals = {p1}
  Profile <- Profiles
  LeaseMs = 1
  MaxClock = 1
  Calls = {c1, c2}
  Workloads <- AllCallers
  AuthorizerDecisions = {"allow", "deny"}
  ClaimRetryLimit = 1
SYMMETRY MCSymmetry
INVARIANTS
  PrincipalContinuity
