SPECIFICATION Spec
CONSTANTS
  guarded = guarded
  keyed = keyed
  queryable = queryable
  readOnly = readOnly
  r1 = r1
  r2 = r2
  p1 = p1
  c1 = c1
  c2 = c2
  c3 = c3
  Ops = {keyed, queryable, readOnly}
  Runtimes = {r1, r2}
  Principals = {p1}
  Profile <- Profiles
  LeaseMs = 1
  MaxClock = 2
  Calls = {c1, c2}
  Workloads <- MixedCallers
  AuthorizerDecisions = {"allow", "deny"}
  ClaimRetryLimit = 1
SYMMETRY MCSymmetry
INVARIANTS
  CallerWasToldTheTruth
PROPERTIES
  ImplementsSafeAction
  RespectsLedgerPort
  ExecutesOnlyOnEvidence
