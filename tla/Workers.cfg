SPECIFICATION Spec
CONSTANTS
  guarded = guarded
  keyed = keyed
  queryable = queryable
  readOnly = readOnly
  r1 = r1
  r2 = r2
  p1 = p1
  c1 = c1
  c2 = c2
  c3 = c3
  Ops = {guarded, queryable}
  Runtimes = {r1, r2}
  Principals = {}
  Profile <- Profiles
  LeaseMs = 1
  MaxClock = 2
  Calls = {c1, c2, c3}
  Workloads <- ManyWorkers
  AuthorizerDecisions = {}
  ClaimRetryLimit = 1
SYMMETRY MCSymmetry
INVARIANTS
  TypeOK
  SnapshotIsRevision
  DispatchIsDurableFirst
  GuardedRequestedOnce
  EffectAtMostOnce
  RecordTellsTheTruth
PROPERTIES
  RespectsLedgerPort
  StaleOwnerNeverWrites
  LostLeaseEndsTheCall
