SPECIFICATION FairSpec
CONSTANTS
  plan = plan
  gates = gates
  w1 = w1
  w2 = w2
  w3 = w3
  k1 = k1
  Subjects = {plan, gates}
  Operations = {}
  Writes = {w1, w2, w3}
  Requests <- PlainWrites
  MaxRevision = 2
  ClosesLedger = FALSE
  Consumers = {k1}
  Filters <- AllAndOne
  PageLimit = 1
  Origins = {0, 3}
  MaxCrashes = 1
INVARIANTS
  CursorSkipsNothing
PROPERTIES
  NoMoreMeansCaughtUp
  ChangesArrive
