SPECIFICATION MCSpec
CONSTANTS
  plan = plan
  gates = gates
  op1 = op1
  w1 = w1
  w2 = w2
  w3 = w3
  w4 = w4
  Subjects = {plan, gates}
  Operations = {op1}
  Writes = {w1, w2, w3, w4}
  Requests <- CrossReferences
  MaxRevision = 2
  ClosesLedger = TRUE
  SubjectRank <- MCSubjectRank
  ReadRequests <- MCReadRequests
  MaxWritesWithReader = 3
SYMMETRY MCSymmetry
INVARIANTS
  StoreTypeOK
  RevisionsAreGapless
  ChangeLogMatchesRevisions
  ReferencesPointBack
  WritersAreToldTheTruth
  ReadersMissNothing
PROPERTIES
  CommittedIsImmutable
