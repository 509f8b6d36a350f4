SPECIFICATION MCSpec
CONSTANTS
  op1 = op1
  op2 = op2
  r1 = r1
  r2 = r2
  p1 = p1
  Ops = {op1, op2}
  Runtimes = {r1, r2}
  Principals = {p1}
  Profile <- MCProfile
  LeaseMs = 1
  MaxClock = 3
  MaxRevision = 6
  Rank <- MCRank
  Requests <- MCRequests
SYMMETRY MCSymmetry
INVARIANTS
  LedgerTypeOK
  LeaseBacksClaim
  RecordsWellFormed
  AttemptsNeverOvertakeTokens
  TraversalsMissNothing
PROPERTIES
  FencingMonotone
  TerminalIsFinal
CHECK_DEADLOCK FALSE
