SPECIFICATION FairSpec
CONSTANTS
  op1 = op1
  op2 = op2
  r1 = r1
  p1 = p1
  p2 = p2
  p3 = p3
  Ops = {op1, op2}
  Runtimes = {r1}
  Principals = {}
  Profile <- MCProfile
  Processes = {p1, p2, p3}
  Subjects = {1, 2}
  Originals <- MCOriginals
  MaxAttempts = 2
  MaxRevision = 2
INVARIANTS
  FileIsOldOrCurrent
  MigrationKeepsTheFacts
PROPERTIES
  OpenersEnd
