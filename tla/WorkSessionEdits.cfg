CONSTANTS
  Patterns <- Revisions
  Requests = {r1, r2}
  r1 = r1
  r2 = r2
  MaxSessions = 1
  MaxEdits = 1
  NoRow = NoRow
SPECIFICATION Spec
SYMMETRY Interchangeable
INVARIANTS
  TypeOK
  StoredRowsFit
  CompletionIsStamped
  SessionsHaveTheirPattern
PROPERTIES
  AbandonedForGood
  RequestsNavigate
CHECK_DEADLOCK FALSE
