SPECIFICATION Spec
CONSTANTS
  None = None
  Voters = {v1, v2}
  Requests = {r1, r2}
  Workers = {w1, w2}
  v1 = v1
  v2 = v2
  Scenes <- ScenesOf
  BatchTries = 2
  ReceiptTries = 2
  MaxNotices = 2
SYMMETRY Symmetry
CHECK_DEADLOCK FALSE
INVARIANTS NobodySkipped EmailsWithinTries RollKeptOrRaced RecordsTrue
