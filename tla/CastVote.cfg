SPECIFICATION ModeSpec
CONSTANTS
  None = None
  Modes = {"closed", "device", "anyone"}
  Voters = {v1, v2}
  BallotIds = {b1, b2, b3}
  Times = {t1, t2, t3, t4}
  Requests = {r1, r2, r3}
  Editors = {}
  EditKinds = {}
  Access = "closed"
  BallotUpdates = FALSE
SYMMETRY Interchangeable
CHECK_DEADLOCK FALSE
INVARIANTS OneVotePerVoter RollMatchesBallots
PROPERTIES ImplementsBallotBox
