SPECIFICATION ModeSpec
CONSTANTS
  None = None
  Modes = {"closed"}
  Voters = {v1}
  BallotIds = {b1, b2}
  Times = {t1, t2, t3, t4}
  Requests = {r1}
  Editors = {e1}
  EditKinds = {"email"}
  Access = "closed"
  BallotUpdates = FALSE
SYMMETRY Interchangeable
INVARIANT OneVotePerVoter
