SPECIFICATION ModeSpec
CONSTANTS
  None = None
  Modes = {"closed", "updates"}
  Voters = {v1}
  BallotIds = {b1, b2}
  Times = {t1, t2, t3, t4}
  Requests = {r1, r2}
  Editors = {e1, e2}
  EditKinds = {"flag", "invalidate", "email"}
  Access = "closed"
  BallotUpdates = FALSE
SYMMETRY Interchangeable
INVARIANTS CastInvInMode VotesTraceable AlreadyVotedIsTrue
PROPERTIES NoVoteOnSubmittedRoll CastKeepsEdits
