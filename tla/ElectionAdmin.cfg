SPECIFICATION ModeSpec
CONSTANTS
  None = None
  Modes = {"scheduled", "manual"}
  t1 = t1
  t2 = t2
  Tabs = {t1, t2}
  TabOps <- EditorAndOwner
  OtherOps = {"vote", "upload", "deleteBallots"}
  HasStart = TRUE
  HasEnd = TRUE
  Ballots = {b1}
  Requests = {r1, r2}
  Versions = {u1, u2, u3}
SYMMETRY Interchangeable
INVARIANTS AdminInvInMode VotesFollowOpening
PROPERTIES StepsImplementLife
