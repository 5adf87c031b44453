SPECIFICATION ModeSpec
CONSTANTS
  None = None
  Modes = {"scheduled"}
  t1 = t1
  t2 = t2
  Tabs = {t1}
  TabOps <- FinalizeTab
  OtherOps = {"vote"}
  HasStart = FALSE
  HasEnd = FALSE
  Ballots = {b1}
  Requests = {r1, r2}
  Versions = {u1, u2, u3, u4}
SYMMETRY Interchangeable
INVARIANTS VotesKept
