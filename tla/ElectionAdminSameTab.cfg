SPECIFICATION ModeSpec
CONSTANTS
  None = None
  Modes = {"scheduled"}
  t1 = t1
  t2 = t2
  Tabs = {t1}
  TabOps <- EditFinalizeTab
  OtherOps = {}
  HasStart = TRUE
  HasEnd = FALSE
  Ballots = {}
  Requests = {r1}
  Versions = {u1, u2, u3, u4}
SYMMETRY Interchangeable
PROPERTIES NeverBackToDraft
