SPECIFICATION FairSpec
CONSTANTS
  None = None
  Modes = {"scheduled"}
  t1 = t1
  t2 = t2
  Tabs = {}
  TabOps <- NoTabs
  OtherOps = {"view", "writeIns"}
  HasStart = FALSE
  HasEnd = TRUE
  Ballots = {}
  Requests = {r1, r2}
  Versions = {u1, u2, u3, u4}
PROPERTIES ImplementsLife ClosesAtEnd
