SPECIFICATION Spec
CONSTANTS
  Admins = {ann, bob}
  VotesCast = {b1, b2}
  Issues = {"i"}
  WarningWeeks = 1
  UnassignWeeks = 2
  CommentPage = 1
  MaxAge = 2
  MaxComments = 2
  Elections = {"a"}
  Tabs = {"t", "u"}
  TempIds <- ThreeIds
  Legacy = "0"
  MaxUpdates = 3
  Texts = {"x", "y"}
  MaxVersion = 3
  MaxGets = 2
  Titles = {"", "x", "y"}
  MaxClock = 2
  MaxNewest = 2
  MaxEntries = 2
  Candidates <- WriteCandidates
  Names = {"w", "W"}
  Norm <- WriteNorm
  Votes <- WriteVotes
  BlockBallots = 1
  MaxBallots = 2
  MaxWrites = 2
  NoScore <- Null
  Absent <- NoMark
  Starts <- StatsStarts
  Requests = {"r"}
  JoinPage = "join"
  Classic <- StatsLegacy
  MethodSets <- StatsMethods
  MaxVotes = 2
  MaxEdits = 1
  MaxInbox = 1
  Files <- UploadFiles
  NoRow <- EmptyRow
  NoRank = 0
  FirstBatch = 4
  SmallestBatch = 3
  FirstListed <- ListingStarts
  TitleOrder <- ByTitle
  Sizes = {1, 2}
  MaxSteps = 2
  Offered <- PageElections
  WriteInNames = {"w", "W", "long"}
  LongNames = {"long"}
  NormalForm <- PageNorm
  NotaId = "nota"
  MaxWriteIns = 1
  DefaultRanks = 2
  MostRanks = 3
  Unmarked <- Null
INVARIANT ScoresAccounted
INVARIANT BoardFollows
INVARIANT InactiveOnlyWarned
INVARIANT RowsStoredOnce
INVARIANT HistoryTrue
INVARIANT ShowsWhatItOverwrites
INVARIANT TableShowsList
INVARIANT StaysWithItsMaker
INVARIANT PageShowsPresent
PROPERTY SavesAreMeant
PROPERTY SentAsMarked
PROPERTY WithdrawnOrStale
PROPERTY EditsApplied
SYMMETRY Symmetry
CHECK_DEADLOCK FALSE
