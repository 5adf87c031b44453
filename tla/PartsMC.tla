-------------------------------- MODULE PartsMC --------------------------------
(* Eleven parts that share no state with each other, each explored by itself:  *)
(* a behaviour is of one part, and the variables of the others stay Off, or  *)
(* for a part that is extended hold as little as its properties look at.     *)
EXTENDS IssueBot, Accounts, SettingsPage, DetailsForm, WriteIns, Statistics, Upload,
        Listings, BallotPage

CONSTANTS
  VotesCast  \* the ballots of the history; its clerks are the Admins

VARIABLES
  part,  \* the part this behaviour is of
  form, phase, race, edited, step, timers, family, number, upload, meant, edits,
                                                                  \* RaceForm
  now, versions, ballotRows, roll, held, made, stage, past, raced     \* History
formVars == <<form, phase, race, edited, step, timers, family, number,
              upload, meant, edits>>
historyVars == <<now, versions, ballotRows, roll, held, made, stage, past, raced>>
-----------------------------------------------------------------------------
(* The instances. *)
Null == -1
NoMark == -2
CaseOf(names) == [c \in names |-> IF c = "W" THEN "w" ELSE c]

(* Scores and a choose-one race in shuffled order; bubbles with write-ins;   *)
(* two dragged races; a dragged one beside another ranked race, in a draft.  *)
PageRace(method, candidates, writeIns) ==
  [method |-> method, candidates |-> candidates, writeIns |-> writeIns]
PageElection(state, shuffle, drag, max, races) ==
  [state |-> state, shuffle |-> shuffle, drag |-> drag, max |-> max, races |-> races]
PageElections ==
  {PageElection("open", TRUE, FALSE, 0,
     <<PageRace("STAR", <<"A">>, FALSE),
       PageRace("Plurality", <<"C", "D", "nota">>, FALSE)>>),
   PageElection("open", FALSE, FALSE, 0,
     <<PageRace("IRV", <<"A", "B">>, TRUE), PageRace("Approval", <<"C">>, FALSE)>>),
   PageElection("open", FALSE, TRUE, 1,
     <<PageRace("IRV", <<"A", "B">>, TRUE), PageRace("IRV", <<"C", "D">>, FALSE)>>),
   PageElection("draft", TRUE, TRUE, 3,
     <<PageRace("IRV", <<"A", "B">>, FALSE), PageRace("STV", <<"C", "D">>, FALSE)>>),
   PageElection("archived", FALSE, FALSE, 1,
     <<PageRace("RankedRobin", <<"A", "B", "C">>, FALSE)>>)}
PageNorm == CaseOf({"A", "B", "C", "D", "nota", "w", "W", "long"})

WriteCandidates == <<"A", "B">>
(* The same key in two spellings on one ballot; one without a mark. *)
WriteNorm == CaseOf({"w", "W"})
WriteScore(c, s) == [id |-> c, score |-> s]
WriteVotes ==
  {<<WriteScore("A", 3), WriteScore("W", 4), WriteScore("w", 5)>>,
   <<WriteScore("B", 5), WriteScore("A", 0), WriteScore("w", Null)>>}

(* Files with and without an Index column and a trailing blank line, with    *)
(* errors first, last, inside; one the archive has, one nothing is known of. *)
EmptyRow == <<>>
UploadRows == <<<<"A", "B">>, <<"skipped", "A">>, <<"B", "overvote">>,
                <<"A", "A">>, <<"B", "skipped">>>>
UploadFile(rows, index, taken, inferred) ==
  [rows |-> rows, index |-> index, known |-> taken, inferred |-> inferred]
UploadFiles ==
  UNION {{UploadFile(UploadRows, x, FALSE, TRUE),
          UploadFile(Append(UploadRows, NoRow), x, FALSE, TRUE)} : x \in BOOLEAN}
  \cup {UploadFile(SubSeq(UploadRows, 1, 4) \o <<NoRow, NoRow>>, FALSE, FALSE, TRUE),
        UploadFile(Append(InsertAt(UploadRows, 2, NoRow), NoRow), FALSE, FALSE, TRUE),
        UploadFile(<<NoRow>> \o UploadRows, FALSE, FALSE, TRUE),
        UploadFile(<<UploadRows[4]>>, FALSE, FALSE, TRUE),
        UploadFile(UploadRows, FALSE, TRUE, TRUE),
        UploadFile(UploadRows, FALSE, FALSE, FALSE)}

(* A saved race with "none of the above", one with write-ins. *)
FormRace(writeIn, last) ==
  [title |-> "X", method |-> "STAR", winners |-> 1, writeIn |-> writeIn,
   cands |-> <<[id |-> 1, name |-> "a", photo |-> FALSE],
               [id |-> 2, name |-> "b", photo |-> FALSE]>> \o last]
FormSaved ==
  {FormRace(TRUE, <<>>),
   FormRace(FALSE, <<[id |-> 0, name |-> "None of the Above", photo |-> FALSE]>>)}
FormEdits == [saved \in BOOLEAN |-> IF saved THEN 2 ELSE 4]

(* A draft without an account behind it, an open election one is invited to, *)
(* and a closed one one has voted in.                                        *)
ListedElection(owner, state, access, public, inArchive, onRoll) ==
  [owner |-> owner, state |-> state, access |-> access, public |-> public,
   archive |-> inArchive, roll |-> onRoll]
ListingStarts ==
  {[i \in {"a", "b", "c"} |->
      CASE i = "a" -> ListedElection("temporary", "draft", "open", FALSE, FALSE, "none")
        [] i = "b" -> ListedElection("me", "open", "closed", TRUE, FALSE, "unsubmitted")
        [] i = "c" -> ListedElection("me", "closed", "open", TRUE, TRUE, "submitted")]}
ByTitle == [i \in {"a", "b", "c"} |-> CASE i = "a" -> 1 [] i = "b" -> 2 [] i = "c" -> 3]

(* An election of a voter, beside one of a developer or an imported one.     *)
Polled(owner, methods, prior, votes) ==
  [owner |-> owner, methods |-> methods, prior |-> prior, votes |-> votes]
StatsStarts ==
  {[i \in {"a", "b"} |-> IF i = "a" THEN Polled("voter", {"STAR"}, FALSE, 0) ELSE other] :
     other \in {Polled("dev", {"IRV"}, FALSE, 2), Polled("voter", {"IRV"}, TRUE, 2)}}
ThreeIds == <<"v1", "v2", "v3">>

StatsLegacy == [elections |-> 1, votes |-> 2]
StatsMethods == {{"STAR", "IRV"}, {"STAR VOting"}}
-----------------------------------------------------------------------------
Form == INSTANCE RaceForm WITH
  Saved <- FormSaved, Names <- {"a", "b"}, Methods <- {"STAR", "STAR_PR"},
  Numbers <- {0}, MaxCandidates <- 4, MaxEdits <- FormEdits, asked <- meant
Record == INSTANCE History WITH
  Ballots <- VotesCast, Clerks <- Admins, CountLadder <- <<1, 2>>, EditLadder <- <<1, 2>>,
  DayLength <- 2, Gap <- 1, MaxTime <- 3, MaxRows <- 2,
  elections <- versions, ballots <- ballotRows, upload <- made, phase <- stage

Off == "off"
PageOff ==
  /\ election = Off /\ pages = Off /\ current = Off /\ view = Off
  /\ popup = Off /\ sent = Off /\ answer = Off /\ given = Off
WritesOff ==
  /\ ballots = Off /\ row = Off /\ page = Off /\ reading = Off /\ result = NoResult
BotOff ==
  /\ dryRun = Off /\ card = Off /\ touched = Off /\ failed = Off
  /\ run = [phase |-> Off] /\ issue = [i \in Issues |-> [labels |-> {}]]
FileOff ==
  /\ file = Off /\ archive = Off /\ status = Off /\ process = Off
  /\ order = Off /\ next = Off /\ batch = Off /\ kept = <<>> /\ unheard = Off
FormOff ==
  /\ form = Off /\ phase = Off /\ race = Off /\ edited = Off /\ step = Off
  /\ timers = Off /\ family = Off /\ number = Off /\ upload = Off
  /\ meant = Off /\ edits = Off

RecordOff ==
  /\ now = Off /\ versions = Off /\ ballotRows = Off /\ roll = Off
  /\ held = Off /\ made = Off /\ stage = Off /\ past = Off
  /\ raced = Off
SettingsOff ==
  /\ stored = Off /\ version = Off /\ seen = Off /\ expected = Off
  /\ local = Off /\ committed = Off /\ request = [kind |-> Off] /\ asked = Off
  /\ replies = Off /\ dialog = Off /\ unrefreshed = Off /\ crossed = Off
DetailsOff ==
  /\ clock = Off /\ schedule = Off /\ newest = Off /\ tabHolds = Off
  /\ tracked = Off /\ copy = Off /\ panel = Off /\ post = Off
  /\ changed = Off /\ known = Off /\ stale = Off /\ entries = Off
ListsOff ==
  /\ listed = Off /\ toClaim = Off /\ visit = [at |-> Off] /\ pool = Off
  /\ table = Off /\ choices = Off /\ grants = Off /\ steps = Off
OwnersOff ==
  /\ elections = [e \in Elections |-> Unborn] /\ claimed = {} /\ forgotten = {}
  /\ tabs = [t \in Tabs |-> [page |-> Off]] /\ jar = Off /\ unused = Off
LandingOff ==
  /\ polls = Off /\ jobs = Off /\ joined = FALSE /\ inbox = Off
  /\ shows = NoStats /\ changes = Off /\ behind = Off /\ dirty = Off

Parts == {"page", "writes", "bot", "file", "form", "record", "settings", "details",
          "lists", "owners", "landing"}
Init ==
  /\ part \in Parts
  /\ IF part = "page" THEN PageInit ELSE PageOff
  /\ IF part = "writes" THEN WriteInInit ELSE WritesOff
  /\ IF part = "bot" THEN BotInit ELSE BotOff
  /\ IF part = "file" THEN UploadInit ELSE FileOff
  /\ IF part = "form" THEN Form!Init ELSE FormOff
  /\ IF part = "record" THEN Record!Init ELSE RecordOff
  /\ IF part = "settings" THEN SettingsInit ELSE SettingsOff
  /\ IF part = "details" THEN DetailsInit ELSE DetailsOff
  /\ IF part = "lists" THEN ListInit ELSE ListsOff
  /\ IF part = "owners" THEN AccountInit ELSE OwnersOff
  /\ IF part = "landing" THEN StatsInit ELSE LandingOff

PageStep ==
  /\ part = "page" /\ PageNext
  /\ UNCHANGED <<part, writeInVars, botVars, uploadVars, formVars, historyVars,
                 settingsVars, detailsVars, listingVars, accountVars, statsVars>>
WritesStep ==
  /\ part = "writes" /\ WriteInNext
  /\ UNCHANGED <<part, pageVars, botVars, uploadVars, formVars, historyVars,
                 settingsVars, detailsVars, listingVars, accountVars, statsVars>>
BotStep ==
  /\ part = "bot" /\ BotNext
  /\ UNCHANGED <<part, pageVars, writeInVars, uploadVars, formVars, historyVars,
                 settingsVars, detailsVars, listingVars, accountVars, statsVars>>
FileStep ==
  /\ part = "file" /\ UploadNext
  /\ UNCHANGED <<part, pageVars, writeInVars, botVars, formVars, historyVars,
                 settingsVars, detailsVars, listingVars, accountVars, statsVars>>
FormStep ==
  /\ part = "form" /\ Form!Next
  /\ UNCHANGED <<part, pageVars, writeInVars, botVars, uploadVars, historyVars,
                 settingsVars, detailsVars, listingVars, accountVars, statsVars>>
RecordStep ==
  /\ part = "record" /\ Record!Next
  /\ UNCHANGED <<part, pageVars, writeInVars, botVars, uploadVars, formVars,
                 settingsVars, detailsVars, listingVars, accountVars, statsVars>>
SettingsStep ==
  /\ part = "settings" /\ SettingsNext
  /\ UNCHANGED <<part, pageVars, writeInVars, botVars, uploadVars, formVars,
                 historyVars, detailsVars, listingVars, accountVars, statsVars>>
DetailsStep ==
  /\ part = "details" /\ DetailsNext
  /\ UNCHANGED <<part, pageVars, writeInVars, botVars, uploadVars, formVars,
                 historyVars, settingsVars, listingVars, accountVars, statsVars>>
ListsStep ==
  /\ part = "lists" /\ ListNext
  /\ UNCHANGED <<part, pageVars, writeInVars, botVars, uploadVars, formVars,
                 historyVars, settingsVars, detailsVars, accountVars, statsVars>>
OwnersStep ==
  /\ part = "owners" /\ AccountNext
  /\ UNCHANGED <<part, pageVars, writeInVars, botVars, uploadVars, formVars,
                 historyVars, settingsVars, detailsVars, listingVars, statsVars>>
LandingStep ==
  /\ part = "landing" /\ StatsNext
  /\ UNCHANGED <<part, pageVars, writeInVars, botVars, uploadVars, formVars,
                 historyVars, settingsVars, detailsVars, listingVars, accountVars>>
Next ==
  \/ PageStep
  \/ WritesStep
  \/ BotStep
  \/ FileStep
  \/ FormStep
  \/ RecordStep
  \/ SettingsStep
  \/ DetailsStep
  \/ ListsStep
  \/ OwnersStep
  \/ LandingStep
vars == <<part, pageVars, writeInVars, botVars, uploadVars, formVars,
          historyVars, settingsVars, detailsVars, listingVars, accountVars, statsVars>>
Spec == Init /\ [][Next]_vars
Symmetry == Permutations(Admins) \cup Permutations(VotesCast)
-----------------------------------------------------------------------------
(* The properties of the parts, as their modules state them; those of the     *)
(* parts that are extended are in their modules.                             *)
(* RaceForm: an edit changes what it is meant to change and nothing else. *)
EditsApplied == Form!EditsApplied
(* History: the published record is what happened since finalization.        *)
HistoryTrue == part = "record" => Record!HistoryTrue
=============================================================================
