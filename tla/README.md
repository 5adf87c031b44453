# A TLA+ model of BetterVoting

BetterVoting runs elections: administrators set an election up, finalize it
and invite voters; voters cast ballots; the server tabulates them. The
modules here model the parts of the server where requests of several people
meet on the same rows, the tabulators, and the pages that keep state of their
own beside the server's. TLC checks them on small instances, and TLAPS proves
the central properties for every size. Paths below are relative to `src/`;
`backend` stands for `packages/backend/src`, `frontend` for
`packages/frontend/src` and `shared` for `packages/shared/src`.

## The system

All lasting state is in PostgreSQL. `electionDB`, `electionRollDB` and
`ballotDB` are versioned tables: a write demotes the row with `head = true`
and inserts a new head whose `update_date` is `Date.now()`. A primary key holds
the version and a unique partial index allows one head per object
(`backend/Migrations`). Any number of server processes run Express handlers;
a handler is sequential between its awaits and interleaves with every other
handler at each of them. Nothing else is shared but a job queue (pg-boss), for
receipts and emails. A page of the frontend has a copy of the election, and one
request under way at a time where it uses `enqueueWrite`.

| Component | State | What is hard | What makes it correct | Module |
|---|---|---|---|---|
| Vote casting (`Controllers/Ballot/castVoteController.ts`, `Models/CastVoteStore.ts`) | heads and history of rolls and ballots | the roll row is read several awaits before it is committed; two casts of one voter; updates of one ballot | one counted ballot per voter, roll and ballot box agree, nothing lost from the audit trail | `CastVote`, `BallotBox` |
| Roll edits (`Controllers/Roll`, the email handlers) | roll rows | read-modify-write without a version check beside casts | a cast never undoes an edit, an edit never undoes a cast | `CastVote` |
| Election administration (`Controllers/Election`, `Models/Elections.ts`) | the election row | ten handlers rewrite one row; the clock moves the state whenever a request looks; finalize is two writes | each write is one step on the current row; no way back to draft; ballots in the box only when the state allows, cast ones only after opening; closing at the end | `ElectionAdmin`, `ElectionLife` |
| Administration tab (`frontend/components/ElectionContextProvider.tsx`) | a copy of the election and the version it knows | the version moves without the contents | a tab never writes what it has not read | `ElectionAdmin` |
| Voter list and authentication (`Controllers/Roll`, `voterRollUtils.ts`) | roll rows | check-then-insert; a failed query looks like an empty answer; keys without a constraint | no voter twice, the limit holds, one vote per key | `VoterRoll` |
| Emails and queue (`Services/EventQueue`, `Services/Email`, email handlers, webhook) | jobs, `email_data` of roll rows, email events | a job may fail after it sent the email, or run twice at once | nobody is left out, no email without a try, the roll survives | `EmailCampaign` |
| Tabulators (`backend/Tabulators`) | rounds of one tabulation | ties, empty and odd ballots, weights that are rounded | seats filled by the rules each method documents | `Tabulation` |
| Write-ins and results (`setWriteInResults`, `BallotProjection`, `CompactVoteStore`) | the approved list, projected ballots | two administrators; one candidate in two spellings | every score counted or reported left out | `WriteIns` |
| Voting page (`Election/Voting`) | marks, pages, write-ins, the dialog | shuffled orders, three kinds of ballots, validation on both sides | what goes out is what was marked | `BallotPage` |
| Upload of cast vote records (`UploadElections.tsx`) | progress of a file | batches that are split and repeated, lost answers | each row stored once, as it is | `Upload` |
| Race editor (`ElectionForm/Races`) | the edited race, selector, uploads | timers and uploads that finish late, rows by position | an edit does what it means and nothing else | `RaceForm` |
| Settings and details pages | local copies beside the context | optimistic switches, two ways of writing, refetches | no write over what is not shown | `SettingsPage`, `DetailsForm` |
| History (`getElectionHistoryController.ts`) | none: rebuilt from versions | updates rewrite rows, stale writes drop them | the record is what happened | `History` |
| Lists of elections (`getElectionsController.ts`, `EnhancedTable.tsx`) | filters, order, page, the claim | a column shared by all tables | the table shows the list asked for | `Listings` |
| Ownership without an account (cookies, claim, login) | cookies, session storage, owner | tabs that read the cookies at different times | an election stays with its maker | `Accounts` |
| Landing page numbers (`innerGetGlobalElectionStats`, sockets) | the last numbers sent | computations that overtake each other | a quiet page shows the present | `Statistics` |
| Issue bot (`.github/scripts/src/issue-management`) | listing of the run | decides on what it read minutes ago; calls that fail | the board follows the assignments; no label without a warning | `IssueBot` |

Handlers reach each other only through rows and jobs. Casting reads the
election row (its state and settings) and writes roll and ballot rows;
administration writes the election row and deletes ballots; the email handlers
write roll rows; the tabulators read ballots.

## Modules

`BallotBox` <- `CastVote` <- `CastVoteMC`, `CastVoteProofs`
`ElectionLife` <- `ElectionAdmin` <- `ElectionAdminMC`, `ElectionAdminProofs`
`VoterRoll` <- `VoterRollMC`, `VoterRollProofs`
`EmailCampaign` <- `EmailCampaignMC`, `EmailCampaignProofs`
`Arrays` <- `Tabulation` <- `TabulationMC`, `TabulationProofs` (with `SetFacts`)
`IssueBot`, `Accounts`, `Statistics`, `Listings`, `BallotPage` (with `Arrays`) <- `PartsProofs` (with `SetFacts`)
`SettingsPage`, `DetailsForm`, `WriteIns`, `Upload` (with `Arrays`) <- `AdminPagesProofs` (with `SetFacts`)
`BallotPage`, `WriteIns`, `IssueBot`, `Upload`, `RaceForm`, `History`, `SettingsPage`, `DetailsForm`, `Listings`, `Accounts`, `Statistics` <- `PartsMC`

`Arrays` defines what a sort or a filter returns by where each entry ends up, so that it can be reasoned
about; `SetFacts` has what the modules of proofs share: sums over sets, and that `InOrder` and
`Ascending` list each member once, in order. The last group are parts
that share no state. `PartsMC` has all of them (it extends the nine about which there are
theorems, and instantiates the others) and lets `part` choose one for a whole behaviour, the variables of the others
being `Off`, or as little as the properties look at; so each is explored by itself,
with its own bounds.

### CastVote

`rolls` and `ballots` are the rows of the two tables for one election; `reqs`
is the local state of each cast request and `edits` the copy each roll edit is
about to write back. A request passes through these steps, one per stretch
between awaits:

| Action | Code |
|---|---|
| `ReadRoll`, `RefuseVoted`, `RefuseUnknown`, `MissRoll` | `getElectionRoll` and the decision in `assertVoterMayVote` |
| `CreateRoll` | the insert of an on-demand row (`voterRollUtils.ts`) |
| `MakeUpRoll` | elections without authentication fields: the row is not stored yet |
| `ReuseBallot`, `PickBallot` | `getBallotByVoterID` or `makeUniqueID` |
| `StartUpdate`, `CommitVote`, `RejectBallotUpdate`, `RejectStaleRoll`, `FailRequest` | the transaction of `submitBallotEvent` and its answers |
| `ReadForEdit`, `WriteEdit`, `FailEdit` | any handler that ends in `ElectionRollDB.update` |

A transaction runs at PostgreSQL's default level: an UPDATE that waits for a
row lock checks its WHERE clause again on the new version of that row, and a
row inserted meanwhile is not seen. `CommitVote` is therefore one step on the
tables, while the version of the ballot the first UPDATE found (`target`) is
state of its own, which `StartUpdate` may renew.

`getElectionRoll` and `getBallotByID` answer null for a failed query as well as for
no row; the actions for the null answer do not test the table. A voter id or a
ballot id that is drawn at random is any member of the set; the ids that two
requests in flight draw for a new voter are taken to differ. `MakeUpRoll` leaves out one case: a
generated voter id that is in use and whose lookup fails at that moment, so that it passes for unused.

Versions are compared for equality only, so `Times` is an unordered set and a
write may take any member: clocks that disagree or go back are included. A
write that would break a key or index cannot commit (`RollFits`,
`BallotFits`), and `FailRequest` is what the handler does then. The last
element of `Times` bounds the number of writes in a run.

`BallotBox` is what casting promises: a voter's counted ballot appears once
and may only be rewritten under its own id, if the election allows updates.
`CastVote` implements it with the box being the head rows of `ballotDB`.

### ElectionAdmin

`head` is the head row: its version, its state, and `on`, which keeps one
Boolean for each part that some handler writes separately (the setup, which
`editElection` writes, roles, public results, owner, campaign counter,
write-ins). A request (`reqs`) holds the row `getElectionByID` gave it and the body
it was sent; `auth`, `reread`, `handle` and `clear` are where it waits. `tabs`
are tabs with the context provider: a copy of the row with the version the tab
believes in. `phase` is the clock against `start_time` and `end_time`.
`tests` and `stored` are the ballots by the state the request saw, `accepted` those
that were ever stored to count, and `cast` those of them that a voter cast. The others were
uploaded.

| Action | Code |
|---|---|
| `Send`, `Refresh`, `Disconnect`, and `Answer` in the writes | `enqueueWrite`, `applyElectionUpdate` and the refetch of a tab |
| `Arrive` | `getElectionByID` |
| `KeepState`, `Transit`, `LoseTransit`, `Reread` | `updateElectionStateIfNeeded`; `Reread` also the second read of `setWriteInResults` |
| `Write`, `Conflict`, `Refuse` | the handler's own check (`Allowed`), its contents (`NewRow`) and expected version (`Expected`), and `updateElection` |
| `ClearAfterFinalize`, `DeleteBallots` | `innerDeleteAllBallotsForElectionID` |
| `CastTest`, `CastReal` | a vote as far as it depends on the election's state; `CastVote` has the rest |
| `UploadBallot`, `EndUpload` | `uploadBallotsController`, one ballot at a time; its `makeBallotEvent` skips the check of the state, also on the way that stores all ballots in one insert |
| `Fail` | an error or a stop at any await |

The server holds nothing between requests, so a restart is `Fail` of every request
it was running. A write takes a version nobody knows (`Held`): a stored date
cannot be used again because of the primary key, and a date that nobody
remembers is as good as a new one. This keeps runs unbounded with a handful of
versions. A tab's GET is one step. Public archive elections, which have other
rules for edits and deletions, are left out, and so are permissions: whoever sends a
request may send it.

`VotesFollowOpening` has two parts, because ballots come in two ways. A ballot a voter cast is in the
box of an election only if that has opened, which the check of `castVoteController` and the
middleware see to. An uploaded ballot needs no opening: an election that is finalized and not yet
open may hold ballots that count. Of these the property says that the election is past its draft,
whose ballots are tests.

`ElectionLife` is the abstract life of an election: one record, and steps that
change what they are for. `ElectionAdmin` implements it as long as tabs that
edit write nothing else (`EditorsOnlyEdit`).

### VoterRoll

`rolls` are the head rows of the list, `votes` who has voted under which row,
`tasks` what each administrator does there. A row is known by voter id, email or
address, as the mode of the election says; in the last two cases ids are
generated. An upload is a set of entries: the page has removed duplicates before it
sends (`Sent`), and their order does not matter. `Submit` and `InsertBatch` are the two halves of
`addElectionRollController` (checks on rows read before, then the inserts),
`AskToClear` and `Clear` those of the clearing, `Inspect`, `Click`, `RefuseClick` and
`WriteBack` the buttons on a row with the permissions of the page and of the
server, `Visiting`, `FindRow`, `MissRow`, `CreateRow` and `Vote` a visit, whose lookup
may fail and then reads as an empty answer. `raced` remembers that a write rested
on rows that had changed since they were read; the properties that
end in `OrRace` promise their fact as long as it is false, and `double_key`
shows what happens otherwise.

### EmailCampaign

A request (`Ask`, `CommitVote`, `StoreNumber`, `Publish`) leaves a job for every
addressee. A worker takes a job (`Take`), reads the row, sends, logs the sent
event and records the email in the row it read (`Record`); every stage may fail,
the process may stop, and pg-boss takes the job back after an error or a
timeout until the tries are used up (`FailWork`, `Crash`, `Expire`). `Notify` is the
webhook: the notice of one email may come before the sent row, and then it is dropped, or late, or
several times, and then each adds a row (`notices` counts them, up to `MaxNotices`).
`RecordsTrue` compares the three tables that tell what was sent to whom with what the provider accepted.

### Tabulation

One behaviour is one tabulation. `Init` filters the raw votes as
`Tabulators/Util.ts` does; `BlocRound` is a round of STAR, Approval, Plurality or
Ranked Robin, `Elect`, `Fill` and `Eliminate` those of IRV and STV, `Allocate` one of
STAR-PR, whose weights are fractions. STV weights are rounded down to
`1/Unit`; the code rounds at the fifth decimal, which is the same rule on a
finer scale. A candidate is its place in the random order. Whatever is put in order
(`sort`, `filter`) is written with one operator, `InOrder`: the place of a member is the number
of those ahead of it, which holds for any comparison that orders the members and
needs no recursion. The assumption on `Polls` is what the pages see to: no more seats than
candidates, and ranks below the number that stands for the last place. Votes are as
they come, out of bounds, empty or incomplete. The properties are not
the algorithm again: the help pages' protocol for STAR, Condorcet winners and losers,
solid coalitions for STV, the price of a proportional seat, and ties that must
be reported.

### BallotPage, WriteIns, Upload

`BallotPage` has `MakePages` with its shuffles, clicks, arrow keys and drags,
write-ins, warnings and the confirmation; `VoteOf` puts the ballot together as `submit`
does, and the server's `ballotValidation` answers. `given` is what the voter did.
`WriteIns` has two administrators with the approval page, votes that come in
meanwhile, and a request for the results, which reads the election and the
ballots apart. `Upload` follows one file through conversion, creation of the election,
batches of shrinking size and lost answers.

### RaceForm, SettingsPage, DetailsForm

`RaceForm` is the editor of a race in the wizard, in the dialog of a new race or
of a saved one. Rows of the form stand for candidates by position; the selector's
pages leave after a timer; photos land when they land. `asked` is the race the
admin means. `SettingsPage` has the two ways of writing a setting, the optimistic
switch, the dialogs and the refetches; `DetailsForm` the form with title and times,
whose checks look at the clock.

### History, Listings, Accounts, Statistics, IssueBot

`History` keeps rows as the tables do and rebuilds the public record; `past` is what
happened. `Listings` has the queries behind the lists, the claim that precedes
one's own list, and `EnhancedTable` with the column every table shares.
`Accounts` has the cookies, tabs that loaded them at different times, the wizard, login,
logout and claim, and whole elections posted by old tabs; `forgotten` are the elections
the browser lost the cookies of, in ways the code allows (see below). `Statistics` has requests that
store ballots and compute, the three tables a computation reads in any order, and a page
on a socket that may reconnect. `IssueBot` has one run after another over issues people work
on, with calls that fail.

## Runs

Symmetry is used for safety only; the symmetric sets are compared for equality
only. Deadlock checking is off where every request is made once and then the run is over
(`cast`, `roll`, `double_key`, `email`, `parts`).

| Run | Instance | Shows |
|---|---|---|
| `cast` | closed, device and anyone elections; 2 voters, 3 requests, 3 ballot ids, 4 clock values | `OneVotePerVoter`, `RollMatchesBallots` (with the audit trail), `ImplementsBallotBox` |
| `edits` | closed, with and without ballot updates; 1 voter, 2 requests, 2 editors | `CastInvInMode`, `VotesTraceable`, `AlreadyVotedIsTrue`, `NoVoteOnSubmittedRoll`, `CastKeepsEdits` |
| `stale_edit` | 1 voter, 1 request, 1 editor | **violated**: `OneVotePerVoter` |
| `election` | scheduled (an editing tab, a finalizing tab, votes, uploads and ballot resets) and manual (roles and states); 2 requests, 3 versions, 1 ballot | `AdminInvInMode`, `VotesFollowOpening`, `StepsImplementLife` |
| `election_closes` | end time, visits and write-in writes, 2 requests, 4 versions | `ImplementsLife`, `ClosesAtEnd` |
| `same_tab` | start time, one tab edits and finalizes, 1 request | **violated**: `NeverBackToDraft` |
| `vote_lost` | a finalization beside a vote, 2 requests, 1 ballot | **violated**: `VotesKept` |
| `roll` | six modes, 2 administrators with different duties, 2 visits, 2 ids, 2 keys, limit 1 | `ListSoundOrRace`, `OneVoteOrRace`, `RefusalsExplained` |
| `double_key` | email and address modes, 2 visits | **violated**: `OneVotePerKey` |
| `email` | three scenes of lists and kinds, 2 requests, 2 workers, 2 tries, 2 stored notices | `NobodySkipped`, `EmailsWithinTries`, `RollKeptOrRaced`, `RecordsTrue` |
| `tabulation` | every collection of 3 (some 4 or 5) ballots of given kinds, 3 or 4 candidates, 1 to 3 seats, all methods | `SeatsFilled`, `StarFollowsProtocol`, `HeadToHeadRespected`, `CoalitionsSeated`, `QuotasSpent`, `TiesReported` |
| `parts` | the eleven parts, see `PartsMC` | `SentAsMarked`, `ScoresAccounted`, `WithdrawnOrStale`, `RowsStoredOnce`, `EditsApplied`, `ShowsWhatItOverwrites`, `SavesAreMeant`, `HistoryTrue`, `TableShowsList`, `StaysWithItsMaker`, `PageShowsPresent`, `BoardFollows`, `InactiveOnlyWarned` |

Why the bounds are enough: a race in this code needs a loser that read before and
writes after the winner, and at most one more request to observe the result;
three requests give that. Four clock values let a voter's row be created,
cast, edited and cast again. In `ElectionAdmin` two requests and two tabs can
hold at most a few stale versions at a time; three versions are enough for a
head, a stale copy and the next write, and since forgotten versions come back
the runs are not cut short. The tabulations have three candidates because ties,
transfers and head-to-head cycles appear with three; five ballots let a quota
be more than one ballot and leave a remainder. In `parts`, every page has
two of what may be mixed up (races, candidates, administrators, tabs, batches, versions);
`Accounts` has one election, since nothing it keeps ties two elections together.

Some properties name exceptions (`...OrRace`, `...OrStale`, the cases in
`EditsApplied`, `RowsStoredOnce` or `StaysWithItsMaker`). Each exception is something
the code does, listed under "Met while reading"; the property says that
nothing else goes wrong.

### What the violated runs say

* `stale_edit`: `ElectionRollDB.update` compares no version. An invitation
  that read the roll row before a vote and writes it afterwards resets
  `submitted`, and the voter can vote again.
* `same_tab`: `editElection` checks the state in the body. A tab that has
  finalized holds the draft contents with the finalized version until its
  refetch arrives; an edit in between takes the election back to draft. With
  a start time only: otherwise the middleware opens the election first and the
  version no longer fits.
* `vote_lost`: storing the finalized state and deleting the test ballots are two
  writes, and the deletion hits votes cast in between.
* `double_key`: two first visits by one email or address each insert a row.

### Met while reading

Disagreements and oddities that no run of their own shows; where a model meets one, its
property names it as an exception.

Server:
* With ballot updates, a roll edit made during an update is answered with
  "User has already voted", although `backend/Models/CastVoteStore.ts` (69-71) tells
  the two cases apart.
* A request that loses the race to close the election goes on with the row that
  beat it (`elections.controllers.ts:166`); a vote may be accepted after the end time.
* Ballots may be uploaded into an election in any state, also one that is finalized and not open, or
  closed (`castVoteController.ts:47`).
* A delivery notice that comes before the sent row is dropped and answered with success; one that
  is repeated is stored twice (`sendGridWebhookController.ts`).
* Test ballots stay if the deletion after finalizing fails, or a test vote comes after it.
* `editElection` may change the voter authentication of a draft whose list is already
  filled; an edit of a row after the list was cleared brings the row back.
* `clearElectionRoll` compares the state of the election it was handed
  (`clearElectionRollController.ts:21`), and the UPDATE that follows has no condition on the state: a
  clearing that passed the check before another request finalized the election empties the list of a
  finalized election (`AskToClear`, `Finalize`, `Clear`).
* The unflag button never works, and Invalidate is refused to administrators
  (`permissions.ts`). Rows without an email count as duplicates of each other on the
  page that adds voters.
* A reveal is answered "logged in the audit trail" even if `update` returned null
  (`revealVoterIdController.ts:69-77`); a stale write of the row drops it from the record.
* `getGlobalElectionStats` sends a promise, that is `{}` (`getElectionsController.ts:167`).
* A socket that reconnects is in no room, and the page joins only when it is shown.

Tabulators:
* STAR ballots that give all listed candidates one score, and do not mention an approved write-in, count as
  abstentions (`Util.ts:96-104`). The order of STAR losers rests on a comparator that may
  answer NaN (`Util.ts:332`). STAR-PR always reports a random tie, and may elect
  somebody twice when no support is left (`AllocatedScore.ts`). Equal IRV ranks go to the last of the
  equals. More seats than candidates pass `raceValidation` and make bloc tabulators throw (the
  model assumes they are not more).

Pages:
* A second dragged race shows no candidates to rank, since its order is filled on mount only,
  and neither do write-ins; a dragged race does not stop at `max_rankings`, and the server
  refuses the whole ballot; so it does a write-in name of more than 100 characters.
* A refused creation leaves an upload "In Progress"; the last ballot stays behind when it
  is alone in the last batch and no row of the file has an error; a batch whose answer was lost is stored twice.
* Photos that arrive late write back the candidates from before; the wizard's other
  question clears the race; Backspace in the empty row deletes "none of the above".
* After an accepted change of the public results, another setting changed before the refetch
  posts the old value again (`ElectionSettings.tsx:57-71`).
* The choices of a filter leak to every other table (`EnhancedTable.tsx:421`).
* A wizard that was loaded with the identity "0" replaces the one another tab is using; a
  lost answer to a creation, or a closed browser, leaves an election without its
  cookies. A page that finds an expired token thinks it is logged in, and every request is refused until
  the cookie goes. The refresh token has the life of the token it should refresh, so
  no refresh ever happens (`AuthSessionContextProvider.tsx:90`).
* The issue bot makes issues young again by its own labels, reads only the first page of
  comments and the first 100 cards, and counts labels from before the audit.

### Fairness

`FairSpec` is used by `election_closes` only. The server has no timer: an
election closes when somebody looks. So the property needs someone who keeps
visiting (`WF` of `Arrive(r, "view")`), requests that do not hang
(`WF` of `Step`, where `Fail` counts as a step), and that the write of the due transition is not
beaten every single time (`SF` of `Transit`), which is the only thing the code
leaves to luck: the optimistic check is retried by the next visit and other
writers are people. Without the last one TLC shows an election that
never closes because every visit fails before its write.

## Proofs

`CastVoteProofs` proves, for any sets of voters, ballot ids, clock values,
requests and editors and any of the election modes, `TypeCorrect`, `CastInvariant`,
`RecordInvariant`, `OneVote`, `RollAgrees`, `Traceable`, `AlreadyVotedTrue`,
`SubmittedRollGetsNoVote`, `EditsKept` and `BoxImplemented`. The assumptions are those on
the constants in `CastVote`. `OneVote` and `BoxImplemented` also assume that no editor
runs or that updates are allowed, and `RollAgrees` that no editor runs; without that they
are false (`stale_edit`).

The argument: `OneVotePerVoter` is not inductive, since it says nothing about what
a request carries. `CastInv` adds that (1) the tables respect their keys and each
object has a head; (2) every stored ballot is named by a submitted roll row of
its voter and every submitted roll row names a ballot; (3) the copy a request or an editor
holds is a row that is still stored, up to `head`; and (4) a request that is about
to insert a new ballot holds a copy that is not submitted, so that either the voter
has no ballot or the head has moved on and the version check fails. The step that
matters is `CommitVote` (`CommitVoteInv`, by way of `CommitUnvoted`).

For the audit trail and for edits this is not enough: `RecordInv` adds what a copy says
besides the vote. The row a request has read, if it is still there, has the state, the email data
and the number of casts of the copy (`CopyTrue`), so a commit that passes the version check
writes back what is stored (`EditsKept`); no two versions of a ballot are merged;
and without edits the head of a roll row counts the ballots stored for its voter, which each
commit keeps by adding one to both. `BoxImplemented` maps the head rows of `ballotDB` to the box:
a commit adds a ballot for a voter who has none or replaces the voter's own under the same id, any other
step stutters.

`ElectionAdminProofs` proves, for any versions, requests, tabs, ballots and
schedule, `AdminTypeCorrect` and `AdminInvariant`, and from the assumption
`EditorsOnlyEdit` the theorems `LifeImplemented`, `NoReturnToDraft` and
`NoVoteBeforeOpening`. The assumption says that a tab from which the setup is
edited sends no other write; `same_tab` shows that it cannot be dropped, because
`applyElectionUpdate` gives such a tab a version whose contents it has not read.

The argument: `updateElection` compares versions only, so a write is right when
equal versions mean equal rows. A stored row takes a version nobody holds
(`Held`), therefore (1) a request whose row has the head's version holds the head row
itself (`RequestInv`); (2) under `EditorsOnlyEdit` the same is true of a tab that edits
(`Agrees`), and of the body such a tab has on its way to the server; (3) a tab
has one request under way at a time, and an edit carries the tab's own copy
(`InFlightInv`). With this each branch of `Transit` and
`Write` is the step of `ElectionLife` of that name (`TransitLife`, `WriteLife`)
and everything else stutters. `NoReturnToDraft` follows from the implementation
proof; `NoVoteBeforeOpening` needs that a request that has seen the election open,
or past its draft, proves that it has been so, whatever the row says by now (`OpenedInv`).

`VoterRollProofs` proves, for any voter ids, emails or addresses, administrators,
visits and limit, `RollTypeCorrect`, `RollInvariant`, `ListSound`, `OneVote`
and `Refusals`, from the assumptions on the constants alone.

The argument: none of the invariants of the run says anything about requests that are
under way. `RollInv` adds that what a request is about to store fits the list as
long as nothing has outdated it: the upload passes its checks again
(`UploadFits`), the edit finds the row it was made from (`EditFits`), and a first visit is
still the first (`VisitsFresh`). Storing outdates everybody who is under way, and
`raced` is set when an outdated request stores, or a clearing hits a list that is no longer a draft's; so each step either sets `raced` or uses one
of these facts. That voter ids are unique needs no such condition (`UniqueIds`): the
primary key and `update` see to it. `VotesFinal` says that the mode is fixed once
somebody has voted, which is what lets `VotesMarked` find a voter again under the
key they voted with.

`EmailCampaignProofs` proves, for any lists, requests, workers (finitely many) and
tries, `EmailTypeCorrect`, `EmailInvariant`, `NobodyIsSkipped`, `EmailsBounded`,
`RollKept`, `RecordsInvariant` and `RecordsAreTrue`.

The argument: a worker that was given up on (`Expire`) goes on, so a job that is
active for the second time may have two workers. `EmailsWithinTries` is therefore
strengthened to a count: the emails sent plus the workers that may still send are at
most the tries (`StartsCounted`), which `Take` keeps by counting the try and `SendEmail` by
leaving the senders. A done job has sent its email (`JobsEnd`, `WorkersSent`). For the roll,
`EmailInv` says that a worker that holds a row nobody has written since holds the
row itself; what it writes back adds to the history and takes nothing away. `RecordsTrue` is about
outdated copies as well: `RecordsInv` says that every copy a worker holds is backed by
accepted emails (`CopiesBacked`), which stays true because emails are not taken back and a request
that has sent one does not change (`Growth`); so writing back a stale copy can lose a record, never invent one.

`PartsProofs` proves of `IssueBot`, for any issues, ages and pages of comments, `BotTypeCorrect`,
`BoardFollowed` and `WarnedFirst`. `WeeksAssumption` says that an issue is warned
about after at least a week, and unassigned later than that. `BoardInv` says
of every issue listed, that nobody touched and no call failed for, that it is still assigned as in
the listing, that a status just read is the card's, and that a card whose audit is over is
right. `WarnInv` is about issues that could be called inactive without a warning (`Exposed`): they are
never older than the weeks of the warning and younger than that between the runs, so
the week in which a run must warn cannot be skipped.

`PartsProofs` proves of `Accounts`, for any elections, tabs and identities, `AccountTypeCorrect`,
`AccountInvariant` and `StaysWithMaker`. `IdsAssumption` says that a new identity is neither
empty nor the one of older versions. Tabs post whole elections they read long ago;
what saves the claim is that the server compares versions. So `TabInv` says that a tab
whose copy has the stored version has the stored owner (`CopyRight`), that a page which
needs an identity has one, and that a granted answer belongs to a claim that was
granted: only then is the key thrown away. `MakerInv` says that the jar has the identity of
every unclaimed election that is not forgotten, and its key unless the answer to the creation
is still under way.

`AdminPagesProofs` proves of `SettingsPage`, for any texts and versions, `SettingsTypeCorrect`,
`SettingsInvariant` and `PageShowsStored` (`BoundAssumption`: the bound on versions is a
number). The property looks at a page at rest; `PageInv` says what a page that is not
will do. One that writes the whole election shows what it writes and, once accepted, what is stored (`EditInv`);
one that switches the public results differs from what it has seen in that alone
(`PublicInv`); one that reads gets what is stored, and its switches follow there
(`ReadInv`). That these exclude each other is what `Followed` gives.

`PartsProofs` proves of `Statistics`, for any elections, requests, changes and classic counts,
`NumbersInvariant` and `PageIsPresent` (`StartsAssumption`: ballots are counted in numbers). The
property looks at a page when nothing is under way; `NumbersInv` says what a computation has
read so far: unless something changed since it started (`dirty`), each of its tables is what
the table holds now (`ReadsPresent`). So whoever sends last and is not dirty sends the present, and
what is in front of it on the socket does not matter (`LatestPresent`). That the methods'
votes add up to the total is a fact about sums over a partition (`SetFacts`), since every
election that counts has one key (`KeyOfKeys`).

`AdminPagesProofs` proves of `DetailsForm`, for any titles, clock and versions,
`DetailsInvariant` and `SavesMeant`. The save posts the election the page holds, not the
one it read, so `DetailsInv` ties the four copies together: a page that tracks the stored version knows
what is stored (`ReadIsStored`), what is under way is what the page holds and what the form
showed when it was checked (`PostIsHeld`), and the form differs from what was read only in
fields that were changed, unless it was opened on another copy (`FormIsRead`).

It proves of `WriteIns`, for any candidates, names, ballots and administrators, `WriteInInvariant`,
`ApprovalsKept` and `ScoresAreAccounted`. The controller replaces the whole list by the rows of a page, so an approval could
go because its row is missing. `WriteInInv` says that it is not: ballots are only added, so the key
of an entry that was stored still is among those the rows are built from, a list has one
entry for each key, and a row that was approved in the page's list is approved or noted as unchecked
(`PageKeeps`). That every score is accounted for is a fact about three folds of the model: over the
scores of a ballot, over the ballots and over the blocks of the store. A fold of the community
modules is a function chosen on sets of places; `LeftFoldExists` shows that there is one, `UpTo`
steps along it. `ScoreAdded` is the step for a score: the marks so far are the first scores for each
column (`MarksOf`), which needs that a score has one column (`TargetIs`), hence that lists have one entry
for a key. `RowCommitted` says that a row comes after all others whichever block it goes to, `PairsAdded`
that what is left out is counted once. `WriteInAssumption` is that the ids of a race differ, which
`Race.ts` checks, that write-in names are told from them, and that a mark is not `MARK_ABSENT`.

It proves of `Upload`, for any files and sizes of batches, `UploadInvariant` and `RowsAreStoredOnce`
(`UploadAssumption`: a rank is a number from 1, the sizes are numbers). The property says "once" of every
good row of a file that is done; `UploadInv` says of every moment which rows have a ballot: those up to
`nextIndex` do, those behind it only from a batch whose answer was lost, and more than one copy
goes back to such an answer too, which only a file without an Index column allows
(`Counted`). The loop ends by the rows of the file and counts the good ones, hence the
exception for the last row. That each ballot says what its row says needs `AscendingSorts`
twice: the good rows and the ranks that are not skipped are filters.

`PartsProofs` proves of `Listings`, for any elections, sizes of pages and changes, `ListInvariant` and
`TableIsTheList` (`ListingsAssumption`: finitely many elections, each with its title's place). The rows
shown are computed apart from the filters, and a claim apart from the list. So `ListInv` says
that what the table holds is what the filters as they are now let through, that a page other than the
first has a row, and that what was claimed is owned from then on and was so when
the list was read. That the pages are the rows again, none missing and none twice, is a fact about the sort
(`SortedIs`) and about division (`OnAPage`).

It proves of `BallotPage`, for any elections, names and bounds, `PageInvariant` and `VotesAsMarked`
(`PageAssumption`: a candidate has an id of its own, which is not that of a write-in, and the page
takes no more write-ins than `ballotValidation`'s ten). Rows are marked by position and sent by id, so
`PageInv` says that the rows of a race are its candidates and some write-ins, no two with one
id (`RowsRight`), and that each holds the mark its candidate was given; a shuffle starts with
that (`Shuffled`), a click and a drag keep it (`Remarked`), and a name is added or removed with its
row. `submit` looks each candidate up and appends the write-ins as they stand, so the vote is the
rows again, each once (`VoteIs`). For what the server refuses, `FitsServer` says that the columns
offered, cut off at `max_rankings` if that was set, are scores it accepts (`ColumnsFit`) and that there are at most ten write-ins,
in a race that takes them; a dragged rank and a long name are what is left (`RefusedFor`).

`Edit`, `EditUnchecked` and `Claim` in `Accounts` name the field of each update in full, since
the prover misreads an `@` inside another update.

`TabulationProofs` proves, for any races, any number of candidates and seats and any
ballots, `TabulationInvariant`, `EverySeatFilled`, `ProtocolFollowed`, `HeadToHeadKept`,
`TiesAreReported`, `QuotaPerSeat` and `CoalitionsAreSeated`, from `TabulationAssumption`.

First come the operators. `InOrderSorts` says that `InOrder` lists a finite set once, each member
behind those that are ahead of it, provided "ahead" orders the set: the numbers of those ahead are
then different, so the list has each place once. `SortedSorts`, `ByHareSorts`,
`AscendingSorts` and `WithoutKeeps` apply it to the sorts and filters of the code. That
sums are what one expects (a fold exists for every finite set, it does not depend on the order in which
members are taken) is by a smallest counterexample: the library's induction theorems
cannot be used, but that a family of finite sets has a minimal member (`SmallestSubset`) can.
Fractions stay reduced and ordered through `Plus`, `Times` and `Over` (`FractionsClosed`).

The argument: `SeatsFilled` looks at the seats alone. `TabulationInv` adds for the bloc
methods that who is elected is no longer in the list and everybody else still is
(`BlocInv`), so a round always finds somebody; for IRV and STV that nobody elected is
left (`CountInv`), that STV keeps as many candidates as seats (`StvInv`, which `Fill` and
`Eliminate` keep because `LastSeats` comes first), and that an IRV ballot is with somebody who is
left or with none (`IrvInv`), so that when the last one goes without a majority, no ballot was
active. For STAR-PR, `ShareInv` says that weights are never negative, hence a winner who
wins again has a total of zero, and so have all.

`ProtocolFollowed`, `HeadToHeadKept` and `TiesAreReported` are about the first seat, and
`BlocInv` carries that it is the one `SingleWinner` names. For each way through
`Finalists` and `Runoff` the finalists may advance and the winner may win as `docs/help/ties.md`
has it (`FinalistsAdvance`, `RunoffWinner`). A Condorcet winner beats everybody, so has
the highest Copeland score alone (`BeatsAllLeads`). For IRV the candidate is followed through the rounds:
with plain ranks a ballot is with the best of those who are left (`PlainInv`), so a majority of
piles over one who is left is a majority of ballots that prefers it
(`ReachedNotBeaten`), and of the last two the one who loses has no majority (`LastOfTwo`).
For ties, the tables of a shuffled race are the tables shuffled (`SameTables`), and a verdict that
is not random depends on nothing else (`SameVerdicts`, `FinalistsDecided`, `RunoffDecided`).

`QuotaPerSeat` proves `QuotasSpent`, an equation between sums of fractions. It needs that equal
fractions are the same reduced one (`LowestUnique`, from `Cancel`), and that finitely many
have a common denominator, over which a sum is that of the numerators (`InCommon`,
`CommonDenominator`). Ballots above the split point weigh less than a quota and with those on it one
at least (`SplitPointSplits`), so the discount of those on the split takes what is missing,
and the code's clamp to [0, 1] never cuts (`SpentQuota`). `QuotaInv` adds to `TabulationInv` that weights
are reduced and at most 1, which `Allocate` keeps while fewer quotas are spent than there are seats.

`CoalitionsAreSeated` proves `CoalitionsSeated` for all of IRV, and for STV under `FewBallots`:
seats times seats times ballots are fewer than the units of a vote. In the code a vote has
100000 units, so that is up to 11111 ballots for three seats. In IRV the ballots of a majority for
S are with one of S while one of S is left (`SolidStays`), and the quota is a majority
of the active ballots (`QuotaIsMajority`), so nobody else is elected and the last of S is not
eliminated (`CoalitionInv`). In STV a seat takes a quota of weight at least (`Dues`) from all ballots,
and from those of a coalition a quota at most and a unit for each ballot that is rounded
(`SurplusSums`, `SeatCosts`). One quota more than there are seats is more than
all ballots weigh (`QuotaIsDroop`). A coalition that lost its share at the last seat (`NoQuotaIsLeft`),
or by an elimination while everybody is below the quota (`NoneToSpare`), would hold that
quota. `DroopInv` carries both bounds from seat to seat.

Model-checked only:

* `CoalitionsSeated` for STV with more ballots than `FewBallots` allows: each transfer may round away
  a unit per ballot, and for every `Unit` there are electorates large enough to lose
  a quota that way, so no theorem can say it of all. The five ballots of the run are within the bound;
* `HistoryTrue` and `EditsApplied`: they are about what a recursion or a fold over a sequence
  computes for every input (rows of history, rows of candidates);
* `CastInvInMode`, `AdminInvInMode` and `StepsImplementLife`, which only say for the elections of
  one run what `CastInvariant` with `RecordInvariant`, `AdminInvariant` and
  `LifeImplemented` say for all;
* the liveness of `ClosesAtEnd`, which is out of the prover's reach, as is ENABLED.

## Plan

1. A proof of `EditsApplied`, with the arrays of `RaceForm` defined by `Arrays` as those of `Upload`,
   `Listings` and `BallotPage` are.
2. Composition of `CastVote` with `EmailCampaign`: the email handlers as the editors.
3. Liveness of the queue under fair workers that do not fail for ever.
4. Who sees results and ballots when: permissions, public archive elections.

## Not modelled

* Presentation: charts, wording, layout, the results pages, which only read.
* `deleteElection`, and the rules of public archive elections for edits and
  deletions; casts for them are in `Upload`.
* Registration requests, which the server has a route for and no page sends.
* The sandbox (stateless), images (an object store), developer data, the test scripts of the
  issue bot, the agent sandbox.
* The identity provider, SendGrid, pg-boss, PostgreSQL and GitHub are external: they are
  modelled by what the code relies on.
* Query answers that overtake each other on the query tool page, and refreshing a session,
  which never happens (see above).
