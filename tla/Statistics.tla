------------------------------ MODULE Statistics ------------------------------
(* The numbers of the landing page. Whoever stores ballots computes them anew *)
(* and sends them to the pages that joined; a page that joins is sent its own *)
(* computation. The three tables of a computation are read in no order.       *)
EXTENDS Integers, Sequences, FiniteSets, Functions

CONSTANTS
  Starts,      \* head rows to start with: from an election to its details
  Requests,    \* requests of others that store ballots
  JoinPage,        \* the request join_landing_page of the page
  Classic,      \* CLASSIC_ELECTION_COUNT and CLASSIC_VOTE_COUNT
  MethodSets,  \* sets of voting methods that races may be changed to
  MaxVotes,    \* bound on the ballots of an election
  MaxEdits,    \* bound on the changes that send no numbers
  MaxInbox     \* bound on the numbers on their way

VARIABLES
  polls,   \* owner, set of voting methods, source and head ballots of each
  jobs,    \* the computation of each request: idle, or what it has read
  joined,  \* the socket of the page is in the room landing_page
  inbox,   \* numbers on their way to the page
  shows,    \* electionStats
  changes,
  behind,  \* something changed that the numbers sent last may miss, and no
           \* request that stored it is still to send numbers (history)
  dirty    \* computations during which something changed (history)
statsVars == <<polls, jobs, joined, inbox, shows, changes, behind, dirty>>

(* methodValueToTextKey has no key for the method of old faulty elections. *)
methodValueToTextKey ==
  [STAR |-> "star", STAR_PR |-> "star_pr", Approval |-> "approval", STV |-> "stv",
   RankedRobin |-> "ranked_robin", IRV |-> "rcv", Plurality |-> "choose_one"]
Keys == {methodValueToTextKey[m] : m \in DOMAIN methodValueToTextKey} \cup {"multi_method"}
(* The rows hold ballots in numbers, and so do the classic counts.           *)
StartsAssumption ==
  /\ \A start \in Starts :
       /\ IsFiniteSet(DOMAIN start)
       /\ start \in [DOMAIN start ->
            [owner : STRING, methods : SUBSET STRING, prior : BOOLEAN, votes : Nat]]
  /\ \A methods \in MethodSets : methods \in SUBSET STRING
  /\ Classic \in [elections : Nat, votes : Nat]
ASSUME StatsAssumption == StartsAssumption

IdleJob == [at |-> "idle", read |-> <<>>]
Reading == [at |-> "reading", read |-> <<>>]
Jobs == Requests \cup {JoinPage}
PollIds == DOMAIN polls
NoStats == [k \in Keys \cup {"all", "legacy"} |-> [elections |-> 0, votes |-> 0]]

StatsInit ==
  /\ polls \in Starts /\ jobs = [r \in Jobs |-> IdleJob] /\ joined = FALSE
  /\ inbox = <<>> /\ shows = NoStats /\ changes = 0 /\ behind = FALSE /\ dirty = {}
-----------------------------------------------------------------------------
(* What a computation makes of the ballot counts, the races and the set of   *)
(* elections sourced from a prior one.                                       *)
KeyOf(methods) ==
  IF Cardinality(methods) > 1 THEN "multi_method"
  ELSE IF methods # {} /\ methods \subseteq DOMAIN methodValueToTextKey
       THEN methodValueToTextKey[CHOOSE m \in methods : TRUE]
       ELSE "none"
Counted(counts, races, prior) ==
  {i \in DOMAIN counts \ prior :
     counts[i] >= 2 /\ races[i].owner # "dev" /\ KeyOf(races[i].methods) # "none"}
Total(counts, ids) ==
  [elections |-> Cardinality(ids),
   votes |-> SumFunctionOnSet(counts, ids)]
Stats(counts, races, prior) ==
  LET real == Counted(counts, races, prior)
      all == Total(counts, real)
  IN  [k \in DOMAIN NoStats |->
         CASE k = "legacy" -> Classic
           [] k = "all" -> [elections |-> Classic.elections + all.elections,
                            votes |-> Classic.votes + all.votes]
           [] OTHER -> Total(counts, {i \in real : KeyOf(races[i].methods) = k})]

Counts == [i \in PollIds |-> polls[i].votes]
Races == [i \in PollIds |-> [owner |-> polls[i].owner, methods |-> polls[i].methods]]
Prior == {i \in PollIds : polls[i].prior}
-----------------------------------------------------------------------------
With(read, table, value) ==
  [t \in DOMAIN read \cup {table} |-> IF t = table THEN value ELSE read[t]]
Busy == {r \in Jobs : jobs[r].at # "idle"}

(* A ballot, a changed one or an upload is stored, then the request computes. *)
VoteReadFirst(r, i, n) ==
  /\ jobs[r].at = "idle" /\ polls[i].votes + n <= MaxVotes
  /\ polls' = [polls EXCEPT ![i].votes = polls[i].votes + n]
  /\ jobs' = [jobs EXCEPT ![r] = [Reading EXCEPT !.read = With(<<>>, "counts", Counts)]]
  /\ dirty' = dirty \cup Busy
  /\ UNCHANGED <<joined, inbox, shows, changes, behind>>
Vote(r, i, n) ==
  /\ jobs[r].at = "idle" /\ polls[i].votes + n <= MaxVotes
  /\ polls' = [polls EXCEPT ![i].votes = polls[i].votes + n]
  /\ jobs' = [jobs EXCEPT ![r] = Reading]
  /\ dirty' = dirty \cup Busy
  /\ UNCHANGED <<joined, inbox, shows, changes, behind>>
(* An error after the ballots were stored: of the queue, or of a read.       *)
Fails(r) ==
  /\ jobs[r].at = "reading"
  /\ jobs' = [jobs EXCEPT ![r] = IdleJob]
  /\ behind' = TRUE /\ dirty' = dirty \ {r}
  /\ UNCHANGED <<polls, joined, inbox, shows, changes>>

(* Changes of an election that send nothing: its races, and the deletion of  *)
(* its test ballots.                                                         *)
ChangePoll(i, methods, votes) ==
  /\ changes < MaxEdits /\ changes' = changes + 1
  /\ polls' = [polls EXCEPT ![i].methods = methods, ![i].votes = votes]
  /\ behind' = TRUE /\ dirty' = dirty \cup Busy
  /\ UNCHANGED <<jobs, joined, inbox, shows>>
ChangeRaces(i) == \E methods \in MethodSets : ChangePoll(i, methods, polls[i].votes)
DeleteBallots(i) == ChangePoll(i, polls[i].methods, 0)
-----------------------------------------------------------------------------
Read(r, table, value) ==
  /\ jobs[r].at = "reading" /\ table \notin DOMAIN jobs[r].read
  /\ jobs' = [jobs EXCEPT ![r].read = With(jobs[r].read, table, value)]
  /\ UNCHANGED <<polls, joined, inbox, shows, changes, behind, dirty>>
ReadTables(r) ==
  \/ Read(r, "counts", Counts)
  \/ Read(r, "races", Races)
  \/ Read(r, "prior", Prior)
(* To the whole room, or to the one socket that asked.                       *)
Emit(r) ==
  LET read == jobs[r].read IN
  /\ jobs[r].at = "reading" /\ DOMAIN read = {"counts", "races", "prior"}
  /\ Len(inbox) < MaxInbox
  /\ inbox' = IF joined THEN Append(inbox, Stats(read.counts, read.races, read.prior))
              ELSE inbox
  /\ jobs' = [jobs EXCEPT ![r] = IdleJob]
  /\ behind' = (r \in dirty) /\ dirty' = dirty \ {r}
  /\ UNCHANGED <<polls, joined, shows, changes>>
-----------------------------------------------------------------------------
(* The page joins when it is shown, and never again: a socket that connects  *)
(* anew is in no room.                                                       *)
Mount ==
  /\ jobs[JoinPage].at = "idle"
  /\ joined' = TRUE /\ shows' = NoStats
  /\ jobs' = [jobs EXCEPT ![JoinPage] = Reading]
  /\ UNCHANGED <<polls, inbox, changes, behind, dirty>>
Reconnect ==
  /\ joined /\ joined' = FALSE /\ inbox' = <<>>
  /\ jobs' = [jobs EXCEPT ![JoinPage] = IdleJob] /\ dirty' = dirty \ {JoinPage}
  /\ UNCHANGED <<polls, shows, changes, behind>>
UpdatedStats ==
  /\ inbox # <<>> /\ shows' = Head(inbox) /\ inbox' = Tail(inbox)
  /\ UNCHANGED <<polls, jobs, joined, changes, behind, dirty>>

StatsNext ==
  \/ Mount \/ Reconnect \/ UpdatedStats
  \/ \E r \in Jobs : Fails(r) \/ ReadTables(r) \/ Emit(r)
  \/ \E r \in Requests, i \in PollIds, n \in 0..2 : Vote(r, i, n)
  \/ \E i \in PollIds : ChangeRaces(i) \/ DeleteBallots(i)
StatsSpec == StatsInit /\ [][StatsNext]_statsVars
-----------------------------------------------------------------------------
StatsTypeOK ==
  /\ \A r \in Jobs : jobs[r].at \in {"idle", "reading"}
  /\ joined \in BOOLEAN /\ behind \in BOOLEAN /\ dirty \subseteq Busy

AddsUp(stats) ==
  stats["all"].votes =
    stats["legacy"].votes + SumFunctionOnSet([k \in Keys |-> stats[k].votes], Keys)
(* When nothing is under way, a page that is in the room shows the present,  *)
(* although requests compute side by side and their answers overtake each    *)
(* other, unless what it was sent last was computed while something changed  *)
(* or a change sent no numbers; and the numbers of the methods add up        *)
(* (castVoteController.ts, getElectionsController.ts:136-138).               *)
PageShowsPresent ==
  /\ joined /\ Busy = {} /\ inbox = <<>> /\ ~behind
       => shows = Stats(Counts, Races, Prior)
  /\ AddsUp(shows)
=============================================================================
