--------------------------- MODULE EmailCampaign ----------------------------
(***************************************************************************)
(* Emails of one election: the requests that ask for invitations,          *)
(* campaigns and receipts, the jobs they leave in the queue, the workers   *)
(* that run the jobs, and the provider's delivery notices.                 *)
(*                                                                         *)
(* A request and its addressee name a job.  Workers take a queued job, and *)
(* pg-boss takes it back when the handler throws or takes too long, until  *)
(* its tries are used up; a worker that was too slow goes on all the same. *)
(* Each handler of an election email writes back the roll row it has read, *)
(* without comparing versions.                                             *)
(***************************************************************************)
EXTENDS Naturals, FiniteSets

CONSTANTS
  Voters,
  Requests,      \* requests, each made once
  Workers,       \* handlers running at a time, teamSize of each process
  Scenes,        \* elections looked at: the voters on the list and what is asked for
  BatchTries,    \* how often pg-boss runs a job of publishBatch
  ReceiptTries,  \* and one of publish: retryLimit + 1
  MaxNotices,    \* bound: delivery notices stored in a behaviour
  None

Campaigns == {"all", "has_voted", "has_not_voted"}

Invitations == {"invites", "invite"}

AllKinds == Campaigns \cup Invitations \cup {"single", "test", "receipt"}

ASSUME EmailAssumption ==
  /\ Scenes \subseteq [list: SUBSET Voters, kinds: SUBSET AllKinds]
  /\ BatchTries \in Nat \ {0} /\ ReceiptTries \in Nat \ {0}
  /\ MaxNotices \in Nat
  /\ IsFiniteSet(Workers)

VARIABLES
  kinds,      \* what is asked for in this behaviour
  rolls,      \* rolls[v], for voters on the list: submitted, invited and the emails in the history
  campaigns,  \* settings.email_campaign_count, for the version of the row
  reqs,       \* reqs[r]: where request r is and whom it will write to
  jobs,       \* jobs[r][v]: the job of request r for voter v
  works,      \* works[w]: the job worker w runs and the row it has read
  emails,     \* emails[r][v]: how often the provider accepted that email
  events,     \* rows of emailEventsDB
  notices,    \* how many delivery notices were stored
  raced       \* voters whose row was written by someone who had not seen its last write

emailVars ==
  <<kinds, rolls, campaigns, reqs, jobs, works, emails, events, notices, raced>>

NewRequest == [pc |-> "new", kind |-> None, to |-> {}, count |-> 0]

NoJob == [state |-> "none", tries |-> 0]

Idle == [pc |-> "idle", req |-> None, voter |-> None, n |-> 0,
         row |-> None, stale |-> FALSE]

Tries(r) ==
  CASE reqs[r].kind = "receipt" -> ReceiptTries
    [] reqs[r].kind = "invite"  -> 1
    [] OTHER                    -> BatchTries

\* What the history calls the email: campaigns are numbered, others are not.
Message(r) ==
  CASE reqs[r].kind \in Campaigns   -> <<"campaign", reqs[r].count>>
    [] reqs[r].kind \in Invitations -> <<"email invite sent", 0>>
    [] OTHER                        -> <<"dm", 0>>

\* Receipts and test emails leave no trace in the election's own tables.
Recorded(r) == reqs[r].kind \notin {"receipt", "test"}

TypeOK ==
  /\ \A v \in DOMAIN rolls : rolls[v].submitted \in BOOLEAN /\ rolls[v].invited \in BOOLEAN
  /\ campaigns \in Nat
  /\ \A r \in Requests :
       /\ reqs[r].pc \in {"new", "number", "publish", "ok", "error"}
       /\ reqs[r].kind \in AllKinds \cup {None} /\ reqs[r].to \subseteq Voters
  /\ \A r \in Requests, v \in Voters :
       /\ jobs[r][v].state \in {"none", "queued", "active", "done", "dead"}
       /\ jobs[r][v].tries \in 0..Tries(r)
  /\ \A w \in Workers :
       works[w].pc \in {"idle", "read", "send", "log", "record", "finish"}
  /\ raced \subseteq Voters /\ notices \in 0..MaxNotices

-----------------------------------------------------------------------------
(* Requests.                                                               *)

\* The lists of voters a request of this kind goes on with.
Addressees(kind) ==
  CASE kind = "has_voted"     -> {{v \in DOMAIN rolls : rolls[v].submitted}} \ {{}}
    [] kind = "has_not_voted" -> {{v \in DOMAIN rolls : ~rolls[v].submitted}} \ {{}}
    [] kind = "invites"       -> {{v \in DOMAIN rolls : ~rolls[v].invited}} \ {{}}
    [] kind = "all"           -> {DOMAIN rolls}
    [] OTHER                  -> {{v} : v \in DOMAIN rolls}

\* Worker w will write back the row of v that it has read.
HoldsRow(w, v) ==
  works[w].voter = v /\ works[w].pc \in {"send", "log", "record"} /\ Recorded(works[w].req)

\* Whoever has read the row of v before has not seen this write.
Outdate(v) == [w \in Workers |-> [works[w] EXCEPT !.stale = @ \/ HoldsRow(w, v)]]

Ask(r, kind) ==
  /\ reqs[r].pc = "new"
  /\ kind \in kinds \ {"receipt"}
  /\ \E to \in Addressees(kind) :
       reqs' = [reqs EXCEPT ![r] =
         [pc |-> IF kind \in Campaigns THEN "number" ELSE "publish",
          kind |-> kind, to |-> to, count |-> campaigns]]
  /\ UNCHANGED <<rolls, campaigns, jobs, works, emails, events, notices, raced>>

\* submitBallotEvent commits the vote, and then the receipt is to be queued.
CommitVote(r, v) ==
  /\ reqs[r].pc = "new"
  /\ "receipt" \in kinds
  /\ ~rolls[v].submitted
  /\ rolls' = [rolls EXCEPT ![v].submitted = TRUE]
  /\ works' = Outdate(v)
  /\ reqs' = [reqs EXCEPT ![r] =
                [pc |-> "publish", kind |-> "receipt", to |-> {v}, count |-> 0]]
  /\ UNCHANGED <<campaigns, jobs, emails, events, notices, raced>>

\* updateElection, with the version the request has read.
StoreNumber(r) ==
  /\ reqs[r].pc = "number"
  /\ campaigns = reqs[r].count
  /\ campaigns' = campaigns + 1
  /\ reqs' = [reqs EXCEPT ![r].pc = "publish", ![r].count = campaigns + 1]
  /\ UNCHANGED <<rolls, jobs, works, emails, events, notices, raced>>

Publish(r) ==
  /\ reqs[r].pc = "publish"
  /\ jobs' = [jobs EXCEPT ![r] =
       [v \in Voters |-> IF v \in reqs[r].to THEN [NoJob EXCEPT !.state = "queued"]
                         ELSE NoJob]]
  /\ reqs' = [reqs EXCEPT ![r].pc = "ok"]
  /\ UNCHANGED <<rolls, campaigns, works, emails, events, notices, raced>>

\* A conflict, a failed query or a queue that does not answer.
FailRequest(r) ==
  /\ reqs[r].pc \in {"number", "publish"}
  /\ reqs' = [reqs EXCEPT ![r].pc = "error"]
  /\ UNCHANGED <<rolls, campaigns, jobs, works, emails, events, notices, raced>>

-----------------------------------------------------------------------------
(* Jobs.                                                                   *)

\* Mistake: the try is not counted.
TakeUncounted(w, r, v) ==
  /\ works[w].pc = "idle"
  /\ jobs[r][v].state = "queued"
  /\ jobs' = [jobs EXCEPT ![r][v].state = "active"]
  /\ works' = [works EXCEPT ![w] = [Idle EXCEPT !.pc = "read", !.req = r, !.voter = v]]
  /\ UNCHANGED <<rolls, campaigns, reqs, emails, events, notices, raced>>

Take(w, r, v) ==
  /\ works[w].pc = "idle"
  /\ jobs[r][v].state = "queued"
  /\ jobs' = [jobs EXCEPT ![r][v] = [state |-> "active", tries |-> @.tries + 1]]
  /\ works' = [works EXCEPT ![w] = [Idle EXCEPT !.pc = "read", !.req = r, !.voter = v]]
  /\ UNCHANGED <<rolls, campaigns, reqs, emails, events, notices, raced>>

ReadRow(w) ==
  /\ works[w].pc = "read"
  /\ works' = [works EXCEPT ![w].pc = "send",
                 ![w].row = IF Recorded(works[w].req) THEN rolls[works[w].voter] ELSE None]
  /\ UNCHANGED <<rolls, campaigns, reqs, jobs, emails, events, notices, raced>>

\* Mistake: a refusal of the provider is taken for an email that was sent.
SendEmailUnchecked(w) ==
  /\ works[w].pc = "send"
  /\ \E accepted \in {0, 1} :
       emails' = [emails EXCEPT ![works[w].req][works[w].voter] = @ + accepted]
  /\ works' = [works EXCEPT ![w].pc = IF Recorded(works[w].req) THEN "log" ELSE "finish",
                            ![w].n = emails'[works[w].req][works[w].voter]]
  /\ UNCHANGED <<rolls, campaigns, reqs, jobs, events, notices, raced>>

SendEmail(w) ==
  /\ works[w].pc = "send"
  /\ emails' = [emails EXCEPT ![works[w].req][works[w].voter] = @ + 1]
  /\ works' = [works EXCEPT ![w].pc = IF Recorded(works[w].req) THEN "log" ELSE "finish",
                            ![w].n = emails'[works[w].req][works[w].voter]]
  /\ UNCHANGED <<rolls, campaigns, reqs, jobs, events, notices, raced>>

EmailId(r, v, n) == [req |-> r, voter |-> v, n |-> n]

\* The insert of the sent row; its failure is only logged.
LogSent(w) ==
  /\ works[w].pc = "log"
  /\ LET r == works[w].req
         v == works[w].voter
     IN \/ events' = events \cup
             {[id |-> EmailId(r, v, works[w].n), voter |-> v, type |-> "sent", notice |-> 0]}
        \/ UNCHANGED events
  /\ works' = [works EXCEPT ![w].pc = "record"]
  /\ UNCHANGED <<rolls, campaigns, reqs, jobs, emails, notices, raced>>

\* Mistake: the row starts afresh.
WithEmailAfresh(row, r) ==
  [submitted |-> FALSE, invited |-> reqs[r].kind \in Invitations, history |-> {Message(r)}]

WithEmail(row, r) ==
  [row EXCEPT !.history = @ \cup {Message(r)},
              !.invited = @ \/ reqs[r].kind \in Invitations]

\* ElectionRollDB.update puts the copy in the place of whatever row there is.
Record(w) ==
  /\ works[w].pc = "record"
  /\ LET v == works[w].voter IN
       /\ rolls' = [rolls EXCEPT ![v] = WithEmail(works[w].row, works[w].req)]
       /\ raced' = IF works[w].stale THEN raced \cup {v} ELSE raced
       /\ works' = [Outdate(v) EXCEPT ![w] = [works[w] EXCEPT !.pc = "finish"]]
  /\ UNCHANGED <<campaigns, reqs, jobs, emails, events, notices>>

\* pg-boss completes a job that is active, whoever made it so.
Finish(w) ==
  /\ works[w].pc = "finish"
  /\ jobs' = [jobs EXCEPT ![works[w].req][works[w].voter].state =
                IF @ = "active" THEN "done" ELSE @]
  /\ works' = [works EXCEPT ![w] = Idle]
  /\ UNCHANGED <<rolls, campaigns, reqs, emails, events, notices, raced>>

\* Mistake: an error in the handler is logged and forgotten.
AfterErrorForgotten(r, job) == [job EXCEPT !.state = "done"]

\* A job whose run has failed or expired waits for its next try, or is given up.
AfterError(r, job) ==
  [job EXCEPT !.state = IF job.state # "active" THEN @
                        ELSE IF job.tries < Tries(r) THEN "queued" ELSE "dead"]

\* The handler throws: no row, the provider refuses, the update fails.
FailWork(w) ==
  /\ works[w].pc \in {"read", "send", "record"}
  /\ LET r == works[w].req IN
       jobs' = [jobs EXCEPT ![r][works[w].voter] = AfterError(r, @)]
  /\ works' = [works EXCEPT ![w] = Idle]
  /\ UNCHANGED <<rolls, campaigns, reqs, emails, events, notices, raced>>

\* The process of a worker stops.
Crash(w) ==
  /\ works[w].pc # "idle"
  /\ works' = [works EXCEPT ![w] = Idle]
  /\ UNCHANGED <<rolls, campaigns, reqs, jobs, emails, events, notices, raced>>

\* A job is active for longer than expireInSeconds.
Expire(r, v) ==
  /\ jobs[r][v].state = "active"
  /\ jobs' = [jobs EXCEPT ![r][v] = AfterError(r, @)]
  /\ UNCHANGED <<rolls, campaigns, reqs, works, emails, events, notices, raced>>

-----------------------------------------------------------------------------
(* Delivery notices.                                                       *)

SentRows(id) == {e \in events : e.id = id /\ e.type = "sent"}

\* sendGridWebhook.  The provider may send the notice of an email before the
\* worker has logged it, late, or more than once.  One without a sent row is
\* dropped, every other one adds a row.  If that fails it is as if the notice
\* had not come: the provider is answered that all is well.
Notify(r, v, n) ==
  /\ n \in 1..emails[r][v]
  /\ LET sent == SentRows(EmailId(r, v, n)) IN
       IF sent = {} THEN UNCHANGED <<events, notices>>
       ELSE /\ notices < MaxNotices
            /\ notices' = notices + 1
            /\ \E e \in sent :
                 events' = events \cup {[e EXCEPT !.type = "delivered", !.notice = notices']}
  /\ UNCHANGED <<rolls, campaigns, reqs, jobs, works, emails, raced>>

-----------------------------------------------------------------------------
Init ==
  /\ \E scene \in Scenes :
       /\ kinds = scene.kinds
       /\ rolls = [v \in scene.list |->
                     [submitted |-> FALSE, invited |-> FALSE, history |-> {}]]
  /\ campaigns = 0
  /\ reqs = [r \in Requests |-> NewRequest]
  /\ jobs = [r \in Requests |-> [v \in Voters |-> NoJob]]
  /\ works = [w \in Workers |-> Idle]
  /\ emails = [r \in Requests |-> [v \in Voters |-> 0]]
  /\ events = {} /\ notices = 0 /\ raced = {}

RequestStep(r) ==
  \/ \E kind \in kinds : Ask(r, kind)
  \/ \E v \in DOMAIN rolls : CommitVote(r, v)
  \/ StoreNumber(r) \/ Publish(r) \/ FailRequest(r)

\* What a worker does with the job it has taken.
Work(w) ==
  ReadRow(w) \/ SendEmail(w) \/ LogSent(w) \/ Record(w) \/ Finish(w) \/ FailWork(w)

WorkerStep(w) ==
  Work(w) \/ Crash(w) \/ \E r \in Requests, v \in Voters : Take(w, r, v)

Next ==
  /\ UNCHANGED kinds
  /\ \/ \E r \in Requests : RequestStep(r)
     \/ \E w \in Workers : WorkerStep(w)
     \/ \E r \in Requests, v \in Voters :
          \/ Expire(r, v)
          \/ \E n \in 1..(BatchTries + ReceiptTries) : Notify(r, v, n)

Spec == Init /\ [][Next]_emailVars

-----------------------------------------------------------------------------
(* Properties.                                                             *)

\* A request that was answered without an error has every addressee written to,
\* or a job under way, or a job that was given up after all its tries: also
\* the receipt of a vote.
NobodySkipped ==
  \A r \in Requests : reqs[r].pc = "ok" => \A v \in reqs[r].to :
    \/ emails[r][v] > 0
    \/ jobs[r][v].state \in {"queued", "active"}
    \/ jobs[r][v].state = "dead" /\ jobs[r][v].tries = Tries(r)

\* An email is not sent more often than its job was started.
EmailsWithinTries ==
  \A r \in Requests, v \in Voters : emails[r][v] <= jobs[r][v].tries

\* Unless two writers of a voter's row overlapped, a job that ran to its end is in
\* the history of the row, an invited voter is not invited by the next request,
\* and no email undoes the vote that is on it.
RollKeptOrRaced ==
  /\ \A r \in Requests, v \in Voters \ raced :
       jobs[r][v].state = "done" /\ Recorded(r) =>
         /\ Message(r) \in rolls[v].history
         /\ reqs[r].kind \in Invitations => rolls[v].invited
  /\ \A r \in Requests : reqs[r].kind = "receipt" =>
       \A v \in reqs[r].to \ raced : rolls[v].submitted

\* The requests whose email to v the provider has accepted.
Emailed(v) == {r \in Requests : emails[r][v] > 0}

\* Whatever failed, expired, was repeated or written back late, what the
\* tables say was sent to a voter was sent: the emails in the history of the
\* row, the mark that leaves the voter out of the next invitations, and the
\* rows of email events, of which a delivered one is behind a sent one.
RecordsTrue ==
  /\ \A v \in DOMAIN rolls :
       /\ rolls[v].history \subseteq {Message(r) : r \in {q \in Emailed(v) : Recorded(q)}}
       /\ rolls[v].invited => \E r \in Emailed(v) : reqs[r].kind \in Invitations
  /\ \A e \in events :
       /\ e.voter = e.id.voter /\ e.id.n <= emails[e.id.req][e.voter]
       /\ e.type = "delivered" => SentRows(e.id) # {}

=============================================================================
