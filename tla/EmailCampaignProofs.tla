------------------------ MODULE EmailCampaignProofs ------------------------
(* Theorems about EmailCampaign, for every value of its constants.         *)
EXTENDS EmailCampaign, FiniteSetTheorems, TLAPS

-----------------------------------------------------------------------------
(* Types.                                                                  *)

Messages == {"campaign", "email invite sent", "dm"} \X Nat

Roll == [submitted: BOOLEAN, invited: BOOLEAN, history: SUBSET Messages]

Request == [pc: {"new", "number", "publish", "ok", "error"},
            kind: AllKinds \cup {None}, to: SUBSET Voters, count: Nat]

Job == [state: {"none", "queued", "active", "done", "dead"}, tries: Nat]

WorkRecord == [pc: {"idle", "read", "send", "log", "record", "finish"},
               req: Requests \cup {None}, voter: Voters \cup {None}, n: Nat,
               row: Roll \cup {None}, stale: BOOLEAN]

EmailType ==
  /\ DOMAIN rolls \subseteq Voters
  /\ rolls \in [DOMAIN rolls -> Roll]
  /\ campaigns \in Nat
  /\ reqs \in [Requests -> Request]
  /\ \A r \in Requests : reqs[r].to \subseteq DOMAIN rolls
  /\ jobs \in [Requests -> [Voters -> Job]]
  /\ works \in [Workers -> WorkRecord]
  /\ \A w \in Workers : works[w].pc # "idle" =>
       /\ works[w].req \in Requests /\ works[w].voter \in DOMAIN rolls
       /\ works[w].voter \in reqs[works[w].req].to
       /\ reqs[works[w].req].pc = "ok"
  /\ emails \in [Requests -> [Voters -> Nat]]
  /\ raced \subseteq Voters

LEMMA MessageType ==
  ASSUME EmailType, NEW r \in Requests
  PROVE  Message(r) \in Messages
<1>1. reqs[r].count \in Nat
  BY DEF EmailType, Request
<1>2. CASE reqs[r].kind \in Campaigns
  BY <1>1, <1>2 DEF Message, Messages
<1>3. CASE reqs[r].kind \notin Campaigns
  BY <1>3 DEF Message, Messages
<1>4. QED
  BY <1>2, <1>3

LEMMA WithEmailType ==
  ASSUME EmailType, NEW r \in Requests, NEW row \in Roll
  PROVE  /\ WithEmail(row, r) \in Roll
         /\ WithEmail(row, r).submitted = row.submitted
         /\ row.invited => WithEmail(row, r).invited
         /\ reqs[r].kind \in Invitations => WithEmail(row, r).invited
         /\ row.history \subseteq WithEmail(row, r).history
         /\ Message(r) \in WithEmail(row, r).history
<1>1. Message(r) \in Messages
  BY MessageType
<1>2. (row.invited \/ reqs[r].kind \in Invitations) \in BOOLEAN
  OBVIOUS
<1>3. QED
  BY <1>1, <1>2 DEF WithEmail, Roll

LEMMA TriesType ==
  ASSUME NEW r \in Requests
  PROVE  Tries(r) \in Nat \ {0}
BY EmailAssumption DEF Tries

LEMMA OutdateType ==
  ASSUME EmailType, NEW v
  PROVE  /\ Outdate(v) \in [Workers -> WorkRecord]
         /\ \A w \in Workers :
              /\ Outdate(v)[w].pc = works[w].pc /\ Outdate(v)[w].req = works[w].req
              /\ Outdate(v)[w].voter = works[w].voter /\ Outdate(v)[w].row = works[w].row
              /\ Outdate(v)[w].stale = (works[w].stale \/ HoldsRow(w, v))
<1>1. ASSUME NEW w \in Workers PROVE (works[w].stale \/ HoldsRow(w, v)) \in BOOLEAN
  BY DEF HoldsRow, EmailType, WorkRecord
<1>2. ASSUME NEW w \in Workers PROVE works[w] \in WorkRecord
  BY DEF EmailType
<1>3. QED
  BY <1>1, <1>2 DEF Outdate, WorkRecord

-----------------------------------------------------------------------------
(* The inductive invariant.                                                *)

\* A job is made when its request is answered, for the addressees alone.
JobsOfAnswered ==
  \A r \in Requests, v \in Voters :
    /\ reqs[r].pc # "ok" \/ v \notin reqs[r].to => jobs[r][v] = NoJob
    /\ reqs[r].pc = "ok" /\ v \in reqs[r].to => jobs[r][v].state # "none"

\* A job is given up after its last try, and completed after its email.
JobsEnd ==
  \A r \in Requests, v \in Voters :
    /\ jobs[r][v].state = "queued" => jobs[r][v].tries < Tries(r)
    /\ jobs[r][v].tries <= Tries(r)
    /\ jobs[r][v].state = "dead" => jobs[r][v].tries = Tries(r)
    /\ jobs[r][v].state = "done" => emails[r][v] > 0

\* A worker that is past the send has sent.
WorkersSent ==
  \A w \in Workers : works[w].pc \in {"log", "record", "finish"} =>
    emails[works[w].req][works[w].voter] > 0

\* Workers that may still send the email of a job; some were given up on.
Senders(r, v) ==
  {w \in Workers : works[w].pc \in {"read", "send"} /\ works[w].req = r /\ works[w].voter = v}

\* Each start of a job is good for one email.
StartsCounted ==
  \A r \in Requests, v \in Voters :
    emails[r][v] + Cardinality(Senders(r, v)) <= jobs[r][v].tries

\* Only the row of a recorded email is written back, and a copy that no other
\* writer has outdated is the row.
CopiesFresh ==
  \A w \in Workers :
    /\ works[w].pc \in {"log", "record"} => Recorded(works[w].req)
    /\ works[w].pc \in {"send", "log", "record"} /\ Recorded(works[w].req) =>
         /\ works[w].row \in Roll
         /\ ~works[w].stale => works[w].row = rolls[works[w].voter]

\* The row of v tells of the email of request r.
Told(r, v) ==
  /\ Message(r) \in rolls[v].history
  /\ reqs[r].kind \in Invitations => rolls[v].invited

\* A worker that is about to finish has left its mark on the row.
WorkersRecorded ==
  \A w \in Workers :
    works[w].pc = "finish" /\ Recorded(works[w].req) /\ works[w].voter \notin raced =>
      Told(works[w].req, works[w].voter)

-----------------------------------------------------------------------------
(* Steps keep the types.                                                   *)

LEMMA InitType == Init => EmailType
<1>1. ASSUME Init PROVE \A v \in DOMAIN rolls : rolls[v] \in Roll
  <2>1. [submitted |-> FALSE, invited |-> FALSE, history |-> {}] \in Roll
    BY DEF Roll
  <2>2. QED
    BY <1>1, <2>1 DEF Init
<1>2. ASSUME Init PROVE /\ DOMAIN rolls \subseteq Voters /\ rolls \in [DOMAIN rolls -> Roll]
  BY <1>1, <1>2, EmailAssumption DEF Init
<1>3. NewRequest \in Request /\ NoJob \in Job /\ Idle \in WorkRecord
  BY DEF NewRequest, Request, NoJob, Job, Idle, WorkRecord
<1>4. NewRequest.to = {} /\ Idle.pc = "idle"
  BY DEF NewRequest, Idle
<1>5. QED
  BY <1>2, <1>3, <1>4 DEF Init, EmailType

\* A step that replaces one request's record.
LEMMA RequestType ==
  ASSUME EmailType, NEW r \in Requests, reqs[r].pc # "ok",
         NEW rec \in Request, rec.to \subseteq DOMAIN rolls,
         reqs' = [reqs EXCEPT ![r] = rec],
         UNCHANGED <<rolls, works, emails, raced>>,
         campaigns' \in Nat, jobs' \in [Requests -> [Voters -> Job]]
  PROVE  EmailType'
<1>1. reqs' \in [Requests -> Request] /\ \A q \in Requests : q # r => reqs'[q] = reqs[q]
  BY DEF EmailType
<1>2. \A q \in Requests : reqs'[q].to \subseteq DOMAIN rolls
  BY DEF EmailType
<1>3. ASSUME NEW w \in Workers, works[w].pc # "idle" PROVE works[w].req # r
  BY <1>3 DEF EmailType
<1>4. QED
  BY <1>1, <1>2, <1>3 DEF EmailType

\* A step that replaces one worker's record and may mark others outdated.
LEMMA WorkerType ==
  ASSUME EmailType, NEW w \in Workers, NEW rec \in WorkRecord,
         rec.pc # "idle" =>
           /\ rec.req \in Requests /\ rec.voter \in DOMAIN rolls
           /\ rec.voter \in reqs[rec.req].to /\ reqs[rec.req].pc = "ok",
         \/ works' = [works EXCEPT ![w] = rec]
         \/ \E v \in Voters : works' = [Outdate(v) EXCEPT ![w] = rec],
         UNCHANGED <<campaigns, reqs>>,
         DOMAIN rolls' = DOMAIN rolls, rolls' \in [DOMAIN rolls -> Roll],
         jobs' \in [Requests -> [Voters -> Job]], emails' \in [Requests -> [Voters -> Nat]],
         raced' \subseteq Voters
  PROVE  EmailType'
<1>1. /\ works' \in [Workers -> WorkRecord] /\ works'[w] = rec
      /\ \A u \in Workers : u # w =>
           /\ works'[u].pc = works[u].pc /\ works'[u].req = works[u].req
           /\ works'[u].voter = works[u].voter
  BY OutdateType DEF EmailType
<1>2. QED
  BY <1>1 DEF EmailType

LEMMA RequestStepType ==
  ASSUME EmailType, NEW r \in Requests,
         \/ \E kind \in kinds : Ask(r, kind)
         \/ StoreNumber(r) \/ Publish(r) \/ FailRequest(r),
         kinds \subseteq AllKinds
  PROVE  EmailType'
<1>1. reqs[r] \in Request /\ reqs[r].to \subseteq DOMAIN rolls /\ DOMAIN rolls \subseteq Voters
  BY DEF EmailType
<1>2. ASSUME NEW kind \in kinds, Ask(r, kind) PROVE EmailType'
  <2>1. PICK to \in Addressees(kind) :
          reqs' = [reqs EXCEPT ![r] =
            [pc |-> IF kind \in Campaigns THEN "number" ELSE "publish",
             kind |-> kind, to |-> to, count |-> campaigns]]
    BY <1>2 DEF Ask
  <2>2. to \subseteq DOMAIN rolls
    BY <2>1 DEF Addressees
  <2> DEFINE rec == [pc |-> IF kind \in Campaigns THEN "number" ELSE "publish",
                     kind |-> kind, to |-> to, count |-> campaigns]
  <2>3. rec \in Request /\ rec.to = to
    BY <1>1, <2>2 DEF Request, EmailType
  <2> HIDE DEF rec
  <2>4. QED
    BY <1>2, <2>1, <2>2, <2>3, RequestType DEF Ask, EmailType, rec
<1>3. ASSUME StoreNumber(r) PROVE EmailType'
  <2> DEFINE rec == [reqs[r] EXCEPT !.pc = "publish", !.count = campaigns + 1]
  <2>1. campaigns + 1 \in Nat
    BY DEF EmailType
  <2>2. rec \in Request /\ rec.to = reqs[r].to
    BY <1>1, <2>1 DEF Request
  <2>3. reqs' = [reqs EXCEPT ![r] = rec]
    BY <1>3 DEF StoreNumber
  <2>4. reqs[r].pc # "ok" /\ campaigns' \in Nat /\ jobs' \in [Requests -> [Voters -> Job]]
    BY <1>3, <2>1 DEF StoreNumber, EmailType
  <2> HIDE DEF rec
  <2>5. QED
    BY <1>1, <1>3, <2>2, <2>3, <2>4, RequestType DEF StoreNumber
<1>4. ASSUME Publish(r) PROVE EmailType'
  <2> DEFINE rec == [reqs[r] EXCEPT !.pc = "ok"]
  <2>1. rec \in Request /\ rec.to = reqs[r].to
    BY <1>1 DEF Request
  <2>2. reqs' = [reqs EXCEPT ![r] = rec]
    BY <1>4 DEF Publish
  <2>3. jobs' \in [Requests -> [Voters -> Job]]
    BY <1>4 DEF Publish, EmailType, NoJob, Job
  <2> HIDE DEF rec
  <2>4. QED
    BY <1>1, <1>4, <2>1, <2>2, <2>3, RequestType DEF Publish, EmailType
<1>5. ASSUME FailRequest(r) PROVE EmailType'
  <2> DEFINE rec == [reqs[r] EXCEPT !.pc = "error"]
  <2>1. rec \in Request /\ rec.to = reqs[r].to
    BY <1>1 DEF Request
  <2>2. reqs' = [reqs EXCEPT ![r] = rec]
    BY <1>5 DEF FailRequest
  <2> HIDE DEF rec
  <2>3. QED
    BY <1>1, <1>5, <2>1, <2>2, RequestType DEF FailRequest, EmailType
<1>6. QED
  BY <1>2, <1>3, <1>4, <1>5

LEMMA CommitVoteType ==
  ASSUME EmailType, NEW r \in Requests, NEW v \in DOMAIN rolls, CommitVote(r, v)
  PROVE  EmailType'
<1> DEFINE rec == [pc |-> "publish", kind |-> "receipt", to |-> {v}, count |-> 0]
<1>1. v \in Voters /\ rec \in Request /\ rec.to = {v}
  BY DEF EmailType, Request, AllKinds
<1>2. reqs' = [reqs EXCEPT ![r] = rec] /\ reqs[r].pc = "new"
  BY DEF CommitVote
<1> HIDE DEF rec
<1>3. /\ reqs' \in [Requests -> Request]
      /\ \A q \in Requests : q # r => reqs'[q] = reqs[q]
      /\ \A q \in Requests : reqs'[q].to \subseteq DOMAIN rolls
  BY <1>1, <1>2 DEF EmailType
<1>4. DOMAIN rolls' = DOMAIN rolls /\ rolls' \in [DOMAIN rolls -> Roll]
  BY DEF CommitVote, EmailType, Roll
<1>5. ASSUME NEW w \in Workers, works[w].pc # "idle" PROVE works[w].req # r
  BY <1>2, <1>5 DEF EmailType
<1>6. /\ works' \in [Workers -> WorkRecord]
      /\ \A w \in Workers : /\ works'[w].pc = works[w].pc /\ works'[w].req = works[w].req
                            /\ works'[w].voter = works[w].voter
  BY OutdateType DEF CommitVote
<1>7. QED
  BY <1>3, <1>4, <1>5, <1>6 DEF EmailType, CommitVote

LEMMA AfterErrorType ==
  ASSUME NEW r \in Requests, NEW job \in Job
  PROVE  /\ AfterError(r, job) \in Job
         /\ AfterError(r, job).tries = job.tries
         /\ AfterError(r, job).state =
              IF job.state # "active" THEN job.state
              ELSE IF job.tries < Tries(r) THEN "queued" ELSE "dead"
BY DEF AfterError, Job

LEMMA WorkStepType ==
  ASSUME EmailType, CopiesFresh, NEW w \in Workers, Work(w)
  PROVE  EmailType'
<1> DEFINE r == works[w].req
           v == works[w].voter
<1>1. /\ works[w] \in WorkRecord /\ works[w].pc # "idle" /\ r \in Requests /\ v \in DOMAIN rolls
      /\ v \in Voters /\ v \in reqs[r].to /\ reqs[r].pc = "ok"
      /\ rolls \in [DOMAIN rolls -> Roll] /\ jobs[r][v] \in Job /\ emails[r][v] \in Nat
  BY DEF EmailType, Work, ReadRow, SendEmail, LogSent, Record, Finish, FailWork
<1>2. Idle \in WorkRecord /\ Idle.pc = "idle"
  BY DEF Idle, WorkRecord
<1> HIDE DEF r, v
<1>3. ASSUME ReadRow(w) PROVE EmailType'
  <2> DEFINE rec == [works[w] EXCEPT !.pc = "send",
                       !.row = IF Recorded(r) THEN rolls[v] ELSE None]
  <2>1. rec \in WorkRecord /\ rec.req = r /\ rec.voter = v
    BY <1>1 DEF WorkRecord, r, v
  <2>2. works' = [works EXCEPT ![w] = rec]
    BY <1>3 DEF ReadRow, r, v
  <2> HIDE DEF rec
  <2>3. QED
    BY <1>1, <1>3, <2>1, <2>2, WorkerType DEF ReadRow, EmailType
<1>4. ASSUME SendEmail(w) PROVE EmailType'
  <2> DEFINE rec == [works[w] EXCEPT !.pc = IF Recorded(r) THEN "log" ELSE "finish",
                                     !.n = emails[r][v] + 1]
  <2>1. /\ emails' = [emails EXCEPT ![r][v] = @ + 1] /\ emails[r][v] + 1 \in Nat
        /\ emails' \in [Requests -> [Voters -> Nat]]
    BY <1>1, <1>4 DEF SendEmail, EmailType, r, v
  <2>2. emails'[r][v] = emails[r][v] + 1
    BY <1>1, <2>1 DEF EmailType
  <2>3. rec \in WorkRecord /\ rec.req = r /\ rec.voter = v
    BY <1>1, <2>1 DEF WorkRecord, r, v
  <2>4. works' = [works EXCEPT ![w] = rec]
    BY <1>4, <2>2 DEF SendEmail, r, v
  <2>5. UNCHANGED <<rolls, campaigns, reqs, jobs, raced>>
    BY <1>4 DEF SendEmail
  <2> HIDE DEF rec
  <2>6. QED
    BY <1>1, <2>1, <2>3, <2>4, <2>5, WorkerType DEF EmailType
<1>5. ASSUME LogSent(w) PROVE EmailType'
  <2> DEFINE rec == [works[w] EXCEPT !.pc = "record"]
  <2>1. rec \in WorkRecord /\ rec.req = r /\ rec.voter = v /\ works' = [works EXCEPT ![w] = rec]
    BY <1>1, <1>5 DEF LogSent, WorkRecord, r, v
  <2> HIDE DEF rec
  <2>2. QED
    BY <1>1, <1>5, <2>1, WorkerType DEF LogSent, EmailType
<1>6. ASSUME Record(w) PROVE EmailType'
  <2> DEFINE rec == [works[w] EXCEPT !.pc = "finish"]
  <2>1. /\ rec \in WorkRecord /\ rec.req = r /\ rec.voter = v
        /\ works' = [Outdate(v) EXCEPT ![w] = rec]
    BY <1>1, <1>6 DEF Record, WorkRecord, r, v
  <2>2. WithEmail(works[w].row, r) \in Roll
    BY <1>1, <1>6, WithEmailType DEF CopiesFresh, Record, r
  <2>3. DOMAIN rolls' = DOMAIN rolls /\ rolls' \in [DOMAIN rolls -> Roll]
    BY <1>1, <1>6, <2>2 DEF Record, r, v
  <2>4. raced' \subseteq Voters
    BY <1>1, <1>6 DEF Record, EmailType, r, v
  <2>5. \E u \in Voters : works' = [Outdate(u) EXCEPT ![w] = rec]
    BY <1>1, <2>1
  <2>6. UNCHANGED <<campaigns, reqs, jobs, emails>>
    BY <1>6 DEF Record
  <2> HIDE DEF rec
  <2>7. QED
    BY <1>1, <2>1, <2>3, <2>4, <2>5, <2>6, WorkerType DEF EmailType
<1>7. ASSUME Finish(w) \/ FailWork(w) PROVE EmailType'
  <2>1. AfterError(r, jobs[r][v]) \in Job
    BY <1>1, AfterErrorType
  <2>2. [jobs[r][v] EXCEPT !.state = IF @ = "active" THEN "done" ELSE @] \in Job
    BY <1>1 DEF Job
  <2>3. PICK job \in Job : jobs' = [jobs EXCEPT ![r][v] = job]
    BY <1>7, <2>1, <2>2 DEF Finish, FailWork, r, v
  <2>4. jobs' \in [Requests -> [Voters -> Job]]
    BY <1>1, <2>3 DEF EmailType
  <2>5. QED
    BY <1>2, <1>7, <2>4, WorkerType DEF Finish, FailWork, EmailType
<1>8. QED
  BY <1>3, <1>4, <1>5, <1>6, <1>7 DEF Work

LEMMA TakeType ==
  ASSUME EmailType, JobsOfAnswered,
         NEW w \in Workers, NEW r \in Requests, NEW v \in Voters, Take(w, r, v)
  PROVE  EmailType'
<1> DEFINE rec == [Idle EXCEPT !.pc = "read", !.req = r, !.voter = v]
           job == [state |-> "active", tries |-> jobs[r][v].tries + 1]
<1>1. jobs[r][v] \in Job /\ jobs[r][v].state = "queued"
  BY DEF EmailType, Take
<1>2. jobs[r][v] # NoJob
  BY <1>1 DEF NoJob
<1>3. reqs[r].pc = "ok" /\ v \in reqs[r].to /\ v \in DOMAIN rolls
  BY <1>2 DEF JobsOfAnswered, EmailType
<1>4. /\ rec \in WorkRecord /\ rec.req = r /\ rec.voter = v
      /\ works' = [works EXCEPT ![w] = rec]
  BY DEF Take, Idle, WorkRecord
<1>5. job \in Job /\ jobs' = [jobs EXCEPT ![r][v] = job]
  BY <1>1 DEF Take, Job
<1> HIDE DEF rec, job
<1>6. jobs' \in [Requests -> [Voters -> Job]]
  BY <1>5 DEF EmailType
<1>7. UNCHANGED <<rolls, campaigns, reqs, emails, raced>>
  BY DEF Take
<1>8. QED
  BY <1>3, <1>4, <1>6, <1>7, WorkerType DEF EmailType

LEMMA RestType ==
  ASSUME EmailType,
         \/ \E w \in Workers : Crash(w)
         \/ \E r \in Requests, v \in Voters :
              Expire(r, v) \/ \E n \in 1..(BatchTries + ReceiptTries) : Notify(r, v, n)
         \/ UNCHANGED emailVars
  PROVE  EmailType'
<1>1. ASSUME NEW w \in Workers, Crash(w) PROVE EmailType'
  <2>1. Idle \in WorkRecord /\ Idle.pc = "idle"
    BY DEF Idle, WorkRecord
  <2>2. QED
    BY <1>1, <2>1, WorkerType DEF Crash, EmailType
<1>2. ASSUME NEW r \in Requests, NEW v \in Voters, Expire(r, v) PROVE EmailType'
  <2>1. jobs[r][v] \in Job /\ AfterError(r, jobs[r][v]) \in Job
    BY AfterErrorType DEF EmailType
  <2>2. jobs' = [jobs EXCEPT ![r][v] = AfterError(r, jobs[r][v])]
    BY <1>2 DEF Expire
  <2>3. jobs' \in [Requests -> [Voters -> Job]]
    BY <2>1, <2>2 DEF EmailType
  <2>4. QED
    BY <1>2, <2>3 DEF Expire, EmailType
<1>3. ASSUME NEW r \in Requests, NEW v \in Voters, NEW n, Notify(r, v, n) PROVE EmailType'
  BY <1>3 DEF Notify, EmailType
<1>4. ASSUME UNCHANGED emailVars PROVE EmailType'
  BY <1>4 DEF emailVars, EmailType
<1>5. QED
  BY <1>1, <1>2, <1>3, <1>4

LEMMA TypeStep ==
  ASSUME EmailType, CopiesFresh, JobsOfAnswered, kinds \subseteq AllKinds, [Next]_emailVars
  PROVE  EmailType' /\ (kinds \subseteq AllKinds)'
<1>1. kinds' = kinds
  BY DEF Next, emailVars
<1>2. ASSUME NEW r \in Requests, RequestStep(r) PROVE EmailType'
  BY <1>2, RequestStepType, CommitVoteType DEF RequestStep
<1>3. ASSUME NEW w \in Workers, WorkerStep(w) PROVE EmailType'
  BY <1>3, WorkStepType, TakeType, RestType DEF WorkerStep
<1>4. QED
  BY <1>1, <1>2, <1>3, RestType DEF Next

-----------------------------------------------------------------------------
(* What a step of a request does to the rest.                              *)

RequestEffect ==
  /\ \A q \in Requests :
       \/ reqs[q].pc = "ok" /\ reqs'[q] = reqs[q] /\ jobs'[q] = jobs[q]
       \/ reqs[q].pc # "ok" /\ reqs'[q].pc # "ok" /\ jobs'[q] = jobs[q]
       \/ /\ reqs[q].pc # "ok" /\ reqs'[q].pc = "ok"
          /\ jobs'[q] = [v \in Voters |-> IF v \in reqs'[q].to
                                          THEN [NoJob EXCEPT !.state = "queued"] ELSE NoJob]
  /\ \A w \in Workers :
       /\ works'[w].pc = works[w].pc /\ works'[w].req = works[w].req
       /\ works'[w].voter = works[w].voter /\ works'[w].row = works[w].row
       /\ ~works'[w].stale /\ HoldsRow(w, works[w].voter) =>
            ~works[w].stale /\ rolls'[works[w].voter] = rolls[works[w].voter]
  /\ \A v \in DOMAIN rolls :
       /\ rolls'[v].history = rolls[v].history /\ rolls'[v].invited = rolls[v].invited
       /\ rolls[v].submitted => rolls'[v].submitted
  /\ \A r \in Requests : reqs'[r].kind = "receipt" =>
       \/ reqs[r].kind = "receipt" /\ reqs'[r].to = reqs[r].to
       \/ \A v \in reqs'[r].to : rolls'[v].submitted
  /\ UNCHANGED <<emails, raced>>

LEMMA RequestEffects ==
  ASSUME EmailType, NEW r \in Requests, RequestStep(r)
  PROVE  RequestEffect
<1>1. /\ reqs[r] \in Request /\ reqs[r].pc # "ok" /\ jobs \in [Requests -> [Voters -> Job]]
      /\ reqs \in [Requests -> Request]
  BY DEF EmailType, RequestStep, Ask, CommitVote, StoreNumber, Publish, FailRequest
<1>2. ASSUME NEW kind \in kinds, Ask(r, kind) PROVE RequestEffect
  BY <1>1, <1>2 DEF Ask, RequestEffect
<1>3. ASSUME StoreNumber(r) PROVE RequestEffect
  BY <1>1, <1>3 DEF StoreNumber, RequestEffect, Request
<1>4. ASSUME Publish(r) PROVE RequestEffect
  BY <1>1, <1>4 DEF Publish, RequestEffect, Request
<1>5. ASSUME FailRequest(r) PROVE RequestEffect
  BY <1>1, <1>5 DEF FailRequest, RequestEffect, Request
<1>6. ASSUME NEW v \in DOMAIN rolls, CommitVote(r, v) PROVE RequestEffect
  <2>1. \A u \in DOMAIN rolls :
          /\ rolls'[u].history = rolls[u].history /\ rolls'[u].invited = rolls[u].invited
          /\ rolls[u].submitted => rolls'[u].submitted
          /\ u # v => rolls'[u] = rolls[u]
    BY <1>6 DEF CommitVote, EmailType, Roll
  <2>2. rolls'[v].submitted
    BY <1>6 DEF CommitVote, EmailType, Roll
  <2>3. \A w \in Workers :
          /\ works'[w].pc = works[w].pc /\ works'[w].req = works[w].req
          /\ works'[w].voter = works[w].voter /\ works'[w].row = works[w].row
          /\ works'[w].stale = (works[w].stale \/ HoldsRow(w, v))
    BY <1>6, OutdateType DEF CommitVote
  <2>4. \A w \in Workers : HoldsRow(w, works[w].voter) => works[w].voter \in DOMAIN rolls
    BY DEF HoldsRow, EmailType
  <2>5. /\ \A q \in Requests : q # r => reqs'[q] = reqs[q]
        /\ reqs'[r].pc = "publish" /\ reqs'[r].to = {v}
        /\ UNCHANGED <<jobs, emails, raced>>
    BY <1>1, <1>6 DEF CommitVote
  <2>6. ASSUME NEW w \in Workers, ~works'[w].stale, HoldsRow(w, works[w].voter)
        PROVE  ~works[w].stale /\ rolls'[works[w].voter] = rolls[works[w].voter]
    <3>1. works[w].voter # v /\ ~works[w].stale
      BY <2>3, <2>6
    <3>2. QED
      BY <2>1, <2>4, <2>6, <3>1
  <2>7. \A q \in Requests :
          \/ reqs[q].pc = "ok" /\ reqs'[q] = reqs[q] /\ jobs'[q] = jobs[q]
          \/ reqs[q].pc # "ok" /\ reqs'[q].pc # "ok" /\ jobs'[q] = jobs[q]
    BY <1>1, <2>5
  <2>8. \A q \in Requests : reqs'[q].kind = "receipt" =>
          \/ reqs[q].kind = "receipt" /\ reqs'[q].to = reqs[q].to
          \/ \A u \in reqs'[q].to : rolls'[u].submitted
    BY <2>2, <2>5
  <2>9. QED
    BY <2>1, <2>3, <2>5, <2>6, <2>7, <2>8 DEF RequestEffect
<1>7. QED
  BY <1>2, <1>3, <1>4, <1>5, <1>6 DEF RequestStep

LEMMA RequestKeepsStates ==
  ASSUME JobsOfAnswered, RequestEffect, NEW q \in Requests, NEW v \in Voters
  PROVE  /\ jobs'[q][v].tries = jobs[q][v].tries
         /\ \/ reqs'[q] = reqs[q] /\ jobs'[q] = jobs[q]
            \/ jobs'[q][v].tries = 0 /\ jobs'[q][v].state \in {"none", "queued"}
         /\ reqs'[q].pc # "ok" \/ v \notin reqs'[q].to => jobs'[q][v] = NoJob
         /\ reqs'[q].pc = "ok" /\ v \in reqs'[q].to => jobs'[q][v].state # "none"
<1>1. /\ NoJob.tries = 0 /\ NoJob.state = "none"
      /\ [NoJob EXCEPT !.state = "queued"].tries = 0
      /\ [NoJob EXCEPT !.state = "queued"].state = "queued"
  BY DEF NoJob
<1>2. CASE reqs[q].pc = "ok" /\ reqs'[q] = reqs[q] /\ jobs'[q] = jobs[q]
  BY <1>2 DEF JobsOfAnswered
<1>3. CASE reqs[q].pc # "ok" /\ reqs'[q].pc # "ok" /\ jobs'[q] = jobs[q]
  BY <1>1, <1>3 DEF JobsOfAnswered
<1>4. CASE /\ reqs[q].pc # "ok" /\ reqs'[q].pc = "ok"
           /\ jobs'[q] = [u \in Voters |-> IF u \in reqs'[q].to
                                          THEN [NoJob EXCEPT !.state = "queued"] ELSE NoJob]
  <2>1. jobs'[q][v] = IF v \in reqs'[q].to THEN [NoJob EXCEPT !.state = "queued"] ELSE NoJob
    BY <1>4
  <2>2. jobs[q][v] = NoJob
    BY <1>4 DEF JobsOfAnswered
  <2>3. QED
    BY <1>1, <1>4, <2>1, <2>2
<1>5. QED
  BY <1>2, <1>3, <1>4 DEF RequestEffect

LEMMA RequestKeepsJobs ==
  ASSUME EmailType, EmailType', JobsOfAnswered, JobsEnd, WorkersSent, StartsCounted,
         RequestEffect
  PROVE  JobsOfAnswered' /\ JobsEnd' /\ WorkersSent' /\ StartsCounted'
<1>1. JobsOfAnswered'
  BY RequestKeepsStates DEF JobsOfAnswered, NoJob
<1>2. JobsEnd'
  <2>1. ASSUME NEW q \in Requests, reqs'[q] = reqs[q] PROVE Tries(q)' = Tries(q)
    BY <2>1 DEF Tries
  <2>2. \A q \in Requests : Tries(q)' \in Nat \ {0}
    BY EmailAssumption DEF Tries
  <2>3. emails' = emails
    BY DEF RequestEffect
  <2>4. QED
    BY RequestKeepsStates, <2>1, <2>2, <2>3 DEF JobsEnd
<1>3. WorkersSent'
  BY DEF WorkersSent, RequestEffect
<1>4. \A q \in Requests, v \in Voters : Senders(q, v)' = Senders(q, v)
  BY DEF Senders, RequestEffect
<1>5. StartsCounted'
  BY RequestKeepsStates, <1>4 DEF StartsCounted, RequestEffect
<1>6. QED
  BY <1>1, <1>2, <1>3, <1>5

LEMMA RequestKeepsRolls ==
  ASSUME EmailType, EmailType', JobsOfAnswered, CopiesFresh, WorkersRecorded,
         RollKeptOrRaced, RequestEffect
  PROVE  CopiesFresh' /\ WorkersRecorded' /\ RollKeptOrRaced'
<1>1. ASSUME NEW w \in Workers, works[w].pc # "idle"
      PROVE  /\ works[w].req \in Requests /\ works[w].voter \in DOMAIN rolls
             /\ reqs'[works[w].req] = reqs[works[w].req]
  BY <1>1 DEF EmailType, RequestEffect
<1>2. ASSUME NEW q \in Requests, reqs'[q] = reqs[q]
      PROVE  Recorded(q)' = Recorded(q) /\ Message(q)' = Message(q)
  BY <1>2 DEF Recorded, Message
<1>3. ASSUME NEW q \in Requests, reqs'[q] = reqs[q], NEW v \in DOMAIN rolls, Told(q, v)
      PROVE  Told(q, v)'
  BY <1>2, <1>3 DEF Told, RequestEffect
<1>4. CopiesFresh'
  <2>1. ASSUME NEW w \in Workers, works'[w].pc \in {"send", "log", "record"},
               Recorded(works[w].req)
        PROVE  /\ works'[w].row \in Roll
               /\ ~works'[w].stale => works'[w].row = rolls'[works'[w].voter]
    BY <1>1, <2>1 DEF CopiesFresh, RequestEffect, HoldsRow
  <2>2. ASSUME NEW w \in Workers, works'[w].pc # "idle"
        PROVE  Recorded(works[w].req)' = Recorded(works[w].req)
    <3>1. reqs'[works'[w].req] = reqs[works[w].req]
      BY <1>1, <2>2 DEF RequestEffect
    <3>2. QED
      BY <3>1 DEF Recorded
  <2>3. QED
    BY <2>1, <2>2 DEF CopiesFresh, RequestEffect
<1>5. WorkersRecorded'
  <2>1. SUFFICES ASSUME NEW w \in Workers, works'[w].pc = "finish",
                        Recorded(works[w].req)', works'[w].voter \notin raced'
                 PROVE  Told(works[w].req, works[w].voter)'
    BY DEF WorkersRecorded
  <2>2. /\ works[w].pc = "finish" /\ works'[w].req = works[w].req
        /\ works'[w].voter = works[w].voter /\ works[w].voter \notin raced
    BY <2>1 DEF RequestEffect
  <2>3. reqs'[works[w].req] = reqs[works[w].req]
    BY <1>1, <2>2
  <2>4. Recorded(works[w].req)
    BY <2>1, <2>2, <2>3 DEF Recorded
  <2>5. Told(works[w].req, works[w].voter)
    BY <2>2, <2>4 DEF WorkersRecorded
  <2>6. \A q, v : q = works'[w].req /\ v = works'[w].voter /\ Told(q, v)' =>
          Told(works[w].req, works[w].voter)'
    BY DEF Told, Message
  <2>7. QED
    BY <1>1, <1>3, <2>2, <2>3, <2>5, <2>6
<1>6. RollKeptOrRaced'
  <2>1. ASSUME NEW q \in Requests, NEW v \in Voters, v \notin raced,
               jobs'[q][v].state = "done", Recorded(q)'
        PROVE  Told(q, v)'
    <3>1. reqs'[q] = reqs[q] /\ jobs'[q] = jobs[q]
      BY <2>1, RequestKeepsStates
    <3>2. jobs[q][v] # NoJob
      BY <2>1, <3>1 DEF NoJob
    <3>3. v \in DOMAIN rolls
      BY <3>2 DEF JobsOfAnswered, EmailType
    <3>4. QED
      BY <1>2, <1>3, <2>1, <3>1, <3>3 DEF RollKeptOrRaced, Told
  <2>2. ASSUME NEW q \in Requests, reqs'[q].kind = "receipt",
               NEW v \in reqs'[q].to, v \notin raced
        PROVE  rolls'[v].submitted
    <3>1. CASE reqs[q].kind = "receipt" /\ reqs'[q].to = reqs[q].to
      <4>1. v \in DOMAIN rolls /\ rolls[v].submitted
        BY <2>2, <3>1 DEF EmailType, RollKeptOrRaced
      <4>2. QED
        BY <4>1 DEF RequestEffect
    <3>2. QED
      BY <2>2, <3>1 DEF RequestEffect
  <2>3. raced' = raced
    BY DEF RequestEffect
  <2>4. QED
    BY <2>1, <2>2, <2>3 DEF RollKeptOrRaced, Told
<1>7. QED
  BY <1>4, <1>5, <1>6

-----------------------------------------------------------------------------
(* What the other steps do to jobs and emails.                             *)

LEMMA JobStep ==
  ASSUME EmailType, JobsOfAnswered, JobsEnd,
         NEW r \in Requests, NEW v \in Voters, NEW job \in Job,
         jobs' = [jobs EXCEPT ![r][v] = job], reqs' = reqs, emails' = emails,
         jobs[r][v].state # "none", job.state # "none",
         job.state = "queued" => job.tries < Tries(r),
         job.tries <= Tries(r),
         job.state = "dead" => job.tries = Tries(r),
         job.state = "done" => emails[r][v] > 0
  PROVE  JobsOfAnswered' /\ JobsEnd'
<1>1. /\ jobs'[r][v] = job
      /\ \A q \in Requests, u \in Voters : q # r \/ u # v => jobs'[q][u] = jobs[q][u]
  BY DEF EmailType
<1>2. reqs[r].pc = "ok" /\ v \in reqs[r].to
  BY DEF JobsOfAnswered, NoJob
<1>3. \A q \in Requests : Tries(q)' = Tries(q)
  BY DEF Tries
<1>4. JobsOfAnswered'
  BY <1>1, <1>2 DEF JobsOfAnswered
<1>5. JobsEnd'
  BY <1>1, <1>3 DEF JobsEnd
<1>6. QED
  BY <1>4, <1>5

LEMMA SameJobs ==
  ASSUME EmailType, JobsOfAnswered, JobsEnd, UNCHANGED <<jobs, reqs>>,
         \A q \in Requests, u \in Voters : emails[q][u] > 0 => emails'[q][u] > 0
  PROVE  JobsOfAnswered' /\ JobsEnd'
<1>1. \A q \in Requests : Tries(q)' = Tries(q)
  BY DEF Tries
<1>2. QED
  BY <1>1 DEF JobsOfAnswered, JobsEnd

LEMMA ErrorStep ==
  ASSUME EmailType, JobsOfAnswered, JobsEnd, NEW r \in Requests, NEW v \in Voters,
         jobs[r][v].state # "none",
         jobs' = [jobs EXCEPT ![r][v] = AfterError(r, @)], UNCHANGED <<reqs, emails>>
  PROVE  JobsOfAnswered' /\ JobsEnd' /\ jobs'[r][v].tries = jobs[r][v].tries
<1> DEFINE job == AfterError(r, jobs[r][v])
<1>1. jobs[r][v] \in Job /\ jobs' = [jobs EXCEPT ![r][v] = job]
  BY DEF EmailType
<1>2. Tries(r) \in Nat /\ jobs[r][v].tries \in Nat
  BY <1>1, TriesType DEF Job
<1>3. /\ job \in Job /\ job.tries = jobs[r][v].tries
      /\ job.state = IF jobs[r][v].state # "active" THEN jobs[r][v].state
                     ELSE IF job.tries < Tries(r) THEN "queued" ELSE "dead"
  BY <1>1, AfterErrorType
<1> HIDE DEF job
<1>4. /\ job.state # "none" /\ job.tries <= Tries(r)
      /\ job.state = "queued" => job.tries < Tries(r)
      /\ job.state = "dead" => job.tries = Tries(r)
      /\ job.state = "done" => emails[r][v] > 0
  BY <1>2, <1>3 DEF JobsEnd
<1>5. jobs'[r][v] = job
  BY <1>1 DEF EmailType
<1>6. QED
  BY <1>1, <1>3, <1>4, <1>5, JobStep

LEMMA WorkerJob ==
  ASSUME EmailType, JobsOfAnswered, NEW w \in Workers, works[w].pc # "idle"
  PROVE  /\ works[w].req \in Requests /\ works[w].voter \in Voters
         /\ works[w].voter \in DOMAIN rolls
         /\ jobs[works[w].req][works[w].voter] \in Job
         /\ jobs[works[w].req][works[w].voter].state # "none"
BY DEF EmailType, JobsOfAnswered

LEMMA OtherKeepsJobs ==
  ASSUME EmailType, EmailType', JobsOfAnswered, JobsEnd, WorkersSent,
         \/ \E w \in Workers : WorkerStep(w)
         \/ \E r \in Requests, v \in Voters :
              Expire(r, v) \/ \E n \in 1..(BatchTries + ReceiptTries) : Notify(r, v, n)
         \/ UNCHANGED emailVars
  PROVE  JobsOfAnswered' /\ JobsEnd'
<1>1. ASSUME NEW w \in Workers, ReadRow(w) \/ LogSent(w) \/ Record(w) \/ Crash(w)
      PROVE  JobsOfAnswered' /\ JobsEnd'
  BY <1>1, SameJobs DEF ReadRow, LogSent, Record, Crash
<1>2. ASSUME NEW w \in Workers, SendEmail(w) PROVE JobsOfAnswered' /\ JobsEnd'
  <2>1. \A q \in Requests, u \in Voters : emails[q][u] > 0 => emails'[q][u] > 0
    BY <1>2 DEF SendEmail, EmailType
  <2>2. QED
    BY <1>2, <2>1, SameJobs DEF SendEmail
<1>3. ASSUME NEW w \in Workers, Finish(w) PROVE JobsOfAnswered' /\ JobsEnd'
  <2> DEFINE r == works[w].req
             v == works[w].voter
             job == [jobs[r][v] EXCEPT !.state = IF @ = "active" THEN "done" ELSE @]
  <2>1. /\ r \in Requests /\ v \in Voters /\ jobs[r][v] \in Job /\ jobs[r][v].state # "none"
        /\ emails[r][v] > 0
    BY <1>3, WorkerJob DEF Finish, WorkersSent
  <2>2. /\ job \in Job /\ job.tries = jobs[r][v].tries
        /\ job.state = IF jobs[r][v].state = "active" THEN "done" ELSE jobs[r][v].state
    BY <2>1 DEF Job
  <2>3. jobs' = [jobs EXCEPT ![r][v] = job] /\ UNCHANGED <<reqs, emails>>
    BY <1>3 DEF Finish
  <2> HIDE DEF r, v, job
  <2>4. /\ job.state # "none" /\ job.tries <= Tries(r)
        /\ job.state = "queued" => job.tries < Tries(r)
        /\ job.state = "dead" => job.tries = Tries(r)
    BY <2>1, <2>2 DEF JobsEnd
  <2>5. QED
    BY <2>1, <2>2, <2>3, <2>4, JobStep
<1>4. ASSUME NEW w \in Workers, FailWork(w) PROVE JobsOfAnswered' /\ JobsEnd'
  BY <1>4, WorkerJob, ErrorStep DEF FailWork
<1>5. ASSUME NEW r \in Requests, NEW v \in Voters, Expire(r, v)
      PROVE  JobsOfAnswered' /\ JobsEnd'
  BY <1>5, ErrorStep DEF Expire
<1>6. ASSUME NEW w \in Workers, NEW r \in Requests, NEW v \in Voters, Take(w, r, v)
      PROVE  JobsOfAnswered' /\ JobsEnd'
  <2> DEFINE job == [state |-> "active", tries |-> jobs[r][v].tries + 1]
  <2>1. jobs[r][v].state = "queued" /\ jobs[r][v].tries \in Nat /\ Tries(r) \in Nat
    BY <1>6, TriesType DEF Take, EmailType, Job
  <2>2. /\ job \in Job /\ job.state = "active" /\ job.tries <= Tries(r)
        /\ jobs' = [jobs EXCEPT ![r][v] = job]
    BY <1>6, <2>1 DEF Take, Job, JobsEnd
  <2>3. job.state \notin {"none", "queued", "dead", "done"} /\ UNCHANGED <<reqs, emails>>
    BY <1>6, <2>2 DEF Take
  <2> HIDE DEF job
  <2>4. QED
    BY <2>1, <2>2, <2>3, JobStep
<1>7. ASSUME NEW r \in Requests, NEW v \in Voters, NEW n, Notify(r, v, n)
      PROVE  JobsOfAnswered' /\ JobsEnd'
  BY <1>7, SameJobs DEF Notify
<1>8. ASSUME UNCHANGED emailVars PROVE JobsOfAnswered' /\ JobsEnd'
  BY <1>8, SameJobs DEF emailVars
<1>9. QED
  BY <1>1, <1>2, <1>3, <1>4, <1>5, <1>6, <1>7, <1>8 DEF WorkerStep, Work

LEMMA OtherKeepsSent ==
  ASSUME EmailType, EmailType', WorkersSent,
         \/ \E w \in Workers : WorkerStep(w)
         \/ \E r \in Requests, v \in Voters :
              Expire(r, v) \/ \E n \in 1..(BatchTries + ReceiptTries) : Notify(r, v, n)
         \/ UNCHANGED emailVars
  PROVE  WorkersSent'
<1>1. ASSUME NEW w \in Workers, SendEmail(w) PROVE WorkersSent'
  <2>1. /\ works[w].req \in Requests /\ works[w].voter \in Voters
        /\ emails \in [Requests -> [Voters -> Nat]]
    BY <1>1 DEF SendEmail, EmailType
  <2>2. /\ \A q \in Requests, u \in Voters : emails[q][u] > 0 => emails'[q][u] > 0
        /\ emails'[works[w].req][works[w].voter] > 0
    BY <1>1, <2>1 DEF SendEmail
  <2>3. /\ works'[w].req = works[w].req /\ works'[w].voter = works[w].voter
        /\ \A u \in Workers : u # w => works'[u] = works[u]
    BY <1>1 DEF SendEmail, EmailType, WorkRecord
  <2>4. QED
    BY <2>2, <2>3 DEF WorkersSent, EmailType
<1>2. ASSUME NEW w \in Workers, ReadRow(w) \/ LogSent(w) PROVE WorkersSent'
  <2>1. works[w] \in WorkRecord /\ emails' = emails
    BY <1>2 DEF ReadRow, LogSent, EmailType
  <2>2. /\ works'[w].req = works[w].req /\ works'[w].voter = works[w].voter
        /\ works'[w].pc = "send" \/ works[w].pc = "log"
        /\ \A u \in Workers : u # w => works'[u] = works[u]
    BY <1>2, <2>1 DEF ReadRow, LogSent, EmailType, WorkRecord
  <2>3. QED
    BY <2>1, <2>2 DEF WorkersSent
<1>3. ASSUME NEW w \in Workers, Record(w) PROVE WorkersSent'
  <2>1. /\ emails' = emails /\ works[w].pc = "record"
        /\ \A u \in Workers : works'[u].req = works[u].req /\ works'[u].voter = works[u].voter
        /\ \A u \in Workers : u # w => works'[u].pc = works[u].pc
    BY <1>3, OutdateType DEF Record, EmailType, WorkRecord
  <2>2. QED
    BY <2>1 DEF WorkersSent
<1>4. ASSUME NEW w \in Workers, Finish(w) \/ FailWork(w) \/ Crash(w) PROVE WorkersSent'
  <2>1. works' = [works EXCEPT ![w] = Idle] /\ emails' = emails
    BY <1>4 DEF Finish, FailWork, Crash
  <2>2. works'[w].pc = "idle" /\ \A u \in Workers : u # w => works'[u] = works[u]
    BY <2>1 DEF Idle, EmailType
  <2>3. QED
    BY <2>1, <2>2 DEF WorkersSent
<1>5. ASSUME NEW w \in Workers, NEW r \in Requests, NEW v \in Voters, Take(w, r, v)
      PROVE  WorkersSent'
  BY <1>5 DEF Take, WorkersSent, EmailType, Idle
<1>6. ASSUME NEW r \in Requests, NEW v \in Voters,
             Expire(r, v) \/ \E n \in 1..(BatchTries + ReceiptTries) : Notify(r, v, n)
      PROVE  WorkersSent'
  BY <1>6 DEF Expire, Notify, WorkersSent
<1>7. ASSUME UNCHANGED emailVars PROVE WorkersSent'
  BY <1>7 DEF emailVars, WorkersSent
<1>8. QED
  BY <1>1, <1>2, <1>3, <1>4, <1>5, <1>6, <1>7 DEF WorkerStep, Work

LEMMA SendersFinite ==
  ASSUME NEW r, NEW v
  PROVE  IsFiniteSet(Senders(r, v)) /\ Cardinality(Senders(r, v)) \in Nat
<1>1. Senders(r, v) \subseteq Workers
  BY DEF Senders
<1>2. QED
  BY <1>1, EmailAssumption, FS_Subset, FS_CardinalityType

\* No further sender, no further email.
LEMMA FewerSenders ==
  ASSUME EmailType, StartsCounted, emails' = emails,
         \A w \in Workers : works'[w].pc \in {"read", "send"} =>
           /\ works[w].pc \in {"read", "send"}
           /\ works'[w].req = works[w].req /\ works'[w].voter = works[w].voter,
         \A r \in Requests, v \in Voters : jobs'[r][v].tries = jobs[r][v].tries
  PROVE  StartsCounted'
<1> SUFFICES ASSUME NEW r \in Requests, NEW v \in Voters
             PROVE  emails'[r][v] + Cardinality(Senders(r, v)') <= jobs'[r][v].tries
  BY DEF StartsCounted
<1>1. Senders(r, v)' \subseteq Senders(r, v)
  BY DEF Senders
<1>2. /\ Cardinality(Senders(r, v)') \in Nat
      /\ Cardinality(Senders(r, v)') <= Cardinality(Senders(r, v))
  BY <1>1, SendersFinite, FS_Subset, FS_CardinalityType
<1>3. /\ emails[r][v] \in Nat /\ Cardinality(Senders(r, v)) \in Nat /\ jobs[r][v].tries \in Nat
      /\ emails[r][v] + Cardinality(Senders(r, v)) <= jobs[r][v].tries
  BY SendersFinite DEF EmailType, Job, StartsCounted
<1>4. QED
  BY <1>2, <1>3

LEMMA SendCounted ==
  ASSUME EmailType, StartsCounted, NEW w \in Workers, SendEmail(w)
  PROVE  StartsCounted'
<1> DEFINE r == works[w].req
           v == works[w].voter
<1>1. /\ r \in Requests /\ v \in Voters /\ works[w] \in WorkRecord /\ works[w].pc = "send"
      /\ emails \in [Requests -> [Voters -> Nat]] /\ jobs' = jobs
      /\ emails' = [emails EXCEPT ![r][v] = @ + 1]
  BY DEF EmailType, SendEmail
<1>2. w \in Senders(r, v)
  BY <1>1 DEF Senders
<1>3. /\ works'[w].pc \in {"log", "finish"}
      /\ \A u \in Workers : u # w => works'[u] = works[u]
  BY <1>1 DEF SendEmail, EmailType, WorkRecord
<1> HIDE DEF r, v
<1> SUFFICES ASSUME NEW q \in Requests, NEW u \in Voters
             PROVE  emails'[q][u] + Cardinality(Senders(q, u)') <= jobs'[q][u].tries
  BY DEF StartsCounted
<1>4. Senders(q, u)' = Senders(q, u) \ {w}
  BY <1>3 DEF Senders
<1>5. Cardinality(Senders(q, u)') =
        IF w \in Senders(q, u) THEN Cardinality(Senders(q, u)) - 1 ELSE Cardinality(Senders(q, u))
  BY <1>4, SendersFinite, FS_RemoveElement
<1>6. /\ emails[q][u] \in Nat /\ Cardinality(Senders(q, u)) \in Nat /\ jobs[q][u].tries \in Nat
      /\ emails[q][u] + Cardinality(Senders(q, u)) <= jobs[q][u].tries
  BY SendersFinite DEF EmailType, Job, StartsCounted
<1>7. CASE q = r /\ u = v
  <2>1. emails'[q][u] = emails[q][u] + 1
    BY <1>1, <1>7
  <2>2. w \in Senders(q, u)
    BY <1>2, <1>7
  <2>3. QED
    BY <1>1, <1>5, <1>6, <2>1, <2>2
<1>8. CASE q # r \/ u # v
  <2>1. emails'[q][u] = emails[q][u]
    BY <1>1, <1>8
  <2>2. w \notin Senders(q, u)
    BY <1>8 DEF Senders, r, v
  <2>3. QED
    BY <1>1, <1>5, <1>6, <2>1, <2>2
<1>9. QED
  BY <1>7, <1>8

LEMMA TakeCounted ==
  ASSUME EmailType, StartsCounted,
         NEW w \in Workers, NEW r \in Requests, NEW v \in Voters, Take(w, r, v)
  PROVE  StartsCounted'
<1>1. /\ jobs' = [jobs EXCEPT ![r][v] = [state |-> "active", tries |-> @.tries + 1]]
      /\ emails' = emails /\ jobs[r][v].tries \in Nat
  BY DEF Take, EmailType, Job
<1>2. /\ works'[w].pc = "read" /\ works'[w].req = r /\ works'[w].voter = v
      /\ \A u \in Workers : u # w => works'[u] = works[u]
  BY DEF Take, EmailType, Idle
<1>3. works[w].pc = "idle"
  BY DEF Take
<1> SUFFICES ASSUME NEW q \in Requests, NEW u \in Voters
             PROVE  emails'[q][u] + Cardinality(Senders(q, u)') <= jobs'[q][u].tries
  BY DEF StartsCounted
<1>4. /\ emails[q][u] \in Nat /\ Cardinality(Senders(q, u)) \in Nat /\ jobs[q][u].tries \in Nat
      /\ emails[q][u] + Cardinality(Senders(q, u)) <= jobs[q][u].tries
  BY SendersFinite DEF EmailType, Job, StartsCounted
<1>5. CASE q = r /\ u = v
  <2>1. Senders(q, u)' = Senders(q, u) \cup {w} /\ w \notin Senders(q, u)
    BY <1>2, <1>3, <1>5 DEF Senders
  <2>2. Cardinality(Senders(q, u)') = Cardinality(Senders(q, u)) + 1
    BY <2>1, SendersFinite, FS_AddElement
  <2>3. jobs'[q][u].tries = jobs[q][u].tries + 1
    BY <1>1, <1>5 DEF EmailType
  <2>4. QED
    BY <1>1, <1>4, <2>2, <2>3
<1>6. CASE q # r \/ u # v
  <2>1. Senders(q, u)' = Senders(q, u)
    BY <1>2, <1>3, <1>6 DEF Senders
  <2>2. jobs'[q][u] = jobs[q][u]
    BY <1>1, <1>6 DEF EmailType
  <2>3. QED
    BY <1>1, <1>4, <2>1, <2>2
<1>7. QED
  BY <1>5, <1>6

LEMMA OtherKeepsCounted ==
  ASSUME EmailType, EmailType', JobsOfAnswered, JobsEnd, StartsCounted,
         \/ \E w \in Workers : WorkerStep(w)
         \/ \E r \in Requests, v \in Voters :
              Expire(r, v) \/ \E n \in 1..(BatchTries + ReceiptTries) : Notify(r, v, n)
         \/ UNCHANGED emailVars
  PROVE  StartsCounted'
<1>1. ASSUME NEW w \in Workers, ReadRow(w) \/ LogSent(w) PROVE StartsCounted'
  <2>1. works[w] \in WorkRecord /\ UNCHANGED <<jobs, emails>>
    BY <1>1 DEF ReadRow, LogSent, EmailType
  <2>2. /\ works'[w].req = works[w].req /\ works'[w].voter = works[w].voter
        /\ works[w].pc = "read" \/ works'[w].pc = "record"
        /\ \A u \in Workers : u # w => works'[u] = works[u]
    BY <1>1, <2>1 DEF ReadRow, LogSent, EmailType, WorkRecord
  <2>3. QED
    BY <2>1, <2>2, FewerSenders
<1>2. ASSUME NEW w \in Workers, Record(w) PROVE StartsCounted'
  <2>1. /\ UNCHANGED <<jobs, emails>> /\ works'[w].pc = "finish"
        /\ \A u \in Workers : works'[u].req = works[u].req /\ works'[u].voter = works[u].voter
        /\ \A u \in Workers : u # w => works'[u].pc = works[u].pc
    BY <1>2, OutdateType DEF Record, EmailType, WorkRecord
  <2>2. QED
    BY <2>1, FewerSenders
<1>3. ASSUME NEW w \in Workers, Finish(w) \/ FailWork(w) \/ Crash(w) PROVE StartsCounted'
  <2>1. works' = [works EXCEPT ![w] = Idle] /\ emails' = emails /\ works[w].pc # "idle"
    BY <1>3 DEF Finish, FailWork, Crash
  <2>2. works'[w].pc = "idle" /\ \A u \in Workers : u # w => works'[u] = works[u]
    BY <2>1 DEF Idle, EmailType
  <2> DEFINE r == works[w].req
             v == works[w].voter
  <2>3. r \in Requests /\ v \in Voters /\ jobs[r][v] \in Job
    BY <2>1, WorkerJob
  <2>4. /\ AfterError(r, jobs[r][v]).tries = jobs[r][v].tries
        /\ [jobs[r][v] EXCEPT !.state = IF @ = "active" THEN "done" ELSE @].tries = jobs[r][v].tries
    BY <2>3, AfterErrorType DEF Job
  <2>5. CASE jobs' = jobs
    BY <2>1, <2>2, <2>5, FewerSenders
  <2>6. CASE \E job : job.tries = jobs[r][v].tries /\ jobs' = [jobs EXCEPT ![r][v] = job]
    <3>1. PICK job : job.tries = jobs[r][v].tries /\ jobs' = [jobs EXCEPT ![r][v] = job]
      BY <2>6
    <3> HIDE DEF r, v
    <3>2. \A q \in Requests, u \in Voters : jobs'[q][u].tries = jobs[q][u].tries
      BY <2>3, <3>1 DEF EmailType
    <3>3. QED
      BY <2>1, <2>2, <3>2, FewerSenders
  <2>7. QED
    BY <1>3, <2>4, <2>5, <2>6 DEF Finish, FailWork, Crash
<1>4. ASSUME NEW r \in Requests, NEW v \in Voters, Expire(r, v) PROVE StartsCounted'
  <2>1. /\ jobs[r][v] \in Job /\ UNCHANGED <<works, emails>>
        /\ jobs' = [jobs EXCEPT ![r][v] = AfterError(r, jobs[r][v])]
    BY <1>4 DEF Expire, EmailType
  <2>2. AfterError(r, jobs[r][v]).tries = jobs[r][v].tries
    BY <2>1, AfterErrorType
  <2>3. \A q \in Requests, u \in Voters : jobs'[q][u].tries = jobs[q][u].tries
    BY <2>1, <2>2 DEF EmailType
  <2>4. QED
    BY <2>1, <2>3, FewerSenders
<1>5. ASSUME UNCHANGED <<works, jobs, emails>> PROVE StartsCounted'
  BY <1>5, FewerSenders
<1>6. QED
  BY <1>1, <1>2, <1>3, <1>4, <1>5, SendCounted, TakeCounted
     DEF WorkerStep, Work, Notify, emailVars

-----------------------------------------------------------------------------
(* What the other steps do to the rows of the list.                        *)

\* A step that keeps what the rows of unraced voters tell.
RollsKept ==
  \A v \in DOMAIN rolls : v \notin raced' =>
    /\ v \notin raced
    /\ rolls[v].history \subseteq rolls'[v].history
    /\ rolls[v].invited => rolls'[v].invited
    /\ rolls[v].submitted => rolls'[v].submitted

LEMMA SameRolls ==
  ASSUME UNCHANGED <<rolls, raced>>
  PROVE  RollsKept
BY DEF RollsKept

LEMMA ToldKept ==
  ASSUME RollsKept, reqs' = reqs, NEW r, NEW v \in DOMAIN rolls, v \notin raced', Told(r, v)
  PROVE  Told(r, v)' /\ v \notin raced
BY DEF RollsKept, Told, Message

LEMMA RollsStep ==
  ASSUME EmailType, EmailType', RollsKept, reqs' = reqs,
         JobsOfAnswered, RollKeptOrRaced,
         \A r \in Requests, v \in Voters :
           jobs'[r][v].state = "done" /\ Recorded(r) /\ v \notin raced' =>
             jobs[r][v].state = "done" \/ (v \in DOMAIN rolls /\ Told(r, v))
  PROVE  RollKeptOrRaced'
<1>1. \A r \in Requests : Recorded(r)' = Recorded(r) /\ Message(r)' = Message(r)
  BY DEF Recorded, Message
<1>2. ASSUME NEW r \in Requests, NEW v \in Voters, v \notin raced',
             jobs'[r][v].state = "done", Recorded(r)
      PROVE  Told(r, v)'
  <2>1. CASE jobs[r][v].state = "done"
    <3>1. jobs[r][v] # NoJob
      BY <2>1 DEF NoJob
    <3>2. v \in DOMAIN rolls
      BY <3>1 DEF JobsOfAnswered, EmailType
    <3>3. v \notin raced
      BY <1>2, <3>2 DEF RollsKept
    <3>4. Told(r, v)
      BY <1>2, <2>1, <3>3 DEF RollKeptOrRaced, Told
    <3>5. QED
      BY <1>2, <3>2, <3>4, ToldKept
  <2>2. CASE jobs[r][v].state # "done"
    <3>1. v \in DOMAIN rolls /\ Told(r, v)
      BY <1>2, <2>2
    <3>2. QED
      BY <1>2, <3>1, ToldKept
  <2>3. QED
    BY <2>1, <2>2
<1>3. ASSUME NEW r \in Requests, reqs[r].kind = "receipt", NEW v \in reqs[r].to, v \notin raced'
      PROVE  rolls'[v].submitted
  BY <1>3 DEF RollsKept, RollKeptOrRaced, EmailType
<1>4. QED
  BY <1>1, <1>2, <1>3 DEF RollKeptOrRaced, Told

LEMMA SameRollsStep ==
  ASSUME EmailType, EmailType', JobsOfAnswered, RollKeptOrRaced,
         UNCHANGED <<rolls, raced, reqs>>,
         \A r \in Requests, v \in Voters :
           jobs'[r][v].state = "done" => jobs[r][v].state = "done"
  PROVE  RollKeptOrRaced'
BY SameRolls, RollsStep

\* Rows stay as they are and worker w moves on.
LEMMA SameRollsWork ==
  ASSUME EmailType, EmailType', CopiesFresh, WorkersRecorded,
         UNCHANGED <<rolls, raced, reqs>>, NEW w \in Workers,
         \A u \in Workers : u # w => works'[u] = works[u],
         works'[w].pc # "idle" =>
           works'[w].req = works[w].req /\ works'[w].voter = works[w].voter,
         works'[w].pc \in {"log", "record"} => Recorded(works[w].req),
         works'[w].pc \in {"send", "log", "record"} /\ Recorded(works[w].req) =>
           \/ works'[w].row \in Roll /\ works'[w].row = rolls[works[w].voter]
           \/ /\ works[w].pc \in {"send", "log"}
              /\ works'[w].row = works[w].row /\ works'[w].stale = works[w].stale,
         works'[w].pc = "finish" => ~Recorded(works[w].req)
  PROVE  CopiesFresh' /\ WorkersRecorded'
<1>1. ASSUME NEW r PROVE Recorded(r)' = Recorded(r) /\ Message(r)' = Message(r)
  BY DEF Recorded, Message
<1>2. ASSUME NEW u \in Workers, works'[u].pc # "idle"
      PROVE  /\ works'[u].req = works[u].req /\ works'[u].voter = works[u].voter
             /\ Recorded(works[u].req)' = Recorded(works[u].req)
             /\ Told(works[u].req, works[u].voter)' = Told(works[u].req, works[u].voter)
  BY <1>2 DEF Recorded, Told, Message
<1>3. CopiesFresh'
  <2>1. ASSUME NEW u \in Workers, works'[u].pc # "idle"
        PROVE  /\ works'[u].pc \in {"log", "record"} => Recorded(works[u].req)
               /\ works'[u].pc \in {"send", "log", "record"} /\ Recorded(works[u].req) =>
                    /\ works'[u].row \in Roll
                    /\ ~works'[u].stale => works'[u].row = rolls'[works'[u].voter]
    <3>1. CASE u = w
      BY <1>2, <2>1, <3>1 DEF CopiesFresh
    <3>2. CASE u # w
      BY <2>1, <3>2 DEF CopiesFresh
    <3>3. QED
      BY <3>1, <3>2
  <2>2. QED
    BY <1>2, <2>1 DEF CopiesFresh
<1>4. WorkersRecorded'
  <2>1. ASSUME NEW u \in Workers, works'[u].pc = "finish", Recorded(works[u].req),
               works[u].voter \notin raced
        PROVE  Told(works[u].req, works[u].voter)
    BY <2>1 DEF WorkersRecorded
  <2>2. QED
    BY <1>2, <2>1 DEF WorkersRecorded
<1>5. QED
  BY <1>3, <1>4

LEMMA RecordKeepsRolls ==
  ASSUME EmailType, EmailType', JobsOfAnswered, CopiesFresh, WorkersRecorded,
         RollKeptOrRaced, NEW w \in Workers, Record(w)
  PROVE  CopiesFresh' /\ WorkersRecorded' /\ RollKeptOrRaced'
<1> DEFINE r == works[w].req
           v == works[w].voter
           row == WithEmail(works[w].row, r)
<1>1. /\ r \in Requests /\ v \in DOMAIN rolls /\ works[w] \in WorkRecord /\ works[w].pc = "record"
      /\ rolls' = [rolls EXCEPT ![v] = row] /\ UNCHANGED <<reqs, jobs>>
      /\ raced' = IF works[w].stale THEN raced \cup {v} ELSE raced
  BY DEF Record, EmailType
<1>2. /\ Recorded(r) /\ works[w].row \in Roll
      /\ ~works[w].stale => works[w].row = rolls[v]
  BY <1>1 DEF CopiesFresh
<1>3. /\ works[w].row.submitted = row.submitted
      /\ works[w].row.invited => row.invited
      /\ reqs[r].kind \in Invitations => row.invited
      /\ works[w].row.history \subseteq row.history /\ Message(r) \in row.history
  BY <1>1, <1>2, WithEmailType
<1>4. /\ works'[w].pc = "finish" /\ works'[w].req = r /\ works'[w].voter = v
      /\ \A u \in Workers : u # w =>
           /\ works'[u].pc = works[u].pc /\ works'[u].req = works[u].req
           /\ works'[u].voter = works[u].voter /\ works'[u].row = works[u].row
           /\ works'[u].stale = (works[u].stale \/ HoldsRow(u, v))
  BY <1>1, OutdateType DEF Record, WorkRecord
<1>5. rolls'[v] = row /\ \A u \in DOMAIN rolls : u # v => rolls'[u] = rolls[u]
  BY <1>1
<1> HIDE DEF r, v, row
<1>6. RollsKept
  <2>1. ASSUME v \notin raced' PROVE v \notin raced /\ works[w].row = rolls[v]
    BY <1>1, <1>2, <2>1
  <2>2. \A u \in DOMAIN rolls : u # v /\ u \notin raced' => u \notin raced
    BY <1>1
  <2>3. QED
    BY <1>3, <1>5, <2>1, <2>2 DEF RollsKept
<1>7. RollKeptOrRaced'
  BY <1>1, <1>6, RollsStep
<1>8. CopiesFresh'
  <2>1. ASSUME NEW u \in Workers, works'[u].pc \in {"log", "record"}
        PROVE  Recorded(works[u].req) /\ works'[u].req = works[u].req
    BY <1>4, <2>1 DEF CopiesFresh
  <2>2. ASSUME NEW u \in Workers, works'[u].pc \in {"send", "log", "record"},
               Recorded(works[u].req)
        PROVE  /\ works'[u].req = works[u].req /\ works'[u].row \in Roll
               /\ ~works'[u].stale => works'[u].row = rolls'[works'[u].voter]
    <3>1. u # w /\ works[u].pc \in {"send", "log", "record"} /\ works[u].voter \in DOMAIN rolls
      BY <1>4, <2>2 DEF EmailType
    <3>2. ASSUME ~works'[u].stale PROVE ~works[u].stale /\ works[u].voter # v
      BY <1>4, <2>2, <3>1, <3>2 DEF HoldsRow
    <3>3. QED
      BY <1>4, <1>5, <2>2, <3>1, <3>2 DEF CopiesFresh
  <2>3. \A u \in Workers : works'[u].req = works[u].req
    BY <1>4 DEF r
  <2>4. \A u \in Workers : Recorded(works[u].req)' = Recorded(works[u].req)
    BY <1>1, <2>3 DEF Recorded
  <2>5. QED
    BY <2>1, <2>2, <2>4 DEF CopiesFresh
<1>9. WorkersRecorded'
  <2>1. ASSUME NEW u \in Workers, works'[u].pc = "finish", Recorded(works[u].req),
               works[u].voter \notin raced'
        PROVE  Told(works[u].req, works[u].voter)'
    <3>1. CASE u = w
      <4>1. /\ Message(works[u].req)' = Message(r) /\ rolls'[works'[u].voter] = row
            /\ reqs'[works'[u].req] = reqs[r]
        BY <1>1, <1>4, <1>5, <3>1 DEF Message
      <4>2. QED
        BY <1>3, <4>1 DEF Told
    <3>2. CASE u # w
      <4>1. /\ works[u].pc = "finish" /\ works[u].voter \in DOMAIN rolls
            /\ works'[u].voter = works[u].voter /\ works'[u].req = works[u].req
        BY <1>4, <2>1, <3>2 DEF EmailType
      <4>2. works[u].voter \notin raced
        BY <1>6, <2>1, <4>1 DEF RollsKept
      <4>3. Told(works[u].req, works[u].voter)
        BY <2>1, <4>1, <4>2 DEF WorkersRecorded
      <4>4. QED
        BY <1>1, <1>6, <2>1, <4>1, <4>3 DEF RollsKept, Told, Message
    <3>3. QED
      BY <3>1, <3>2
  <2>2. \A u \in Workers : works'[u].req = works[u].req /\ works'[u].voter = works[u].voter
    BY <1>4 DEF r, v
  <2>3. \A u \in Workers : Recorded(works[u].req)' = Recorded(works[u].req)
    BY <1>1, <2>2 DEF Recorded
  <2>4. QED
    BY <2>1, <2>2, <2>3 DEF WorkersRecorded
<1>10. QED
  BY <1>7, <1>8, <1>9

LEMMA OtherKeepsRolls ==
  ASSUME EmailType, EmailType', JobsOfAnswered, CopiesFresh, WorkersRecorded,
         RollKeptOrRaced,
         \/ \E w \in Workers : WorkerStep(w)
         \/ \E r \in Requests, v \in Voters :
              Expire(r, v) \/ \E n \in 1..(BatchTries + ReceiptTries) : Notify(r, v, n)
         \/ UNCHANGED emailVars
  PROVE  CopiesFresh' /\ WorkersRecorded' /\ RollKeptOrRaced'
<1> DEFINE Kept == CopiesFresh' /\ WorkersRecorded' /\ RollKeptOrRaced'
<1>1. ASSUME NEW w \in Workers, ReadRow(w) PROVE Kept
  <2>1. /\ works[w] \in WorkRecord /\ works[w].pc = "read" /\ works[w].voter \in DOMAIN rolls
        /\ UNCHANGED <<rolls, raced, reqs, jobs>> /\ rolls[works[w].voter] \in Roll
    BY <1>1 DEF ReadRow, EmailType
  <2>2. /\ works'[w].req = works[w].req /\ works'[w].voter = works[w].voter
        /\ works'[w].pc = "send"
        /\ Recorded(works[w].req) => works'[w].row = rolls[works[w].voter]
        /\ \A u \in Workers : u # w => works'[u] = works[u]
    BY <1>1, <2>1 DEF ReadRow, EmailType, WorkRecord
  <2>3. CopiesFresh' /\ WorkersRecorded'
    BY <2>1, <2>2, SameRollsWork
  <2>4. QED
    BY <2>1, <2>3, SameRollsStep
<1>2. ASSUME NEW w \in Workers, SendEmail(w) \/ LogSent(w) PROVE Kept
  <2>1. /\ works[w] \in WorkRecord /\ works[w].pc \in {"send", "log"}
        /\ UNCHANGED <<rolls, raced, reqs, jobs>>
    BY <1>2 DEF SendEmail, LogSent, EmailType
  <2>2. /\ works'[w].req = works[w].req /\ works'[w].voter = works[w].voter
        /\ works'[w].row = works[w].row /\ works'[w].stale = works[w].stale
        /\ \/ works[w].pc = "log" /\ works'[w].pc = "record"
           \/ works'[w].pc = IF Recorded(works[w].req) THEN "log" ELSE "finish"
        /\ \A u \in Workers : u # w => works'[u] = works[u]
    BY <1>2, <2>1 DEF SendEmail, LogSent, EmailType, WorkRecord
  <2>3. works[w].pc = "log" => Recorded(works[w].req)
    BY DEF CopiesFresh
  <2>4. CopiesFresh' /\ WorkersRecorded'
    BY <2>1, <2>2, <2>3, SameRollsWork
  <2>5. QED
    BY <2>1, <2>4, SameRollsStep
<1>3. ASSUME NEW w \in Workers, works' = [works EXCEPT ![w] = Idle],
             UNCHANGED <<rolls, raced, reqs>>
      PROVE  CopiesFresh' /\ WorkersRecorded'
  <2>1. works'[w].pc = "idle" /\ \A u \in Workers : u # w => works'[u] = works[u]
    BY <1>3 DEF Idle, EmailType
  <2>2. QED
    BY <1>3, <2>1, SameRollsWork
<1>4. ASSUME NEW w \in Workers, Finish(w) PROVE Kept
  <2> DEFINE r == works[w].req
             v == works[w].voter
             job == [jobs[r][v] EXCEPT !.state = IF @ = "active" THEN "done" ELSE @]
  <2>1. r \in Requests /\ v \in DOMAIN rolls /\ jobs[r][v] \in Job /\ works[w].pc = "finish"
    BY <1>4, WorkerJob DEF Finish
  <2>2. jobs' = [jobs EXCEPT ![r][v] = job] /\ UNCHANGED <<rolls, raced, reqs>>
    BY <1>4 DEF Finish
  <2> HIDE DEF job
  <2>3. \A q \in Requests, u \in Voters : q # r \/ u # v => jobs'[q][u] = jobs[q][u]
    BY <2>2 DEF EmailType
  <2>4. Recorded(r) /\ v \notin raced' => Told(r, v)
    BY <2>1, <2>2 DEF WorkersRecorded
  <2>5. RollKeptOrRaced'
    BY <2>1, <2>2, <2>3, <2>4, SameRolls, RollsStep
  <2>6. QED
    BY <1>3, <1>4, <2>5 DEF Finish
<1>5. ASSUME NEW r \in Requests, NEW v \in Voters,
             jobs' = [jobs EXCEPT ![r][v] = AfterError(r, @)], UNCHANGED <<rolls, raced, reqs>>
      PROVE  RollKeptOrRaced'
  <2>1. jobs' = [jobs EXCEPT ![r][v] = AfterError(r, jobs[r][v])] /\ jobs[r][v] \in Job
    BY <1>5 DEF EmailType
  <2>2. AfterError(r, jobs[r][v]).state = "done" => jobs[r][v].state = "done"
    BY <2>1, AfterErrorType
  <2>3. \A q \in Requests, u \in Voters :
          jobs'[q][u].state = "done" => jobs[q][u].state = "done"
    BY <2>1, <2>2 DEF EmailType
  <2>4. QED
    BY <1>5, <2>3, SameRollsStep
<1>6. ASSUME NEW w \in Workers, FailWork(w) \/ Crash(w) PROVE Kept
  <2>1. works' = [works EXCEPT ![w] = Idle] /\ UNCHANGED <<rolls, raced, reqs>>
    BY <1>6 DEF FailWork, Crash
  <2>2. CASE FailWork(w)
    BY <1>3, <1>5, <2>1, <2>2, WorkerJob DEF FailWork
  <2>3. CASE Crash(w)
    BY <1>3, <2>1, <2>3, SameRollsStep DEF Crash
  <2>4. QED
    BY <1>6, <2>2, <2>3
<1>7. ASSUME NEW r \in Requests, NEW v \in Voters, Expire(r, v) PROVE Kept
  <2>1. RollKeptOrRaced'
    BY <1>5, <1>7 DEF Expire
  <2>2. CopiesFresh' /\ WorkersRecorded'
    BY <1>7 DEF Expire, CopiesFresh, WorkersRecorded, Told, Message, Recorded
  <2>3. QED
    BY <2>1, <2>2
<1>8. ASSUME NEW w \in Workers, NEW r \in Requests, NEW v \in Voters, Take(w, r, v) PROVE Kept
  <2>1. /\ works'[w].pc = "read" /\ UNCHANGED <<rolls, raced, reqs>>
        /\ \A u \in Workers : u # w => works'[u] = works[u]
    BY <1>8 DEF Take, EmailType, Idle
  <2>2. CopiesFresh' /\ WorkersRecorded'
    BY <2>1 DEF CopiesFresh, WorkersRecorded, Told, Message, Recorded
  <2>3. /\ jobs'[r][v].state = "active"
        /\ \A q \in Requests, u \in Voters : q # r \/ u # v => jobs'[q][u] = jobs[q][u]
    BY <1>8 DEF Take, EmailType
  <2>4. RollKeptOrRaced'
    BY <2>1, <2>3, SameRollsStep
  <2>5. QED
    BY <2>2, <2>4
<1>9. ASSUME UNCHANGED <<rolls, raced, reqs, jobs, works>> PROVE Kept
  <2>1. CopiesFresh' /\ WorkersRecorded'
    BY <1>9 DEF CopiesFresh, WorkersRecorded, Told, Message, Recorded
  <2>2. QED
    BY <1>9, <2>1, SameRollsStep
<1>10. QED
  BY <1>1, <1>2, <1>4, <1>6, <1>7, <1>8, <1>9, RecordKeepsRolls
     DEF WorkerStep, Work, Notify, emailVars

-----------------------------------------------------------------------------
(* The theorems.                                                           *)

EmailInv ==
  /\ kinds \subseteq AllKinds
  /\ EmailType
  /\ JobsOfAnswered /\ JobsEnd
  /\ WorkersSent /\ StartsCounted
  /\ CopiesFresh /\ WorkersRecorded /\ RollKeptOrRaced

LEMMA InitInv == Init => EmailInv
<1> SUFFICES ASSUME Init PROVE EmailInv
  OBVIOUS
<1>1. EmailType /\ kinds \subseteq AllKinds
  BY InitType, EmailAssumption DEF Init
<1>2. /\ \A w \in Workers : works[w].pc = "idle"
      /\ \A r \in Requests, v \in Voters : emails[r][v] = 0 /\ jobs[r][v] = NoJob
      /\ NoJob.state = "none" /\ NoJob.tries = 0
      /\ \A r \in Requests : reqs[r].pc = "new" /\ reqs[r].to = {}
  BY DEF Init, Idle, NewRequest, NoJob
<1>3. JobsOfAnswered
  BY <1>2 DEF JobsOfAnswered
<1>4. JobsEnd
  BY <1>2, TriesType DEF JobsEnd
<1>5. WorkersSent /\ CopiesFresh /\ WorkersRecorded
  BY <1>2 DEF WorkersSent, CopiesFresh, WorkersRecorded
<1>6. StartsCounted
  <2>1. \A r \in Requests, v \in Voters : Senders(r, v) = {}
    BY <1>2 DEF Senders
  <2>2. \A r \in Requests, v \in Voters :
          emails[r][v] = 0 /\ Cardinality(Senders(r, v)) = 0 /\ jobs[r][v].tries = 0
    BY <1>2, <2>1, FS_EmptySet
  <2>3. QED
    BY <2>2 DEF StartsCounted
<1>7. RollKeptOrRaced
  BY <1>2 DEF RollKeptOrRaced
<1>8. QED
  BY <1>1, <1>3, <1>4, <1>5, <1>6, <1>7 DEF EmailInv

LEMMA InvStep == EmailInv /\ [Next]_emailVars => EmailInv'
<1> SUFFICES ASSUME EmailInv, [Next]_emailVars PROVE EmailInv'
  OBVIOUS
<1> USE DEF EmailInv
<1>1. EmailType' /\ (kinds \subseteq AllKinds)'
  BY TypeStep
<1>2. ASSUME NEW r \in Requests, RequestStep(r) PROVE EmailInv'
  BY <1>1, <1>2, RequestEffects, RequestKeepsJobs, RequestKeepsRolls
<1>3. CASE \/ \E w \in Workers : WorkerStep(w)
           \/ \E r \in Requests, v \in Voters :
                Expire(r, v) \/ \E n \in 1..(BatchTries + ReceiptTries) : Notify(r, v, n)
           \/ UNCHANGED emailVars
  BY <1>1, <1>3, OtherKeepsJobs, OtherKeepsSent, OtherKeepsCounted, OtherKeepsRolls
<1>4. QED
  BY <1>2, <1>3 DEF Next

\* What ties requests, jobs, workers and rows together in every reachable
\* state, for any numbers of voters, requests, workers and tries.
THEOREM EmailInvariant == Spec => []EmailInv
BY InitInv, InvStep, PTL DEF Spec

\* Nobody a request was to write to is left without an email, a job, or a job
\* that has used up all its tries.
THEOREM NobodyIsSkipped == Spec => []NobodySkipped
<1>1. EmailInv => NobodySkipped
  <2> SUFFICES ASSUME EmailInv, NEW r \in Requests, reqs[r].pc = "ok", NEW v \in reqs[r].to
               PROVE  \/ emails[r][v] > 0 \/ jobs[r][v].state \in {"queued", "active"}
                      \/ jobs[r][v].state = "dead" /\ jobs[r][v].tries = Tries(r)
    BY DEF NobodySkipped
  <2>1. v \in Voters /\ jobs[r][v] \in Job
    BY DEF EmailInv, EmailType
  <2>2. jobs[r][v].state # "none" /\ jobs[r][v].state \in {"none", "queued", "active", "done", "dead"}
    BY <2>1 DEF EmailInv, JobsOfAnswered, Job
  <2>3. QED
    BY <2>1, <2>2 DEF EmailInv, JobsEnd
<1>2. QED
  BY <1>1, EmailInvariant, PTL

\* Slow workers, crashes and retries included, an email is sent at most as
\* often as its job was started.
THEOREM EmailsBounded == Spec => []EmailsWithinTries
<1>1. EmailInv => EmailsWithinTries
  <2> SUFFICES ASSUME EmailInv, NEW r \in Requests, NEW v \in Voters
               PROVE  emails[r][v] <= jobs[r][v].tries
    BY DEF EmailsWithinTries
  <2>1. /\ emails[r][v] \in Nat /\ jobs[r][v].tries \in Nat
        /\ emails[r][v] + Cardinality(Senders(r, v)) <= jobs[r][v].tries
    BY DEF EmailInv, EmailType, Job, StartsCounted
  <2>2. Cardinality(Senders(r, v)) \in Nat
    BY SendersFinite
  <2>3. QED
    BY <2>1, <2>2
<1>2. QED
  BY <1>1, EmailInvariant, PTL

\* A completed job is on the voter's row and no email undoes a vote, unless two
\* writers of that row overlapped.
THEOREM RollKept == Spec => []RollKeptOrRaced
<1>1. EmailInv => RollKeptOrRaced
  BY DEF EmailInv
<1>2. QED
  BY <1>1, EmailInvariant, PTL

-----------------------------------------------------------------------------
(* What the tables say was sent was sent.                                  *)

\* What the history of v may tell, and whether v may be marked as invited.
MessagesTo(v) == {Message(r) : r \in {q \in Emailed(v) : Recorded(q)}}

InvitationTo(v) == \E r \in Emailed(v) : reqs[r].kind \in Invitations

RowsBacked ==
  \A v \in DOMAIN rolls :
    rolls[v].history \subseteq MessagesTo(v) /\ (rolls[v].invited => InvitationTo(v))

\* So does a copy, for it will be written back.
CopiesBacked ==
  \A w \in Workers : works[w].pc \in {"send", "log", "record"} /\ Recorded(works[w].req) =>
    /\ works[w].row.history \subseteq MessagesTo(works[w].voter)
    /\ works[w].row.invited => InvitationTo(works[w].voter)

\* A worker logs an email that the provider has accepted.
LogsSent ==
  \A w \in Workers : works[w].pc = "log" =>
    works[w].n <= emails[works[w].req][works[w].voter]

EmailEvent == [id: [req: Requests, voter: Voters, n: Nat], voter: Voters,
               type: {"sent", "delivered"}, notice: Nat]

EventsBacked ==
  /\ events \subseteq EmailEvent /\ notices \in 0..MaxNotices
  /\ \A e \in events :
       /\ e.voter = e.id.voter /\ e.id.n <= emails[e.id.req][e.voter]
       /\ e.type = "delivered" => SentRows(e.id) # {}

RecordsInv == RowsBacked /\ CopiesBacked /\ LogsSent /\ EventsBacked

\* Emails are not taken back, and a request that has sent one does not change.
Growth ==
  \A r \in Requests, v \in Voters :
    /\ emails[r][v] \in Nat /\ emails'[r][v] \in Nat /\ emails[r][v] <= emails'[r][v]
    /\ emails[r][v] > 0 => reqs'[r] = reqs[r]

LEMMA EmailedAnswered ==
  ASSUME EmailInv, NEW r \in Requests, NEW v \in Voters, emails[r][v] > 0
  PROVE  reqs[r].pc = "ok"
<1>1. /\ emails[r][v] \in Nat /\ jobs[r][v].tries \in Nat
      /\ emails[r][v] + Cardinality(Senders(r, v)) <= jobs[r][v].tries
  BY DEF EmailInv, EmailType, Job, StartsCounted
<1>2. Cardinality(Senders(r, v)) \in Nat
  BY SendersFinite
<1>3. jobs[r][v].tries # NoJob.tries
  BY <1>1, <1>2 DEF NoJob
<1>4. QED
  BY <1>3 DEF EmailInv, JobsOfAnswered

LEMMA StepGrows ==
  ASSUME EmailInv, EmailInv', [Next]_emailVars
  PROVE  Growth
<1>1. /\ \A r \in Requests, v \in Voters : emails[r][v] \in Nat /\ emails'[r][v] \in Nat
      /\ emails \in [Requests -> [Voters -> Nat]]
  BY DEF EmailInv, EmailType
<1>2. ASSUME NEW r \in Requests, RequestStep(r) PROVE Growth
  <2>1. RequestEffect
    BY <1>2, RequestEffects DEF EmailInv
  <2>2. /\ \A q \in Requests : reqs[q].pc = "ok" => reqs'[q] = reqs[q]
        /\ emails' = emails
    BY <2>1 DEF RequestEffect
  <2>3. \A q \in Requests, v \in Voters : emails[q][v] > 0 => reqs'[q] = reqs[q]
    BY <2>2, EmailedAnswered
  <2>4. QED
    BY <1>1, <2>2, <2>3 DEF Growth
<1>3. ASSUME NEW w \in Workers, SendEmail(w) PROVE Growth
  <2>1. works[w].req \in Requests /\ works[w].voter \in Voters
    BY <1>3 DEF SendEmail, EmailInv, EmailType
  <2>2. QED
    BY <1>1, <1>3, <2>1 DEF SendEmail, Growth
<1>4. CASE UNCHANGED <<emails, reqs>>
  BY <1>1, <1>4 DEF Growth
<1>5. QED
  BY <1>2, <1>3, <1>4
     DEF Next, WorkerStep, Work, ReadRow, LogSent, Record, Finish, FailWork, Crash, Take,
         Expire, Notify, emailVars

LEMMA BackingGrows ==
  ASSUME Growth, NEW v \in Voters
  PROVE  /\ MessagesTo(v) \subseteq MessagesTo(v)'
         /\ InvitationTo(v) => InvitationTo(v)'
<1>1. ASSUME NEW r \in Emailed(v)
      PROVE  r \in Requests /\ r \in Emailed(v)' /\ reqs'[r] = reqs[r]
  BY <1>1 DEF Growth, Emailed
<1>2. ASSUME NEW r \in Emailed(v), Recorded(r)
      PROVE  Recorded(r)' /\ Message(r)' = Message(r)
  BY <1>1, <1>2 DEF Recorded, Message
<1>3. MessagesTo(v) \subseteq MessagesTo(v)'
  BY <1>1, <1>2 DEF MessagesTo
<1>4. QED
  BY <1>1, <1>3 DEF InvitationTo

LEMMA OutdateNumber ==
  ASSUME EmailType, NEW v, NEW w \in Workers
  PROVE  Outdate(v)[w].n = works[w].n
<1>1. works[w] \in WorkRecord
  BY DEF EmailType
<1>2. QED
  BY <1>1 DEF Outdate, WorkRecord

Copying == {"send", "log", "record"}

\* A step after which each row and each copy is as some row or copy was before,
\* or tells of emails that were sent before.
LEMMA RecordsStep ==
  ASSUME EmailInv, RecordsInv, Growth,
         \A v \in DOMAIN rolls' :
           /\ v \in DOMAIN rolls
           /\ \/ rolls'[v].history = rolls[v].history /\ rolls'[v].invited = rolls[v].invited
              \/ /\ rolls'[v].history \subseteq MessagesTo(v)
                 /\ rolls'[v].invited => InvitationTo(v),
         \A w \in Workers : works'[w].pc \in Copying =>
           /\ works[w].pc # "idle" /\ reqs'[works[w].req] = reqs[works[w].req]
           /\ works'[w].req = works[w].req /\ works'[w].voter = works[w].voter
           /\ Recorded(works[w].req) =>
                \/ works[w].pc \in Copying /\ works'[w].row = works[w].row
                \/ works'[w].row = rolls[works[w].voter]
           /\ works'[w].pc = "log" =>
                \/ works[w].pc = "log" /\ works'[w].n = works[w].n
                \/ works'[w].n <= emails'[works[w].req][works[w].voter]
  PROVE  RowsBacked' /\ CopiesBacked' /\ LogsSent'
<1>1. DOMAIN rolls \subseteq Voters
  BY DEF EmailInv, EmailType
<1>2. RowsBacked'
  <2> SUFFICES ASSUME NEW v \in DOMAIN rolls'
               PROVE  /\ rolls'[v].history \subseteq MessagesTo(v)'
                      /\ rolls'[v].invited => InvitationTo(v)'
    BY DEF RowsBacked
  <2>1. v \in DOMAIN rolls /\ v \in Voters
    BY <1>1
  <2>2. rolls'[v].history \subseteq MessagesTo(v) /\ (rolls'[v].invited => InvitationTo(v))
    BY <2>1 DEF RecordsInv, RowsBacked
  <2>3. QED
    BY <2>1, <2>2, BackingGrows
<1>3. ASSUME NEW w \in Workers, works'[w].pc \in Copying
      PROVE  works[w].req \in Requests /\ works[w].voter \in Voters /\ works[w].voter \in DOMAIN rolls
  BY <1>1, <1>3 DEF EmailInv, EmailType
<1>4. CopiesBacked'
  <2> SUFFICES ASSUME NEW w \in Workers, works'[w].pc \in Copying, Recorded(works[w].req)'
               PROVE  /\ works'[w].row.history \subseteq MessagesTo(works[w].voter)'
                      /\ works'[w].row.invited => InvitationTo(works[w].voter)'
    BY DEF CopiesBacked, Copying
  <2> DEFINE v == works[w].voter
             row == works'[w].row
  <2>1. Recorded(works[w].req) /\ works'[w].voter = v
    BY DEF Recorded
  <2>2. row.history \subseteq MessagesTo(v) /\ (row.invited => InvitationTo(v))
    BY <1>3, <2>1 DEF RecordsInv, RowsBacked, CopiesBacked, Copying
  <2>3. \A u \in Voters : /\ MessagesTo(u) \subseteq MessagesTo(u)'
                          /\ InvitationTo(u) => InvitationTo(u)'
    BY BackingGrows
  <2>4. PICK u \in Voters : u = v
    BY <1>3
  <2>5. row.history \subseteq MessagesTo(u)' /\ (row.invited => InvitationTo(u)')
    BY <2>2, <2>3, <2>4
  <2>6. works'[w].voter = u
    BY <2>1, <2>4
  <2>7. QED
    BY <2>5, <2>6 DEF MessagesTo, InvitationTo, Emailed
<1>5. LogsSent'
  <2> SUFFICES ASSUME NEW w \in Workers, works'[w].pc = "log"
               PROVE  works'[w].n <= emails'[works'[w].req][works'[w].voter]
    BY DEF LogsSent
  <2>1. /\ works'[w].req = works[w].req /\ works'[w].voter = works[w].voter
        /\ works[w].req \in Requests /\ works[w].voter \in Voters
    BY <1>3 DEF Copying
  <2>2. CASE works'[w].n <= emails'[works[w].req][works[w].voter]
    BY <2>1, <2>2
  <2>3. CASE works[w].pc = "log" /\ works'[w].n = works[w].n
    <3>1. works[w].n \in Nat
      BY DEF EmailInv, EmailType, WorkRecord
    <3>2. QED
      BY <2>1, <2>3, <3>1 DEF RecordsInv, LogsSent, Growth
  <2>4. QED
    BY <2>2, <2>3 DEF Copying
<1>6. QED
  BY <1>2, <1>4, <1>5

LEMMA RequestKeepsRecords ==
  ASSUME EmailInv, RecordsInv, Growth, NEW r \in Requests, RequestStep(r)
  PROVE  RowsBacked' /\ CopiesBacked' /\ LogsSent'
<1>1. RequestEffect
  BY RequestEffects DEF EmailInv
<1>2. ASSUME NEW w \in Workers PROVE works'[w].n = works[w].n
  BY <1>2, OutdateNumber
     DEF EmailInv, RequestStep, Ask, CommitVote, StoreNumber, Publish, FailRequest
<1>3. DOMAIN rolls' = DOMAIN rolls
  BY DEF EmailInv, EmailType, RequestStep, Ask, CommitVote, StoreNumber, Publish, FailRequest
<1>4. /\ \A v \in DOMAIN rolls :
           rolls'[v].history = rolls[v].history /\ rolls'[v].invited = rolls[v].invited
      /\ \A w \in Workers :
           /\ works'[w].pc = works[w].pc /\ works'[w].req = works[w].req
           /\ works'[w].voter = works[w].voter /\ works'[w].row = works[w].row
      /\ \A q \in Requests : reqs[q].pc = "ok" => reqs'[q] = reqs[q]
  BY <1>1 DEF RequestEffect
<1>5. ASSUME NEW w \in Workers, works'[w].pc \in Copying
      PROVE  works[w].pc # "idle" /\ reqs'[works[w].req] = reqs[works[w].req]
  BY <1>4, <1>5 DEF Copying, EmailInv, EmailType
<1>6. QED
  BY <1>2, <1>3, <1>4, <1>5, RecordsStep

LEMMA RecordKeepsRecords ==
  ASSUME EmailInv, RecordsInv, Growth, NEW w \in Workers, Record(w)
  PROVE  RowsBacked' /\ CopiesBacked' /\ LogsSent'
<1> DEFINE r == works[w].req
           v == works[w].voter
           row == works[w].row
<1>1. /\ r \in Requests /\ v \in Voters /\ v \in DOMAIN rolls
      /\ works \in [Workers -> WorkRecord] /\ works[w] \in WorkRecord
      /\ Recorded(r) /\ emails[r][v] > 0
  BY DEF Record, EmailInv, EmailType, CopiesFresh, WorkersSent
<1>2. /\ row.history \subseteq MessagesTo(v) /\ (row.invited => InvitationTo(v))
      /\ row \in Roll
  BY <1>1 DEF Record, RecordsInv, CopiesBacked, EmailInv, CopiesFresh
<1>3. r \in Emailed(v) /\ Message(r) \in MessagesTo(v)
  BY <1>1 DEF Emailed, MessagesTo
<1>4. /\ WithEmail(row, r).history = row.history \cup {Message(r)}
      /\ WithEmail(row, r).invited = (row.invited \/ reqs[r].kind \in Invitations)
  BY <1>2 DEF WithEmail, Roll
<1>5. /\ WithEmail(row, r).history \subseteq MessagesTo(v)
      /\ WithEmail(row, r).invited => InvitationTo(v)
  BY <1>2, <1>3, <1>4 DEF InvitationTo
<1>6. /\ rolls' = [rolls EXCEPT ![v] = WithEmail(row, r)]
      /\ works' = [Outdate(v) EXCEPT ![w] = [works[w] EXCEPT !.pc = "finish"]]
      /\ reqs' = reqs
  BY DEF Record
<1> HIDE DEF r, v, row
<1>7. \A u \in DOMAIN rolls' :
        /\ u \in DOMAIN rolls
        /\ u = v => rolls'[u] = WithEmail(row, r)
        /\ u # v => rolls'[u] = rolls[u]
  BY <1>1, <1>6 DEF EmailInv, EmailType
<1>8. works'[w].pc = "finish"
  BY <1>1, <1>6, OutdateType DEF EmailInv
<1>9. ASSUME NEW u \in Workers, u # w
      PROVE  /\ works'[u].pc = works[u].pc /\ works'[u].req = works[u].req
             /\ works'[u].voter = works[u].voter /\ works'[u].row = works[u].row
             /\ works'[u].n = works[u].n
  BY <1>6, <1>9, OutdateType, OutdateNumber DEF EmailInv
<1>10. ASSUME NEW u \in Workers, works'[u].pc \in Copying
       PROVE  /\ u # w /\ works[u].pc # "idle" /\ works[u].pc \in Copying
  BY <1>8, <1>9, <1>10 DEF Copying
<1>11. \A u \in DOMAIN rolls' :
         /\ u \in DOMAIN rolls
         /\ \/ rolls'[u].history = rolls[u].history /\ rolls'[u].invited = rolls[u].invited
            \/ rolls'[u].history \subseteq MessagesTo(u) /\ (rolls'[u].invited => InvitationTo(u))
  BY <1>5, <1>7
<1>12. QED
  BY <1>6, <1>9, <1>10, <1>11, RecordsStep

LEMMA OtherKeepsRecords ==
  ASSUME EmailInv, RecordsInv, Growth,
         \/ \E w \in Workers : WorkerStep(w)
         \/ \E r \in Requests, v \in Voters :
              Expire(r, v) \/ \E n \in 1..(BatchTries + ReceiptTries) : Notify(r, v, n)
         \/ UNCHANGED emailVars
  PROVE  RowsBacked' /\ CopiesBacked' /\ LogsSent'
<1> DEFINE Kept == RowsBacked' /\ CopiesBacked' /\ LogsSent'
<1>1. ASSUME NEW w \in Workers, Record(w) PROVE Kept
  BY <1>1, RecordKeepsRecords
<1>2. ASSUME NEW w \in Workers, UNCHANGED <<rolls, reqs>>,
             \A u \in Workers : u # w => works'[u] = works[u],
             works'[w].pc \in Copying =>
               /\ works[w].pc # "idle"
               /\ works'[w].req = works[w].req /\ works'[w].voter = works[w].voter
               /\ Recorded(works[w].req) =>
                    \/ works[w].pc \in Copying /\ works'[w].row = works[w].row
                    \/ works'[w].row = rolls[works[w].voter]
               /\ works'[w].pc = "log" =>
                    \/ works[w].pc = "log" /\ works'[w].n = works[w].n
                    \/ works'[w].n <= emails'[works[w].req][works[w].voter]
      PROVE  Kept
  <2>1. \A u \in Workers : u # w /\ works'[u].pc \in Copying => works[u].pc # "idle"
    BY <1>2 DEF Copying
  <2>2. QED
    BY <1>2, <2>1, RecordsStep
<1>3. ASSUME NEW w \in Workers PROVE works \in [Workers -> WorkRecord] /\ works[w] \in WorkRecord
  BY DEF EmailInv, EmailType
<1>4. ASSUME NEW w \in Workers, ReadRow(w) PROVE Kept
  <2>1. /\ works'[w].req = works[w].req /\ works'[w].voter = works[w].voter
        /\ works'[w].pc = "send" /\ works[w].pc # "idle"
        /\ Recorded(works[w].req) => works'[w].row = rolls[works[w].voter]
        /\ \A u \in Workers : u # w => works'[u] = works[u]
        /\ UNCHANGED <<rolls, reqs>>
    BY <1>3, <1>4 DEF ReadRow, WorkRecord
  <2>2. QED
    BY <1>2, <2>1
<1>5. ASSUME NEW w \in Workers, SendEmail(w) PROVE Kept
  <2>1. /\ works'[w].req = works[w].req /\ works'[w].voter = works[w].voter
        /\ works'[w].row = works[w].row /\ works[w].pc = "send"
        /\ works'[w].n = emails'[works[w].req][works[w].voter]
        /\ \A u \in Workers : u # w => works'[u] = works[u]
        /\ UNCHANGED <<rolls, reqs>>
    BY <1>3, <1>5 DEF SendEmail, WorkRecord
  <2>2. works[w].req \in Requests /\ works[w].voter \in Voters
    BY <1>5 DEF SendEmail, EmailInv, EmailType
  <2>3. works'[w].n <= emails'[works[w].req][works[w].voter]
    BY <2>1, <2>2 DEF Growth
  <2>4. QED
    BY <1>2, <2>1, <2>3 DEF Copying
<1>6. ASSUME NEW w \in Workers, LogSent(w) PROVE Kept
  <2>1. /\ works'[w].req = works[w].req /\ works'[w].voter = works[w].voter
        /\ works'[w].row = works[w].row /\ works[w].pc = "log" /\ works'[w].pc = "record"
        /\ \A u \in Workers : u # w => works'[u] = works[u]
        /\ UNCHANGED <<rolls, reqs>>
    BY <1>3, <1>6 DEF LogSent, WorkRecord
  <2>2. QED
    BY <1>2, <2>1 DEF Copying
<1>7. ASSUME NEW w \in Workers,
             \/ Finish(w) \/ FailWork(w) \/ Crash(w)
             \/ \E r \in Requests, v \in Voters : Take(w, r, v)
      PROVE  Kept
  <2>1. PICK rec : works' = [works EXCEPT ![w] = rec] /\ rec.pc \in {"idle", "read"}
    <3>1. CASE Finish(w) \/ FailWork(w) \/ Crash(w)
      <4>1. works' = [works EXCEPT ![w] = Idle]
        BY <3>1 DEF Finish, FailWork, Crash
      <4>2. Idle.pc = "idle"
        BY DEF Idle
      <4>3. QED
        BY <4>1, <4>2
    <3>2. ASSUME NEW r \in Requests, NEW v \in Voters, Take(w, r, v)
          PROVE  /\ works' = [works EXCEPT ![w] = [Idle EXCEPT !.pc = "read", !.req = r, !.voter = v]]
                 /\ [Idle EXCEPT !.pc = "read", !.req = r, !.voter = v].pc = "read"
      BY <3>2 DEF Take, Idle
    <3>3. QED
      BY <1>7, <3>1, <3>2
  <2>2. UNCHANGED <<rolls, reqs>>
    BY <1>7 DEF Finish, FailWork, Crash, Take
  <2>3. /\ works'[w].pc \in {"idle", "read"}
        /\ \A u \in Workers : u # w => works'[u] = works[u]
    BY <1>3, <2>1
  <2>4. QED
    BY <1>2, <2>2, <2>3 DEF Copying
<1>8. ASSUME UNCHANGED <<rolls, reqs, works>> PROVE Kept
  BY <1>8, RecordsStep DEF Copying
<1>9. QED
  BY <1>1, <1>4, <1>5, <1>6, <1>7, <1>8 DEF WorkerStep, Work, Expire, Notify, emailVars

LEMMA StepKeepsEvents ==
  ASSUME EmailInv, RecordsInv, Growth, [Next]_emailVars
  PROVE  EventsBacked'
<1>1. ASSUME NEW e \in events
      PROVE  /\ e \in EmailEvent /\ e.voter = e.id.voter
             /\ e.id.n <= emails'[e.id.req][e.voter]
             /\ events \subseteq events' =>
                  (e.type = "delivered" => SentRows(e.id)' # {})
  <2>1. e \in EmailEvent /\ e.id.n <= emails[e.id.req][e.voter]
    BY DEF RecordsInv, EventsBacked
  <2>2. e.id.n <= emails'[e.id.req][e.voter]
    BY <2>1 DEF Growth, EmailEvent
  <2>3. QED
    BY <2>1, <2>2 DEF RecordsInv, EventsBacked, SentRows
<1>2. notices \in 0..MaxNotices /\ MaxNotices \in Nat
  BY EmailAssumption DEF RecordsInv, EventsBacked
<1>3. CASE UNCHANGED <<events, notices>>
  BY <1>1, <1>2, <1>3 DEF EventsBacked
<1>4. ASSUME NEW w \in Workers, LogSent(w), events' # events PROVE EventsBacked'
  <2> DEFINE e == [id |-> EmailId(works[w].req, works[w].voter, works[w].n),
                   voter |-> works[w].voter, type |-> "sent", notice |-> 0]
  <2>1. /\ works[w].req \in Requests /\ works[w].voter \in Voters /\ works[w].n \in Nat
        /\ works[w].n <= emails[works[w].req][works[w].voter]
    BY <1>4 DEF LogSent, EmailInv, EmailType, WorkRecord, RecordsInv, LogsSent
  <2>2. /\ e \in EmailEvent /\ e.voter = e.id.voter /\ e.type = "sent"
        /\ e.id.n <= emails[e.id.req][e.voter]
    BY <2>1 DEF EmailEvent, EmailId
  <2>3. events' = events \cup {e} /\ emails' = emails /\ notices' = notices
    BY <1>4 DEF LogSent
  <2> HIDE DEF e
  <2>4. QED
    BY <1>1, <1>2, <2>2, <2>3 DEF EventsBacked
<1>5. ASSUME NEW r \in Requests, NEW v \in Voters, NEW n, Notify(r, v, n),
             ~UNCHANGED <<events, notices>>
      PROVE  EventsBacked'
  <2>1. PICK sent \in SentRows(EmailId(r, v, n)) :
          events' = events \cup {[sent EXCEPT !.type = "delivered", !.notice = notices']}
    BY <1>5 DEF Notify
  <2> DEFINE e == [sent EXCEPT !.type = "delivered", !.notice = notices']
  <2>2. notices' = notices + 1 /\ notices < MaxNotices
    BY <1>5 DEF Notify
  <2>3. notices' \in 0..MaxNotices /\ notices' \in Nat
    BY <1>2, <2>2
  <2>4. /\ sent \in events /\ sent \in EmailEvent /\ sent.type = "sent"
        /\ sent.voter = sent.id.voter /\ sent.id.n <= emails'[sent.id.req][sent.voter]
    BY <1>1 DEF SentRows
  <2>5. /\ e \in EmailEvent /\ e.id = sent.id /\ e.voter = sent.voter
    BY <2>3, <2>4 DEF EmailEvent
  <2>6. sent \in SentRows(sent.id)'
    BY <2>1, <2>4 DEF SentRows
  <2>7. events' = events \cup {e}
    BY <2>1
  <2> HIDE DEF e
  <2>8. /\ e.voter = e.id.voter /\ e.id.n <= emails'[e.id.req][e.voter]
    BY <2>4, <2>5
  <2>9. ASSUME NEW x \in events'
        PROVE  /\ x \in EmailEvent /\ x.voter = x.id.voter
               /\ x.id.n <= emails'[x.id.req][x.voter]
               /\ x.type = "delivered" => SentRows(x.id)' # {}
    <3>1. CASE x \in events
      BY <1>1, <2>7, <3>1
    <3>2. CASE x = e
      BY <2>5, <2>6, <2>8, <3>2
    <3>3. QED
      BY <2>7, <3>1, <3>2
  <2>10. QED
    BY <2>3, <2>9 DEF EventsBacked
<1>6. ASSUME NEW r \in Requests, RequestStep(r) PROVE EventsBacked'
  BY <1>3, <1>6 DEF RequestStep, Ask, CommitVote, StoreNumber, Publish, FailRequest
<1>7. ASSUME NEW w \in Workers, WorkerStep(w) PROVE EventsBacked'
  <2>1. CASE LogSent(w)
    BY <1>3, <1>4, <2>1 DEF LogSent
  <2>2. CASE ~LogSent(w)
    BY <1>3, <1>7, <2>2
       DEF WorkerStep, Work, Take, ReadRow, SendEmail, Record, Finish, FailWork, Crash
  <2>3. QED
    BY <2>1, <2>2
<1>8. ASSUME NEW r \in Requests, NEW v \in Voters,
             Expire(r, v) \/ \E n \in 1..(BatchTries + ReceiptTries) : Notify(r, v, n)
      PROVE  EventsBacked'
  <2>1. CASE Expire(r, v)
    BY <1>3, <2>1 DEF Expire
  <2>2. ASSUME NEW n, Notify(r, v, n) PROVE EventsBacked'
    BY <1>3, <1>5, <2>2
  <2>3. QED
    BY <1>8, <2>1, <2>2
<1>9. QED
  BY <1>3, <1>6, <1>7, <1>8 DEF Next, emailVars

\* What keeps the tables true: also the copies of rows that workers hold are.
THEOREM RecordsInvariant == Spec => []RecordsInv
<1>1. Init => RecordsInv
  <2> SUFFICES ASSUME Init PROVE RecordsInv
    OBVIOUS
  <2>1. RowsBacked
    BY DEF Init, RowsBacked
  <2>2. CopiesBacked /\ LogsSent
    BY DEF Init, Idle, CopiesBacked, LogsSent
  <2>3. EventsBacked
    BY EmailAssumption DEF Init, EventsBacked
  <2>4. QED
    BY <2>1, <2>2, <2>3 DEF RecordsInv
<1>2. EmailInv /\ EmailInv' /\ RecordsInv /\ [Next]_emailVars => RecordsInv'
  <2> SUFFICES ASSUME EmailInv, EmailInv', RecordsInv, [Next]_emailVars PROVE RecordsInv'
    OBVIOUS
  <2>1. Growth
    BY StepGrows
  <2>2. EventsBacked'
    BY <2>1, StepKeepsEvents
  <2>3. RowsBacked' /\ CopiesBacked' /\ LogsSent'
    BY <2>1, RequestKeepsRecords, OtherKeepsRecords DEF Next
  <2>4. QED
    BY <2>2, <2>3 DEF RecordsInv
<1>3. QED
  BY <1>1, <1>2, EmailInvariant, PTL DEF Spec

\* Whatever failed, expired, was repeated or written back late, the history and
\* the invited mark of a voter and the rows of email events tell of emails the
\* provider accepted, and a delivered row has a sent one behind it.
THEOREM RecordsAreTrue == Spec => []RecordsTrue
<1>1. EmailInv /\ RecordsInv => RecordsTrue
  BY DEF RecordsInv, RowsBacked, EventsBacked, MessagesTo, InvitationTo, RecordsTrue
<1>2. QED
  BY <1>1, EmailInvariant, RecordsInvariant, PTL

\* Every reachable state is well typed.
THEOREM EmailTypeCorrect == Spec => []TypeOK
<1>1. EmailInv /\ RecordsInv => TypeOK
  <2> SUFFICES ASSUME EmailInv, RecordsInv PROVE TypeOK
    OBVIOUS
  <2>1. ASSUME NEW v \in DOMAIN rolls
        PROVE  rolls[v].submitted \in BOOLEAN /\ rolls[v].invited \in BOOLEAN
    BY DEF EmailInv, EmailType, Roll
  <2>2. ASSUME NEW r \in Requests
        PROVE  /\ reqs[r].pc \in {"new", "number", "publish", "ok", "error"}
               /\ reqs[r].kind \in AllKinds \cup {None} /\ reqs[r].to \subseteq Voters
    BY DEF EmailInv, EmailType, Request
  <2>3. ASSUME NEW r \in Requests, NEW v \in Voters
        PROVE  /\ jobs[r][v].state \in {"none", "queued", "active", "done", "dead"}
               /\ jobs[r][v].tries \in 0..Tries(r)
    BY TriesType DEF EmailInv, EmailType, Job, JobsEnd
  <2>4. ASSUME NEW w \in Workers
        PROVE  works[w].pc \in {"idle", "read", "send", "log", "record", "finish"}
    BY DEF EmailInv, EmailType, WorkRecord
  <2>5. QED
    BY <2>1, <2>2, <2>3, <2>4 DEF TypeOK, EmailInv, EmailType, RecordsInv, EventsBacked
<1>2. QED
  BY <1>1, EmailInvariant, RecordsInvariant, PTL

=============================================================================
