---------------------------- MODULE PartsProofs ----------------------------
(* Theorems about the job of the repository, the owners of elections, the    *)
(* numbers of the landing page, the lists of elections and the voting page,  *)
(* which share no state with each other.                                     *)
EXTENDS IssueBot, Accounts, Statistics, Listings, BallotPage, SetFacts, TLAPS
-----------------------------------------------------------------------------
(* IssueBot.                                                                 *)
Comments == {"human", "warning"}
Labels ==
  {"Complexity: Missing", "Complexity: 1", "good first issue", "Role: Missing",
   "Role: Frontend", "2 weeks inactive", "To Update !"}
Issue ==
  [open : BOOLEAN, assigned : BOOLEAN, labels : SUBSET Labels, age : Nat,
   comments : Seq(Comments)]
Working == {"audit", "board", "status", "stale"}

TypeOK ==
  /\ dryRun \in BOOLEAN
  /\ issue \in [Issues -> Issue]
  /\ card \in [Issues -> Statuses]
  /\ run \in [phase : {"idle", "due", "list"} \cup Working, todo : SUBSET Issues,
              listing : [Issues -> Issue] \cup {<<>>}, board : BOOLEAN,
              at : Issues \cup {"none"}, status : Statuses]
  /\ run.phase \in Working => run.listing \in [Issues -> Issue]
  /\ touched \subseteq Issues /\ failed \subseteq Issues

(* Facts about sequences and minima. *)
LEMMA AppendRange ==
  ASSUME NEW S, NEW s \in Seq(S), NEW e \in S
  PROVE  Append(s, e) \in Seq(S) /\ Range(Append(s, e)) = Range(s) \cup {e}
<1>1. /\ Append(s, e) \in Seq(S) /\ DOMAIN s = 1..Len(s) /\ Len(s) \in Nat
      /\ DOMAIN Append(s, e) = 1..(Len(s) + 1)
      /\ \A i \in 1..Len(s) : Append(s, e)[i] = s[i]
      /\ Append(s, e)[Len(s) + 1] = e
  OBVIOUS
<1>2. 1..(Len(s) + 1) = 1..Len(s) \cup {Len(s) + 1}
  BY <1>1
<1>3. QED
  BY <1>1, <1>2 DEF Range

LEMMA PrefixRange ==
  ASSUME NEW S, NEW s \in Seq(S), NEW n \in 0..Len(s)
  PROVE  Range(SubSeq(s, 1, n)) \subseteq Range(s)
BY DEF Range

LEMMA MinOfTwo ==
  ASSUME NEW a \in Int, NEW b \in Int
  PROVE  Min({a, b}) \in {a, b} /\ Min({a, b}) <= a /\ Min({a, b}) <= b
<1>1. \E x \in {a, b} : \A y \in {a, b} : x <= y
  <2>1. CASE a <= b
    BY <2>1
  <2>2. CASE b <= a
    BY <2>2
  <2>3. QED
    BY <2>1, <2>2
<1>2. QED
  BY <1>1 DEF Min

LEMMA IssueFields ==
  ASSUME NEW x \in Issue
  PROVE  /\ x.age \in Nat /\ x.labels \in SUBSET Labels
         /\ x.comments \in Seq(Comments)
         /\ [x EXCEPT !.age = 0] \in Issue
         /\ \A labels \in SUBSET Labels : [x EXCEPT !.labels = labels] \in Issue
         /\ \A comments \in Seq(Comments) : [x EXCEPT !.comments = comments] \in Issue
         /\ \A yes \in BOOLEAN : [x EXCEPT !.assigned = yes, !.age = 0] \in Issue
         /\ [x EXCEPT !.open = FALSE] \in Issue
         /\ \A age \in Nat : [x EXCEPT !.age = age] \in Issue
BY DEF Issue

LEMMA YoungType ==
  ASSUME TypeOK, NEW i \in Issues
  PROVE  /\ Young(i) \in [Issues -> Issue]
         /\ Young(i) = [issue EXCEPT ![i] = [issue[i] EXCEPT !.age = 0]]
         /\ Young(i)[i] = [issue[i] EXCEPT !.age = 0]
<1>1. issue \in [Issues -> Issue] /\ issue[i] \in Issue
  BY DEF TypeOK
<1>2. Young(i) = [issue EXCEPT ![i] = [issue[i] EXCEPT !.age = 0]]
  BY <1>1 DEF Young, Issue
<1>3. QED
  BY <1>1, <1>2, IssueFields

(* What adding labels does, if it does anything. *)
LEMMA AddLabelsStep ==
  ASSUME TypeOK, NEW i \in Issues, NEW labels, AddLabels(i, labels)
  PROVE  \/ issue' = issue
         \/ ~dryRun /\ \E added \in SUBSET labels :
              issue' = [issue EXCEPT ![i] = [issue[i] EXCEPT !.age = 0,
                                                  !.labels = issue[i].labels \cup added]]
<1>1. PICK added : /\ added \in IF dryRun THEN {{}} ELSE SUBSET labels
                   /\ issue' = IF added = {} THEN issue
                               ELSE [Young(i) EXCEPT ![i].labels = @ \cup added]
  BY DEF AddLabels
<1>2. CASE added = {}
  BY <1>1, <1>2
<1>3. CASE added # {}
  <2>1. ~dryRun /\ added \in SUBSET labels
    BY <1>1, <1>3
  <2>2. issue \in [Issues -> Issue] /\ issue[i] \in Issue
    BY DEF TypeOK
  <2> DEFINE young == [issue[i] EXCEPT !.age = 0]
  <2>3. young.labels = issue[i].labels
    BY <2>2 DEF Issue
  <2>4. issue' = [Young(i) EXCEPT ![i].labels = @ \cup added]
    BY <1>1, <1>3
  <2>5. issue' = [issue EXCEPT ![i] = [young EXCEPT !.labels = issue[i].labels \cup added]]
    BY <2>2, <2>3, <2>4, YoungType
  <2>6. QED
    BY <2>1, <2>5
<1>4. QED
  BY <1>2, <1>3

LEMMA WarnStep ==
  ASSUME TypeOK, NEW i \in Issues, Warn(i)
  PROVE  /\ issue' \in [Issues -> Issue] /\ failed' = failed
         /\ \/ issue' = issue /\ (HasWarning(i) \/ dryRun)
            \/ issue' = [issue EXCEPT ![i] =
                 [issue[i] EXCEPT !.age = 0, !.comments = Append(issue[i].comments, "warning"),
                                  !.labels = issue[i].labels \cup {"To Update !"}]]
<1>1. issue \in [Issues -> Issue] /\ issue[i] \in Issue
  BY DEF TypeOK
<1>2. CASE HasWarning(i) \/ dryRun
  BY <1>1, <1>2 DEF Warn
<1>3. CASE ~(HasWarning(i) \/ dryRun)
  <2> DEFINE young == [issue[i] EXCEPT !.age = 0]
             new == [young EXCEPT !.comments = Append(issue[i].comments, "warning"),
                                  !.labels = issue[i].labels \cup {"To Update !"}]
  <2>1. /\ issue[i].comments \in Seq(Comments) /\ issue[i].labels \in SUBSET Labels
        /\ young.comments = issue[i].comments /\ young.labels = issue[i].labels
    BY <1>1 DEF Issue
  <2>2. /\ Append(issue[i].comments, "warning") \in Seq(Comments)
        /\ issue[i].labels \cup {"To Update !"} \in SUBSET Labels
    BY <2>1, AppendRange DEF Labels, Comments
  <2>3. new \in Issue
    BY <1>1, <2>2 DEF Issue
  <2>4. issue' = [Young(i) EXCEPT ![i].comments = Append(@, "warning"),
                                  ![i].labels = @ \cup {"To Update !"}]
    BY <1>3 DEF Warn
  <2>5. issue' = [issue EXCEPT ![i] = new]
    BY <1>1, <2>1, <2>4, YoungType
  <2>6. QED
    BY <1>1, <2>3, <2>5 DEF Warn
<1>4. QED
  BY <1>2, <1>3

LEMMA AddLabelsType ==
  ASSUME TypeOK, NEW i \in Issues, NEW labels \in SUBSET Labels, AddLabels(i, labels)
  PROVE  issue' \in [Issues -> Issue] /\ failed' \subseteq Issues
<1>1. issue \in [Issues -> Issue] /\ issue[i] \in Issue
  BY DEF TypeOK
<1>2. \A added \in SUBSET labels :
        [issue[i] EXCEPT !.age = 0, !.labels = issue[i].labels \cup added] \in Issue
  BY <1>1 DEF Issue
<1>3. issue' \in [Issues -> Issue]
  <2>1. CASE issue' = issue
    BY <1>1, <2>1
  <2>2. CASE issue' # issue
    <3>1. PICK added \in SUBSET labels :
            issue' = [issue EXCEPT ![i] = [issue[i] EXCEPT !.age = 0,
                                                !.labels = issue[i].labels \cup added]]
      BY <2>2, AddLabelsStep
    <3>2. QED
      BY <1>1, <1>2, <3>1
  <2>3. QED
    BY <2>1, <2>2
<1>4. failed' \subseteq Issues
  BY DEF AddLabels, TypeOK
<1>5. QED
  BY <1>3, <1>4

(* A step of the job that leaves what it works on as it is. *)
LEMMA RunType ==
  ASSUME TypeOK, UNCHANGED <<dryRun, touched>>,
         issue' \in [Issues -> Issue], card' \in [Issues -> Statuses],
         failed' \subseteq Issues,
         NEW phase \in {"idle", "due", "list"} \cup Working, NEW todo \in SUBSET Issues,
         NEW at \in Issues \cup {"none"}, NEW status \in Statuses,
         phase \in Working => run.phase \in Working,
         run' = [run EXCEPT !.phase = phase, !.todo = todo, !.at = at, !.status = status]
  PROVE  TypeOK'
<1>1. /\ run'.phase = phase /\ run'.listing = run.listing
      /\ run' \in [phase : {"idle", "due", "list"} \cup Working, todo : SUBSET Issues,
              listing : [Issues -> Issue] \cup {<<>>}, board : BOOLEAN,
              at : Issues \cup {"none"}, status : Statuses]
  BY DEF TypeOK
<1>2. QED
  BY <1>1 DEF TypeOK

(* Everything the job and the tracker hold is of its type. *)
THEOREM BotTypeCorrect ==
  BotSpec => []TypeOK
<1>0. Idle \in [phase : {"idle", "due", "list"}, todo : SUBSET Issues,
                listing : {<<>>}, board : BOOLEAN,
                at : {"none"}, status : Statuses]
  BY DEF Idle, Statuses
<1>1. BotInit => TypeOK
  <2> SUFFICES ASSUME BotInit PROVE TypeOK
    OBVIOUS
  <2>1. [open : {TRUE}, assigned : BOOLEAN, labels : {{}}, age : 0..WarningWeeks,
         comments : {<<>>}] \subseteq Issue
    <3>1. /\ 0..WarningWeeks \subseteq Nat /\ {<<>>} \subseteq Seq(Comments)
          /\ {TRUE} \subseteq BOOLEAN /\ {{}} \subseteq SUBSET Labels
      BY WeeksAssumption
    <3>2. QED
      BY <3>1 DEF Issue
  <2>2. run.phase = "due"
    BY DEF BotInit, Idle
  <2>3. QED
    BY <1>0, <2>1, <2>2 DEF BotInit, TypeOK, Working
<1>2. TypeOK /\ [BotNext]_botVars => TypeOK'
  <2> SUFFICES ASSUME TypeOK, [BotNext]_botVars PROVE TypeOK'
    OBVIOUS
  <2>1. ASSUME NEW i \in Issues, NEW new \in Issue, Touch(i, new),
               UNCHANGED <<dryRun, card, run, failed>>
        PROVE  TypeOK'
    BY <2>1 DEF Touch, TypeOK
  <2>2. ASSUME NEW i \in Issues,
               Assign(i) \/ Comment(i) \/ Close(i) \/ Label(i, "Role: Frontend")
        PROVE  TypeOK'
    <3>0. issue[i] \in Issue
      BY DEF TypeOK
    <3>1. CASE Assign(i)
      <4>1. [issue[i] EXCEPT !.assigned = ~@, !.age = 0] \in Issue
        BY <3>0 DEF Issue
      <4>2. QED
        BY <2>1, <3>1, <4>1 DEF Assign
    <3>2. CASE Comment(i)
      <4>0. Append(issue[i].comments, "human") \in Seq(Comments)
        BY <3>0, IssueFields, AppendRange DEF Comments
      <4>1. [issue[i] EXCEPT !.comments = Append(@, "human"), !.age = 0] \in Issue
        BY <3>0, <4>0 DEF Issue
      <4>2. QED
        BY <2>1, <3>2, <4>1 DEF Comment
    <3>3. CASE Close(i)
      <4>1. [issue[i] EXCEPT !.open = FALSE] \in Issue
        BY <3>0 DEF Issue
      <4>2. QED
        BY <2>1, <3>3, <4>1 DEF Close
    <3>4. CASE Label(i, "Role: Frontend")
      <4>0. issue[i].labels \cup {"Role: Frontend"} \in SUBSET Labels
        BY <3>0, IssueFields DEF Labels
      <4>1. [issue[i] EXCEPT !.labels = @ \cup {"Role: Frontend"}, !.age = 0] \in Issue
        BY <3>0, <4>0 DEF Issue
      <4>2. QED
        BY <2>1, <3>4, <4>1 DEF Label
    <3>5. QED
      BY <2>2, <3>1, <3>2, <3>3, <3>4
  <2>3. ASSUME NEW i \in Issues, NEW status \in Statuses, MoveCard(i, status)
        PROVE  TypeOK'
    BY <2>3 DEF MoveCard, TypeOK
  <2>4. CASE Tick
    <3>1. ASSUME NEW i \in Issues
          PROVE  Min({issue[i].age + 1, MaxAge}) \in Nat
      <4>1. issue[i].age \in Nat
        BY IssueFields DEF TypeOK
      <4>2. issue[i].age + 1 \in Int /\ MaxAge \in Int
        BY <4>1, WeeksAssumption
      <4>3. Min({issue[i].age + 1, MaxAge}) \in {issue[i].age + 1, MaxAge}
        BY <4>2, MinOfTwo
      <4>4. QED
        BY <4>1, <4>3, WeeksAssumption
    <3>2. issue' \in [Issues -> Issue]
      BY <2>4, <3>1 DEF Tick, TypeOK, Issue
    <3>3. run' = [run EXCEPT !.phase = "due", !.todo = run.todo, !.at = run.at,
                             !.status = run.status]
      BY <2>4 DEF Tick, TypeOK
    <3>4. run.todo \in SUBSET Issues /\ run.at \in Issues \cup {"none"} /\ run.status \in Statuses
      BY DEF TypeOK
    <3>5. QED
      BY <2>4, <3>2, <3>3, <3>4, RunType DEF Tick, TypeOK, Working
  <2>5. ASSUME NEW found \in BOOLEAN, InitializeProjectInfo(found) PROVE TypeOK'
    BY <1>0, <2>5 DEF InitializeProjectInfo, TypeOK, Working, Idle
  <2>6. CASE List
    BY <2>6 DEF List, TypeOK, Working
  <2>7. CASE ListFails
    BY <1>0, <2>7 DEF ListFails, TypeOK, Working, Idle
  <2>8. ASSUME NEW i \in Issues, AuditLabels(i) PROVE TypeOK'
    <3>1. issue' \in [Issues -> Issue] /\ failed' \subseteq Issues
      <4>1. MissingLabels(i) \in SUBSET Labels
        BY DEF MissingLabels, Labels
      <4>2. QED
        BY <2>8, <4>1, AddLabelsType DEF AuditLabels
    <3>2. run' = [run EXCEPT !.phase = IF run.board THEN "board" ELSE "audit",
                             !.todo = run.todo \ {i},
                             !.at = IF run.board THEN i ELSE "none",
                             !.status = run.status]
      BY <2>8 DEF AuditLabels, TypeOK
    <3>3. run.todo \in SUBSET Issues /\ run.status \in Statuses
      BY DEF TypeOK
    <3>4. /\ (IF run.board THEN "board" ELSE "audit") \in {"idle", "due", "list"} \cup Working
          /\ (IF run.board THEN i ELSE "none") \in Issues \cup {"none"}
          /\ run.todo \ {i} \in SUBSET Issues
          /\ UNCHANGED <<dryRun, card, touched>> /\ run.phase \in Working
          /\ card \in [Issues -> Statuses]
      BY <2>8, <3>3 DEF AuditLabels, TypeOK, Working
    <3>5. QED
      BY <3>1, <3>2, <3>3, <3>4, RunType
  <2>9. ASSUME NEW i \in Issues, NEW yes \in BOOLEAN, GetStatus(i, yes) PROVE TypeOK'
    <3>1. run' = [run EXCEPT !.phase = "status", !.todo = run.todo, !.at = run.at,
                             !.status = IF yes THEN card[i] ELSE "none"]
      BY <2>9 DEF GetStatus, TypeOK
    <3>2. /\ run.todo \in SUBSET Issues /\ run.at \in Issues \cup {"none"}
          /\ (IF yes THEN card[i] ELSE "none") \in Statuses
      BY DEF TypeOK, Statuses
    <3>3. QED
      BY <2>9, <3>1, <3>2, RunType DEF GetStatus, TypeOK, Working
  <2>10. ASSUME NEW i \in Issues, AuditStatus(i) PROVE TypeOK'
    <3>1. run' = [run EXCEPT !.phase = "audit", !.todo = run.todo, !.at = "none",
                             !.status = "none"]
      BY <2>10 DEF AuditStatus, TypeOK
    <3>2. \A assigned, status : status \in Statuses => RightStatus(assigned, status) \in Statuses
      BY DEF RightStatus, Statuses
    <3>3. card' \in [Issues -> Statuses] /\ failed' \subseteq Issues
      BY <2>10, <3>2 DEF AuditStatus, TypeOK
    <3>4. run.todo \in SUBSET Issues /\ "none" \in Statuses
      BY DEF TypeOK, Statuses
    <3>5. QED
      BY <2>10, <3>1, <3>3, <3>4, RunType DEF AuditStatus, TypeOK, Working
  <2>11. CASE CheckStale
    <3>1. run' = [run EXCEPT !.phase = "stale",
                    !.todo = {i \in Issues : run.listing[i].open /\ run.listing[i].assigned},
                    !.at = run.at, !.status = run.status]
      BY <2>11 DEF CheckStale, TypeOK
    <3>2. run.at \in Issues \cup {"none"} /\ run.status \in Statuses
      BY DEF TypeOK
    <3>3. /\ {i \in Issues : run.listing[i].open /\ run.listing[i].assigned} \in SUBSET Issues
          /\ UNCHANGED <<dryRun, issue, card, touched, failed>> /\ run.phase \in Working
          /\ issue \in [Issues -> Issue] /\ card \in [Issues -> Statuses]
          /\ failed \subseteq Issues /\ "stale" \in Working
      BY <2>11 DEF CheckStale, TypeOK, Working
    <3>4. QED
      BY <3>1, <3>2, <3>3, RunType
  <2>12. ASSUME NEW i \in Issues, Inactive(i) \/ Warn(i) \/ Active(i) PROVE TypeOK'
    <3>1. issue' \in [Issues -> Issue] /\ failed' \subseteq Issues
      <4>1. CASE Inactive(i)
        <5>1. {"2 weeks inactive"} \in SUBSET Labels /\ {} \in SUBSET Labels
          BY DEF Labels
        <5>2. PICK labels \in SUBSET Labels : AddLabels(i, labels)
          BY <4>1, <5>1 DEF Inactive
        <5>3. QED
          BY <5>2, AddLabelsType
      <4>2. CASE Warn(i)
        BY <4>2, WarnStep DEF TypeOK
      <4>3. CASE Active(i)
        BY <4>3 DEF Active, TypeOK
      <4>4. QED
        BY <2>12, <4>1, <4>2, <4>3
    <3>2. run' = [run EXCEPT !.phase = run.phase, !.todo = run.todo \ {i}, !.at = run.at,
                             !.status = run.status]
      BY <2>12 DEF Inactive, Warn, Active, Visited, TypeOK
    <3>3. /\ run.todo \in SUBSET Issues /\ run.at \in Issues \cup {"none"}
          /\ run.status \in Statuses /\ run.phase = "stale"
      BY <2>12 DEF TypeOK, Inactive, Warn, Active
    <3>4. UNCHANGED <<dryRun, card, touched>>
      BY <2>12 DEF Inactive, Warn, Active
    <3>5. QED
      BY <3>1, <3>2, <3>3, <3>4, RunType DEF TypeOK, Working
  <2>13. ASSUME NEW i \in Issues, Abort(i) PROVE TypeOK'
    BY <1>0, <2>13 DEF Abort, TypeOK, Working, Idle
  <2>14. CASE Finish
    BY <1>0, <2>14 DEF Finish, TypeOK, Working, Idle
  <2>15. CASE UNCHANGED botVars
    BY <2>15 DEF botVars, TypeOK
  <2>16. QED
    BY <2>2, <2>3, <2>4, <2>5, <2>6, <2>7, <2>8, <2>9, <2>10, <2>11, <2>12, <2>13,
       <2>14, <2>15 DEF BotNext
<1>3. QED
  BY <1>1, <1>2, PTL DEF BotSpec

-------------------------------------------------------------------------------
(* The cards.                                                                *)

InListing(i) == run.listing[i].open /\ i \notin touched \cup failed

(* The audit of i's card is still to come. *)
Pending(i) ==
  \/ run.phase = "audit" /\ i \in run.todo
  \/ run.phase \in {"board", "status"} /\ (i \in run.todo \/ i = run.at)

CardRight(i) ==
  card[i] # "none" => (card[i] = "In Progress") = run.listing[i].assigned

(* The inductive invariant: an issue nobody touched since the listing is     *)
(* assigned as it was then, the status just read is the card's, and a card   *)
(* is right as soon as its audit is over.                                    *)
BoardInv ==
  run.phase \in Working =>
    \A i \in Issues : InListing(i) =>
      /\ issue[i].assigned = run.listing[i].assigned
      /\ run.phase = "status" /\ run.at = i => run.status = card[i]
      /\ run.board /\ ~dryRun /\ ~Pending(i) => CardRight(i)

(* A step that keeps the cards, the listing and the phase. *)
LEMMA BoardKept ==
  ASSUME BoardInv, UNCHANGED <<dryRun, card>>, touched \subseteq touched',
         failed \subseteq failed',
         run.phase \in Working /\ run'.phase \in Working,
         run'.listing = run.listing, run'.board = run.board,
         \A i \in Issues \ touched' : issue'[i].assigned = issue[i].assigned,
         run'.phase = "status" => run'.status = run.status /\ run'.at = run.at
                                    /\ run.phase = "status",
         \A i \in Issues : run.board /\ Pending(i) => Pending(i)'
  PROVE  BoardInv'
BY DEF BoardInv, InListing, CardRight

(* A step of somebody else, or outside the audits. *)
LEMMA BoardOutside ==
  ASSUME BoardInv, run' = run, UNCHANGED dryRun,
         touched \subseteq touched', failed \subseteq failed',
         \A i \in Issues \ touched' :
           issue'[i].assigned = issue[i].assigned /\ card'[i] = card[i]
  PROVE  BoardInv'
<1>1. \A i \in Issues \ touched' :
        i \notin touched /\ issue'[i].assigned = issue[i].assigned /\ card'[i] = card[i]
  OBVIOUS
<1>2. \A i \in Issues \ touched' : InListing(i)' => InListing(i)
  BY <1>1 DEF InListing
<1>3. \A i \in Issues \ touched' : (CardRight(i) => CardRight(i)') /\ Pending(i)' = Pending(i)
  BY <1>1 DEF CardRight, Pending
<1>4. ASSUME BoardInv, run.phase \in Working, NEW i \in Issues, InListing(i)'
      PROVE  /\ issue'[i].assigned = run.listing[i].assigned
             /\ run.phase = "status" /\ run.at = i => run.status = card'[i]
             /\ run.board /\ ~dryRun /\ ~Pending(i)' => CardRight(i)'
  <2>1. i \in Issues \ touched'
    BY <1>4 DEF InListing
  <2>2. /\ issue[i].assigned = run.listing[i].assigned
        /\ run.phase = "status" /\ run.at = i => run.status = card[i]
        /\ run.board /\ ~dryRun /\ ~Pending(i) => CardRight(i)
    BY <1>2, <1>4, <2>1 DEF BoardInv
  <2>3. QED
    BY <1>1, <1>3, <2>1, <2>2
<1>5. QED
  BY <1>4 DEF BoardInv

LEMMA AddLabelsKeeps ==
  ASSUME TypeOK, NEW i \in Issues, NEW labels, AddLabels(i, labels)
  PROVE  /\ \A j \in Issues : issue'[j].assigned = issue[j].assigned
         /\ failed \subseteq failed'
<1>1. issue \in [Issues -> Issue]
  BY DEF TypeOK
<1>2. \A added : [issue[i] EXCEPT !.age = 0, !.labels = added].assigned = issue[i].assigned
  BY <1>1 DEF Issue
<1>3. CASE issue' = issue
  BY <1>3 DEF AddLabels
<1>4. CASE issue' # issue
  <2>1. PICK added : issue' = [issue EXCEPT ![i] =
            [issue[i] EXCEPT !.age = 0, !.labels = issue[i].labels \cup added]]
    BY <1>4, AddLabelsStep
  <2>2. QED
    BY <1>1, <1>2, <2>1 DEF AddLabels
<1>5. QED
  BY <1>3, <1>4

(* What a card is set to is what the audit wants it to be. *)
LEMMA RightIsRight ==
  ASSUME NEW assigned \in BOOLEAN, NEW status \in Statuses,
         RightStatus(assigned, status) # "none"
  PROVE  (RightStatus(assigned, status) = "In Progress") = assigned
BY DEF RightStatus, Statuses

LEMMA AuditStatusBoard ==
  ASSUME TypeOK, BoardInv, NEW i \in Issues, AuditStatus(i)
  PROVE  BoardInv'
<1> DEFINE right == RightStatus(run.listing[i].assigned, run.status)
<1>1. /\ run.phase = "status" /\ run.at = i /\ run'.phase = "audit"
      /\ run'.listing = run.listing /\ run'.board = run.board /\ run'.todo = run.todo
      /\ UNCHANGED <<dryRun, issue, touched>> /\ failed \subseteq failed'
  BY DEF AuditStatus, TypeOK
<1>2. run.phase \in Working /\ run'.phase \in Working
  BY <1>1 DEF Working
<1>3. ASSUME NEW j \in Issues, InListing(j)', run.board, ~dryRun, ~Pending(j)'
      PROVE  CardRight(j)'
  <2>1. InListing(j) /\ j \notin run.todo
    BY <1>1, <1>3 DEF InListing, Pending
  <2>2. CASE j = i
    <3>1. run.status = card[i]
      BY <1>1, <1>2, <2>1, <2>2 DEF BoardInv
    <3>2. card'[i] = right
      BY <1>1, <1>3, <2>2, <3>1 DEF AuditStatus, InListing, TypeOK
    <3>3. run.listing[i].assigned \in BOOLEAN /\ run.status \in Statuses
      BY <1>2 DEF TypeOK, Issue
    <3>4. right # "none" => (right = "In Progress") = run.listing[i].assigned
      BY <3>3, RightIsRight
    <3> HIDE DEF right
    <3>5. QED
      BY <1>1, <2>2, <3>2, <3>4 DEF CardRight
  <2>3. CASE j # i
    <3>1. card'[j] = card[j]
      BY <2>3 DEF AuditStatus, TypeOK
    <3>2. ~Pending(j)
      BY <1>1, <2>1, <2>3 DEF Pending
    <3>3. QED
      BY <1>1, <1>2, <1>3, <2>1, <3>1, <3>2 DEF BoardInv, CardRight
  <2>4. QED
    BY <2>2, <2>3
<1>4. \A j \in Issues : InListing(j)' => issue'[j].assigned = run'.listing[j].assigned
  BY <1>1, <1>2 DEF BoardInv, InListing
<1>5. QED
  BY <1>1, <1>3, <1>4 DEF BoardInv

LEMMA GetStatusBoard ==
  ASSUME TypeOK, BoardInv, NEW i \in Issues, NEW yes \in BOOLEAN, GetStatus(i, yes)
  PROVE  BoardInv'
<1>1. /\ run.phase = "board" /\ run.at = i /\ run'.phase = "status" /\ run'.at = i
      /\ run'.listing = run.listing /\ run'.board = run.board /\ run'.todo = run.todo
      /\ UNCHANGED <<dryRun, issue, touched, card>> /\ failed \subseteq failed'
      /\ yes => run'.status = card[i]
      /\ ~yes => i \in failed'
  BY DEF GetStatus, TypeOK
<1>2. run.phase \in Working /\ run'.phase \in Working
  BY <1>1 DEF Working
<1>3. \A j \in Issues : InListing(j)' => InListing(j) /\ (Pending(j) <=> Pending(j)')
  BY <1>1 DEF InListing, Pending
<1>4. InListing(i)' => run'.status = card'[i]
  BY <1>1 DEF InListing
<1>5. QED
  BY <1>1, <1>2, <1>3, <1>4 DEF BoardInv, CardRight

LEMMA AuditLabelsBoard ==
  ASSUME TypeOK, BoardInv, NEW i \in Issues, AuditLabels(i)
  PROVE  BoardInv'
<1>1. /\ run.phase = "audit" /\ run'.phase = (IF run.board THEN "board" ELSE "audit")
      /\ run'.listing = run.listing /\ run'.board = run.board
      /\ run'.todo = run.todo \ {i}
      /\ run.board => run'.at = i
      /\ UNCHANGED <<dryRun, touched, card>>
  BY DEF AuditLabels, TypeOK
<1>2. /\ \A j \in Issues : issue'[j].assigned = issue[j].assigned
      /\ failed \subseteq failed'
  BY AddLabelsKeeps DEF AuditLabels
<1>3. run.phase \in Working /\ run'.phase \in Working
  BY <1>1 DEF Working
<1>4. \A j \in Issues : run.board /\ Pending(j) => Pending(j)'
  BY <1>1 DEF Pending
<1>5. QED
  BY <1>1, <1>2, <1>3, <1>4, BoardKept

(* Once a board has been audited, every card nobody touched since is where   *)
(* its assignment wants it, whatever the audits of the others and the people *)
(* did in between.                                                           *)
THEOREM BoardFollowed ==
  BotSpec => []BoardFollows
<1>1. BotInit => BoardInv
  BY DEF BotInit, Idle, BoardInv, Working
<1>2. TypeOK /\ BoardInv /\ [BotNext]_botVars => BoardInv'
  <2> SUFFICES ASSUME TypeOK, BoardInv, [BotNext]_botVars PROVE BoardInv'
    OBVIOUS
  <2>0. issue \in [Issues -> Issue] /\ card \in [Issues -> Statuses]
    BY DEF TypeOK
  <2>1. ASSUME NEW i \in Issues, NEW new, Touch(i, new), UNCHANGED <<dryRun, card, run, failed>>
        PROVE  BoardInv'
    <3>1. \A j \in Issues \ touched' : issue'[j] = issue[j]
      BY <2>0, <2>1 DEF Touch
    <3>2. touched \subseteq touched'
      BY <2>1 DEF Touch
    <3>3. QED
      BY <2>1, <3>1, <3>2, BoardOutside
  <2>2. ASSUME NEW i \in Issues,
               Assign(i) \/ Comment(i) \/ Close(i) \/ Label(i, "Role: Frontend")
        PROVE  BoardInv'
    BY <2>1, <2>2 DEF Assign, Comment, Close, Label
  <2>3. ASSUME NEW i \in Issues, NEW status \in Statuses, MoveCard(i, status)
        PROVE  BoardInv'
    <3>1. \A j \in Issues \ touched' : card'[j] = card[j]
      BY <2>0, <2>3 DEF MoveCard
    <3>2. QED
      BY <2>3, <3>1, BoardOutside DEF MoveCard
  <2>4. CASE run'.phase \notin Working
    BY <2>4 DEF BoardInv
  <2>5. CASE List
    <3>1. /\ run'.phase = "audit" /\ run'.listing = issue /\ issue' = issue
          /\ run'.todo = {i \in Issues : issue[i].open}
      BY <2>5 DEF List, TypeOK
    <3>2. QED
      BY <3>1 DEF BoardInv, InListing, Pending
  <2>6. ASSUME NEW i \in Issues, AuditLabels(i) PROVE BoardInv'
    BY <2>6, AuditLabelsBoard
  <2>7. ASSUME NEW i \in Issues, NEW yes \in BOOLEAN, GetStatus(i, yes) PROVE BoardInv'
    BY <2>7, GetStatusBoard
  <2>8. ASSUME NEW i \in Issues, AuditStatus(i) PROVE BoardInv'
    BY <2>8, AuditStatusBoard
  <2>9. CASE CheckStale
    <3>1. /\ run.phase = "audit" /\ run.todo = {} /\ run'.phase = "stale"
          /\ run'.listing = run.listing /\ run'.board = run.board
          /\ UNCHANGED <<dryRun, issue, card, touched, failed>>
      BY <2>9 DEF CheckStale, TypeOK
    <3>2. \A i \in Issues : ~Pending(i)
      BY <3>1 DEF Pending
    <3>3. QED
      BY <3>1, <3>2, BoardKept DEF Working
  <2>10. ASSUME NEW i \in Issues, Inactive(i) \/ Warn(i) \/ Active(i) PROVE BoardInv'
    <3>1. /\ \A j \in Issues : issue'[j].assigned = issue[j].assigned
          /\ failed \subseteq failed'
      <4>1. CASE Inactive(i)
        BY <4>1, AddLabelsKeeps DEF Inactive
      <4>2. CASE Warn(i)
        <5> DEFINE new == [issue[i] EXCEPT !.age = 0,
                             !.comments = Append(issue[i].comments, "warning"),
                             !.labels = issue[i].labels \cup {"To Update !"}]
        <5>1. new.assigned = issue[i].assigned
          BY <2>0 DEF Issue
        <5>2. failed' = failed /\ (issue' = issue \/ issue' = [issue EXCEPT ![i] = new])
          BY <4>2, WarnStep
        <5> HIDE DEF new
        <5>3. QED
          BY <2>0, <5>1, <5>2
      <4>3. CASE Active(i)
        BY <4>3 DEF Active
      <4>4. QED
        BY <2>10, <4>1, <4>2, <4>3
    <3>2. /\ run.phase = "stale" /\ run'.phase = "stale" /\ run'.listing = run.listing
          /\ run'.board = run.board /\ UNCHANGED <<dryRun, card, touched>>
      BY <2>10 DEF Inactive, Warn, Active, Visited, TypeOK
    <3>3. \A j \in Issues : ~Pending(j)
      BY <3>2 DEF Pending
    <3>4. QED
      BY <3>1, <3>2, <3>3, BoardKept DEF Working
  <2>11. CASE UNCHANGED botVars
    BY <2>11 DEF botVars, BoardInv, InListing, CardRight, Pending
  <2>12. ASSUME Tick \/ ListFails \/ Finish
                \/ (\E yes \in BOOLEAN : InitializeProjectInfo(yes))
                \/ (\E i \in Issues : Abort(i))
         PROVE  run'.phase \notin Working
    <3>1. Idle.phase \notin Working /\ "due" \notin Working /\ "list" \notin Working
      BY DEF Idle, Working
    <3>2. CASE Tick
      BY <3>1, <3>2 DEF Tick, TypeOK
    <3>3. ASSUME NEW yes \in BOOLEAN, InitializeProjectInfo(yes)
          PROVE  run'.phase \notin Working
      BY <3>1, <3>3 DEF InitializeProjectInfo, Idle
    <3>4. QED
      BY <2>12, <3>1, <3>2, <3>3 DEF ListFails, Finish, Abort
  <2>13. QED
    BY <2>2, <2>3, <2>4, <2>5, <2>6, <2>7, <2>8, <2>9, <2>10, <2>11, <2>12 DEF BotNext
<1>3. BoardInv => BoardFollows
  <2> SUFFICES ASSUME BoardInv, run.phase = "stale", run.board, ~dryRun,
                      NEW i \in Issues \ (touched \cup failed), run.listing[i].open,
                      card[i] # "none"
               PROVE  (card[i] = "In Progress") = issue[i].assigned
    BY DEF BoardFollows
  <2>1. run.phase \in Working /\ InListing(i) /\ ~Pending(i)
    BY DEF Working, InListing, Pending
  <2>2. QED
    BY <2>1 DEF BoardInv, CardRight
<1>4. QED
  BY <1>1, <1>2, <1>3, BotTypeCorrect, PTL DEF BotSpec

-------------------------------------------------------------------------------
(* The warnings.                                                             *)

Warned(i) == "warning" \in Range(issue[i].comments)

(* An issue that the job may still have to warn about. *)
Exposed(i) ==
  /\ ~dryRun /\ i \notin failed
  /\ issue[i].open /\ issue[i].assigned /\ ~Warned(i)

(* What an issue with an age tells of the listing: the clock has not started *)
(* again since.                                                              *)
AsListed(i) ==
  /\ issue[i].age = run.listing[i].age /\ issue[i].assigned = run.listing[i].assigned
  /\ issue[i].open => run.listing[i].open

(* In a run the listing still knows the old issues, *)
ListingInv(i) ==
  /\ issue[i].age > 0 => AsListed(i)
  /\ run.listing[i].open /\ run.listing[i].assigned /\ run.listing[i].age > WarningWeeks =>
       Warned(i) \/ i \in failed \/ dryRun

(* and the visits to come include those that the warning is due for.         *)
VisitInv(i) ==
  /\ \A j \in run.todo : run.listing[j].open /\ run.listing[j].assigned
  /\ Exposed(i) /\ issue[i].age = WarningWeeks => i \in run.todo

(* The inductive invariant: an issue without a warning is not older than the *)
(* weeks of the warning, and younger between the runs.                       *)
WarnInvFor(i) ==
  /\ Exposed(i) => issue[i].age <= WarningWeeks
  /\ run.phase = "idle" /\ Exposed(i) => issue[i].age < WarningWeeks
  /\ run.phase \in Working => ListingInv(i)
  /\ run.phase = "stale" => VisitInv(i)
  /\ "2 weeks inactive" \in issue[i].labels => Warned(i) \/ i \in failed
WarnInv == \A i \in Issues : WarnInvFor(i)

(* What happens to an issue but for the passing of a week. *)
Kept(i) ==
  \/ issue'[i] = issue[i]
  \/ /\ issue'[i].age = 0 /\ (Warned(i) => Warned(i)')
     /\ "2 weeks inactive" \in issue'[i].labels =>
          "2 weeks inactive" \in issue[i].labels \/ Warned(i)' \/ i \in failed'
  \/ issue'[i] = [issue[i] EXCEPT !.open = FALSE]

LEMMA KeptFacts ==
  ASSUME TypeOK, NEW i \in Issues, Kept(i), UNCHANGED dryRun, failed \subseteq failed'
  PROVE  /\ Warned(i) => Warned(i)'
         /\ Exposed(i)' => issue'[i].age = 0 \/ (Exposed(i) /\ issue'[i].age = issue[i].age)
         /\ issue'[i].age > 0 =>
              /\ issue'[i].age = issue[i].age /\ issue'[i].assigned = issue[i].assigned
              /\ issue'[i].open => issue[i].open
         /\ "2 weeks inactive" \in issue'[i].labels =>
              "2 weeks inactive" \in issue[i].labels \/ Warned(i)' \/ i \in failed'
<1>1. issue[i] \in Issue
  BY DEF TypeOK
<1>2. CASE issue'[i] = issue[i]
  BY <1>2 DEF Warned, Exposed
<1>3. CASE /\ issue'[i].age = 0 /\ (Warned(i) => Warned(i)')
           /\ "2 weeks inactive" \in issue'[i].labels =>
                "2 weeks inactive" \in issue[i].labels \/ Warned(i)' \/ i \in failed'
  <2>1. issue'[i].age = 0
    BY <1>3
  <2>2. ~(issue'[i].age > 0)
    BY <2>1
  <2>3. QED
    BY <1>3, <2>2
<1>4. CASE issue'[i] = [issue[i] EXCEPT !.open = FALSE]
  BY <1>1, <1>4 DEF Warned, Exposed, Issue
<1>5. QED
  BY <1>2, <1>3, <1>4 DEF Kept

(* A step that keeps the issues and does not go to another part of the run. *)
LEMMA WarnKept ==
  ASSUME TypeOK, WarnInv, UNCHANGED dryRun, failed \subseteq failed',
         \A i \in Issues : Kept(i),
         run'.phase = run.phase \/ run'.phase \notin {"idle", "stale"},
         run'.phase \in Working => run.phase \in Working /\ run'.listing = run.listing,
         run'.phase = "stale" => run'.todo = run.todo
  PROVE  WarnInv'
<1>1. SUFFICES ASSUME NEW i \in Issues PROVE WarnInvFor(i)'
  BY DEF WarnInv
<1>2. 0 <= WarningWeeks /\ 0 < WarningWeeks /\ WarningWeeks # 0
  BY WeeksAssumption
<1>3. WarnInvFor(i)
  BY DEF WarnInv
<1>4. /\ Warned(i) => Warned(i)'
      /\ Exposed(i)' => issue'[i].age = 0 \/ (Exposed(i) /\ issue'[i].age = issue[i].age)
      /\ issue'[i].age > 0 =>
           /\ issue'[i].age = issue[i].age /\ issue'[i].assigned = issue[i].assigned
           /\ issue'[i].open => issue[i].open
      /\ "2 weeks inactive" \in issue'[i].labels =>
           "2 weeks inactive" \in issue[i].labels \/ Warned(i)' \/ i \in failed'
  BY KeptFacts
<1>5. Exposed(i)' => issue'[i].age <= WarningWeeks
  BY <1>2, <1>3, <1>4 DEF WarnInvFor
<1>6. run'.phase = "idle" /\ Exposed(i)' => issue'[i].age < WarningWeeks
  BY <1>2, <1>3, <1>4 DEF WarnInvFor
<1>7. run'.phase \in Working => ListingInv(i)'
  BY <1>3, <1>4 DEF WarnInvFor, ListingInv, AsListed
<1>8. run'.phase = "stale" => VisitInv(i)'
  BY <1>2, <1>3, <1>4 DEF WarnInvFor, VisitInv, Working
<1>9. QED
  BY <1>3, <1>4, <1>5, <1>6, <1>7, <1>8 DEF WarnInvFor

(* A run that ends early leaves nobody it promised a warning unmentioned. *)
LEMMA WarnEnds ==
  ASSUME TypeOK, WarnInv, UNCHANGED <<dryRun, issue>>, failed \subseteq failed',
         run'.phase = "idle",
         \A i \in Issues : Exposed(i)' => issue[i].age # WarningWeeks
  PROVE  WarnInv'
<1>1. SUFFICES ASSUME NEW i \in Issues PROVE WarnInvFor(i)'
  BY DEF WarnInv
<1>2. WarnInvFor(i) /\ (Exposed(i)' => Exposed(i)) /\ (Warned(i)' <=> Warned(i))
  BY DEF WarnInv, Exposed, Warned
<1>3. issue[i].age \in Nat /\ WarningWeeks \in Nat
  BY WeeksAssumption DEF TypeOK, Issue
<1>4. ASSUME Exposed(i)'
      PROVE  issue'[i].age < WarningWeeks /\ issue'[i].age <= WarningWeeks
  <2>1. issue[i].age <= WarningWeeks /\ issue[i].age # WarningWeeks
    BY <1>2, <1>4 DEF WarnInvFor
  <2>2. issue[i].age < WarningWeeks
    BY <1>3, <2>1
  <2>3. QED
    BY <2>1, <2>2
<1>5. "2 weeks inactive" \in issue'[i].labels => Warned(i)' \/ i \in failed'
  BY <1>2 DEF WarnInvFor
<1>6. run'.phase \notin Working /\ run'.phase # "stale"
  BY DEF Working
<1>7. QED
  BY <1>4, <1>5, <1>6 DEF WarnInvFor

(* A week passes. *)
LEMMA TickWarn ==
  ASSUME TypeOK, WarnInv, Tick
  PROVE  WarnInv'
<1>1. SUFFICES ASSUME NEW i \in Issues PROVE WarnInvFor(i)'
  BY DEF WarnInv
<1>2. issue[i] \in Issue /\ issue[i].age \in Nat /\ WarningWeeks \in Nat /\ MaxAge \in Nat
  BY WeeksAssumption DEF TypeOK, Issue
<1>3. issue'[i] = [issue[i] EXCEPT !.age = Min({issue[i].age + 1, MaxAge})]
  BY <1>2 DEF Tick, TypeOK, Issue
<1>4. /\ issue'[i].age = Min({issue[i].age + 1, MaxAge})
      /\ issue'[i].open = issue[i].open /\ issue'[i].assigned = issue[i].assigned
      /\ issue'[i].labels = issue[i].labels /\ issue'[i].comments = issue[i].comments
  BY <1>2, <1>3 DEF Issue
<1>5. issue'[i].age \in Int /\ issue'[i].age <= issue[i].age + 1
  <2>1. issue[i].age + 1 \in Int /\ MaxAge \in Int
    BY <1>2
  <2>2. QED
    BY <1>4, <2>1, MinOfTwo
<1>6. /\ run.phase = "idle" /\ run'.phase = "due" /\ UNCHANGED <<dryRun, failed>>
  BY DEF Tick, TypeOK
<1>7. /\ Warned(i)' <=> Warned(i)
      /\ Exposed(i)' <=> Exposed(i)
  BY <1>4, <1>6 DEF Exposed, Warned
<1>8. ASSUME Exposed(i)' PROVE issue'[i].age <= WarningWeeks
  <2>1. issue[i].age < WarningWeeks
    BY <1>1, <1>6, <1>7, <1>8 DEF WarnInv, WarnInvFor
  <2>2. QED
    BY <1>2, <1>5, <2>1
<1>9. "2 weeks inactive" \in issue'[i].labels => Warned(i)' \/ i \in failed'
  BY <1>4, <1>6, <1>7 DEF WarnInv, WarnInvFor
<1>10. QED
  BY <1>6, <1>8, <1>9 DEF WarnInvFor, Working

LEMMA ListWarn ==
  ASSUME TypeOK, WarnInv, List
  PROVE  WarnInv'
<1>1. SUFFICES ASSUME NEW i \in Issues PROVE WarnInvFor(i)'
  BY DEF WarnInv
<1>2. /\ run'.phase = "audit" /\ run'.listing = issue
      /\ UNCHANGED <<dryRun, issue, failed>>
  BY DEF List, TypeOK
<1>3. WarnInvFor(i) /\ (Exposed(i)' <=> Exposed(i)) /\ (Warned(i)' <=> Warned(i))
  BY <1>2 DEF WarnInv, Exposed, Warned
<1>4. issue[i].age \in Nat /\ WarningWeeks \in Nat /\ dryRun \in BOOLEAN
  BY WeeksAssumption DEF TypeOK, Issue
<1>5. ASSUME issue[i].open, issue[i].assigned, issue[i].age > WarningWeeks
      PROVE  Warned(i) \/ i \in failed \/ dryRun
  <2>1. ~(issue[i].age <= WarningWeeks)
    BY <1>4, <1>5
  <2>2. ~Exposed(i)
    BY <1>3, <2>1 DEF WarnInvFor
  <2>3. QED
    BY <1>5, <2>2 DEF Exposed
<1>6. ListingInv(i)'
  BY <1>2, <1>3, <1>5 DEF ListingInv, AsListed
<1>7. QED
  BY <1>2, <1>3, <1>6 DEF WarnInvFor

(* The visits begin with every issue that a warning may be due for. *)
LEMMA CheckStaleWarn ==
  ASSUME TypeOK, WarnInv, CheckStale
  PROVE  WarnInv'
<1>1. SUFFICES ASSUME NEW i \in Issues PROVE WarnInvFor(i)'
  BY DEF WarnInv
<1>2. /\ run.phase = "audit" /\ run'.phase = "stale" /\ run'.listing = run.listing
      /\ run'.todo = {j \in Issues : run.listing[j].open /\ run.listing[j].assigned}
      /\ UNCHANGED <<dryRun, issue, failed>>
  BY DEF CheckStale, TypeOK
<1>3. WarnInvFor(i) /\ (Exposed(i)' <=> Exposed(i)) /\ (Warned(i)' <=> Warned(i))
  BY <1>2 DEF WarnInv, Exposed, Warned
<1>4. ListingInv(i) /\ ListingInv(i)'
  BY <1>2, <1>3 DEF WarnInvFor, ListingInv, AsListed, Working
<1>5. Exposed(i) /\ issue[i].age = WarningWeeks => i \in run'.todo
  <2> SUFFICES ASSUME Exposed(i), issue[i].age = WarningWeeks PROVE i \in run'.todo
    OBVIOUS
  <2>1. issue[i].age > 0
    BY WeeksAssumption
  <2>2. QED
    BY <1>2, <1>4, <2>1 DEF ListingInv, AsListed, Exposed
<1>6. VisitInv(i)'
  BY <1>2, <1>3, <1>5 DEF VisitInv
<1>7. QED
  BY <1>2, <1>3, <1>4, <1>6 DEF WarnInvFor, Working

(* A visit that is not due for a warning, or gives it. *)
LEMMA VisitWarn ==
  ASSUME TypeOK, WarnInv, NEW i \in Issues, run.phase = "stale",
         Visited(i), UNCHANGED dryRun, failed \subseteq failed',
         \A j \in Issues : Kept(j),
         ~(Exposed(i)' /\ issue'[i].age = WarningWeeks)
  PROVE  WarnInv'
<1>1. SUFFICES ASSUME NEW j \in Issues PROVE WarnInvFor(j)'
  BY DEF WarnInv
<1>2. 0 <= WarningWeeks /\ 0 < WarningWeeks /\ WarningWeeks # 0
  BY WeeksAssumption
<1>3. WarnInvFor(j)
  BY DEF WarnInv
<1>4. /\ Warned(j) => Warned(j)'
      /\ Exposed(j)' => issue'[j].age = 0 \/ (Exposed(j) /\ issue'[j].age = issue[j].age)
      /\ issue'[j].age > 0 =>
           /\ issue'[j].age = issue[j].age /\ issue'[j].assigned = issue[j].assigned
           /\ issue'[j].open => issue[j].open
      /\ "2 weeks inactive" \in issue'[j].labels =>
           "2 weeks inactive" \in issue[j].labels \/ Warned(j)' \/ j \in failed'
  BY KeptFacts
<1>5. /\ run'.phase = "stale" /\ run'.listing = run.listing /\ run'.todo = run.todo \ {i}
      /\ run.phase \in Working
  BY DEF Visited, TypeOK, Working
<1>6. Exposed(j)' => issue'[j].age <= WarningWeeks
  BY <1>2, <1>3, <1>4 DEF WarnInvFor
<1>7. ListingInv(j)'
  BY <1>3, <1>4, <1>5 DEF WarnInvFor, ListingInv, AsListed
<1>8. VisitInv(j)'
  <2>1. Exposed(j)' /\ issue'[j].age = WarningWeeks => j \in run.todo /\ j # i
    BY <1>2, <1>3, <1>4 DEF WarnInvFor, VisitInv
  <2>2. QED
    BY <1>3, <1>5, <2>1 DEF WarnInvFor, VisitInv
<1>9. QED
  BY <1>3, <1>4, <1>5, <1>6, <1>7, <1>8 DEF WarnInvFor

(* Adding labels keeps the issues; the label of the inactive ones only goes  *)
(* to those it may go to.                                                    *)
LEMMA AddLabelsKept ==
  ASSUME TypeOK, NEW i \in Issues, NEW labels, AddLabels(i, labels),
         "2 weeks inactive" \in labels => Warned(i) \/ i \in failed \/ dryRun
  PROVE  (\A j \in Issues : Kept(j)) /\ failed \subseteq failed'
<1>1. issue \in [Issues -> Issue] /\ issue[i] \in Issue
  BY DEF TypeOK
<1>2. CASE issue' = issue
  BY <1>2 DEF AddLabels, Kept
<1>3. CASE issue' # issue
  <2>1. PICK added \in SUBSET labels :
          /\ ~dryRun
          /\ issue' = [issue EXCEPT ![i] = [issue[i] EXCEPT !.age = 0,
                                                 !.labels = issue[i].labels \cup added]]
    BY <1>3, AddLabelsStep
  <2>2. /\ issue'[i] = [issue[i] EXCEPT !.age = 0, !.labels = issue[i].labels \cup added]
        /\ \A j \in Issues \ {i} : issue'[j] = issue[j]
    BY <1>1, <2>1
  <2>3. /\ issue'[i].age = 0 /\ issue'[i].comments = issue[i].comments
        /\ issue'[i].labels = issue[i].labels \cup added
    BY <1>1, <2>2 DEF Issue
  <2>4. failed \subseteq failed'
    BY DEF AddLabels
  <2>5. Warned(i)' <=> Warned(i)
    BY <2>3 DEF Warned
  <2>6. Kept(i)
    BY <2>1, <2>3, <2>4, <2>5 DEF Kept
  <2>7. QED
    BY <2>2, <2>4, <2>6 DEF Kept
<1>4. QED
  BY <1>2, <1>3

LEMMA HumanAdds ==
  ASSUME NEW comments \in Seq(Comments)
  PROVE  Range(Append(comments, "human")) = Range(comments) \cup {"human"}
<1>1. "human" \in Comments
  BY DEF Comments
<1>2. QED
  BY <1>1, AppendRange

LEMMA PeopleWarn ==
  ASSUME TypeOK, WarnInv, NEW i \in Issues,
         Assign(i) \/ Comment(i) \/ Close(i) \/ Label(i, "Role: Frontend")
  PROVE  WarnInv'
<1>1. issue \in [Issues -> Issue] /\ issue[i] \in Issue
  BY DEF TypeOK
<1>2. \A j \in Issues \ {i} : issue'[j] = issue[j]
  BY <1>1 DEF Assign, Comment, Close, Label, Touch
<1>3. ASSUME Assign(i) PROVE Kept(i)
  <2>1. issue'[i] = [issue[i] EXCEPT !.assigned = ~@, !.age = 0]
    BY <1>1, <1>3 DEF Assign, Touch
  <2>2. /\ issue'[i].age = 0 /\ issue'[i].comments = issue[i].comments
        /\ issue'[i].labels = issue[i].labels
    BY <1>1, <2>1 DEF Issue
  <2>3. QED
    BY <2>2 DEF Kept, Warned
<1>4. ASSUME Comment(i) PROVE Kept(i)
  <2>1. issue'[i] = [issue[i] EXCEPT !.comments = Append(@, "human"), !.age = 0]
    BY <1>1, <1>4 DEF Comment, Touch
  <2>2. /\ issue'[i].age = 0 /\ issue'[i].comments = Append(issue[i].comments, "human")
        /\ issue'[i].labels = issue[i].labels /\ issue[i].comments \in Seq(Comments)
    BY <1>1, <2>1 DEF Issue
  <2>3. Range(issue'[i].comments) = Range(issue[i].comments) \cup {"human"}
    BY <2>2, HumanAdds, Zenon
  <2>4. Warned(i) => Warned(i)'
    BY <2>3 DEF Warned
  <2>5. QED
    BY <2>2, <2>4 DEF Kept
<1>5. ASSUME Close(i) PROVE Kept(i)
  <2>1. issue'[i] = [issue[i] EXCEPT !.open = FALSE]
    BY <1>1, <1>5 DEF Close, Touch
  <2>2. QED
    BY <2>1 DEF Kept
<1>6. ASSUME Label(i, "Role: Frontend") PROVE Kept(i)
  <2>1. issue'[i] = [issue[i] EXCEPT !.labels = @ \cup {"Role: Frontend"}, !.age = 0]
    BY <1>1, <1>6 DEF Label, Touch
  <2>2. /\ issue'[i].age = 0 /\ issue'[i].comments = issue[i].comments
        /\ issue'[i].labels = issue[i].labels \cup {"Role: Frontend"}
    BY <1>1, <2>1 DEF Issue
  <2>3. QED
    BY <2>2 DEF Kept, Warned
<1>7. \A j \in Issues : Kept(j)
  <2>1. Kept(i)
    BY <1>3, <1>4, <1>5, <1>6
  <2>2. QED
    BY <1>2, <2>1 DEF Kept
<1>8. UNCHANGED <<dryRun, run, failed>>
  BY DEF Assign, Comment, Close, Label
<1>9. QED
  BY <1>7, <1>8, WarnKept

LEMMA VisitsWarn ==
  ASSUME TypeOK, WarnInv, NEW i \in Issues,
         Inactive(i) \/ Warn(i) \/ Active(i)
  PROVE  WarnInv'
<1>1. /\ run.phase = "stale" /\ i \in run.todo /\ Visited(i) /\ UNCHANGED dryRun
  BY DEF Inactive, Warn, Active
<1>2. ListingInv(i) /\ VisitInv(i)
  BY <1>1 DEF WarnInv, WarnInvFor, Working
<1>3. /\ issue \in [Issues -> Issue] /\ issue[i] \in Issue /\ issue[i].age \in Nat
      /\ run.listing[i].age \in Nat
  BY <1>1 DEF TypeOK, Working, Issue
<1>4. /\ WarningWeeks \in Nat /\ UnassignWeeks \in Nat /\ WarningWeeks > 0
      /\ WarningWeeks < UnassignWeeks
  BY WeeksAssumption
<1>5. issue[i].age = WarningWeeks => run.listing[i].age = WarningWeeks
  BY <1>2, <1>4 DEF ListingInv, AsListed
<1>6. CASE Inactive(i)
  <2>1. run.listing[i].age >= UnassignWeeks
    BY <1>6 DEF Inactive, TimeSince
  <2>2. run.listing[i].age > WarningWeeks /\ run.listing[i].age # WarningWeeks
    BY <1>3, <1>4, <2>1
  <2>3. run.listing[i].open /\ run.listing[i].assigned
    BY <1>1, <1>2 DEF VisitInv
  <2>4. Warned(i) \/ i \in failed \/ dryRun
    BY <1>2, <2>2, <2>3 DEF ListingInv
  <2>5. (\A j \in Issues : Kept(j)) /\ failed \subseteq failed'
    BY <1>6, <2>4, AddLabelsKept DEF Inactive
  <2>6. ~(Exposed(i)' /\ issue'[i].age = WarningWeeks)
    <3>1. /\ Warned(i) => Warned(i)'
          /\ failed \subseteq failed' /\ dryRun' = dryRun
      BY <1>1, <2>5, KeptFacts
    <3>2. QED
      BY <2>4, <3>1 DEF Exposed
  <2>7. QED
    BY <1>1, <2>5, <2>6, VisitWarn
<1>7. CASE Warn(i)
  <2>1. issue[i].comments \in Seq(Comments)
    BY <1>3 DEF Issue
  <2>2. CASE issue' = issue /\ (HasWarning(i) \/ dryRun)
    <3>1. HasWarning(i) => Warned(i)
      <4>1. CommentPage \in Int /\ Len(issue[i].comments) \in Int /\ CommentPage >= 0
            /\ Len(issue[i].comments) >= 0
        BY <2>1, WeeksAssumption
      <4>2. /\ Min({CommentPage, Len(issue[i].comments)}) \in {CommentPage, Len(issue[i].comments)}
            /\ Min({CommentPage, Len(issue[i].comments)}) <= Len(issue[i].comments)
        BY <4>1, MinOfTwo
      <4>4. Min({CommentPage, Len(issue[i].comments)}) \in 0..Len(issue[i].comments)
        BY <4>1, <4>2
      <4>3. QED
        BY <2>1, <4>4, PrefixRange DEF HasWarning, Warned
    <3>2. \A j \in Issues : Kept(j)
      BY <2>2 DEF Kept
    <3>3. ~Exposed(i)'
      <4>1. Warned(i) => Warned(i)'
        BY <2>2 DEF Warned
      <4>2. QED
        BY <1>1, <2>2, <3>1, <4>1 DEF Exposed
    <3>4. failed' = failed
      BY <1>7 DEF Warn
    <3>5. QED
      BY <1>1, <3>2, <3>3, <3>4, VisitWarn
  <2>3. CASE issue' = [issue EXCEPT ![i] =
                 [issue[i] EXCEPT !.age = 0, !.comments = Append(issue[i].comments, "warning"),
                                  !.labels = issue[i].labels \cup {"To Update !"}]]
    <3>1. /\ issue'[i].age = 0 /\ issue'[i].comments = Append(issue[i].comments, "warning")
          /\ issue'[i].labels = issue[i].labels \cup {"To Update !"}
          /\ \A j \in Issues \ {i} : issue'[j] = issue[j]
      BY <1>3, <2>3 DEF Issue
    <3>2. Warned(i)'
      <4>1. "warning" \in Comments
        BY DEF Comments
      <4>2. Range(Append(issue[i].comments, "warning"))
              = Range(issue[i].comments) \cup {"warning"}
        BY <2>1, <4>1, AppendRange
      <4>3. QED
        BY <3>1, <4>2 DEF Warned
    <3>3. Kept(i)
      BY <3>1, <3>2 DEF Kept
    <3>4. \A j \in Issues : Kept(j)
      BY <3>1, <3>3 DEF Kept
    <3>5. ~Exposed(i)' /\ failed' = failed
      BY <1>7, <3>2 DEF Exposed, Warn
    <3>6. QED
      BY <1>1, <3>4, <3>5, VisitWarn
  <2>4. QED
    BY <1>7, <2>2, <2>3, WarnStep
<1>8. CASE Active(i)
  <2>1. run.listing[i].age < WarningWeeks /\ UNCHANGED <<dryRun, issue, failed>>
    BY <1>8 DEF Active, TimeSince
  <2>2. issue[i].age # WarningWeeks
    BY <1>3, <1>4, <1>5, <2>1
  <2>3. \A j \in Issues : Kept(j)
    BY <2>1 DEF Kept
  <2>4. QED
    BY <1>1, <2>1, <2>2, <2>3, VisitWarn
<1>9. QED
  BY <1>6, <1>7, <1>8

(* Nobody's issue is labelled inactive who was not warned, or for whom no    *)
(* call of the job failed: whatever people do during the runs, and whichever *)
(* of the comments the job gets to see.                                      *)
THEOREM WarnedFirst ==
  BotSpec => []InactiveOnlyWarned
<1>1. BotInit => WarnInv
  <2> SUFFICES ASSUME BotInit, NEW i \in Issues PROVE WarnInvFor(i)
    BY DEF WarnInv
  <2>1. run.phase = "due"
    BY DEF BotInit, Idle
  <2>2. issue[i].age \in 0..WarningWeeks /\ issue[i].labels = {}
    BY DEF BotInit
  <2>3. issue[i].age <= WarningWeeks
    BY <2>2, WeeksAssumption
  <2>4. QED
    BY <2>1, <2>2, <2>3 DEF WarnInvFor, Working
<1>2. TypeOK /\ WarnInv /\ [BotNext]_botVars => WarnInv'
  <2> SUFFICES ASSUME TypeOK, WarnInv, [BotNext]_botVars PROVE WarnInv'
    OBVIOUS
  <2>1. ASSUME NEW i \in Issues,
               Assign(i) \/ Comment(i) \/ Close(i) \/ Label(i, "Role: Frontend")
        PROVE  WarnInv'
    BY <2>1, PeopleWarn
  <2>2. ASSUME UNCHANGED <<dryRun, issue>>, failed \subseteq failed',
               run'.phase = run.phase \/ run'.phase \notin {"idle", "stale"},
               run'.phase \in Working => run.phase \in Working /\ run'.listing = run.listing,
               run'.phase = "stale" => run'.todo = run.todo
        PROVE  WarnInv'
    BY <2>2, WarnKept DEF Kept
  <2>3. ASSUME NEW i \in Issues, NEW status \in Statuses, MoveCard(i, status)
        PROVE  WarnInv'
    BY <2>2, <2>3 DEF MoveCard
  <2>4. ASSUME NEW i \in Issues, AuditLabels(i) PROVE WarnInv'
    <3>1. "2 weeks inactive" \notin MissingLabels(i)
      BY DEF MissingLabels
    <3>2. (\A j \in Issues : Kept(j)) /\ failed \subseteq failed'
      BY <2>4, <3>1, AddLabelsKept DEF AuditLabels
    <3>3. /\ run'.phase \in {"audit", "board"} /\ run'.listing = run.listing
          /\ run.phase \in Working /\ UNCHANGED dryRun
      BY <2>4 DEF AuditLabels, TypeOK, Working
    <3>4. QED
      BY <3>2, <3>3, WarnKept
  <2>5. ASSUME NEW i \in Issues, (\E yes \in BOOLEAN : GetStatus(i, yes)) \/ AuditStatus(i)
        PROVE  WarnInv'
    <3>1. /\ run'.phase \in {"audit", "status"} /\ run'.listing = run.listing
          /\ run.phase \in Working
      BY <2>5 DEF GetStatus, AuditStatus, TypeOK, Working
    <3>2. UNCHANGED <<dryRun, issue>> /\ failed \subseteq failed'
      BY <2>5 DEF GetStatus, AuditStatus
    <3>3. QED
      BY <2>2, <3>1, <3>2
  <2>6. ASSUME NEW i \in Issues, Inactive(i) \/ Warn(i) \/ Active(i) PROVE WarnInv'
    BY <2>6, VisitsWarn
  <2>7. ASSUME NEW i \in Issues, Abort(i) PROVE WarnInv'
    <3>1. /\ run'.phase = "idle" /\ failed' = failed \cup run.todo /\ run.phase = "stale"
          /\ UNCHANGED <<dryRun, issue>>
      BY <2>7 DEF Abort, Idle
    <3>2. \A j \in Issues : Exposed(j)' => issue[j].age # WarningWeeks
      BY <3>1 DEF WarnInv, WarnInvFor, VisitInv, Exposed, Warned
    <3>3. QED
      BY <3>1, <3>2, WarnEnds
  <2>8. CASE Finish
    <3>1. /\ run'.phase = "idle" /\ run.todo = {} /\ run.phase = "stale"
          /\ UNCHANGED <<dryRun, issue, failed>>
      BY <2>8 DEF Finish, Idle
    <3>2. \A j \in Issues : Exposed(j)' => issue[j].age # WarningWeeks
      BY <3>1 DEF WarnInv, WarnInvFor, VisitInv, Exposed, Warned
    <3>3. QED
      BY <3>1, <3>2, WarnEnds
  <2>9. CASE ListFails
    <3>1. /\ run'.phase = "idle" /\ failed' = Issues /\ UNCHANGED <<dryRun, issue>>
          /\ failed \subseteq Issues
      BY <2>9 DEF ListFails, Idle, TypeOK
    <3>2. \A j \in Issues : ~Exposed(j)'
      BY <3>1 DEF Exposed
    <3>3. QED
      BY <3>1, <3>2, WarnEnds
  <2>10. ASSUME NEW yes \in BOOLEAN, InitializeProjectInfo(yes) PROVE WarnInv'
    <3>1. run'.phase = "list" /\ UNCHANGED <<dryRun, issue, failed>>
      BY <2>10 DEF InitializeProjectInfo, Idle
    <3>2. QED
      BY <2>2, <3>1 DEF Working
  <2>11. CASE UNCHANGED botVars
    BY <2>2, <2>11 DEF botVars
  <2>12. QED
    BY <2>1, <2>3, <2>4, <2>5, <2>6, <2>7, <2>8, <2>9, <2>10, <2>11, TickWarn, ListWarn,
       CheckStaleWarn DEF BotNext
<1>3. WarnInv => InactiveOnlyWarned
  BY DEF WarnInv, WarnInvFor, InactiveOnlyWarned, Warned
<1>4. QED
  BY <1>1, <1>2, <1>3, BotTypeCorrect, PTL DEF BotSpec
-----------------------------------------------------------------------------
(* Accounts.                                                                 *)
Owners == {"unborn", "nobody", "me"} \cup Ids
Identities == {"", Legacy} \cup Ids
Election == [owner : Owners, version : Nat, fresh : BOOLEAN]
TabPages == {"left", "wizard", "posting", "election", "login", "manage", "claiming"}
Tab ==
  [page : TabPages, temp : Identities, loggedIn : BOOLEAN, about : Elections \cup {""},
   hasKey : BOOLEAN, copy : Election, toClaim : Elections \cup {""}, answer : BOOLEAN]

(* The types of the whole state: an election that somebody made has a        *)
(* version and an owner, and the pages that need an identity have one.       *)
StateTypes ==
  /\ elections \in [Elections -> Election]
  /\ jar \in [temp : Identities, token : {"none", "good", "stale"}, keys : SUBSET Elections]
  /\ tabs \in [Tabs -> Tab]
  /\ unused \in Seq(Ids)
  /\ claimed \subseteq Elections /\ forgotten \subseteq Elections
BirthInv == \A e \in Elections : elections[e] = Unborn \/ elections[e].version > 0

(* The version of an election decides its owner: a copy whose version is the *)
(* stored one has the stored owner. A granted answer is about something      *)
(* claimed: its key may be thrown away.                                      *)
CopyRight(t) ==
  LET e == tabs[t].about IN
  /\ e \in Born /\ tabs[t].copy.version <= elections[e].version
  /\ tabs[t].copy.version = elections[e].version =>
       tabs[t].copy.owner = elections[e].owner
TabInv(t) ==
  /\ tabs[t].page \in {"wizard", "posting"} => tabs[t].temp # ""
  /\ tabs[t].page = "posting" => tabs[t].about \in Born
  /\ tabs[t].page = "election" => CopyRight(t)
  /\ tabs[t].answer => tabs[t].page = "claiming" /\ tabs[t].toClaim \in claimed
ClaimInv == claimed \subseteq OwnedBy("me")

(* The jar has the identity of all that is not forgotten, and the key of what *)
(* is no longer being posted.                                                *)
WithMaker(e) ==
  Temporary(elections[e].owner) =>
    /\ elections[e].owner = jar.temp
    /\ e \in jar.keys \/ e \in Posting
MakerInv == \A e \in Born \ forgotten : WithMaker(e)

AccountInv ==
  StateTypes /\ BirthInv /\ (\A t \in Tabs : TabInv(t)) /\ ClaimInv /\ MakerInv
-----------------------------------------------------------------------------
(* An election keeps its owner until its version grows.                      *)
Grows ==
  \A e \in Elections :
    \/ elections'[e].version > elections[e].version
    \/ /\ elections'[e].version = elections[e].version
       /\ elections'[e].owner = elections[e].owner
       /\ elections'[e] = Unborn <=> elections[e] = Unborn

(* A tab that does nothing is right as long as elections only grow.          *)
LEMMA TabKept ==
  ASSUME StateTypes, StateTypes', BirthInv, Grows, claimed \subseteq claimed',
         NEW u \in Tabs, TabInv(u), tabs'[u] = tabs[u]
  PROVE  TabInv(u)'
<1>1. Unborn.version = 0 /\ elections \in [Elections -> Election]
      /\ elections' \in [Elections -> Election] /\ tabs[u] \in Tab
  BY DEF Unborn, StateTypes
<1>2. \A e \in Elections : elections[e].version \in Nat /\ elections'[e].version \in Nat
  BY <1>1 DEF Election
<1>3. ASSUME NEW e \in Born PROVE e \in Born'
  <2>1. e \in Elections /\ elections[e] # Unborn
    BY DEF Born
  <2>2. CASE elections'[e].version > elections[e].version
    BY <1>1, <1>2, <2>1, <2>2 DEF Born
  <2>3. QED
    BY <2>1, <2>2 DEF Born, Grows
<1>4. ASSUME CopyRight(u) PROVE CopyRight(u)'
  <2> DEFINE e == tabs[u].about
  <2>1. e \in Born /\ e \in Elections /\ tabs[u].copy.version <= elections[e].version
    BY <1>4 DEF CopyRight, Born
  <2>2. tabs[u].copy.version \in Nat
    BY <1>1 DEF Tab, Election
  <2>3. CASE elections'[e].version > elections[e].version
    <3>1. tabs[u].copy.version < elections'[e].version
      BY <1>2, <2>1, <2>2, <2>3
    <3>2. QED
      BY <1>2, <1>3, <2>1, <2>2, <3>1 DEF CopyRight
  <2>4. CASE elections'[e].version = elections[e].version
             /\ elections'[e].owner = elections[e].owner
    BY <1>3, <1>4, <2>1, <2>4 DEF CopyRight
  <2>5. QED
    BY <2>1, <2>3, <2>4 DEF Grows
<1>5. tabs'[u].answer => tabs'[u].page = "claiming" /\ tabs'[u].toClaim \in claimed'
  BY DEF TabInv
<1>6. QED
  BY <1>3, <1>4, <1>5 DEF TabInv

(* What is not forgotten stays with its maker if the identity and the keys   *)
(* stay, and elections change their owner only to the account.               *)
LEMMA MakerKept ==
  ASSUME MakerInv, jar'.temp = jar.temp, jar.keys \subseteq jar'.keys,
         Posting \subseteq Posting' \cup jar'.keys \cup forgotten',
         forgotten \subseteq forgotten',
         \A e \in Born' :
           \/ e \in Born /\ elections'[e].owner = elections[e].owner
           \/ ~Temporary(elections'[e].owner)
  PROVE  MakerInv'
<1> SUFFICES ASSUME NEW e \in Born', e \notin forgotten', Temporary(elections'[e].owner)
             PROVE  elections'[e].owner = jar'.temp /\ (e \in jar'.keys \/ e \in Posting')
  BY DEF MakerInv, WithMaker, Temporary
<1>1. e \in Born /\ e \notin forgotten /\ elections'[e].owner = elections[e].owner
  OBVIOUS
<1>2. Temporary(elections[e].owner)
  BY <1>1
<1>3. elections[e].owner = jar.temp /\ (e \in jar.keys \/ e \in Posting)
  BY <1>1, <1>2 DEF MakerInv, WithMaker
<1>4. QED
  BY <1>1, <1>3

(* The tabs that post are those that posted, but for the one that moves.     *)
LEMMA PostingKept ==
  ASSUME NEW t \in Tabs, \A u \in Tabs \ {t} : tabs'[u] = tabs[u],
         tabs[t].page # "posting"
  PROVE  Posting \subseteq Posting'
BY DEF Posting

LEMMA HeadTail ==
  ASSUME NEW S, NEW s \in Seq(S), s # <<>>
  PROVE  Head(s) \in S /\ Tail(s) \in Seq(S)
OBVIOUS

LEMMA Reflexive == \A n \in Nat : n <= n
OBVIOUS

LEMMA Successor == \A n \in Nat : n + 1 > n /\ n + 1 \in Nat
OBVIOUS

LEMMA Membership ==
  ASSUME NEW S PROVE \A x : (x \in S) \in BOOLEAN
OBVIOUS

LEMMA TabRecord ==
  ASSUME NEW page \in TabPages, NEW temp \in Identities, NEW in \in BOOLEAN,
         NEW about \in Elections \cup {""}, NEW key \in BOOLEAN, NEW copy \in Election,
         NEW noted \in Elections \cup {""}, NEW granted \in BOOLEAN
  PROVE  [page |-> page, temp |-> temp, loggedIn |-> in, about |-> about, hasKey |-> key,
          copy |-> copy, toClaim |-> noted, answer |-> granted] \in Tab
BY DEF Tab

(* Loading a page: an identity of its own for every visitor. *)
LoadedAs(t, page, e) ==
  /\ jar' \in [temp : Identities, token : {"none", "good", "stale"},
               keys : SUBSET Elections]
  /\ tabs' \in [Tabs -> Tab] /\ unused' \in Seq(Ids)
  /\ jar'.keys = jar.keys /\ (jar.temp \in Ids => jar'.temp = jar.temp)
  /\ page = "wizard" => tabs'[t].temp # ""
  /\ tabs'[t].page = page /\ tabs'[t].about = e
  /\ tabs'[t].toClaim = tabs[t].toClaim /\ tabs'[t].answer = tabs[t].answer
  /\ e \in Born => tabs'[t].copy = elections[e]
  /\ \A u \in Tabs \ {t} : tabs'[u] = tabs[u]
LEMMA LoadTypes ==
  ASSUME StateTypes, NEW t \in Tabs, NEW page \in {"wizard", "election", "manage"},
         NEW e \in Elections \cup {""}, NEW token \in {"none", "good", "stale"},
         Load(t, page, e, token)
  PROVE  LoadedAs(t, page, e)
<1>1. /\ jar \in [temp : Identities, token : {"none", "good", "stale"}, keys : SUBSET Elections]
      /\ tabs \in [Tabs -> Tab] /\ tabs[t] \in Tab /\ unused \in Seq(Ids)
      /\ elections \in [Elections -> Election]
  BY DEF StateTypes
<1>2. NewId => Head(unused) \in Ids /\ Tail(unused) \in Seq(Ids)
  BY <1>1, HeadTail DEF Load
<1>3. jar.temp \in Identities /\ (NewId <=> jar.temp \notin Ids)
  BY <1>1, IdsAssumption DEF NewId, Identities
<1>4. /\ jar'.temp = IF NewId THEN Head(unused) ELSE jar.temp
      /\ jar'.keys = jar.keys /\ jar'.token = token
      /\ jar' = [temp |-> IF NewId THEN Head(unused) ELSE jar.temp, token |-> token,
                 keys |-> jar.keys]
  BY <1>1 DEF Load
<1>5. jar'.temp \in Ids
  BY <1>2, <1>3, <1>4
<1>6. jar' \in [temp : Identities, token : {"none", "good", "stale"}, keys : SUBSET Elections]
  BY <1>1, <1>4, <1>5 DEF Identities
<1>7. unused' \in Seq(Ids)
  BY <1>1, <1>2 DEF Load
<1> DEFINE temp == IF page = "manage" THEN "" ELSE
                   IF jar.temp = Legacy THEN Legacy ELSE jar'.temp
           copy == IF e \in Born THEN elections[e] ELSE Unborn
<1>8. temp \in Identities /\ (page = "wizard" => temp # "")
  BY <1>5, IdsAssumption DEF Identities
<1>9. copy \in Election
  BY <1>1 DEF Born, Unborn, Election, Owners
<1> DEFINE in == token # "none"
           key == e \in jar.keys
<1>91. in \in BOOLEAN
  OBVIOUS
<1>92. key \in BOOLEAN
  BY Membership
<1>10. tabs' = [tabs EXCEPT ![t] =
          [tabs[t] EXCEPT !.page = page, !.about = e, !.temp = temp,
                          !.loggedIn = in, !.hasKey = key,
                          !.copy = copy]]
  BY <1>1 DEF Load
<1> HIDE DEF temp, copy, in, key
<1>11. /\ tabs'[t] = [tabs[t] EXCEPT !.page = page, !.about = e, !.temp = temp,
                          !.loggedIn = in, !.hasKey = key,
                          !.copy = copy]
       /\ \A u \in Tabs \ {t} : tabs'[u] = tabs[u]
  BY <1>1, <1>10
<1>12. tabs'[t] \in Tab
  <2>1. tabs'[t] =
          [page |-> page, temp |-> temp, loggedIn |-> in, about |-> e,
           hasKey |-> key, copy |-> copy, toClaim |-> tabs[t].toClaim,
           answer |-> tabs[t].answer]
    BY <1>1, <1>11 DEF Tab
  <2>2. tabs[t].toClaim \in Elections \cup {""} /\ tabs[t].answer \in BOOLEAN
    BY <1>1 DEF Tab
  <2>3. page \in TabPages
    BY DEF TabPages
  <2>4. /\ temp \in Identities /\ in \in BOOLEAN /\ e \in Elections \cup {""}
        /\ key \in BOOLEAN /\ copy \in Election /\ page \in TabPages
        /\ tabs[t].toClaim \in Elections \cup {""} /\ tabs[t].answer \in BOOLEAN
    BY <1>8, <1>9, <1>91, <1>92, <2>2, <2>3
  <2>5. tabs'[t] \in Tab
    <3> DEFINE noted == tabs[t].toClaim
               shown == tabs[t].answer
    <3>1. noted \in Elections \cup {""} /\ shown \in BOOLEAN
      BY <2>4
    <3> HIDE DEF noted, shown
    <3>2. [page |-> page, temp |-> temp, loggedIn |-> in, about |-> e, hasKey |-> key,
           copy |-> copy, toClaim |-> noted, answer |-> shown] \in Tab
      BY <2>4, <3>1, TabRecord
    <3>3. QED
      BY <2>1, <3>2 DEF noted, shown
  <2>6. QED
    BY <2>5
<1>13. tabs' \in [Tabs -> Tab]
  BY <1>1, <1>10, <1>11, <1>12
<1>14. /\ tabs'[t].page = page /\ tabs'[t].about = e /\ tabs'[t].temp = temp
       /\ tabs'[t].copy = copy
       /\ tabs'[t].toClaim = tabs[t].toClaim /\ tabs'[t].answer = tabs[t].answer
  BY <1>1, <1>11 DEF Tab
<1>15. e \in Born => copy = elections[e]
  BY DEF copy
<1>16. jar.temp \in Ids => jar'.temp = jar.temp
  BY <1>3, <1>4
<1>17. QED
  BY <1>4, <1>6, <1>7, <1>8, <1>11, <1>13, <1>14, <1>15, <1>16 DEF LoadedAs

(* A temporary owner is an identity that makeID gave. *)
LEMMA TemporaryIds ==
  ASSUME StateTypes, NEW e \in Elections, Temporary(elections[e].owner)
  PROVE  elections[e].owner \in Ids
<1>1. elections[e].owner \in Owners
  BY DEF StateTypes, Election
<1>2. QED
  BY <1>1 DEF Owners, Temporary

(* What does not change the elections only has to leave its own tab right,   *)
(* the claims and the makers.                                                *)
LEMMA QuietClaim ==
  ASSUME AccountInv, StateTypes', UNCHANGED elections, NEW t \in Tabs,
         \A u \in Tabs \ {t} : tabs'[u] = tabs[u], TabInv(t)', MakerInv',
         claimed \subseteq claimed', ClaimInv'
  PROVE  AccountInv'
<1>1. StateTypes /\ BirthInv /\ (\A u \in Tabs : TabInv(u))
  BY DEF AccountInv
<1>2. BirthInv'
  BY <1>1 DEF BirthInv
<1>3. Grows
  BY DEF Grows
<1>4. ASSUME NEW u \in Tabs PROVE TabInv(u)'
  <2>1. CASE u = t
    BY <2>1
  <2>2. CASE u # t
    BY <1>1, <1>3, <2>2, TabKept
  <2>3. QED
    BY <2>1, <2>2
<1>5. QED
  BY <1>2, <1>4 DEF AccountInv

LEMMA Quiet ==
  ASSUME AccountInv, StateTypes', UNCHANGED <<elections, claimed>>, NEW t \in Tabs,
         \A u \in Tabs \ {t} : tabs'[u] = tabs[u], TabInv(t)', MakerInv'
  PROVE  AccountInv'
<1>1. ClaimInv'
  BY DEF AccountInv, ClaimInv, OwnedBy, Born
<1>2. QED
  BY <1>1, QuietClaim

LEMMA TabLoads ==
  ASSUME AccountInv, NEW t \in Tabs,
         NEW page \in {"wizard", "election", "manage"}, NEW e \in Elections \cup {""},
         NEW token \in {"none", "good", "stale"}, Load(t, page, e, token),
         page = "election" => e \in Born, tabs[t].page \notin {"posting", "claiming"},
         UNCHANGED <<elections, claimed, forgotten>>
  PROVE  AccountInv'
<1>1. StateTypes /\ BirthInv /\ TabInv(t) /\ MakerInv
  BY DEF AccountInv
<1>2. LoadedAs(t, page, e)
  BY <1>1, LoadTypes
<1>3. StateTypes'
  BY <1>1, <1>2 DEF LoadedAs, StateTypes
<1>4. TabInv(t)'
  <2>1. ASSUME page = "election" PROVE CopyRight(t)'
    <3>1. e \in Born' /\ tabs'[t].copy = elections'[e] /\ elections'[e].version \in Nat
      BY <1>1, <1>2, <2>1 DEF LoadedAs, Born, StateTypes, Election
    <3>2. tabs'[t].about = e
      BY <1>2 DEF LoadedAs
    <3>3. elections'[e].version <= elections'[e].version
      BY <3>1, Reflexive
    <3>4. QED
      BY <3>1, <3>2, <3>3 DEF CopyRight
  <2>2. ~tabs'[t].answer
    BY <1>1, <1>2 DEF LoadedAs, TabInv
  <2>3. QED
    BY <1>2, <2>1, <2>2 DEF LoadedAs, TabInv
<1>5. MakerInv'
  <2>1. CASE jar.temp \in Ids
    <3>1. Posting \subseteq Posting'
      BY <1>1, <1>2, PostingKept DEF LoadedAs
    <3>2. \A f \in Born' : f \in Born /\ elections'[f].owner = elections[f].owner
      BY DEF Born
    <3>3. jar'.temp = jar.temp /\ jar.keys \subseteq jar'.keys
      BY <1>2, <2>1 DEF LoadedAs
    <3>4. QED
      BY <1>1, <3>1, <3>2, <3>3, MakerKept
  <2>2. CASE jar.temp \notin Ids
    <3>1. ASSUME NEW f \in Born \ forgotten PROVE ~Temporary(elections[f].owner)
      BY <1>1, <2>2, TemporaryIds DEF MakerInv, WithMaker, Born
    <3>2. QED
      BY <3>1 DEF MakerInv, WithMaker, Born, Temporary
  <2>3. QED
    BY <2>1, <2>2
<1>6. QED
  BY <1>2, <1>3, <1>4, <1>5, Quiet DEF LoadedAs

LEMMA LoadSteps ==
  ASSUME AccountInv, NEW t \in Tabs,
         \/ \E page \in {"wizard", "manage"} : Visit(t, page)
         \/ \E e \in Elections : VisitElection(t, e)
         \/ \E fresh \in BOOLEAN : RefreshSession(t, fresh)
  PROVE  AccountInv'
<1>1. jar.token \in {"none", "good", "stale"}
  BY DEF AccountInv, StateTypes
<1>2. ASSUME NEW page \in {"wizard", "manage"}, Visit(t, page) PROVE AccountInv'
  <2>1. tabs[t].page \notin {"posting", "claiming"}
        /\ Load(t, page, "", jar.token) /\ UNCHANGED <<elections, claimed, forgotten>>
    BY <1>2 DEF Visit, Resting
  <2>2. QED
    BY <1>1, <2>1, TabLoads
<1>3. ASSUME NEW e \in Elections, VisitElection(t, e) PROVE AccountInv'
  <2>1. tabs[t].page \notin {"posting", "claiming"}
        /\ Load(t, "election", e, jar.token) /\ e \in Born
        /\ UNCHANGED <<elections, claimed, forgotten>>
    BY <1>3 DEF VisitElection, Resting
  <2>2. QED
    BY <1>1, <2>1, TabLoads
<1>4. ASSUME NEW fresh \in BOOLEAN, RefreshSession(t, fresh) PROVE AccountInv'
  <2>1. tabs[t].page \notin {"posting", "claiming"}
        /\ Load(t, "manage", "", Token(fresh)) /\ UNCHANGED <<elections, claimed, forgotten>>
    BY <1>4 DEF RefreshSession
  <2>2. Token(fresh) \in {"none", "good", "stale"}
    BY <1>1 DEF Token
  <2>3. QED
    BY <2>1, <2>2, TabLoads
<1>5. QED
  BY <1>2, <1>3, <1>4

(* Leaving the page, with or without a note, and coming to nothing. *)
LEMMA LoginSteps ==
  ASSUME AccountInv, NEW t \in Tabs,
         LogInToClaim(t) \/ LogIn(t) \/ OpenLogout(t) \/ NoClaimKey(t)
  PROVE  AccountInv'
<1>1. /\ StateTypes /\ TabInv(t) /\ MakerInv
      /\ tabs \in [Tabs -> Tab] /\ tabs[t] \in Tab
  BY DEF AccountInv, StateTypes
<1>2. /\ tabs[t].page \notin {"posting", "claiming"}
      /\ UNCHANGED <<elections, unused, claimed, forgotten>>
      /\ jar' \in [temp : Identities, token : {"none", "good", "stale"},
                   keys : SUBSET Elections]
      /\ jar'.temp = jar.temp /\ jar'.keys = jar.keys
  <2>1. jar \in [temp : Identities, token : {"none", "good", "stale"},
                 keys : SUBSET Elections]
    BY <1>1 DEF StateTypes
  <2>2. CASE OpenLogout(t)
    BY <2>1, <2>2 DEF OpenLogout, Resting
  <2>3. CASE LogInToClaim(t) \/ LogIn(t) \/ NoClaimKey(t)
    BY <2>1, <2>3 DEF LogInToClaim, LogIn, TemporaryAccessWarning, OpenLogin, NoClaimKey,
                      Claiming, Resting
  <2>4. QED
    BY <2>2, <2>3
<1>3. /\ tabs'[t] \in Tab /\ tabs'[t].page \in {"left", "login", "manage"}
      /\ ~tabs'[t].answer /\ tabs' = [tabs EXCEPT ![t] = tabs'[t]]
  <2>1. Blank \in Tab /\ ~Blank.answer /\ Blank.page = "left"
    BY DEF Blank, Tab, TabPages, Identities, Unborn, Election, Owners
  <2>2. ASSUME NEW note \in Elections \cup {""},
               tabs' = [tabs EXCEPT ![t] = [Blank EXCEPT !.page = "login", !.toClaim = note]]
        PROVE  /\ tabs'[t] \in Tab /\ tabs'[t].page \in {"left", "login", "manage"}
               /\ ~tabs'[t].answer /\ tabs' = [tabs EXCEPT ![t] = tabs'[t]]
    BY <1>1, <2>1, <2>2 DEF Tab, TabPages
  <2>3. tabs[t].about \in Elections \cup {""} /\ tabs[t].toClaim \in Elections \cup {""}
    BY <1>1 DEF Tab
  <2>4. CASE LogInToClaim(t)
    BY <2>2, <2>3, <2>4 DEF LogInToClaim, OpenLogin
  <2>5. CASE LogIn(t)
    BY <2>2, <2>3, <2>5 DEF LogIn, OpenLogin
  <2>6. CASE OpenLogout(t)
    <3>1. tabs' = [tabs EXCEPT ![t] = [Blank EXCEPT !.toClaim = tabs[t].toClaim]]
      BY <2>6 DEF OpenLogout
    <3>2. QED
      BY <1>1, <2>1, <2>3, <3>1 DEF Tab
  <2>7. CASE NoClaimKey(t)
    <3>1. tabs' = [tabs EXCEPT ![t] = [tabs[t] EXCEPT !.toClaim = ""]]
          /\ tabs[t].page = "manage"
      BY <1>1, <2>7 DEF NoClaimKey, Claiming
    <3>2. ~tabs[t].answer
      BY <1>1, <3>1 DEF TabInv
    <3>3. QED
      BY <1>1, <3>1, <3>2 DEF Tab
  <2>8. QED
    BY <2>4, <2>5, <2>6, <2>7
<1>4. StateTypes'
  BY <1>1, <1>2, <1>3 DEF StateTypes
<1>5. TabInv(t)'
  BY <1>3 DEF TabInv
<1>6. \A u \in Tabs \ {t} : tabs'[u] = tabs[u]
  BY <1>1, <1>3
<1>7. MakerInv'
  <2>1. Posting \subseteq Posting'
    BY <1>2, <1>6, PostingKept
  <2>2. \A f \in Born' : f \in Born /\ elections'[f].owner = elections[f].owner
    BY <1>2 DEF Born
  <2>3. QED
    BY <1>1, <1>2, <2>1, <2>2, MakerKept
<1>8. QED
  BY <1>2, <1>4, <1>5, <1>6, <1>7, Quiet

(* The other actions of the browser and of time leave the tabs alone. *)
LEMMA TokenSteps ==
  ASSUME AccountInv, TokenExpires \/ CookiesExpire
  PROVE  AccountInv'
<1>1. StateTypes /\ BirthInv /\ (\A t \in Tabs : TabInv(t)) /\ ClaimInv /\ MakerInv
  BY DEF AccountInv
<1>2. /\ UNCHANGED <<elections, tabs, unused, claimed, forgotten>>
      /\ jar' \in [temp : Identities, token : {"none", "good", "stale"}, keys : SUBSET Elections]
      /\ jar'.temp = jar.temp /\ jar'.keys = jar.keys
  BY <1>1 DEF TokenExpires, CookiesExpire, StateTypes
<1>3. StateTypes'
  BY <1>1, <1>2 DEF StateTypes
<1>4. BirthInv' /\ ClaimInv' /\ Grows /\ claimed \subseteq claimed'
  BY <1>1, <1>2 DEF BirthInv, ClaimInv, OwnedBy, Born, Grows
<1>5. \A t \in Tabs : TabInv(t)'
  BY <1>1, <1>2, <1>3, <1>4, TabKept
<1>6. MakerInv'
  <2>1. Posting' = Posting /\ Born' = Born
    BY <1>2 DEF Posting, Born
  <2>2. QED
    BY <1>1, <1>2, <2>1, MakerKept
<1>7. QED
  BY <1>3, <1>4, <1>5, <1>6 DEF AccountInv

LEMMA HoursSteps ==
  ASSUME AccountInv, NEW e \in Elections, HoursPass(e)
  PROVE  AccountInv'
<1>1. StateTypes /\ BirthInv /\ (\A t \in Tabs : TabInv(t)) /\ ClaimInv /\ MakerInv
      /\ elections \in [Elections -> Election] /\ elections[e] \in Election
  BY DEF AccountInv, StateTypes
<1>2. /\ UNCHANGED <<jar, tabs, unused, claimed, forgotten>> /\ e \in Born
      /\ elections' = [elections EXCEPT ![e] = [elections[e] EXCEPT !.fresh = FALSE]]
  BY <1>1 DEF HoursPass
<1>3. /\ elections'[e] = [elections[e] EXCEPT !.fresh = FALSE]
      /\ \A f \in Elections \ {e} : elections'[f] = elections[f]
      /\ elections' \in [Elections -> Election]
  BY <1>1, <1>2 DEF Election
<1>4. StateTypes'
  BY <1>1, <1>2, <1>3 DEF StateTypes
<1>5. /\ elections[e] # Unborn /\ elections[e].version > 0
      /\ elections'[e].version = elections[e].version
      /\ elections'[e].owner = elections[e].owner
  BY <1>1, <1>2, <1>3 DEF BirthInv, Born, Election
<1>6. elections'[e] # Unborn
  BY <1>5 DEF Unborn
<1>7. Born' = Born /\ Posting' = Posting
  BY <1>2, <1>3, <1>5, <1>6 DEF Born, Posting
<1>8. \A f \in Elections : elections'[f].owner = elections[f].owner
  BY <1>3, <1>5
<1>9. Grows /\ claimed \subseteq claimed'
  BY <1>2, <1>3, <1>5, <1>6 DEF Grows
<1>10. BirthInv'
  BY <1>1, <1>3, <1>5 DEF BirthInv
<1>11. ClaimInv'
  BY <1>1, <1>2, <1>7, <1>8 DEF ClaimInv, OwnedBy, Born
<1>12. \A t \in Tabs : TabInv(t)'
  BY <1>1, <1>2, <1>4, <1>9, TabKept
<1>13. MakerInv'
  <2>1. \A f \in Born' : f \in Born /\ elections'[f].owner = elections[f].owner
    BY <1>7, <1>8 DEF Born
  <2>2. QED
    BY <1>1, <1>2, <1>7, <2>1, MakerKept
<1>14. QED
  BY <1>4, <1>10, <1>11, <1>12, <1>13 DEF AccountInv

LEMMA CloseSteps ==
  ASSUME AccountInv, CloseBrowser
  PROVE  AccountInv'
<1>1. StateTypes /\ BirthInv /\ ClaimInv
  BY DEF AccountInv
<1>2. /\ UNCHANGED <<elections, unused, claimed>> /\ forgotten' = Born
      /\ tabs' = [t \in Tabs |-> Blank]
      /\ jar' \in [temp : Identities, token : {"none", "good", "stale"}, keys : SUBSET Elections]
  BY <1>1 DEF CloseBrowser, StateTypes, Identities
<1>3. Blank \in Tab /\ ~Blank.answer /\ Blank.page = "left"
  BY DEF Blank, Tab, TabPages, Identities, Unborn, Election, Owners
<1>4. StateTypes'
  BY <1>1, <1>2, <1>3 DEF StateTypes, Born
<1>5. BirthInv' /\ ClaimInv' /\ Born' = Born
  BY <1>1, <1>2 DEF BirthInv, ClaimInv, OwnedBy, Born
<1>6. ASSUME NEW t \in Tabs PROVE TabInv(t)'
  <2>1. tabs'[t].page = "left" /\ ~tabs'[t].answer
    BY <1>2, <1>3
  <2>2. QED
    BY <2>1 DEF TabInv
<1>7. MakerInv'
  BY <1>2, <1>5 DEF MakerInv
<1>8. QED
  BY <1>4, <1>5, <1>6, <1>7 DEF AccountInv

(* The server answers a creation, or its answer is lost. *)
LEMMA CreationAnswered ==
  ASSUME AccountInv, NEW t \in Tabs, ElectionAdded(t) \/ AnswerLost(t)
  PROVE  AccountInv'
<1>1. /\ StateTypes /\ BirthInv /\ TabInv(t) /\ MakerInv
      /\ elections \in [Elections -> Election] /\ tabs \in [Tabs -> Tab] /\ tabs[t] \in Tab
      /\ jar \in [temp : Identities, token : {"none", "good", "stale"}, keys : SUBSET Elections]
  BY DEF AccountInv, StateTypes
<1> DEFINE e == tabs[t].about
<1>2. /\ tabs[t].page = "posting" /\ UNCHANGED <<elections, unused, claimed>>
      /\ ~tabs[t].answer /\ tabs[t].temp # ""
  BY <1>1 DEF ElectionAdded, AnswerLost, TabInv
<1>3. e \in Born /\ e \in Elections /\ elections[e] \in Election
  BY <1>1, <1>2 DEF TabInv, Born
<1>4. /\ \A u \in Tabs \ {t} : tabs'[u] = tabs[u]
      /\ Posting \subseteq Posting' \cup {e}
  <2>1. \A u \in Tabs \ {t} : tabs'[u] = tabs[u]
    BY <1>1 DEF ElectionAdded, AnswerLost
  <2>2. QED
    BY <2>1 DEF Posting
<1>5. \A f \in Born' : f \in Born /\ elections'[f].owner = elections[f].owner
  BY <1>2 DEF Born
<1>6. CASE ElectionAdded(t)
  <2>1. /\ jar' = [jar EXCEPT !.keys = jar.keys \cup {e}] /\ forgotten' = forgotten
        /\ tabs' = [tabs EXCEPT ![t] = [tabs[t] EXCEPT !.page = "election", !.hasKey = TRUE,
                                                       !.copy = elections[e]]]
    BY <1>1, <1>6 DEF ElectionAdded
  <2>2. /\ jar'.temp = jar.temp /\ jar'.keys = jar.keys \cup {e}
        /\ jar' \in [temp : Identities, token : {"none", "good", "stale"}, keys : SUBSET Elections]
    BY <1>1, <1>3, <2>1
  <2>3. tabs'[t] = [tabs[t] EXCEPT !.page = "election", !.hasKey = TRUE, !.copy = elections[e]]
    BY <1>1, <2>1
  <2>4. /\ tabs'[t] \in Tab /\ tabs'[t].page = "election" /\ tabs'[t].about = e
        /\ tabs'[t].copy = elections[e] /\ ~tabs'[t].answer
    BY <1>1, <1>2, <1>3, <2>3 DEF Tab, TabPages
  <2>5. tabs' \in [Tabs -> Tab]
    BY <1>1, <2>1, <2>4
  <2>6. StateTypes'
    BY <1>1, <1>2, <2>1, <2>2, <2>5 DEF StateTypes
  <2>7. CopyRight(t)'
    <3>1. elections[e].version \in Nat
      BY <1>3 DEF Election
    <3>2. elections[e].version <= elections[e].version
      BY <3>1, Reflexive
    <3>3. e \in Born' /\ elections' = elections
      BY <1>2, <1>3 DEF Born
    <3>4. QED
      BY <2>4, <3>2, <3>3 DEF CopyRight
  <2>8. TabInv(t)'
    BY <2>4, <2>7 DEF TabInv
  <2>9. MakerInv'
    BY <1>1, <1>4, <1>5, <2>1, <2>2, MakerKept
  <2>10. QED
    BY <1>2, <1>4, <2>6, <2>8, <2>9, Quiet
<1>7. CASE AnswerLost(t)
  <2>1. /\ jar' = jar /\ forgotten' = forgotten \cup {e}
        /\ tabs' = [tabs EXCEPT ![t] = [tabs[t] EXCEPT !.page = "wizard", !.about = ""]]
    BY <1>1, <1>7 DEF AnswerLost
  <2>2. tabs'[t] = [tabs[t] EXCEPT !.page = "wizard", !.about = ""]
    BY <1>1, <2>1
  <2>3. /\ tabs'[t] \in Tab /\ tabs'[t].page = "wizard" /\ tabs'[t].temp = tabs[t].temp
        /\ ~tabs'[t].answer
    BY <1>1, <1>2, <2>2 DEF Tab, TabPages
  <2>4. tabs' \in [Tabs -> Tab]
    BY <1>1, <2>1, <2>3
  <2>5. StateTypes'
    BY <1>1, <1>2, <1>3, <2>1, <2>4 DEF StateTypes
  <2>6. TabInv(t)'
    BY <1>2, <2>3 DEF TabInv
  <2>7. MakerInv'
    BY <1>1, <1>4, <1>5, <2>1, MakerKept
  <2>8. QED
    BY <1>2, <1>4, <2>5, <2>6, <2>7, Quiet
<1>8. QED
  BY <1>6, <1>7

(* An election gets a new version, in a tab of somebody. *)
LEMMA NewVersion ==
  ASSUME AccountInv, StateTypes', NEW t \in Tabs, NEW e \in Elections,
         \A f \in Elections \ {e} : elections'[f] = elections[f],
         elections'[e].version > elections[e].version,
         \A u \in Tabs \ {t} : tabs'[u] = tabs[u],
         claimed \subseteq claimed', claimed' \subseteq claimed \cup {e},
         e \in claimed' => elections'[e].owner = "me",
         TabInv(t)', MakerInv'
  PROVE  AccountInv'
<1>1. /\ StateTypes /\ BirthInv /\ (\A u \in Tabs : TabInv(u)) /\ ClaimInv
      /\ elections[e].version \in Nat /\ elections'[e].version \in Nat
      /\ claimed' \subseteq Elections
  BY DEF AccountInv, StateTypes, Election
<1>2. elections'[e].version > 0 /\ elections'[e] # Unborn
  BY <1>1 DEF Unborn
<1>3. Grows
  BY DEF Grows
<1>4. BirthInv'
  BY <1>1, <1>2 DEF BirthInv
<1>5. ClaimInv'
  <2> SUFFICES ASSUME NEW f \in claimed' PROVE f \in Born' /\ elections'[f].owner = "me"
    BY DEF ClaimInv, OwnedBy
  <2>1. CASE f = e
    BY <1>2, <2>1 DEF Born
  <2>2. CASE f # e
    <3>1. f \in claimed /\ f \in Elections
      BY <1>1, <2>2
    <3>2. f \in Born /\ elections[f].owner = "me"
      BY <1>1, <3>1 DEF ClaimInv, OwnedBy
    <3>3. QED
      BY <2>2, <3>1, <3>2 DEF Born
  <2>3. QED
    BY <2>1, <2>2
<1>6. ASSUME NEW u \in Tabs PROVE TabInv(u)'
  <2>1. CASE u = t
    BY <2>1
  <2>2. CASE u # t
    BY <1>1, <1>3, <2>2, TabKept
  <2>3. QED
    BY <2>1, <2>2
<1>7. QED
  BY <1>4, <1>5, <1>6 DEF AccountInv

(* A page that edits posts the owner of its copy, which is the owner. *)
LEMMA EditSteps ==
  ASSUME AccountInv, NEW t \in Tabs, Edit(t)
  PROVE  AccountInv'
<1>1. /\ StateTypes /\ TabInv(t) /\ MakerInv /\ ClaimInv
      /\ elections \in [Elections -> Election] /\ tabs \in [Tabs -> Tab] /\ tabs[t] \in Tab
  BY DEF AccountInv, StateTypes
<1> DEFINE e == tabs[t].about
<1>0. /\ tabs[t].page = "election" /\ tabs[t].copy.version = elections[e].version
      /\ UNCHANGED <<jar, unused, claimed, forgotten>>
  BY DEF Edit
<1>2. /\ elections' = [elections EXCEPT ![e] =
            [elections[e] EXCEPT !.owner = tabs[t].copy.owner, !.version = elections[e].version + 1]]
      /\ tabs' = [tabs EXCEPT ![t] = [tabs[t] EXCEPT !.copy = elections'[e]]]
  <2>1. e \in Elections /\ elections[e] \in Election
    BY <1>0, <1>1 DEF TabInv, CopyRight, Born
  <2>2. elections' = [elections EXCEPT ![e].owner = tabs[t].copy.owner, ![e].version = @ + 1]
        /\ tabs' = [tabs EXCEPT ![t].copy = elections'[e]]
    BY DEF Edit
  <2>3. QED
    BY <1>1, <2>1, <2>2 DEF Election
<1>3. e \in Born /\ e \in Elections /\ tabs[t].copy.owner = elections[e].owner
      /\ elections[e] \in Election
  BY <1>1, <1>0, <1>2 DEF TabInv, CopyRight, Born
<1> HIDE DEF e
<1>4. elections'[e] = [elections[e] EXCEPT !.owner = tabs[t].copy.owner,
                                           !.version = elections[e].version + 1]
      /\ \A f \in Elections \ {e} : elections'[f] = elections[f]
  BY <1>1, <1>0, <1>2, <1>3
<1>5. /\ elections'[e] \in Election /\ elections'[e].owner = elections[e].owner
      /\ elections'[e].version = elections[e].version + 1 /\ elections[e].version \in Nat
  <2>1. /\ elections'[e] = [elections[e] EXCEPT !.owner = elections[e].owner,
                                                !.version = elections[e].version + 1]
        /\ elections[e].version + 1 \in Nat
    BY <1>3, <1>4 DEF Election
  <2>2. QED
    BY <1>3, <2>1 DEF Election
<1>6. elections' \in [Elections -> Election]
  BY <1>1, <1>0, <1>2, <1>4, <1>5
<1>7. tabs'[t] = [tabs[t] EXCEPT !.copy = elections'[e]]
      /\ \A u \in Tabs \ {t} : tabs'[u] = tabs[u]
  BY <1>1, <1>0, <1>2
<1>8. /\ tabs'[t] \in Tab /\ tabs'[t].page = "election" /\ tabs'[t].about = e
      /\ tabs'[t].copy = elections'[e] /\ tabs'[t].answer = tabs[t].answer
  BY <1>1, <1>0, <1>2, <1>5, <1>7 DEF Tab, e
<1>9. tabs' \in [Tabs -> Tab]
  BY <1>1, <1>0, <1>2, <1>7, <1>8
<1>10. StateTypes'
  BY <1>1, <1>0, <1>2, <1>6, <1>9 DEF StateTypes
<1>11. elections'[e].version > elections[e].version
  BY <1>5
<1>12. elections'[e].version > 0
  BY <1>5
<1>13. e \in Born'
  BY <1>3, <1>12 DEF Born, Unborn
<1>14. TabInv(t)'
  <2>1. elections'[e].version <= elections'[e].version
    BY <1>5
  <2>2. CopyRight(t)'
    BY <1>8, <1>13, <2>1 DEF CopyRight
  <2>3. ~tabs[t].answer
    BY <1>1, <1>0, <1>2 DEF TabInv
  <2>4. QED
    BY <1>8, <2>2, <2>3 DEF TabInv
<1>15. MakerInv'
  <2>1. \A f \in Born' : f \in Born /\ elections'[f].owner = elections[f].owner
    BY <1>3, <1>4, <1>5 DEF Born
  <2>2. Posting \subseteq Posting'
    BY <1>0, <1>2, <1>7, PostingKept
  <2>3. QED
    BY <1>1, <1>0, <1>2, <2>1, <2>2, MakerKept
<1>16. e \in claimed' => elections'[e].owner = "me"
  BY <1>1, <1>0, <1>2, <1>5 DEF ClaimInv, OwnedBy
<1>17. QED
  BY <1>0, <1>2, <1>3, <1>4, <1>7, <1>10, <1>11, <1>14, <1>15, <1>16, NewVersion

LEMMA AddSteps ==
  ASSUME AccountInv, NEW t \in Tabs, NEW e \in Elections,
         NEW published \in BOOLEAN, AddElection(t, e, published)
  PROVE  AccountInv'
<1>1. /\ StateTypes /\ TabInv(t) /\ MakerInv /\ ClaimInv
      /\ elections \in [Elections -> Election] /\ tabs \in [Tabs -> Tab] /\ tabs[t] \in Tab
      /\ jar \in [temp : Identities, token : {"none", "good", "stale"}, keys : SUBSET Elections]
      /\ unused \in Seq(Ids)
  BY DEF AccountInv, StateTypes
<1> DEFINE owner == Owner(t, published)
           new == [owner |-> owner, version |-> 1, fresh |-> TRUE]
           legacy == tabs[t].temp = Legacy
<1>2. /\ tabs[t].page = "wizard" /\ e \notin Born /\ (legacy => unused # <<>>)
      /\ elections' = [elections EXCEPT ![e] = new]
      /\ legacy => jar' = [jar EXCEPT !.temp = Head(unused)] /\ unused' = Tail(unused)
      /\ ~legacy => UNCHANGED <<jar, unused>>
      /\ forgotten' = IF jar'.temp = jar.temp THEN forgotten \cup Replaced(owner, e)
                      ELSE forgotten \cup OwnedBy(jar.temp)
      /\ tabs' = [tabs EXCEPT ![t] = [tabs[t] EXCEPT !.page = "posting", !.about = e]]
      /\ UNCHANGED claimed
  BY <1>1 DEF AddElection
<1>3. legacy => Head(unused) \in Ids /\ Tail(unused) \in Seq(Ids)
  BY <1>1, <1>2, HeadTail
<1>4. SubmitTempId(t) \in Ids /\ SubmitTempId(t) = IF legacy THEN Head(unused) ELSE tabs[t].temp
  <2>1. tabs[t].temp \in Identities /\ tabs[t].temp # ""
    BY <1>1, <1>2 DEF Tab, TabInv
  <2>2. QED
    BY <1>3, <2>1 DEF SubmitTempId, Identities
<1>5. owner \in {"nobody", "me", SubmitTempId(t)} /\ owner \in Owners
  BY <1>4 DEF Owner, Owners
<1> HIDE DEF owner, legacy
<1>6. /\ new \in Election /\ new.version = 1 /\ new.owner = owner /\ new # Unborn
  BY <1>5 DEF Election, Unborn
<1>7. /\ elections'[e] = new /\ elections' \in [Elections -> Election]
      /\ \A f \in Elections \ {e} : elections'[f] = elections[f]
      /\ elections[e] = Unborn
  BY <1>1, <1>2, <1>6 DEF Born
<1> HIDE DEF new
<1>8. e \in Born' /\ Born \subseteq Born' /\ Born' \subseteq Born \cup {e}
  BY <1>6, <1>7 DEF Born
<1>9. tabs'[t] = [tabs[t] EXCEPT !.page = "posting", !.about = e]
      /\ \A u \in Tabs \ {t} : tabs'[u] = tabs[u]
  BY <1>1, <1>2
<1>10. /\ tabs'[t] \in Tab /\ tabs'[t].page = "posting" /\ tabs'[t].about = e
       /\ tabs'[t].temp = tabs[t].temp /\ tabs'[t].answer = tabs[t].answer
  BY <1>1, <1>9 DEF Tab, TabPages
<1>11. tabs' \in [Tabs -> Tab]
  BY <1>1, <1>2, <1>9, <1>10
<1>12. /\ jar' \in [temp : Identities, token : {"none", "good", "stale"}, keys : SUBSET Elections]
       /\ jar'.keys = jar.keys /\ unused' \in Seq(Ids)
       /\ legacy => jar'.temp = SubmitTempId(t)
       /\ ~legacy => jar'.temp = jar.temp
  BY <1>1, <1>2, <1>3, <1>4 DEF Identities
<1>13. forgotten' \subseteq Elections /\ forgotten \subseteq forgotten'
  BY <1>1, <1>2 DEF StateTypes, Replaced, OwnedBy, Born
<1>14. StateTypes'
  BY <1>1, <1>2, <1>7, <1>11, <1>12, <1>13 DEF StateTypes
<1>15. TabInv(t)'
  BY <1>1, <1>2, <1>8, <1>10 DEF TabInv
<1>16. MakerInv'
  <2> SUFFICES ASSUME NEW f \in Born', f \notin forgotten', Temporary(elections'[f].owner)
               PROVE  elections'[f].owner = jar'.temp /\ (f \in jar'.keys \/ f \in Posting')
    BY DEF MakerInv, WithMaker, Temporary
  <2>1. Posting \subseteq Posting' /\ e \in Posting'
    <3>1. Posting \subseteq Posting'
      BY <1>2, <1>9, PostingKept
    <3>2. QED
      BY <1>10, <3>1 DEF Posting
  <2>2. CASE f = e
    <3>1. elections'[f].owner = owner /\ Temporary(owner)
      BY <1>6, <1>7, <2>2
    <3>2. owner = SubmitTempId(t)
      BY <1>5, <3>1 DEF Temporary
    <3>3. CASE legacy
      BY <1>12, <2>1, <2>2, <3>1, <3>2, <3>3
    <3>4. CASE ~legacy
      <4>1. jar'.temp = jar.temp /\ e \notin Replaced(owner, e)
        BY <1>2, <1>12, <2>2, <3>4
      <4>2. owner = jar.temp
        BY <3>1, <4>1 DEF Replaced
      <4>3. QED
        BY <2>1, <2>2, <3>1, <4>1, <4>2
    <3>5. QED
      BY <3>3, <3>4
  <2>3. CASE f # e
    <3>1. f \in Born /\ f \notin forgotten /\ elections'[f] = elections[f] /\ f \in Elections
      BY <1>7, <1>8, <1>13, <2>3 DEF Born
    <3>2. Temporary(elections[f].owner)
      BY <3>1
    <3>3. elections[f].owner = jar.temp /\ (f \in jar.keys \/ f \in Posting)
      BY <1>1, <3>1, <3>2 DEF MakerInv, WithMaker
    <3>4. jar'.temp = jar.temp
      BY <1>2, <3>1, <3>3 DEF OwnedBy
    <3>5. QED
      BY <1>12, <2>1, <3>1, <3>3, <3>4
  <2>4. QED
    BY <2>2, <2>3
<1>17. elections'[e].version > elections[e].version
  BY <1>6, <1>7 DEF Unborn
<1>18. e \notin claimed'
  BY <1>1, <1>2 DEF ClaimInv, OwnedBy
<1>19. QED
  BY <1>2, <1>7, <1>9, <1>14, <1>15, <1>16, <1>17, <1>18, NewVersion

(* The server grants or refuses a claim: it gives the election to the account.*)
LEMMA ClaimSteps ==
  ASSUME AccountInv, NEW t \in Tabs, NEW granted \in BOOLEAN, Claim(t, granted)
  PROVE  AccountInv'
<1>1. /\ StateTypes /\ BirthInv /\ TabInv(t) /\ MakerInv /\ ClaimInv
      /\ elections \in [Elections -> Election] /\ tabs \in [Tabs -> Tab] /\ tabs[t] \in Tab
  BY DEF AccountInv, StateTypes
<1> DEFINE e == tabs[t].toClaim
<1>2. /\ tabs[t].page = "manage" /\ e # "" /\ e \in Elections /\ ~tabs[t].answer
      /\ elections[e] \in Election /\ elections[e].version \in Nat
  BY <1>1 DEF Claim, Claiming, Tab, TabInv, Election
<1>3. /\ UNCHANGED <<jar, unused, forgotten>>
      /\ tabs' = [tabs EXCEPT ![t] = [tabs[t] EXCEPT !.page = "claiming", !.answer = granted]]
      /\ granted => claimed' = claimed \cup {e} /\ IsOwner(e)
      /\ ~granted => UNCHANGED <<elections, claimed>>
      /\ granted /\ elections[e].owner = "me" => elections' = elections
  BY <1>1 DEF Claim
<1>4. granted /\ elections[e].owner # "me" =>
        elections' = [elections EXCEPT ![e].owner = "me", ![e].version = @ + 1]
  BY DEF Claim
<1> HIDE DEF e
<1>5. tabs'[t] = [tabs[t] EXCEPT !.page = "claiming", !.answer = granted]
      /\ \A u \in Tabs \ {t} : tabs'[u] = tabs[u]
  BY <1>1, <1>3
<1>6. /\ tabs'[t] \in Tab /\ tabs'[t].page = "claiming" /\ tabs'[t].answer = granted
      /\ tabs'[t].toClaim = e
  BY <1>1, <1>5 DEF Tab, TabPages, e
<1>7. tabs' \in [Tabs -> Tab]
  BY <1>1, <1>3, <1>5, <1>6
<1>8. claimed \subseteq claimed' /\ claimed' \subseteq claimed \cup {e}
      /\ claimed' \subseteq Elections
  BY <1>1, <1>2, <1>3 DEF StateTypes
<1>9. TabInv(t)'
  BY <1>3, <1>6 DEF TabInv
<1>10. Posting \subseteq Posting'
  BY <1>2, <1>5, PostingKept
<1>11. CASE elections' = elections
  <2>1. StateTypes'
    BY <1>1, <1>3, <1>7, <1>8, <1>11 DEF StateTypes
  <2>2. e \in claimed' => e \in OwnedBy("me")
    <3>1. CASE granted
      <4>1. elections[e].owner = "me"
        <5>1. SUFFICES ASSUME elections[e].owner # "me" PROVE FALSE
          OBVIOUS
        <5>2. elections'[e].owner = "me"
          <6>1. elections' = [elections EXCEPT ![e].owner = "me", ![e].version = @ + 1]
            BY <1>4, <3>1, <5>1
          <6>2. QED
            BY <1>1, <1>2, <6>1 DEF Election
        <5>3. QED
          BY <1>11, <5>1, <5>2
      <4>2. QED
        <5>1. Unborn.owner # "me"
          BY DEF Unborn
        <5>2. e \in Elections /\ elections[e] # Unborn
          BY <1>2, <4>1, <5>1
        <5>3. QED
          BY <4>1, <5>2 DEF OwnedBy, Born
    <3>2. CASE ~granted
      BY <1>1, <1>3, <3>2 DEF ClaimInv
    <3>3. QED
      BY <3>1, <3>2
  <2>3. ClaimInv'
    BY <1>1, <1>8, <1>11, <2>2 DEF ClaimInv, OwnedBy, Born
  <2>4. MakerInv'
    <3>1. \A f \in Born' : f \in Born /\ elections'[f].owner = elections[f].owner
      BY <1>11 DEF Born
    <3>2. QED
      BY <1>1, <1>3, <1>10, <3>1, MakerKept
  <2>5. QED
    BY <1>5, <1>8, <1>9, <1>11, <2>1, <2>3, <2>4, QuietClaim
<1>12. CASE granted /\ elections[e].owner # "me"
  <2>1. elections' = [elections EXCEPT ![e] =
                       [elections[e] EXCEPT !.owner = "me", !.version = elections[e].version + 1]]
    BY <1>1, <1>2, <1>4, <1>12 DEF Election
  <2>2. elections'[e] = [elections[e] EXCEPT !.owner = "me", !.version = elections[e].version + 1]
        /\ \A f \in Elections \ {e} : elections'[f] = elections[f]
    BY <1>1, <1>2, <2>1
  <2>3. /\ elections'[e] \in Election /\ elections'[e].owner = "me"
        /\ elections'[e].version = elections[e].version + 1
    <3>1. elections[e].version + 1 \in Nat
      BY <1>2, Successor
    <3>2. "me" \in Owners
      BY DEF Owners
    <3>3. QED
      BY <1>2, <2>2, <3>1, <3>2 DEF Election
  <2>4. elections' \in [Elections -> Election]
    BY <1>1, <2>1, <2>2, <2>3
  <2>5. StateTypes'
    BY <1>1, <1>3, <1>7, <1>8, <2>4 DEF StateTypes
  <2>6. MakerInv'
    <3>1. \A f \in Born' : \/ f \in Born /\ elections'[f].owner = elections[f].owner
                         \/ ~Temporary(elections'[f].owner)
      BY <2>2, <2>3 DEF Born, Temporary
    <3>2. QED
      BY <1>1, <1>3, <1>10, <3>1, MakerKept
  <2>7. elections'[e].version > elections[e].version
    <3>1. elections[e].version \in Nat
      BY <1>2
    <3>2. \A n \in Nat : n + 1 > n
      BY Successor
    <3>3. QED
      BY <2>3, <3>1, <3>2
  <2>8. QED
    BY <1>2, <1>5, <1>8, <1>9, <2>2, <2>3, <2>5, <2>6, <2>7, NewVersion
<1>13. QED
  BY <1>3, <1>11, <1>12

(* The answer of a claim is heard, or not. *)
LEMMA AnsweredSteps ==
  ASSUME AccountInv, NEW t \in Tabs, NEW heard \in BOOLEAN, ClaimAnswered(t, heard)
  PROVE  AccountInv'
<1>1. /\ StateTypes /\ TabInv(t) /\ MakerInv /\ ClaimInv
      /\ tabs \in [Tabs -> Tab] /\ tabs[t] \in Tab
      /\ jar \in [temp : Identities, token : {"none", "good", "stale"}, keys : SUBSET Elections]
  BY DEF AccountInv, StateTypes
<1> DEFINE e == tabs[t].toClaim
<1>2. /\ tabs[t].page = "claiming" /\ UNCHANGED <<elections, unused, claimed, forgotten>>
      /\ jar' = IF tabs[t].answer /\ heard THEN [jar EXCEPT !.keys = jar.keys \ {e}] ELSE jar
      /\ tabs' = [tabs EXCEPT ![t] =
           [tabs[t] EXCEPT !.page = "manage", !.toClaim = "", !.answer = FALSE]]
  BY <1>1 DEF ClaimAnswered
<1>3. /\ jar' \in [temp : Identities, token : {"none", "good", "stale"}, keys : SUBSET Elections]
      /\ jar'.temp = jar.temp /\ (tabs[t].answer => jar.keys \ {e} \subseteq jar'.keys)
      /\ ~tabs[t].answer => jar'.keys = jar.keys
  BY <1>1, <1>2
<1>4. tabs'[t] = [tabs[t] EXCEPT !.page = "manage", !.toClaim = "", !.answer = FALSE]
      /\ \A u \in Tabs \ {t} : tabs'[u] = tabs[u]
  BY <1>1, <1>2
<1>5. tabs'[t] \in Tab /\ tabs'[t].page = "manage" /\ ~tabs'[t].answer
  BY <1>1, <1>4 DEF Tab, TabPages
<1>6. tabs' \in [Tabs -> Tab]
  BY <1>1, <1>2, <1>4, <1>5
<1>7. StateTypes'
  BY <1>1, <1>2, <1>3, <1>6 DEF StateTypes
<1>8. TabInv(t)'
  BY <1>5 DEF TabInv
<1>9. MakerInv'
  <2> SUFFICES ASSUME NEW f \in Born', f \notin forgotten', Temporary(elections'[f].owner)
               PROVE  elections'[f].owner = jar'.temp /\ (f \in jar'.keys \/ f \in Posting')
    BY DEF MakerInv, WithMaker, Temporary
  <2>1. f \in Born /\ f \notin forgotten /\ Temporary(elections[f].owner)
        /\ elections'[f].owner = elections[f].owner
    BY <1>2 DEF Born, Temporary
  <2>2. elections[f].owner = jar.temp /\ (f \in jar.keys \/ f \in Posting)
    BY <1>1, <2>1 DEF MakerInv, WithMaker
  <2>3. Posting \subseteq Posting'
    BY <1>2, <1>4, PostingKept
  <2>4. tabs[t].answer => f # e
    <3>1. tabs[t].answer => e \in claimed
      BY <1>1 DEF TabInv
    <3>2. f \notin claimed
      BY <1>1, <2>1 DEF ClaimInv, OwnedBy, Temporary
    <3>3. QED
      BY <3>1, <3>2
  <2>5. QED
    BY <1>3, <2>1, <2>2, <2>3, <2>4
<1>10. QED
  BY <1>2, <1>4, <1>7, <1>8, <1>9, Quiet
-----------------------------------------------------------------------------
(* The theorems. *)
LEMMA AccountStep ==
  ASSUME AccountInv, AccountNext PROVE AccountInv'
<1>1. ASSUME NEW t \in Tabs,
             \/ ElectionAdded(t) \/ AnswerLost(t) \/ Edit(t) \/ LogInToClaim(t)
             \/ LogIn(t) \/ OpenLogout(t) \/ NoClaimKey(t)
      PROVE  AccountInv'
  BY <1>1, CreationAnswered, EditSteps, LoginSteps
<1>2. ASSUME NEW t \in Tabs, NEW page \in {"wizard", "manage"}, Visit(t, page)
      PROVE  AccountInv'
  BY <1>2, LoadSteps
<1>3. ASSUME NEW t \in Tabs, NEW e \in Elections,
             \/ VisitElection(t, e) \/ \E yes \in BOOLEAN : AddElection(t, e, yes)
      PROVE  AccountInv'
  BY <1>3, LoadSteps, AddSteps
<1>4. ASSUME NEW t \in Tabs, NEW yes \in BOOLEAN,
             RefreshSession(t, yes) \/ Claim(t, yes) \/ ClaimAnswered(t, yes)
      PROVE  AccountInv'
  BY <1>4, LoadSteps, ClaimSteps, AnsweredSteps
<1>5. CASE TokenExpires \/ CookiesExpire \/ CloseBrowser
  BY <1>5, TokenSteps, CloseSteps
<1>6. ASSUME NEW e \in Elections, HoursPass(e) PROVE AccountInv'
  BY <1>6, HoursSteps
<1>7. QED
  BY <1>1, <1>2, <1>3, <1>4, <1>5, <1>6 DEF AccountNext

(* The inductive invariant holds of every behaviour. *)
THEOREM AccountInvariant ==
  AccountSpec => []AccountInv
<1>1. AccountInit => AccountInv
  <2> SUFFICES ASSUME AccountInit PROVE AccountInv
    OBVIOUS
  <2>1. Blank \in Tab /\ ~Blank.answer /\ Blank.page = "left" /\ Unborn \in Election
    BY DEF Blank, Tab, TabPages, Identities, Unborn, Election, Owners
  <2>2. StateTypes
    BY <2>1, IdsAssumption DEF AccountInit, StateTypes, Identities
  <2>3. BirthInv /\ Born = {} /\ claimed = {}
    BY DEF AccountInit, BirthInv, Born
  <2>4. \A t \in Tabs : TabInv(t)
    BY <2>1 DEF AccountInit, TabInv
  <2>5. QED
    BY <2>2, <2>3, <2>4 DEF AccountInv, ClaimInv, MakerInv
<1>2. AccountInv /\ [AccountNext]_accountVars => AccountInv'
  <2>1. CASE AccountInv /\ UNCHANGED accountVars
    <3>1. /\ UNCHANGED <<elections, jar, tabs, unused, claimed, forgotten>>
          /\ StateTypes /\ BirthInv /\ (\A t \in Tabs : TabInv(t)) /\ ClaimInv /\ MakerInv
      BY <2>1 DEF accountVars, AccountInv
    <3>2. StateTypes' /\ BirthInv' /\ Born' = Born /\ Posting' = Posting
      BY <3>1 DEF StateTypes, BirthInv, Born, Posting
    <3>3. ClaimInv'
      BY <3>1, <3>2 DEF ClaimInv, OwnedBy
    <3>4. Grows
      BY <3>1 DEF Grows
    <3>5. \A t \in Tabs : TabInv(t)'
      BY <3>1, <3>2, <3>4, TabKept
    <3>6. \A f \in Born' : f \in Born /\ elections'[f].owner = elections[f].owner
      BY <3>1, <3>2
    <3>7. MakerInv'
      BY <3>1, <3>2, <3>6, MakerKept
    <3>8. QED
      BY <3>2, <3>3, <3>5, <3>7 DEF AccountInv
  <2>2. CASE AccountNext
    BY <2>2, AccountStep
  <2>3. QED
    BY <2>1, <2>2
<1>3. QED
  BY <1>1, <1>2, PTL DEF AccountSpec

(* The types of the cookies and of the history. *)
THEOREM AccountTypeCorrect ==
  AccountSpec => []AccountTypeOK
<1>1. AccountInv => AccountTypeOK
  BY DEF AccountInv, StateTypes, AccountTypeOK
<1>2. QED
  BY <1>1, AccountInvariant, PTL

(* An election made without an account stays with its maker, and a claimed   *)
(* one with the account: for any number of tabs and elections, whatever is   *)
(* open when identities, tokens and owners change (TemporaryAccessWarning.tsx, *)
(* claimElectionController.ts, editElectionControllers.ts).                  *)
THEOREM StaysWithMaker ==
  AccountSpec => []StaysWithItsMaker
<1>1. AccountInv => StaysWithItsMaker
  <2> SUFFICES ASSUME AccountInv, NEW e \in Born \ (Posting \cup forgotten),
                      Temporary(elections[e].owner), elections[e].fresh
               PROVE  TempUserAuth(e)
    BY DEF StaysWithItsMaker, AccountInv, ClaimInv
  <2>1. elections[e].owner = jar.temp /\ e \in jar.keys
    BY DEF AccountInv, MakerInv, WithMaker
  <2>2. QED
    BY <2>1 DEF TempUserAuth
<1>2. QED
  BY <1>1, AccountInvariant, PTL
-----------------------------------------------------------------------------
(* Statistics.                                                               *)
Poll == [owner : STRING, methods : SUBSET STRING, prior : BOOLEAN, votes : Nat]
Tables == {"counts", "races", "prior"}
Numbers == [Keys \cup {"all", "legacy"} -> [elections : Nat, votes : Int]]

(* What each table holds now.                                                *)
Present(from) ==
  CASE from = "counts" -> Counts
    [] from = "races" -> Races
    [] from = "prior" -> Prior

(* The types of the whole state; *)
PollTypes == IsFiniteSet(PollIds) /\ polls \in [PollIds -> Poll]
IsJob(j) ==
  /\ j = [at |-> j.at, read |-> j.read]
  /\ j.at \in {"idle", "reading"}
  /\ DOMAIN j.read \subseteq Tables
  /\ "counts" \in DOMAIN j.read => j.read["counts"] \in [PollIds -> Nat]
JobTypes ==
  /\ jobs = [r \in Jobs |-> jobs[r]]
  /\ \A r \in Jobs : IsJob(jobs[r])
  /\ dirty \subseteq Busy
(* the numbers on their way add up.                                          *)
SentTypes ==
  /\ joined \in BOOLEAN /\ behind \in BOOLEAN
  /\ inbox \in Seq(Numbers) /\ shows \in Numbers
  /\ AddsUp(shows) /\ \A i \in DOMAIN inbox : AddsUp(inbox[i])
NumbersTypes == PollTypes /\ JobTypes /\ SentTypes

(* A computation during which nothing changed has read what is there now.    *)
ReadsPresent ==
  \A r \in Busy \ dirty : \A t \in DOMAIN jobs[r].read : jobs[r].read[t] = Present(t)

(* What the page will show once it has what was sent.                        *)
Latest == IF inbox = <<>> THEN shows ELSE inbox[Len(inbox)]
LatestPresent ==
  joined /\ ~behind /\ Busy = {} => Latest = Stats(Counts, Races, Prior)

NumbersInv == NumbersTypes /\ ReadsPresent /\ LatestPresent

(* The keys are not the names of the totals.                                 *)
LEMMA KeysListed ==
  /\ Keys = {"star", "star_pr", "approval", "stv", "ranked_robin", "rcv",
             "choose_one", "multi_method"}
  /\ IsFiniteSet(Keys)
  /\ "all" \notin Keys /\ "legacy" \notin Keys /\ "none" \notin Keys
<1>1. Keys = {"star", "star_pr", "approval", "stv", "ranked_robin", "rcv",
              "choose_one", "multi_method"}
  BY DEF Keys, methodValueToTextKey
<1>2. IsFiniteSet(Keys)
  <2>1. \A a, b : IsFiniteSet({a} \cup {b})
    BY FS_Singleton, FS_Union
  <2>2. \A a, b, c, d : IsFiniteSet(({a} \cup {b}) \cup ({c} \cup {d}))
    BY <2>1, FS_Union
  <2>3. \A a, b, c, d, e, f, g, h :
          IsFiniteSet((({a} \cup {b}) \cup ({c} \cup {d}))
                        \cup (({e} \cup {f}) \cup ({g} \cup {h})))
    BY <2>2, FS_Union
  <2>4. IsFiniteSet((({"star"} \cup {"star_pr"}) \cup ({"approval"} \cup {"stv"}))
          \cup (({"ranked_robin"} \cup {"rcv"}) \cup ({"choose_one"} \cup {"multi_method"})))
    BY <2>3
  <2>5. Keys = (({"star"} \cup {"star_pr"}) \cup ({"approval"} \cup {"stv"}))
          \cup (({"ranked_robin"} \cup {"rcv"}) \cup ({"choose_one"} \cup {"multi_method"}))
    BY <1>1
  <2>6. QED
    BY <2>4, <2>5
<1>3. QED
  BY <1>1, <1>2

(* Sets of methods have one of the keys, or none.                            *)
LEMMA KeyOfKeys ==
  ASSUME NEW methods, KeyOf(methods) # "none"
  PROVE  KeyOf(methods) \in Keys
<1>1. CASE Cardinality(methods) > 1
  BY <1>1 DEF KeyOf, Keys
<1>2. CASE ~(Cardinality(methods) > 1)
  <2>1. methods # {} /\ methods \subseteq DOMAIN methodValueToTextKey
        /\ KeyOf(methods) = methodValueToTextKey[CHOOSE m \in methods : TRUE]
    BY <1>2 DEF KeyOf
  <2>2. (CHOOSE m \in methods : TRUE) \in DOMAIN methodValueToTextKey
    BY <2>1
  <2>3. QED
    BY <2>1, <2>2 DEF Keys
<1>3. QED
  BY <1>1, <1>2

(* What is computed is numbers, and those of the methods add up.             *)
LEMMA StatsAddUp ==
  ASSUME NEW D, IsFiniteSet(D), NEW counts \in [D -> Nat], NEW races, NEW prior
  PROVE  Stats(counts, races, prior) \in Numbers /\ AddsUp(Stats(counts, races, prior))
<1> DEFINE real == Counted(counts, races, prior)
           key == [i \in real |-> KeyOf(races[i].methods)]
           of(k) == {i \in real : key[i] = k}
           sum(T) == SumFunctionOnSet(counts, T)
           s == Stats(counts, races, prior)
<1>1. real \subseteq D /\ \A i \in real : KeyOf(races[i].methods) # "none"
  BY DEF Counted
<1>2. \A i \in real : key[i] \in Keys
  <2>1. TAKE i \in real
  <2>2. key[i] = KeyOf(races[i].methods) /\ KeyOf(races[i].methods) # "none"
    BY <1>1
  <2>3. QED
    BY <2>2, KeyOfKeys
<1>3. \A T \in SUBSET D : /\ IsFiniteSet(T) /\ Cardinality(T) \in Nat
                          /\ sum(T) \in Int
  <2>1. TAKE T \in SUBSET D
  <2>2. IsFiniteSet(T) /\ \A i \in T : counts[i] \in Int
    BY FS_Subset
  <2>3. QED
    BY <2>2, SumFolds, FS_CardinalityType
<1>4. SumFunctionOnSet([k \in Keys |-> sum(of(k))], Keys) = sum(real)
  <2>1. IsFiniteSet(real) /\ \A i \in real : counts[i] \in Int
    BY <1>1, <1>3
  <2>2. IsFiniteSet(Keys)
    BY KeysListed
  <2> HIDE DEF real, key
  <2>3. SumFunctionOnSet([k \in Keys |-> SumFunctionOnSet(counts, {i \in real : key[i] = k})], Keys)
          = SumFunctionOnSet(counts, real)
    BY <1>2, <2>1, <2>2, SumByKey
  <2>4. QED
    BY <2>3
<1>5. Classic \in [elections : Nat, votes : Nat]
  BY StatsAssumption DEF StartsAssumption
<1>6. \A k \in Keys : of(k) \in SUBSET D /\ of(k) = {i \in real : KeyOf(races[i].methods) = k}
  BY <1>1
<1>7. /\ DOMAIN s = Keys \cup {"all", "legacy"}
      /\ s["legacy"] = Classic
      /\ s["all"] = [elections |-> Classic.elections + Cardinality(real),
                     votes |-> Classic.votes + sum(real)]
      /\ \A k \in Keys : s[k] = [elections |-> Cardinality(of(k)), votes |-> sum(of(k))]
  <2> HIDE DEF real, sum
  <2>1. \A k \in Keys : k # "all" /\ k # "legacy"
    BY KeysListed
  <2>2. s = [k \in Keys \cup {"all", "legacy"} |->
         CASE k = "legacy" -> Classic
           [] k = "all" -> [elections |-> Classic.elections + Cardinality(real),
                            votes |-> Classic.votes + sum(real)]
           [] OTHER -> Total(counts, {i \in real : KeyOf(races[i].methods) = k})]
    BY DEF Stats, NoStats, real, Total, sum
  <2>3. \A k \in Keys : Total(counts, of(k)) = [elections |-> Cardinality(of(k)), votes |-> sum(of(k))]
    BY DEF Total, sum
  <2> HIDE DEF s, of
  <2>4. QED
    BY <1>6, <2>1, <2>2, <2>3
<1> HIDE DEF s, of, sum
<1>8. s \in Numbers
  <2>1. s["legacy"] \in [elections : Nat, votes : Int]
    BY <1>5, <1>7
  <2>2. s["all"] \in [elections : Nat, votes : Int]
    BY <1>1, <1>3, <1>5, <1>7
  <2>3. \A k \in Keys : s[k] \in [elections : Nat, votes : Int]
    BY <1>3, <1>6, <1>7
  <2>4. s = [k \in Keys \cup {"all", "legacy"} |-> s[k]]
    BY DEF s, Stats, NoStats
  <2>5. QED
    BY <2>1, <2>2, <2>3, <2>4 DEF Numbers
<1>9. AddsUp(s)
  <2>1. [k \in Keys |-> s[k].votes] = [k \in Keys |-> sum(of(k))]
    BY <1>7
  <2>2. s["all"].votes = s["legacy"].votes + sum(real)
    BY <1>7
  <2>3. QED
    BY <1>4, <2>1, <2>2 DEF AddsUp
<1>10. QED
  BY <1>8, <1>9 DEF s

(* The numbers a page starts with add up.                                    *)
LEMMA NothingAdds == NoStats \in Numbers /\ AddsUp(NoStats)
<1> DEFINE zeros == [k \in Keys |-> NoStats[k].votes]
<1>1. NoStats["all"].votes = 0 /\ NoStats["legacy"].votes = 0
  BY DEF NoStats
<1>2. \A k \in Keys : zeros[k] = 0
  BY DEF NoStats
<1>3. SumFunctionOnSet(zeros, Keys) = 0 * Cardinality(Keys)
  <2> HIDE DEF zeros
  <2>1. QED
    BY <1>2, KeysListed, EqualSums
<1>4. Cardinality(Keys) \in Nat
  BY KeysListed, FS_CardinalityType
<1>5. AddsUp(NoStats)
  BY <1>1, <1>3, <1>4 DEF AddsUp
<1>6. QED
  BY <1>5 DEF NoStats, Numbers

(* What a job has when it starts, and after each table.                      *)
LEMMA JobsAre ==
  /\ IsJob(IdleJob) /\ IsJob(Reading)
  /\ IdleJob.at = "idle" /\ Reading.at = "reading" /\ Reading.read = <<>>
  /\ DOMAIN Reading.read = {}
<1>1. DOMAIN <<>> = {}
  OBVIOUS
<1>2. QED
  BY <1>1 DEF IsJob, IdleJob, Reading

(* What a job holds after it has read a table that has not changed.          *)
LEMMA JobReads ==
  ASSUME PollTypes, NEW j, NEW from \in Tables, IsJob(j)
  PROVE  /\ [j EXCEPT !.read = With(j.read, from, Present(from))]
              = [at |-> j.at, read |-> With(j.read, from, Present(from))]
         /\ IsJob([at |-> j.at, read |-> With(j.read, from, Present(from))])
<1> DEFINE read == With(j.read, from, Present(from))
           k == [at |-> j.at, read |-> read]
<1>1. DOMAIN read = DOMAIN j.read \cup {from}
      /\ \A t \in DOMAIN read : read[t] = IF t = from THEN Present(from) ELSE j.read[t]
  BY DEF With
<1>2. j = [at |-> j.at, read |-> j.read] /\ j.at \in {"idle", "reading"}
      /\ DOMAIN j.read \subseteq Tables
      /\ ("counts" \in DOMAIN j.read => j.read["counts"] \in [PollIds -> Nat])
  BY DEF IsJob
<1>3. Present("counts") \in [PollIds -> Nat]
  <2>1. Present("counts") = Counts
    BY DEF Present
  <2>2. Counts \in [PollIds -> Nat]
    BY DEF Counts, PollTypes, Poll
  <2>3. QED
    BY <2>1, <2>2
<1> HIDE DEF read
<1>4. [j EXCEPT !.read = read] = k
  BY <1>2
<1>5. k.at = j.at /\ k.read = read
  OBVIOUS
<1>6. "counts" \in DOMAIN read => read["counts"] \in [PollIds -> Nat]
  <2>1. SUFFICES ASSUME "counts" \in DOMAIN read PROVE read["counts"] \in [PollIds -> Nat]
    OBVIOUS
  <2>2. CASE from = "counts"
    BY <1>1, <1>3, <2>1, <2>2
  <2>3. CASE from # "counts"
    BY <1>1, <1>2, <2>1, <2>3
  <2>4. QED
    BY <2>2, <2>3
<1> HIDE DEF k
<1>7. k = [at |-> k.at, read |-> k.read]
  BY <1>5 DEF k
<1>8. IsJob(k)
  BY <1>1, <1>2, <1>5, <1>6, <1>7 DEF IsJob
<1>9. QED
  BY <1>4, <1>8 DEF k, read

(* Nothing is sent or computed at first.                                     *)
LEMMA NumbersStart == StatsInit => NumbersInv
<1> SUFFICES ASSUME StatsInit PROVE NumbersInv
  OBVIOUS
<1>1. PollTypes
  BY StatsAssumption DEF StatsInit, StartsAssumption, PollIds, Poll, PollTypes
<1>2. jobs = [r \in Jobs |-> IdleJob]
  BY DEF StatsInit
<1>3. Busy = {}
  BY <1>2 DEF Busy, IdleJob
<1>4. JobTypes
  BY <1>1, <1>2, <1>3, JobsAre DEF JobTypes, StatsInit
<1>5. SentTypes
  <2>1. inbox = <<>> /\ shows = NoStats /\ joined = FALSE /\ behind = FALSE
    BY DEF StatsInit
  <2>2. inbox \in Seq(Numbers) /\ \A i \in DOMAIN inbox : AddsUp(inbox[i])
    BY <2>1
  <2>3. joined \in BOOLEAN /\ behind \in BOOLEAN
    BY <2>1, Zenon
  <2>4. QED
    BY <2>1, <2>2, <2>3, NothingAdds DEF SentTypes
<1>6. ReadsPresent /\ LatestPresent
  BY <1>3 DEF ReadsPresent, LatestPresent, StatsInit
<1>7. QED
  BY <1>1, <1>4, <1>5, <1>6 DEF NumbersInv, NumbersTypes

(* A computation starts, reads, or ends.                                     *)
LEMMA JobChanges ==
  ASSUME JobTypes, PollIds' = PollIds, NEW r \in Jobs, NEW j, IsJob(j),
         jobs' = [jobs EXCEPT ![r] = j],
         dirty' \subseteq IF j.at = "idle" THEN (dirty \cup Busy) \ {r}
                          ELSE dirty \cup Busy \cup {r}
  PROVE  /\ JobTypes'
         /\ jobs'[r] = j /\ \A q \in Jobs \ {r} : jobs'[q] = jobs[q]
         /\ Busy' = IF j.at = "idle" THEN Busy \ {r} ELSE Busy \cup {r}
<1>1. jobs = [q \in Jobs |-> jobs[q]] /\ (\A q \in Jobs : IsJob(jobs[q])) /\ dirty \subseteq Busy
  BY DEF JobTypes
<1>2. jobs' = [q \in Jobs |-> IF q = r THEN j ELSE jobs[q]]
  BY <1>1
<1>3. jobs'[r] = j /\ \A q \in Jobs \ {r} : jobs'[q] = jobs[q]
  BY <1>2
<1>4. jobs' = [q \in Jobs |-> jobs'[q]]
  BY <1>2, <1>3
<1>5. \A q \in Jobs : IsJob(jobs[q])'
  <2>1. \A q \in Jobs : IsJob(jobs'[q])
    BY <1>1, <1>3
  <2>2. QED
    BY <2>1 DEF IsJob
<1>6. Busy' = IF j.at = "idle" THEN Busy \ {r} ELSE Busy \cup {r}
  BY <1>3 DEF Busy
<1>7. dirty' \subseteq Busy'
  BY <1>1, <1>6
<1>8. QED
  BY <1>3, <1>4, <1>5, <1>6, <1>7 DEF JobTypes

(* What is unchanged when the elections are, and when what was sent is.      *)
LEMMA SamePolls ==
  ASSUME UNCHANGED polls
  PROVE  /\ PollIds' = PollIds /\ Counts' = Counts /\ Races' = Races /\ Prior' = Prior
         /\ PollTypes => PollTypes'
         /\ \A t : Present(t)' = Present(t)
<1>1. PollIds' = PollIds /\ Counts' = Counts /\ Races' = Races /\ Prior' = Prior
  BY DEF PollIds, Counts, Races, Prior
<1>2. PollTypes => PollTypes'
  BY <1>1 DEF PollTypes
<1>3. \A t : Present(t)' = Present(t)
  BY <1>1 DEF Present
<1>4. QED
  BY <1>1, <1>2, <1>3

(* What was sent last stays while nothing is sent or taken.                  *)
LEMMA SameSent ==
  ASSUME SentTypes, UNCHANGED <<joined, inbox, shows>>, behind' \in BOOLEAN
  PROVE  SentTypes' /\ Latest' = Latest
BY DEF SentTypes, Latest, AddsUp

(* Elections change one at a time, and stay elections.                       *)
LEMMA PollChanges ==
  ASSUME PollTypes, NEW i \in PollIds, NEW methods \in SUBSET STRING, NEW votes \in Nat,
         polls' = [polls EXCEPT ![i].methods = methods, ![i].votes = votes]
  PROVE  PollIds' = PollIds /\ PollTypes'
<1> DEFINE poll == [owner |-> polls[i].owner, methods |-> methods, prior |-> polls[i].prior,
                    votes |-> votes]
<1>1. polls[i] \in Poll
  BY DEF PollTypes
<1>2. poll \in Poll
  BY <1>1 DEF Poll
<1>3. polls' = [polls EXCEPT ![i] = poll]
  <2>1. polls[i] = [owner |-> polls[i].owner, methods |-> polls[i].methods,
                    prior |-> polls[i].prior, votes |-> polls[i].votes]
    BY <1>1 DEF Poll
  <2>2. polls' = [[polls EXCEPT ![i].methods = methods] EXCEPT ![i].votes = votes]
    OBVIOUS
  <2>3. [polls EXCEPT ![i].methods = methods]
          = [polls EXCEPT ![i] = [owner |-> polls[i].owner, methods |-> methods,
                                  prior |-> polls[i].prior, votes |-> polls[i].votes]]
    <3>1. [polls EXCEPT ![i].methods = methods]
            = [polls EXCEPT ![i] = [polls[i] EXCEPT !.methods = methods]]
      BY DEF PollTypes
    <3>2. [polls[i] EXCEPT !.methods = methods]
            = [owner |-> polls[i].owner, methods |-> methods,
               prior |-> polls[i].prior, votes |-> polls[i].votes]
      BY <2>1
    <3>3. QED
      BY <3>1, <3>2
  <2> DEFINE half == [owner |-> polls[i].owner, methods |-> methods,
                      prior |-> polls[i].prior, votes |-> polls[i].votes]
  <2>4. [half EXCEPT !.votes = votes] = poll
    OBVIOUS
  <2>5. polls' = [[polls EXCEPT ![i] = half] EXCEPT ![i].votes = votes]
    BY <2>2, <2>3
  <2> HIDE DEF half, poll
  <2>6. [[polls EXCEPT ![i] = half] EXCEPT ![i].votes = votes]
          = [polls EXCEPT ![i] = [half EXCEPT !.votes = votes]]
    BY DEF PollTypes
  <2>7. QED
    BY <2>4, <2>5, <2>6
<1> HIDE DEF poll
<1>4. polls' \in [PollIds -> Poll]
  BY <1>2, <1>3 DEF PollTypes
<1>5. PollIds' = PollIds
  BY <1>4 DEF PollIds
<1>6. QED
  BY <1>4, <1>5 DEF PollTypes

(* Ballots are stored, and the request starts to compute.                    *)
LEMMA VoteNumbers ==
  ASSUME NumbersInv, NEW r \in Requests, NEW i \in PollIds, NEW n \in 0..2, Vote(r, i, n)
  PROVE  NumbersInv'
<1>1. PollTypes /\ JobTypes /\ SentTypes
  BY DEF NumbersInv, NumbersTypes
<1>2. PollIds' = PollIds /\ PollTypes'
  <2>1. polls' = [polls EXCEPT ![i].votes = polls[i].votes + n]
    BY DEF Vote
  <2>2. polls[i].votes + n \in Nat /\ polls[i] \in Poll
    BY <1>1 DEF PollTypes, Poll
  <2>3. polls' \in [PollIds -> Poll]
    BY <1>1, <2>1, <2>2 DEF PollTypes, Poll
  <2>4. PollIds' = PollIds
    BY <2>3 DEF PollIds
  <2>5. QED
    BY <1>1, <2>3, <2>4 DEF PollTypes
<1>3. /\ r \in Jobs /\ jobs' = [jobs EXCEPT ![r] = Reading] /\ dirty' = dirty \cup Busy
      /\ UNCHANGED <<joined, inbox, shows, behind>>
  BY DEF Vote, Jobs
<1>4. JobTypes' /\ jobs'[r] = Reading /\ Busy' = Busy \cup {r}
  BY <1>1, <1>2, <1>3, JobsAre, JobChanges
<1>5. SentTypes'
  BY <1>1, <1>3, SameSent DEF SentTypes
<1>6. ReadsPresent'
  <2>1. \A q \in Busy' \ dirty' : q = r
    BY <1>3, <1>4
  <2>2. DOMAIN jobs'[r].read = {}
    BY <1>4, JobsAre
  <2>3. QED
    BY <2>1, <2>2 DEF ReadsPresent
<1>7. LatestPresent'
  BY <1>4 DEF LatestPresent
<1>8. QED
  BY <1>2, <1>4, <1>5, <1>6, <1>7 DEF NumbersInv, NumbersTypes

(* An election changes without numbers.                                      *)
LEMMA ChangeNumbers ==
  ASSUME NumbersInv, NEW i \in PollIds, ChangeRaces(i) \/ DeleteBallots(i)
  PROVE  NumbersInv'
<1>1. PollTypes /\ JobTypes /\ SentTypes
  BY DEF NumbersInv, NumbersTypes
<1>2. PICK methods \in SUBSET STRING, votes \in Nat : ChangePoll(i, methods, votes)
  <2>1. polls[i] \in Poll /\ polls[i].methods \in SUBSET STRING /\ polls[i].votes \in Nat
    BY <1>1 DEF PollTypes, Poll
  <2>2. \A methods \in MethodSets : methods \in SUBSET STRING
    BY StatsAssumption DEF StartsAssumption
  <2>3. QED
    BY <2>1, <2>2 DEF ChangeRaces, DeleteBallots
<1>3. PollIds' = PollIds /\ PollTypes'
  BY <1>1, <1>2, PollChanges DEF ChangePoll
<1>4. /\ UNCHANGED <<jobs, joined, inbox, shows>> /\ behind' = TRUE
      /\ dirty' = dirty \cup Busy
  BY <1>2 DEF ChangePoll
<1>5. Busy' = Busy
  BY <1>4 DEF Busy
<1>6. JobTypes'
  BY <1>1, <1>3, <1>4, <1>5 DEF JobTypes, IsJob
<1>7. SentTypes'
  <2>1. behind' \in BOOLEAN
    BY <1>4, Zenon
  <2>2. QED
    BY <1>1, <1>4, <2>1, SameSent
<1>8. ReadsPresent' /\ LatestPresent'
  BY <1>4, <1>5 DEF ReadsPresent, LatestPresent
<1>9. QED
  BY <1>3, <1>6, <1>7, <1>8 DEF NumbersInv, NumbersTypes

(* A computation fails,                                                      *)
LEMMA FailsNumbers ==
  ASSUME NumbersInv, NEW r \in Jobs, Fails(r)
  PROVE  NumbersInv'
<1>1. PollTypes /\ JobTypes /\ SentTypes
  BY DEF NumbersInv, NumbersTypes
<1>2. /\ UNCHANGED <<polls, joined, inbox, shows>> /\ behind' = TRUE
      /\ jobs' = [jobs EXCEPT ![r] = IdleJob] /\ dirty' = dirty \ {r}
  BY DEF Fails
<1>3. PollIds' = PollIds /\ PollTypes' /\ \A t : Present(t)' = Present(t)
  BY <1>1, <1>2, SamePolls
<1>4. JobTypes' /\ Busy' = Busy \ {r} /\ \A q \in Jobs \ {r} : jobs'[q] = jobs[q]
  BY <1>1, <1>2, <1>3, JobsAre, JobChanges
<1>5. SentTypes'
  <2>1. behind' \in BOOLEAN
    BY <1>2, Zenon
  <2>2. QED
    BY <1>1, <1>2, <2>1, SameSent
<1>6. ReadsPresent'
  <2>1. \A q \in Busy' \ dirty' : q \in Busy \ dirty /\ jobs'[q] = jobs[q]
    BY <1>2, <1>4 DEF Busy
  <2>2. QED
    BY <1>3, <2>1 DEF NumbersInv, ReadsPresent
<1>7. LatestPresent'
  BY <1>2 DEF LatestPresent
<1>8. QED
  BY <1>3, <1>4, <1>5, <1>6, <1>7 DEF NumbersInv, NumbersTypes

(* or reads a table,                                                         *)
LEMMA ReadNumbers ==
  ASSUME NumbersInv, NEW r \in Jobs, ReadTables(r)
  PROVE  NumbersInv'
<1>1. PollTypes /\ JobTypes /\ SentTypes
  BY DEF NumbersInv, NumbersTypes
<1>2. PICK from \in Tables : Read(r, from, Present(from))
  <2>1. CASE Read(r, "counts", Counts)
    BY <2>1 DEF Present, Tables
  <2>2. CASE Read(r, "races", Races)
    BY <2>2 DEF Present, Tables
  <2>3. CASE Read(r, "prior", Prior)
    BY <2>3 DEF Present, Tables
  <2>4. QED
    BY <2>1, <2>2, <2>3 DEF ReadTables
<1> DEFINE read == With(jobs[r].read, from, Present(from))
           j == [at |-> jobs[r].at, read |-> read]
<1>3. IsJob(jobs[r]) /\ jobs = [q \in Jobs |-> jobs[q]]
  BY <1>1 DEF JobTypes
<1>4. [jobs[r] EXCEPT !.read = read] = j /\ IsJob(j)
  BY <1>1, <1>3, JobReads
<1>5. /\ jobs[r].at = "reading" /\ from \notin DOMAIN jobs[r].read
      /\ jobs' = [jobs EXCEPT ![r].read = read]
      /\ UNCHANGED <<polls, joined, inbox, shows, behind, dirty>>
  BY <1>2 DEF Read
<1>6. DOMAIN read = DOMAIN jobs[r].read \cup {from}
      /\ \A t \in DOMAIN read : read[t] = IF t = from THEN Present(from) ELSE jobs[r].read[t]
  BY DEF With
<1> HIDE DEF read
<1>7. jobs' = [jobs EXCEPT ![r] = j] /\ j.at = "reading" /\ j.read = read
  <2>1. [jobs EXCEPT ![r].read = read] = [jobs EXCEPT ![r] = [jobs[r] EXCEPT !.read = read]]
    BY <1>3
  <2>2. QED
    BY <1>4, <1>5, <2>1
<1> HIDE DEF j
<1>8. PollIds' = PollIds /\ PollTypes' /\ \A t : Present(t)' = Present(t)
  BY <1>1, <1>5, SamePolls
<1>9. r \in Busy
  BY <1>5 DEF Busy
<1>10. JobTypes' /\ Busy' = Busy /\ jobs'[r] = j /\ \A q \in Jobs \ {r} : jobs'[q] = jobs[q]
  <2>1. dirty' \subseteq dirty \cup Busy \cup {r}
    BY <1>5
  <2>2. JobTypes' /\ Busy' = Busy \cup {r} /\ jobs'[r] = j
        /\ \A q \in Jobs \ {r} : jobs'[q] = jobs[q]
    BY <1>1, <1>4, <1>7, <1>8, <2>1, JobChanges
  <2>3. QED
    BY <1>9, <2>2
<1>11. SentTypes'
  BY <1>1, <1>5, SameSent DEF SentTypes
<1>12. ReadsPresent'
  <2>1. ASSUME NEW q \in Busy' \ dirty', NEW t \in DOMAIN jobs'[q].read
        PROVE  jobs'[q].read[t] = Present(t)
    <3>1. q \in Busy \ dirty /\ q \in Jobs
      BY <1>5, <1>10 DEF Busy
    <3>2. CASE q # r
      BY <1>10, <2>1, <3>1, <3>2 DEF NumbersInv, ReadsPresent
    <3>3. CASE q = r
      BY <1>6, <1>7, <1>10, <2>1, <3>1, <3>3 DEF NumbersInv, ReadsPresent
    <3>4. QED
      BY <3>2, <3>3
  <2>2. QED
    BY <1>8, <2>1 DEF ReadsPresent
<1>13. LatestPresent'
  BY <1>9, <1>10 DEF LatestPresent
<1>14. QED
  BY <1>8, <1>10, <1>11, <1>12, <1>13 DEF NumbersInv, NumbersTypes

(* or is sent.                                                               *)
LEMMA EmitNumbers ==
  ASSUME NumbersInv, NEW r \in Jobs, Emit(r)
  PROVE  NumbersInv'
<1> DEFINE read == jobs[r].read
           stats == Stats(read.counts, read.races, read.prior)
<1>1. PollTypes /\ JobTypes /\ SentTypes
  BY DEF NumbersInv, NumbersTypes
<1>2. /\ UNCHANGED <<polls, joined, shows>> /\ behind' = (r \in dirty)
      /\ inbox' = IF joined THEN Append(inbox, stats) ELSE inbox
      /\ jobs' = [jobs EXCEPT ![r] = IdleJob] /\ dirty' = dirty \ {r}
      /\ jobs[r].at = "reading" /\ DOMAIN read = {"counts", "races", "prior"}
  BY DEF Emit
<1>3. PollIds' = PollIds /\ PollTypes' /\ (\A t : Present(t)' = Present(t))
      /\ Counts' = Counts /\ Races' = Races /\ Prior' = Prior
  BY <1>1, <1>2, SamePolls
<1>4. JobTypes' /\ Busy' = Busy \ {r} /\ \A q \in Jobs \ {r} : jobs'[q] = jobs[q]
  BY <1>1, <1>2, <1>3, JobsAre, JobChanges
<1>5. stats \in Numbers /\ AddsUp(stats)
  <2>1. read["counts"] \in [PollIds -> Nat] /\ IsFiniteSet(PollIds)
    BY <1>1, <1>2 DEF JobTypes, IsJob, PollTypes
  <2>2. QED
    BY <2>1, StatsAddUp
<1>6. r \notin dirty => stats = Stats(Counts, Races, Prior)
  <2>1. SUFFICES ASSUME r \notin dirty PROVE stats = Stats(Counts, Races, Prior)
    OBVIOUS
  <2>2. r \in Busy \ dirty
    BY <1>2, <2>1 DEF Busy
  <2>3. \A t \in DOMAIN read : read[t] = Present(t)
    BY <2>2 DEF NumbersInv, ReadsPresent
  <2>4. read["counts"] = Present("counts") /\ read["races"] = Present("races")
        /\ read["prior"] = Present("prior")
    BY <1>2, <2>3
  <2>5. Present("counts") = Counts /\ Present("races") = Races /\ Present("prior") = Prior
    BY DEF Present
  <2>6. read.counts = Counts /\ read.races = Races /\ read.prior = Prior
    BY <2>4, <2>5
  <2>7. QED
    BY <2>6
<1> HIDE DEF read, stats
<1>7. inbox \in Seq(Numbers) /\ \A i \in DOMAIN inbox : AddsUp(inbox[i])
  BY <1>1 DEF SentTypes
<1>8. Append(inbox, stats) \in Seq(Numbers) /\ Append(inbox, stats) # <<>>
      /\ (\A i \in DOMAIN Append(inbox, stats) : AddsUp(Append(inbox, stats)[i]))
      /\ Append(inbox, stats)[Len(Append(inbox, stats))] = stats
  <2>1. \A i \in 1..Len(inbox) + 1 :
          Append(inbox, stats)[i] = IF i \in DOMAIN inbox THEN inbox[i] ELSE stats
    BY <1>5, <1>7
  <2>2. DOMAIN Append(inbox, stats) = 1..Len(inbox) + 1
        /\ Append(inbox, stats) \in Seq(Numbers)
        /\ Len(Append(inbox, stats)) = Len(inbox) + 1 /\ Len(inbox) \in Nat
        /\ DOMAIN inbox = 1..Len(inbox)
    BY <1>5, <1>7
  <2>3. QED
    BY <1>5, <1>7, <2>1, <2>2
<1>9. SentTypes'
  <2>1. behind' \in BOOLEAN /\ joined' \in BOOLEAN
    <3>1. behind' = (r \in dirty) /\ joined' = joined
      BY <1>2
    <3>2. (r \in dirty) \in BOOLEAN
      OBVIOUS
    <3>3. QED
      BY <1>1, <3>1, <3>2 DEF SentTypes
  <2>2. inbox' \in Seq(Numbers) /\ \A i \in DOMAIN inbox' : AddsUp(inbox'[i])
    BY <1>2, <1>7, <1>8
  <2>3. shows' \in Numbers /\ AddsUp(shows')
    BY <1>1, <1>2 DEF SentTypes
  <2>4. QED
    BY <2>1, <2>2, <2>3 DEF SentTypes, AddsUp
<1>10. ReadsPresent'
  <2>1. \A q \in Busy' \ dirty' : q \in Busy \ dirty /\ jobs'[q] = jobs[q]
    BY <1>2, <1>4 DEF Busy
  <2>2. QED
    BY <1>3, <2>1 DEF NumbersInv, ReadsPresent
<1>11. LatestPresent'
  <2>1. SUFFICES ASSUME joined', ~behind' PROVE Latest' = Stats(Counts, Races, Prior)'
    BY DEF LatestPresent
  <2>2. inbox' = Append(inbox, stats) /\ r \notin dirty
    BY <1>2, <2>1
  <2>3. Latest' = stats
    BY <1>8, <2>2 DEF Latest
  <2>4. Stats(Counts, Races, Prior)' = Stats(Counts, Races, Prior)
    BY <1>3 DEF Stats, Counted, Total
  <2>5. QED
    BY <1>6, <2>2, <2>3, <2>4
<1>12. QED
  BY <1>3, <1>4, <1>9, <1>10, <1>11 DEF NumbersInv, NumbersTypes

(* The page joins, its socket connects anew, or it takes what was sent.      *)
LEMMA PageNumbers ==
  ASSUME NumbersInv, Mount \/ Reconnect \/ UpdatedStats
  PROVE  NumbersInv'
<1>1. PollTypes /\ JobTypes /\ SentTypes /\ JoinPage \in Jobs
  BY DEF NumbersInv, NumbersTypes, Jobs
<1>2. UNCHANGED <<polls, behind>>
  BY DEF Mount, Reconnect, UpdatedStats
<1>3. PollIds' = PollIds /\ PollTypes' /\ (\A t : Present(t)' = Present(t))
      /\ Counts' = Counts /\ Races' = Races /\ Prior' = Prior
  BY <1>1, <1>2, SamePolls
<1>4. CASE Mount
  <2>1. /\ jobs' = [jobs EXCEPT ![JoinPage] = Reading] /\ UNCHANGED <<inbox, dirty>>
        /\ joined' = TRUE /\ shows' = NoStats
    BY <1>4 DEF Mount
  <2>2. dirty' \subseteq dirty \cup Busy \cup {JoinPage}
    BY <2>1
  <2>3. JobTypes' /\ jobs'[JoinPage] = Reading /\ Busy' = Busy \cup {JoinPage}
        /\ \A q \in Jobs \ {JoinPage} : jobs'[q] = jobs[q]
    BY <1>1, <1>3, <2>1, <2>2, JobsAre, JobChanges
  <2>4. SentTypes'
    <3>1. joined' \in BOOLEAN /\ behind' \in BOOLEAN
      BY <1>1, <1>2, <2>1, Zenon DEF SentTypes
    <3>2. shows' \in Numbers /\ AddsUp(shows')
      BY <2>1, NothingAdds
    <3>3. QED
      BY <1>1, <2>1, <3>1, <3>2 DEF SentTypes, AddsUp
  <2>5. ReadsPresent'
    <3>1. ASSUME NEW q \in Busy' \ dirty', NEW t \in DOMAIN jobs'[q].read
          PROVE  jobs'[q].read[t] = Present(t)
      <4>1. q # JoinPage
        BY <2>3, <3>1, JobsAre
      <4>2. q \in Busy \ dirty /\ q \in Jobs
        BY <2>1, <2>3, <4>1 DEF Busy
      <4>3. QED
        BY <2>3, <3>1, <4>1, <4>2 DEF NumbersInv, ReadsPresent
    <3>2. QED
      BY <1>3, <3>1 DEF ReadsPresent
  <2>6. LatestPresent'
    BY <2>3 DEF LatestPresent
  <2>7. QED
    BY <1>3, <2>3, <2>4, <2>5, <2>6 DEF NumbersInv, NumbersTypes
<1>5. CASE Reconnect
  <2>1. /\ jobs' = [jobs EXCEPT ![JoinPage] = IdleJob] /\ dirty' = dirty \ {JoinPage}
        /\ joined' = FALSE /\ inbox' = <<>> /\ shows' = shows
    BY <1>5 DEF Reconnect
  <2>2. JobTypes' /\ Busy' = Busy \ {JoinPage} /\ \A q \in Jobs \ {JoinPage} : jobs'[q] = jobs[q]
    BY <1>1, <1>3, <2>1, JobsAre, JobChanges
  <2>3. SentTypes'
    <3>1. joined' \in BOOLEAN /\ behind' \in BOOLEAN
      BY <1>1, <1>2, <2>1, Zenon DEF SentTypes
    <3>2. QED
      BY <1>1, <2>1, <3>1 DEF SentTypes, AddsUp
  <2>4. ReadsPresent'
    <3>1. \A q \in Busy' \ dirty' : q \in Busy \ dirty /\ jobs'[q] = jobs[q]
      BY <2>1, <2>2 DEF Busy
    <3>2. QED
      BY <1>3, <3>1 DEF NumbersInv, ReadsPresent
  <2>5. LatestPresent'
    BY <2>1 DEF LatestPresent
  <2>6. QED
    BY <1>3, <2>2, <2>3, <2>4, <2>5 DEF NumbersInv, NumbersTypes
<1>6. CASE UpdatedStats
  <2>1. /\ inbox # <<>> /\ shows' = inbox[1] /\ inbox' = Tail(inbox)
        /\ UNCHANGED <<jobs, joined, dirty>>
    BY <1>1, <1>6 DEF UpdatedStats, SentTypes
  <2>2. /\ inbox \in Seq(Numbers) /\ Len(inbox) \in Nat \ {0}
        /\ DOMAIN inbox = 1..Len(inbox)
        /\ inbox' \in Seq(Numbers) /\ Len(inbox') = Len(inbox) - 1
        /\ DOMAIN inbox' = 1..Len(inbox')
        /\ \A i \in DOMAIN inbox' : inbox'[i] = inbox[i + 1] /\ i + 1 \in DOMAIN inbox
    BY <1>1, <2>1 DEF SentTypes
  <2>3. Latest' = Latest
    <3>1. CASE Len(inbox) = 1
      BY <2>1, <2>2, <3>1 DEF Latest
    <3>2. CASE Len(inbox) # 1
      <4>1. inbox' # <<>> /\ Len(inbox') \in DOMAIN inbox' /\ Len(inbox') + 1 = Len(inbox)
        BY <2>2, <3>2
      <4>2. QED
        BY <2>1, <2>2, <4>1 DEF Latest
    <3>3. QED
      BY <3>1, <3>2
  <2>4. SentTypes'
    <3>1. shows' \in Numbers /\ AddsUp(shows')
      BY <1>1, <2>1, <2>2 DEF SentTypes
    <3>2. \A i \in DOMAIN inbox' : AddsUp(inbox'[i])
      BY <1>1, <2>2 DEF SentTypes
    <3>3. joined' \in BOOLEAN /\ behind' \in BOOLEAN
      BY <1>1, <1>2, <2>1, Zenon DEF SentTypes
    <3>4. QED
      BY <2>2, <3>1, <3>2, <3>3 DEF SentTypes, AddsUp
  <2>5. Busy' = Busy
    BY <2>1 DEF Busy
  <2>6. JobTypes'
    BY <1>1, <1>3, <2>1, <2>5 DEF JobTypes, IsJob
  <2>7. ReadsPresent'
    BY <1>3, <2>1, <2>5 DEF NumbersInv, ReadsPresent
  <2>8. LatestPresent'
    <3>1. Stats(Counts, Races, Prior)' = Stats(Counts, Races, Prior)
      BY <1>3 DEF Stats, Counted, Total
    <3>2. QED
      BY <1>2, <2>1, <2>3, <2>5, <3>1 DEF NumbersInv, LatestPresent
  <2>9. QED
    BY <1>3, <2>4, <2>6, <2>7, <2>8 DEF NumbersInv, NumbersTypes
<1>7. QED
  BY <1>4, <1>5, <1>6

(* A step that changes nothing.                                              *)
LEMMA IdleNumbers == NumbersInv /\ UNCHANGED statsVars => NumbersInv'
<1> SUFFICES ASSUME NumbersInv, UNCHANGED statsVars PROVE NumbersInv'
  OBVIOUS
<1>1. UNCHANGED <<polls, jobs, joined, inbox, shows, behind, dirty>>
  BY DEF statsVars
<1>2. PollIds' = PollIds /\ PollTypes' /\ (\A t : Present(t)' = Present(t))
      /\ Counts' = Counts /\ Races' = Races /\ Prior' = Prior /\ Busy' = Busy
  BY <1>1, SamePolls DEF NumbersInv, NumbersTypes, Busy
<1>3. JobTypes'
  BY <1>1, <1>2 DEF NumbersInv, NumbersTypes, JobTypes, IsJob
<1>4. SentTypes' /\ Latest' = Latest
  BY <1>1, SameSent DEF NumbersInv, NumbersTypes, SentTypes
<1>5. ReadsPresent'
  BY <1>1, <1>2 DEF NumbersInv, ReadsPresent
<1>6. Stats(Counts, Races, Prior)' = Stats(Counts, Races, Prior)
  BY <1>2 DEF Stats, Counted, Total
<1>7. LatestPresent'
  BY <1>1, <1>2, <1>4, <1>6 DEF NumbersInv, LatestPresent
<1>8. QED
  BY <1>2, <1>3, <1>4, <1>5, <1>7 DEF NumbersInv, NumbersTypes

(* A computation during which nothing changed has read what is there, and    *)
(* what was sent last is the present when no request is to send anything and *)
(* nothing was missed.                                                       *)
THEOREM NumbersInvariant == StatsSpec => []NumbersInv
<1>1. NumbersInv /\ [StatsNext]_statsVars => NumbersInv'
  BY VoteNumbers, ChangeNumbers, FailsNumbers, ReadNumbers, EmitNumbers, PageNumbers,
     IdleNumbers DEF StatsNext
<1>2. QED
  BY <1>1, NumbersStart, PTL DEF StatsSpec

(* A page in the room of the landing page shows the present once nothing is  *)
(* under way and nothing was missed, and its numbers add up                  *)
(* (castVoteController.ts, getElectionsController.ts:136-138).               *)
THEOREM PageIsPresent == StatsSpec => []PageShowsPresent
<1>1. NumbersInv => PageShowsPresent
  BY DEF NumbersInv, NumbersTypes, SentTypes, LatestPresent, Latest, PageShowsPresent
<1>2. QED
  BY <1>1, NumbersInvariant, PTL
-----------------------------------------------------------------------------
(* Listings.                                                                 *)
TableRow == [id : ListIds, state : States]
ListTypes ==
  /\ listed \in [ListIds -> Details] /\ toClaim \in ListIds \cup {""}
  /\ visit \in [list : Pages, at : {"left", "claiming", "loading", "shown"},
                rows : SUBSET TableRow]
  /\ table \in [search : ListIds \cup {""}, order : {"asc", "desc"}, size : Sizes,
                page : Nat, rows : SUBSET TableRow]
  /\ pool \in [States -> BOOLEAN] /\ choices \in [States -> BOOLEAN]
  /\ grants \subseteq ListIds

(* The rows are those of a list, each election once; the table has those that*)
(* pass the filters as they are now, and a page of them; and what was claimed*)
(* is one's own, and was so when one's own list was read.                    *)
ListInv ==
  /\ ListTypes
  /\ IsFiniteSet(visit.rows) /\ \A p, q \in visit.rows : p.id = q.id => p = q
  /\ IF RowsShown THEN table.rows = Filtered(visit.list, visit.rows, table.search, pool)
     ELSE table.rows = {}
  /\ table.page = 0 \/ table.page * table.size < Cardinality(table.rows)
  /\ \A i \in grants : listed[i].owner = "me"
  /\ RowsShown /\ visit.list = "manage" => grants \subseteq {r.id : r \in visit.rows}

LEMMA ListedIs ==
  ASSUME ListTypes, NEW list \in Pages
  PROVE  /\ Listed(list) \subseteq TableRow /\ IsFiniteSet(Listed(list))
         /\ \A p, q \in Listed(list) : p.id = q.id => p = q
         /\ {r.id : r \in Listed(list)} = {i \in ListIds : OnList(list, listed[i])}
<1> DEFINE on == {i \in ListIds : OnList(list, listed[i])}
           f == [i \in on |-> [id |-> i, state |-> listed[i].state]]
<1>1. Listed(list) = {f[i] : i \in on}
  BY DEF Listed
<1>2. \A i \in on : f[i] \in TableRow /\ f[i].id = i
  BY DEF ListTypes, TableRow, Details
<1>3. IsFiniteSet(on)
  BY ListingsAssumption, FS_Subset
<1>4. f \in Surjection(on, Listed(list))
  BY <1>1 DEF Surjection
<1> HIDE DEF f
<1>5. IsFiniteSet(Listed(list))
  BY <1>3, <1>4, FS_Surjection
<1>6. QED
  BY <1>1, <1>2, <1>5

LEMMA ListStarts == ListInit => ListInv
<1>1. SUFFICES ASSUME ListInit PROVE ListInv
  OBVIOUS
<1>2. listed \in [ListIds -> Details] /\ 2 \in Sizes
  BY <1>1, ListingsAssumption DEF ListInit
<1>3. IsFiniteSet({})
  BY FS_EmptySet
<1>4. QED
  BY <1>1, <1>2, <1>3
     DEF ListInit, ListInv, ListTypes, NewTable, DefaultGroups, RowsShown, Pages, States

LEMMA ChangesKeep ==
  ASSUME ListInv, NEW i \in ListIds, MoveOn(i) \/ VoteIn(i)
  PROVE  ListInv'
<1>1. PICK e \in Details : Change(i, e) /\ e.owner = listed[i].owner
  <2>1. listed[i] \in Details
    BY DEF ListInv, ListTypes
  <2>2. CASE MoveOn(i)
    <3>1. PICK s \in After(listed[i].state) : Change(i, [listed[i] EXCEPT !.state = s])
      BY <2>2 DEF MoveOn
    <3>2. s \in States
      BY <3>1 DEF After, States
    <3>3. [listed[i] EXCEPT !.state = s] \in Details
          /\ [listed[i] EXCEPT !.state = s].owner = listed[i].owner
      BY <2>1, <3>2 DEF Details
    <3>4. QED
      BY <3>1, <3>3
  <2>3. CASE VoteIn(i)
    <3>1. Change(i, [listed[i] EXCEPT !.roll = "submitted"])
      BY <2>3 DEF VoteIn
    <3>2. [listed[i] EXCEPT !.roll = "submitted"] \in Details
          /\ [listed[i] EXCEPT !.roll = "submitted"].owner = listed[i].owner
      BY <2>1 DEF Details
    <3>3. QED
      BY <3>1, <3>2
  <2>4. QED
    BY <2>2, <2>3
<1>2. /\ listed' = [listed EXCEPT ![i] = e]
      /\ UNCHANGED <<toClaim, visit, pool, table, choices, grants>>
  BY <1>1 DEF Change
<1>3. listed' \in [ListIds -> Details] /\ \A j \in grants : listed'[j].owner = "me"
  BY <1>1, <1>2 DEF ListInv, ListTypes
<1>4. QED
  BY <1>2, <1>3 DEF ListInv, ListTypes, RowsShown

LEMMA MountsKeep ==
  ASSUME ListInv, NEW list \in Pages, NEW at \in {"claiming", "loading"},
         MountTable(list, at), toClaim' \in ListIds \cup {""},
         UNCHANGED <<listed, pool, grants>>
  PROVE  ListInv'
<1>1. /\ visit' = [list |-> list, at |-> at, rows |-> {}]
      /\ table' = NewTable /\ choices' = DefaultGroups
  BY DEF MountTable
<1>2. 2 \in Sizes /\ IsFiniteSet({})
  BY ListingsAssumption, FS_EmptySet
<1>3. QED
  BY <1>1, <1>2 DEF ListInv, ListTypes, NewTable, DefaultGroups, RowsShown, States

LEMMA ClaimsKeep ==
  ASSUME ListInv, Granted \/ Refused
  PROVE  ListInv'
<1>1. /\ visit' = [visit EXCEPT !.at = "loading"] /\ toClaim' = ""
      /\ visit.at = "claiming" /\ UNCHANGED <<pool, table, choices>>
  BY DEF Granted, Refused
<1>2. /\ listed' \in [ListIds -> Details] /\ grants' \subseteq ListIds
      /\ \A j \in grants' : listed'[j].owner = "me"
  <2>1. CASE Granted
    <3>1. /\ toClaim \in ListIds /\ listed[toClaim] \in Details
          /\ listed' = [listed EXCEPT ![toClaim].owner = "me"]
          /\ grants' = grants \cup {toClaim}
      BY <2>1 DEF Granted, ListInv, ListTypes
    <3>2. /\ [listed[toClaim] EXCEPT !.owner = "me"] \in Details
          /\ [listed[toClaim] EXCEPT !.owner = "me"].owner = "me"
      BY <3>1 DEF Details
    <3>3. listed' = [listed EXCEPT ![toClaim] = [listed[toClaim] EXCEPT !.owner = "me"]]
      BY <3>1
    <3>4. QED
      BY <3>1, <3>2, <3>3 DEF ListInv, ListTypes
  <2>2. CASE Refused
    BY <2>2 DEF Refused, ListInv, ListTypes
  <2>3. QED
    BY <2>1, <2>2
<1>3. visit' \in [list : Pages, at : {"left", "claiming", "loading", "shown"},
                  rows : SUBSET TableRow] /\ visit'.rows = visit.rows /\ visit'.at = "loading"
  BY <1>1 DEF ListInv, ListTypes
<1>4. QED
  BY <1>1, <1>2, <1>3 DEF ListInv, ListTypes, RowsShown

(* The filters and the data, changed together with what they show.           *)
LEMMA RefiltersKeep ==
  ASSUME ListInv, NEW list \in Pages, NEW rows \in SUBSET TableRow,
         NEW search \in ListIds \cup {""}, NEW groups \in [States -> BOOLEAN],
         Refilter(list, rows, search, groups)
  PROVE  /\ table' \in [search : ListIds \cup {""}, order : {"asc", "desc"}, size : Sizes,
                        page : Nat, rows : SUBSET TableRow]
         /\ table'.rows = Filtered(list, rows, search, groups)
         /\ table'.search = search /\ table'.page = 0
<1>1. table' = [table EXCEPT !.search = search, !.page = 0,
                             !.rows = Filtered(list, rows, search, groups)]
  BY DEF Refilter
<1>2. Filtered(list, rows, search, groups) \in SUBSET TableRow
  BY DEF Filtered
<1> DEFINE F == Filtered(list, rows, search, groups)
<1> HIDE DEF F
<1>3. table' = [table EXCEPT !.search = search, !.page = 0, !.rows = F] /\ F \in SUBSET TableRow
  BY <1>1, <1>2 DEF F
<1>4. /\ table' \in [search : ListIds \cup {""}, order : {"asc", "desc"}, size : Sizes,
                     page : Nat, rows : SUBSET TableRow]
      /\ table'.rows = F /\ table'.search = search /\ table'.page = 0
  BY <1>3 DEF ListInv, ListTypes
<1>5. QED
  BY <1>4 DEF F

LEMMA LoadKeeps ==
  ASSUME ListInv, LoadRows
  PROVE  ListInv'
<1> DEFINE R == Listed(visit.list)
<1>1. /\ visit.at = "loading" /\ visit' = [visit EXCEPT !.at = "shown", !.rows = R]
      /\ Refilter(visit.list, R, table.search, pool)
      /\ UNCHANGED <<listed, toClaim, pool, choices, grants, steps>>
  BY DEF LoadRows
<1>2. /\ R \subseteq TableRow /\ IsFiniteSet(R) /\ \A p, q \in R : p.id = q.id => p = q
      /\ {r.id : r \in R} = {i \in ListIds : OnList(visit.list, listed[i])}
  <2>1. visit.list \in Pages
    BY DEF ListInv, ListTypes
  <2>2. QED
    BY <2>1, ListedIs DEF ListInv
<1> HIDE DEF R
<1>3. /\ table' \in [search : ListIds \cup {""}, order : {"asc", "desc"}, size : Sizes,
                     page : Nat, rows : SUBSET TableRow]
      /\ table'.rows = Filtered(visit.list, R, table.search, pool)
      /\ table'.search = table.search /\ table'.page = 0
  BY <1>1, <1>2, RefiltersKeep DEF ListInv, ListTypes
<1>4. /\ visit' \in [list : Pages, at : {"left", "claiming", "loading", "shown"},
                     rows : SUBSET TableRow]
      /\ visit'.list = visit.list /\ visit'.rows = R /\ visit'.at = "shown"
  BY <1>1, <1>2 DEF ListInv, ListTypes
<1>5. visit.list = "manage" => grants \subseteq {r.id : r \in R}
  BY <1>2 DEF ListInv, ListTypes, OnList
<1>6. table'.rows = Filtered(visit'.list, visit'.rows, table'.search, pool')
  BY <1>1, <1>3, <1>4
<1>7. QED
  BY <1>1, <1>2, <1>3, <1>4, <1>5, <1>6 DEF ListInv, ListTypes, RowsShown

LEMMA FiltersKeep ==
  ASSUME ListInv,
         (\E text \in ListIds \cup {""} : Search(text))
           \/ \E s \in {"draft", "open", "archived"} : TickState(s)
  PROVE  ListInv'
<1>1. PICK search \in ListIds \cup {""}, groups \in [States -> BOOLEAN] :
        /\ RowsShown /\ Refilter(visit.list, visit.rows, search, groups)
        /\ pool' = groups /\ choices' \in [States -> BOOLEAN]
        /\ UNCHANGED <<listed, toClaim, visit, grants>>
  <2>1. ASSUME NEW text \in ListIds \cup {""}, Search(text)
        PROVE  /\ RowsShown /\ Refilter(visit.list, visit.rows, text, pool)
               /\ pool' = pool /\ pool \in [States -> BOOLEAN]
               /\ choices' \in [States -> BOOLEAN]
               /\ UNCHANGED <<listed, toClaim, visit, grants>>
    BY <2>1 DEF Search, ListInv, ListTypes
  <2>2. ASSUME NEW s \in States, TickState(s)
        PROVE  /\ RowsShown /\ Refilter(visit.list, visit.rows, table.search, pool')
               /\ pool' \in [States -> BOOLEAN] /\ choices' \in [States -> BOOLEAN]
               /\ table.search \in ListIds \cup {""}
               /\ UNCHANGED <<listed, toClaim, visit, grants>>
    BY <2>2 DEF TickState, ListInv, ListTypes
  <2>3. {"draft", "open", "archived"} \subseteq States
    BY DEF States
  <2>4. QED
    BY <2>1, <2>2, <2>3
<1>2. visit.list \in Pages /\ visit.rows \in SUBSET TableRow
  BY DEF ListInv, ListTypes
<1>3. /\ table' \in [search : ListIds \cup {""}, order : {"asc", "desc"}, size : Sizes,
                     page : Nat, rows : SUBSET TableRow]
      /\ table'.rows = Filtered(visit.list, visit.rows, search, groups)
      /\ table'.search = search /\ table'.page = 0
  BY <1>1, <1>2, RefiltersKeep
<1>4. table'.rows = Filtered(visit'.list, visit'.rows, table'.search, pool')
  BY <1>1, <1>3
<1>5. QED
  BY <1>1, <1>3, <1>4 DEF ListInv, ListTypes, RowsShown

LEMMA TurnsKeep ==
  ASSUME ListInv,
         RequestSort \/ (\E page \in 0..Cardinality(table.rows) : ChangePage(page))
           \/ \E size \in Sizes : ChangeRowsPerPage(size)
  PROVE  ListInv'
<1>1. /\ RowsShown /\ UNCHANGED <<listed, toClaim, visit, pool, choices, grants>>
  BY DEF RequestSort, ChangePage, ChangeRowsPerPage
<1>2. /\ table' \in [search : ListIds \cup {""}, order : {"asc", "desc"}, size : Sizes,
                     page : Nat, rows : SUBSET TableRow]
      /\ table'.rows = table.rows /\ table'.search = table.search
      /\ table'.page = 0 \/ table'.page * table'.size < Cardinality(table.rows)
  <2>1. CASE RequestSort
    BY <2>1 DEF RequestSort, ListInv, ListTypes
  <2>2. CASE \E page \in 0..Cardinality(table.rows) : ChangePage(page)
    <3>1. PICK page \in 0..Cardinality(table.rows) : ChangePage(page)
      BY <2>2
    <3>2. /\ table' = [table EXCEPT !.page = page]
          /\ page * table.size < Cardinality(table.rows) /\ page \in Nat
      BY <3>1 DEF ChangePage
    <3>3. QED
      BY <3>2 DEF ListInv, ListTypes
  <2>3. CASE \E size \in Sizes : ChangeRowsPerPage(size)
    <3>1. PICK size \in Sizes : ChangeRowsPerPage(size)
      BY <2>3
    <3>2. table' = [table EXCEPT !.size = size, !.page = 0]
      BY <3>1 DEF ChangeRowsPerPage
    <3>3. QED
      BY <3>2 DEF ListInv, ListTypes
  <2>4. QED
    BY <2>1, <2>2, <2>3
<1>3. QED
  BY <1>1, <1>2 DEF ListInv, ListTypes, RowsShown

LEMMA ListSteps == ListInv /\ [ListNext]_listingVars => ListInv'
<1>1. SUFFICES ASSUME ListInv, [ListNext]_listingVars PROVE ListInv'
  OBVIOUS
<1>2. CASE UNCHANGED listingVars
  BY <1>1, <1>2 DEF listingVars, ListInv, ListTypes, RowsShown
<1>3. CASE Granted \/ Refused
  BY <1>1, <1>3, ClaimsKeep
<1>4. CASE LoadRows
  BY <1>1, <1>4, LoadKeeps
<1>5. ASSUME NEW i \in ListIds, MoveOn(i) \/ VoteIn(i) PROVE ListInv'
  BY <1>1, <1>5, ChangesKeep
<1>6. ASSUME NEW i \in ListIds, LogInAndClaim(i) PROVE ListInv'
  BY <1>1, <1>6, MountsKeep DEF LogInAndClaim, Pages
<1>7. ASSUME NEW list \in Pages, VisitList(list) PROVE ListInv'
  BY <1>1, <1>7, MountsKeep DEF VisitList, ListInv, ListTypes
<1>8. CASE (\E text \in ListIds \cup {""} : Search(text))
             \/ \E s \in {"draft", "open", "archived"} : TickState(s)
  BY <1>1, <1>8, FiltersKeep
<1>9. CASE RequestSort \/ (\E page \in 0..Cardinality(table.rows) : ChangePage(page))
             \/ \E size \in Sizes : ChangeRowsPerPage(size)
  BY <1>1, <1>9, TurnsKeep
<1>10. QED
  BY <1>1, <1>2, <1>3, <1>4, <1>5, <1>6, <1>7, <1>8, <1>9 DEF ListNext

(* The table lists each row once, whichever way it is sorted.                *)
LEMMA SortedIs ==
  ASSUME ListInv
  PROVE  /\ Cardinality(table.rows) \in Nat
         /\ DOMAIN Sorted = 1..Cardinality(table.rows)
         /\ {Sorted[k] : k \in 1..Cardinality(table.rows)} = table.rows
<1> DEFINE S == table.rows
           ahead == [q \in S |-> {p \in S : Before(p, q)}]
<1>1. S \subseteq visit.rows /\ S \subseteq TableRow /\ IsFiniteSet(S)
  <2>1. S \subseteq visit.rows /\ S \subseteq TableRow
    BY DEF ListInv, ListTypes, Filtered
  <2>2. QED
    BY <2>1, FS_Subset DEF ListInv
<1>2. \A q \in S : TitleOrder[q.id] \in Int
  BY <1>1, ListingsAssumption DEF TableRow
<1>3. \A p, q \in S : p # q => TitleOrder[p.id] # TitleOrder[q.id]
  <2>1. \A p, q \in S : p # q => p.id # q.id /\ p.id \in ListIds /\ q.id \in ListIds
    BY <1>1 DEF ListInv, TableRow
  <2>2. QED
    BY <2>1, ListingsAssumption DEF IsInjective, ListIds
<1> HIDE DEF S
<1>4. Orders(S, ahead)
  BY <1>2, <1>3 DEF Orders, Before
<1>5. Sorted = InOrder(S, ahead)
  BY DEF Sorted, S
<1> HIDE DEF ahead
<1>6. /\ DOMAIN InOrder(S, ahead) = 1..Cardinality(S) /\ ToSet(InOrder(S, ahead)) = S
  BY <1>1, <1>4, InOrderSorts
<1>7. Cardinality(S) \in Nat
  BY <1>1, FS_CardinalityType
<1>8. QED
  BY <1>5, <1>6, <1>7 DEF S, ToSet

(* Every place of a list is on one of its pages.                             *)
LEMMA OnAPage ==
  ASSUME NEW size \in Nat \ {0}, NEW n \in Nat, NEW j \in 1..n
  PROVE  \E p \in 0..n : p * size < j /\ j <= (p + 1) * size
<1> DEFINE P == {p \in 0..n : p * size < j}
<1>1. IsFiniteSet(P) /\ \A p \in P : p \in Int
  <2>1. IsFiniteSet(0..n)
    BY FS_Interval
  <2>2. QED
    BY <2>1, FS_Subset
<1>2. 0 \in P
  BY SMT
<1> HIDE DEF P
<1>3. Max(P) \in P /\ \A p \in P : Max(P) >= p
  BY <1>1, <1>2, FiniteExtremes
<1> DEFINE m == Max(P)
<1> HIDE DEF m
<1>4. m \in 0..n /\ m * size < j /\ m + 1 \notin P /\ m \in Nat
  BY <1>3 DEF P, m
<1>5. m + 1 <= n
  <2>1. SUFFICES ASSUME m = n PROVE FALSE
    BY <1>4
  <2>2. n * size >= n * 1
    OBVIOUS
  <2>3. QED
    BY <1>4, <2>1, <2>2
<1>6. j <= (m + 1) * size
  <2>1. m + 1 \in 0..n /\ (m + 1) * size \in Nat
    BY <1>4, <1>5
  <2>2. QED
    BY <1>4, <2>1 DEF P
<1>7. QED
  BY <1>4, <1>6

LEMMA ListKeeps == ListInv => TableShowsList
<1>1. SUFFICES ASSUME ListInv, RowsShown PROVE TableShowsList
  BY DEF TableShowsList
<1> DEFINE n == Cardinality(table.rows)
           size == table.size
           page == table.page
<1>2. /\ n \in Nat /\ DOMAIN Sorted = 1..n
      /\ {Sorted[k] : k \in 1..n} = table.rows
  BY <1>1, SortedIs
<1>3. size \in Nat \ {0} /\ page \in Nat
  BY <1>1, ListingsAssumption DEF ListInv, ListTypes
<1>4. page = 0 \/ page * size < n
  BY <1>1 DEF ListInv
<1> HIDE DEF n, size, page
<1>5. \A p : PageRows(p) = {Sorted[k] : k \in {j \in 1..n : p * size < j /\ j <= (p + 1) * size}}
  BY <1>2 DEF PageRows, size
<1>6. UNION {PageRows(p) : p \in 0..n} = table.rows
  <2>1. ASSUME NEW r \in table.rows PROVE \E p \in 0..n : r \in PageRows(p)
    <3>1. PICK j \in 1..n : r = Sorted[j]
      BY <1>2
    <3>2. PICK p \in 0..n : p * size < j /\ j <= (p + 1) * size
      BY <1>2, <1>3, OnAPage
    <3>3. QED
      BY <1>5, <3>1, <3>2
  <2>2. \A p \in 0..n : PageRows(p) \subseteq table.rows
    BY <1>2, <1>5
  <2>3. QED
    BY <2>1, <2>2
<1>7. table.rows = Filtered(visit.list, visit.rows, table.search, pool)
  BY <1>1 DEF ListInv
<1>8. ASSUME table.rows # {} PROVE PageRows(page) # {}
  <2>1. n > 0
    BY <1>2, <1>8
  <2>2. page * size + 1 \in 1..n /\ page * size < page * size + 1
    <3>1. page * size \in Nat
      BY <1>3
    <3>2. page * size < n
      <4>1. CASE page = 0
        BY <1>3, <2>1, <4>1
      <4>2. QED
        BY <1>4, <4>1
    <3>3. QED
      BY <1>2, <3>1, <3>2
  <2>3. page * size + 1 <= (page + 1) * size
    BY <1>3
  <2>4. Sorted[page * size + 1] \in PageRows(page)
    BY <1>5, <2>2, <2>3
  <2>5. QED
    BY <2>4
<1>9. visit.list = "manage" => grants \subseteq {r.id : r \in visit.rows}
  BY <1>1 DEF ListInv
<1>10. QED
  BY <1>6, <1>7, <1>8, <1>9 DEF TableShowsList, Leaked, n, page

(* The rows of a visit are those of the list it asked for, the table holds   *)
(* those that pass its filters as they are now and stands on a page it has,  *)
(* and what was claimed is one's own and was so when the list was read.      *)
THEOREM ListInvariant == ListSpec => []ListInv
<1>1. QED
  BY ListStarts, ListSteps, PTL DEF ListSpec

(* The pages of the table are the rows asked for, unless a choice made on    *)
(* another page is in the shared column; the page shown is not past the      *)
(* last; and a claimed election is on one's own list (EnhancedTable.tsx,     *)
(* ElectionsYouManage.tsx).                                                  *)
THEOREM TableIsTheList == ListSpec => []TableShowsList
<1>1. QED
  BY ListInvariant, ListKeeps, PTL
-----------------------------------------------------------------------------
(* BallotPage.                                                               *)
BallotRow == [id : STRING, score : Int]
BallotSide == [rows : Seq(BallotRow), skipped : SUBSET Int, alerts : SUBSET (Int \X Int)]

(* The rows of a race: its candidates, in any order, and some write-ins, no  *)
(* two with the same id, each with the mark it was given.                    *)
PlacesOfWriteIns(rows) == {i \in DOMAIN rows : IsWriteIn(rows[i].id)}
RowsRight(race, rows, marks) ==
  /\ \A i, j \in DOMAIN rows : rows[i].id = rows[j].id => i = j
  /\ Range(race.candidates) \subseteq {rows[i].id : i \in DOMAIN rows}
  /\ \A i \in DOMAIN rows : rows[i].id \in Range(race.candidates) \cup WriteInNames
  /\ marks \in [DOMAIN marks -> Int]
  /\ DOMAIN marks = {rows[i].id : i \in DOMAIN rows}
  /\ \A i \in DOMAIN rows : marks[rows[i].id] = rows[i].score
(* What the server accepts, but for the length of the names.                 *)
FitsServer(e, race, rows) ==
  /\ \A i \in DOMAIN rows : OutOfBounds(e, race, rows[i].score) => Kind(e, race) = "drag"
  /\ PlacesOfWriteIns(rows) # {} => race.writeIns
  /\ Cardinality(PlacesOfWriteIns(rows)) <= 10

PageTypes ==
  /\ \E e \in Offered : election = DefaultMax(e)
  /\ current \in RaceIds
  /\ pages \in [RaceIds -> BallotSide]
  /\ view = [kind |-> view.kind, unranked |-> view.unranked]
  /\ given = [r \in RaceIds |-> given[r]]
PageInv ==
  /\ PageTypes
  /\ view.kind \in {Kind(election, Race(current)), "crashed"}
  /\ \A r \in RaceIds :
       /\ RowsRight(Race(r), pages[r].rows, given[r])
       /\ FitsServer(election, Race(r), pages[r].rows)
       /\ Cardinality(PlacesOfWriteIns(pages[r].rows)) <= MaxWriteIns
  /\ answer = "pending" => \A r \in RaceIds :
       sent[r] \in Seq(BallotRow) /\ FitsServer(election, Race(r), sent[r])

(* The elections as the page has them. *)
LEMMA RacesAre ==
  ASSUME NEW e, \E f \in Offered : e = DefaultMax(f)
  PROVE  /\ e.races \in Seq(RaceOnPage) /\ Len(e.races) \in Nat \ {0}
         /\ DOMAIN e.races = 1..Len(e.races)
         /\ e.max \in Nat
         /\ \A r \in DOMAIN e.races :
              /\ e.races[r] \in RaceOnPage
              /\ e.races[r].candidates \in Seq(STRING)
              /\ IsInjective(e.races[r].candidates)
              /\ Range(e.races[r].candidates) \cap WriteInNames = {}
<1>1. PICK f \in Offered : e = DefaultMax(f)
  OBVIOUS
<1>2. f \in [state : STRING, shuffle : BOOLEAN, drag : BOOLEAN, max : Nat,
             races : Seq(RaceOnPage)]
      /\ f.races # <<>>
      /\ \A r \in DOMAIN f.races :
           /\ IsInjective(f.races[r].candidates)
           /\ Range(f.races[r].candidates) \cap WriteInNames = {}
  BY PageAssumption DEF ElectionsAssumption
<1>3. e.races = f.races /\ e.max \in Nat
  BY <1>1, <1>2, PageAssumption DEF DefaultMax, ElectionsAssumption
<1>4. \A r \in DOMAIN f.races : f.races[r] \in RaceOnPage
  BY <1>2
<1>5. \A race \in RaceOnPage : race.candidates \in Seq(STRING)
  BY DEF RaceOnPage
<1>6. f.races \in Seq(RaceOnPage) /\ Len(f.races) \in Nat \ {0}
  BY <1>2
<1>7. QED
  BY <1>2, <1>3, <1>4, <1>5, <1>6

LEMMA Shuffled ==
  ASSUME NEW e, NEW race, race.candidates \in Seq(STRING), IsInjective(race.candidates),
         NEW order \in Shuffles(e, race)
  PROVE  /\ order \in Seq(STRING) /\ IsInjective(order)
         /\ Range(order) = Range(race.candidates)
<1> DEFINE cs == race.candidates
           n == Len(cs)
           special == {c \in Range(cs) : c = NotaId \/ IsWriteIn(c)}
           specials == Cardinality(special)
           m == n - specials
           front == SubSeq(cs, 1, m)
           back == SubSeq(cs, Len(front) + 1, n)
           S == Range(front)
<1>1. n \in Nat /\ DOMAIN cs = 1..n /\ \A i \in 1..n : cs[i] \in STRING
  OBVIOUS
<1>2. \A i, j \in 1..n : cs[i] = cs[j] => i = j
  BY <1>1 DEF IsInjective
<1>3. specials \in Nat /\ specials <= n
  <2>1. cs \in Surjection(1..n, Range(cs))
    BY <1>1 DEF Surjection, Range
  <2>2. IsFiniteSet(1..n) /\ Cardinality(1..n) = n
    <3>1. ASSUME NEW k \in Nat PROVE IsFiniteSet(1..k) /\ Cardinality(1..k) = k
      BY FS_Interval
    <3>2. n \in Nat
      BY <1>1
    <3> HIDE DEF n
    <3>3. QED
      BY <3>1, <3>2
  <2>3. IsFiniteSet(Range(cs)) /\ Cardinality(Range(cs)) <= n
    BY <2>1, <2>2, FS_Surjection
  <2>4. IsFiniteSet(special) /\ specials <= Cardinality(Range(cs))
    BY <2>3, FS_Subset
  <2>5. specials \in Nat /\ Cardinality(Range(cs)) \in Nat
    BY <2>3, <2>4, FS_CardinalityType
  <2>6. QED
    BY <1>1, <2>3, <2>4, <2>5
<1>4. Shuffles(e, race) = IF e.shuffle THEN {o \o back : o \in SetToSeqs(S)} ELSE {cs}
  BY DEF Shuffles
<1> HIDE DEF specials, special
<1>5. m \in Nat /\ m <= n
  BY <1>1, <1>3
<1>6. front \in Seq(STRING) /\ Len(front) = m /\ DOMAIN front = 1..m /\ \A i \in 1..m : front[i] = cs[i]
  BY <1>1, <1>5
<1>7. /\ back \in Seq(STRING) /\ Len(back) = n - m
      /\ \A i \in 1..(n - m) : back[i] = cs[m + i]
  BY <1>1, <1>5, <1>6
<1> HIDE DEF front, back, m, n
<1>8. CASE e.shuffle
  <2>1. PICK o \in SetToSeqs(S) : order = o \o back
    BY <1>4, <1>8
  <2>2. S = {cs[i] : i \in 1..m}
    BY <1>6 DEF Range
  <2>3. IsFiniteSet(S) /\ Cardinality(S) = m
    <3>1. front \in Bijection(1..m, S)
      BY <1>1, <1>2, <1>5, <1>6, <2>2 DEF Bijection, Injection, Surjection, IsInjective
    <3>2. IsFiniteSet(1..m) /\ Cardinality(1..m) = m
      BY <1>5, FS_Interval
    <3>3. QED
      BY <3>1, <3>2, FS_Bijection DEF ExistsBijection
  <2>4. o \in [1..m -> S] /\ \A i, j \in 1..m : i # j => o[i] # o[j]
    BY <2>1, <2>3 DEF SetToSeqs
  <2>5. S = {o[i] : i \in 1..m}
    <3>1. DEFINE U == {o[i] : i \in 1..m}
    <3>2. o \in Bijection(1..m, U)
      BY <2>4 DEF Bijection, Injection, Surjection, IsInjective
    <3>3. IsFiniteSet(1..m) /\ Cardinality(1..m) = m
      BY <1>5, FS_Interval
    <3>4. IsFiniteSet(U) /\ Cardinality(U) = m
      BY <3>2, <3>3, FS_Bijection DEF ExistsBijection
    <3>5. U \subseteq S
      BY <2>4
    <3>6. QED
      BY <2>3, <3>4, <3>5, FS_Subset
  <2>6. S \subseteq STRING
    BY <1>1, <1>5, <2>2
  <2>7. o \in Seq(STRING) /\ Len(o) = m
    BY <1>5, <2>4, <2>6
  <2>8. /\ order \in Seq(STRING) /\ DOMAIN order = 1..n
        /\ \A i \in 1..n : order[i] = IF i <= m THEN o[i] ELSE cs[i]
    <3>1. /\ order \in Seq(STRING) /\ Len(order) = n
          /\ \A i \in 1..m : order[i] = o[i]
          /\ \A i \in 1..(n - m) : order[m + i] = back[i]
      BY <1>1, <1>5, <1>7, <2>1, <2>7
    <3>2. \A i \in 1..n : ~(i <= m) => i - m \in 1..(n - m) /\ m + (i - m) = i
      BY <1>1, <1>5
    <3>3. \A i \in 1..n : ~(i <= m) => order[i] = cs[i]
      BY <1>7, <3>1, <3>2
    <3>4. \A i \in 1..n : i <= m => i \in 1..m
      BY <1>1, <1>5
    <3>5. QED
      BY <3>1, <3>3, <3>4
  <2>9. \A i \in 1..m : \A j \in 1..n : j > m => o[i] # cs[j]
    <3>1. TAKE i \in 1..m
    <3>2. TAKE j \in 1..n
    <3>3. PICK k \in 1..m : o[i] = cs[k]
      BY <2>2, <2>4
    <3>4. k \in 1..n /\ (j > m => k # j)
      BY <1>5, <1>1
    <3>5. QED
      BY <1>2, <3>3, <3>4
  <2>10. IsInjective(order)
    <3>1. SUFFICES ASSUME NEW i \in 1..n, NEW j \in 1..n, order[i] = order[j] PROVE i = j
      BY <2>8 DEF IsInjective
    <3>2. CASE i <= m /\ j <= m
      BY <2>4, <2>8, <3>1, <3>2
    <3>3. CASE i <= m /\ ~(j <= m)
      <4>1. i \in 1..m /\ j > m
        BY <1>5, <3>3
      <4>2. QED
        BY <2>8, <2>9, <3>1, <3>3, <4>1
    <3>4. CASE ~(i <= m) /\ j <= m
      <4>1. j \in 1..m /\ i > m
        BY <1>5, <3>4
      <4>2. QED
        BY <2>8, <2>9, <3>1, <3>4, <4>1
    <3>5. CASE ~(i <= m) /\ ~(j <= m)
      BY <1>2, <2>8, <3>1, <3>5
    <3>6. QED
      BY <3>2, <3>3, <3>4, <3>5
  <2>11. Range(order) = Range(cs)
    <3>1. \A i \in 1..n : order[i] \in Range(cs)
      <4>1. TAKE i \in 1..n
      <4>2. CASE i <= m
        <5>1. i \in 1..m /\ order[i] = o[i]
          BY <1>1, <1>5, <2>8, <4>2
        <5>2. PICK j \in 1..m : order[i] = cs[j]
          BY <2>2, <2>4, <5>1
        <5>3. j \in 1..n
          BY <1>1, <1>5
        <5>4. QED
          BY <1>1, <5>2, <5>3 DEF Range
      <4>3. CASE ~(i <= m)
        BY <1>1, <2>8, <4>3 DEF Range
      <4>4. QED
        BY <4>2, <4>3
    <3>2. \A i \in 1..n : \E j \in 1..n : order[j] = cs[i]
      <4>1. TAKE i \in 1..n
      <4>2. CASE i <= m
        <5>1. cs[i] \in S
          BY <2>2, <4>2
        <5>2. PICK j \in 1..m : o[j] = cs[i]
          BY <2>5, <5>1
        <5>3. j \in 1..n /\ j <= m
          BY <1>1, <1>5
        <5>4. QED
          BY <2>8, <5>2, <5>3
      <4>3. CASE ~(i <= m)
        BY <2>8, <4>3
      <4>4. QED
        BY <4>2, <4>3
    <3>3. QED
      BY <1>1, <2>8, <3>1, <3>2 DEF Range
  <2>12. QED
    BY <2>8, <2>10, <2>11
<1>9. CASE ~e.shuffle
  BY <1>4, <1>9
<1>10. QED
  BY <1>8, <1>9

LEMMA PagesAre ==
  ASSUME NEW e, \E f \in Offered : e = DefaultMax(f), NEW made \in MakePages(e)
  PROVE  /\ made \in [DOMAIN e.races -> BallotSide]
         /\ \A r \in DOMAIN e.races :
              /\ RowsRight(e.races[r], made[r].rows, NoMarks(e.races[r]))
              /\ \A i \in DOMAIN made[r].rows : made[r].rows[i].score = Unmarked
              /\ PlacesOfWriteIns(made[r].rows) = {}
<1> DEFINE R == DOMAIN e.races
<1>1. PICK order : /\ made = [r \in R |-> NewPage(order[r])]
                   /\ \A r \in R : order[r] \in Shuffles(e, e.races[r])
  BY DEF MakePages
<1>2. ASSUME NEW r \in R
      PROVE  /\ NewPage(order[r]) \in BallotSide
             /\ RowsRight(e.races[r], NewPage(order[r]).rows, NoMarks(e.races[r]))
             /\ \A i \in DOMAIN NewPage(order[r]).rows :
                  NewPage(order[r]).rows[i].score = Unmarked
             /\ PlacesOfWriteIns(NewPage(order[r]).rows) = {}
  <2> DEFINE race == e.races[r]
             o == order[r]
             rows == NewPage(o).rows
  <2>1. /\ race.candidates \in Seq(STRING) /\ IsInjective(race.candidates)
        /\ Range(race.candidates) \cap WriteInNames = {}
    BY RacesAre
  <2>2. o \in Shuffles(e, race)
    BY <1>1
  <2> HIDE DEF o, race
  <2>3. /\ o \in Seq(STRING) /\ IsInjective(o) /\ Range(o) = Range(race.candidates)
    BY <2>1, <2>2, Shuffled
  <2>4. Unmarked \in Int
    BY PageAssumption DEF ElectionsAssumption
  <2>5. rows = [i \in DOMAIN o |-> Row(o[i], Unmarked)]
    BY DEF NewPage
  <2>6. \A i \in DOMAIN o : rows[i].id = o[i] /\ rows[i].score = Unmarked /\ rows[i] \in BallotRow
    BY <2>3, <2>4, <2>5 DEF Row, BallotRow
  <2>7. rows \in Seq(BallotRow) /\ DOMAIN rows = DOMAIN o
    BY <2>3, <2>5, <2>6
  <2>8. NewPage(o) \in BallotSide
    BY <2>7 DEF NewPage, BallotSide
  <2> HIDE DEF rows
  <2>9. {rows[i].id : i \in DOMAIN rows} = Range(o)
    BY <2>6, <2>7 DEF Range
  <2>10. RowsRight(race, rows, NoMarks(race))
    <3>1. NoMarks(race) = [c \in Range(o) |-> Unmarked]
      BY <2>3 DEF NoMarks
    <3>2. \A i, j \in DOMAIN rows : rows[i].id = rows[j].id => i = j
      BY <2>3, <2>6, <2>7 DEF IsInjective
    <3>3. \A i \in DOMAIN rows : rows[i].id \in Range(o)
      BY <2>9
    <3>4. QED
      BY <2>3, <2>4, <2>6, <2>7, <2>9, <3>1, <3>2, <3>3 DEF RowsRight
  <2>11. PlacesOfWriteIns(rows) = {}
    BY <2>1, <2>3, <2>9 DEF PlacesOfWriteIns, IsWriteIn
  <2>12. QED
    BY <2>6, <2>7, <2>8, <2>10, <2>11 DEF rows, o, race
<1>3. QED
  BY <1>1, <1>2

LEMMA PageFacts ==
  ASSUME PageInv
  PROVE  /\ RaceIds = 1..Len(election.races) /\ 1 \in RaceIds
         /\ election.max \in Nat
         /\ \A r \in RaceIds :
              /\ Race(r) \in RaceOnPage
              /\ Race(r).candidates \in Seq(STRING)
              /\ IsInjective(Race(r).candidates)
              /\ Range(Race(r).candidates) \cap WriteInNames = {}
              /\ pages[r] \in BallotSide /\ pages[r].rows \in Seq(BallotRow)
              /\ IsFiniteSet(PlacesOfWriteIns(pages[r].rows))
         /\ current \in RaceIds
         /\ WriteInNames \subseteq STRING /\ MaxWriteIns \in 0..10 /\ Unmarked \in Int
<1>1. PageTypes
  BY DEF PageInv
<1>2. \E f \in Offered : election = DefaultMax(f)
  BY <1>1 DEF PageTypes
<1>3. /\ RaceIds = 1..Len(election.races) /\ Len(election.races) \in Nat \ {0}
      /\ election.max \in Nat
      /\ \A r \in RaceIds :
           /\ Race(r) \in RaceOnPage
           /\ Race(r).candidates \in Seq(STRING)
           /\ IsInjective(Race(r).candidates)
           /\ Range(Race(r).candidates) \cap WriteInNames = {}
  BY <1>2, RacesAre DEF RaceIds, Race
<1>4. \A r \in RaceIds : pages[r] \in BallotSide /\ pages[r].rows \in Seq(BallotRow)
  BY <1>1 DEF PageTypes, BallotSide
<1>5. \A rows \in Seq(BallotRow) : IsFiniteSet(PlacesOfWriteIns(rows))
  <2>1. TAKE rows \in Seq(BallotRow)
  <2>2. Len(rows) \in Nat /\ PlacesOfWriteIns(rows) \subseteq 1..Len(rows)
    BY DEF PlacesOfWriteIns
  <2>3. QED
    BY <2>2, Places
<1>6. QED
  BY <1>1, <1>3, <1>4, <1>5, PageAssumption DEF PageTypes, ElectionsAssumption

(* What the page starts with, and starts again with. *)
LEMMA UnmarkedFits ==
  ASSUME NEW e, NEW race, NEW rows, \A i \in DOMAIN rows : rows[i].score = Unmarked,
         PlacesOfWriteIns(rows) = {}
  PROVE  FitsServer(e, race, rows) /\ (MaxWriteIns \in 0..10 =>
           Cardinality(PlacesOfWriteIns(rows)) <= MaxWriteIns)
<1>1. Cardinality(PlacesOfWriteIns(rows)) = 0
  BY FS_EmptySet
<1>2. QED
  BY <1>1 DEF FitsServer, OutOfBounds

LEMMA PageStarts == PageInit => PageInv
<1>1. SUFFICES ASSUME PageInit PROVE PageInv
  OBVIOUS
<1>2. \E e \in Offered : election = DefaultMax(e)
  BY <1>1 DEF PageInit
<1>3. /\ pages \in MakePages(election) /\ current = 1
      /\ view = Mounted(election, 1, pages[1]) /\ answer = "none"
      /\ given = [r \in RaceIds |-> NoMarks(Race(r))]
  BY <1>1 DEF PageInit, Loaded, RaceIds, Race
<1>4. 1 \in RaceIds
  BY <1>2, RacesAre DEF RaceIds
<1>5. /\ pages \in [RaceIds -> BallotSide]
      /\ \A r \in RaceIds :
           /\ RowsRight(Race(r), pages[r].rows, NoMarks(Race(r)))
           /\ \A i \in DOMAIN pages[r].rows : pages[r].rows[i].score = Unmarked
           /\ PlacesOfWriteIns(pages[r].rows) = {}
  BY <1>2, <1>3, PagesAre DEF RaceIds, Race
<1>6. MaxWriteIns \in 0..10
  BY PageAssumption DEF ElectionsAssumption
<1>7. \A r \in RaceIds :
        /\ FitsServer(election, Race(r), pages[r].rows)
        /\ Cardinality(PlacesOfWriteIns(pages[r].rows)) <= MaxWriteIns
  BY <1>5, <1>6, UnmarkedFits
<1>8. /\ view = [kind |-> view.kind, unranked |-> view.unranked]
      /\ view.kind = Kind(election, Race(current))
  BY <1>3 DEF Mounted, Race
<1>9. given = [r \in RaceIds |-> given[r]]
      /\ \A r \in RaceIds : given[r] = NoMarks(Race(r))
  BY <1>3
<1>10. PageTypes
  BY <1>2, <1>3, <1>4, <1>5, <1>8, <1>9 DEF PageTypes
<1>11. QED
  BY <1>3, <1>5, <1>7, <1>8, <1>9, <1>10 DEF PageInv

LEMMA ReloadKeeps ==
  ASSUME PageInv, Reload
  PROVE  PageInv'
<1>1. /\ election' = election /\ pages' \in MakePages(election) /\ current' = 1
      /\ view' = Mounted(election, 1, pages'[1]) /\ answer' = "none"
      /\ given' = [r \in RaceIds |-> NoMarks(Race(r))]
  BY DEF Reload
<1>2. \E e \in Offered : election = DefaultMax(e)
  BY DEF PageInv, PageTypes
<1>3. 1 \in RaceIds /\ MaxWriteIns \in 0..10
  BY PageFacts
<1>4. /\ pages' \in [RaceIds -> BallotSide]
      /\ \A r \in RaceIds :
           /\ RowsRight(Race(r), pages'[r].rows, NoMarks(Race(r)))
           /\ \A i \in DOMAIN pages'[r].rows : pages'[r].rows[i].score = Unmarked
           /\ PlacesOfWriteIns(pages'[r].rows) = {}
  BY <1>1, <1>2, PagesAre DEF RaceIds, Race
<1>5. RaceIds' = RaceIds /\ \A r \in RaceIds : Race(r)' = Race(r)
  BY <1>1 DEF RaceIds, Race
<1>7. \A r \in RaceIds :
        /\ FitsServer(election, Race(r), pages'[r].rows)
        /\ Cardinality(PlacesOfWriteIns(pages'[r].rows)) <= MaxWriteIns
  BY <1>3, <1>4, UnmarkedFits
<1>8. /\ view' = [kind |-> view'.kind, unranked |-> view'.unranked]
      /\ view'.kind = Kind(election, Race(1))
  BY <1>1 DEF Mounted, Race
<1>9. given' = [r \in RaceIds |-> given'[r]]
      /\ \A r \in RaceIds : given'[r] = NoMarks(Race(r))
  BY <1>1
<1>10. PageTypes'
  BY <1>1, <1>2, <1>3, <1>4, <1>5, <1>8, <1>9 DEF PageTypes
<1>11. view'.kind = Kind(election', Race(current)')
  BY <1>1, <1>8 DEF Race
<1>12. \A r \in RaceIds' :
         /\ RowsRight(Race(r)', pages'[r].rows, given'[r])
         /\ FitsServer(election', Race(r)', pages'[r].rows)
         /\ Cardinality(PlacesOfWriteIns(pages'[r].rows)) <= MaxWriteIns
  BY <1>1, <1>4, <1>5, <1>7, <1>9
<1>13. QED
  BY <1>1, <1>10, <1>11, <1>12 DEF PageInv

(* An act of the voter on the page shown. *)
LEMMA PageChanges ==
  ASSUME PageInv, election' = election, current' = current, sent' = sent, answer' = answer,
         view' = [kind |-> view.kind, unranked |-> view'.unranked],
         NEW page \in BallotSide, pages' = [pages EXCEPT ![current] = page],
         NEW marks, given' = [given EXCEPT ![current] = marks],
         RowsRight(Race(current), page.rows, marks), FitsServer(election, Race(current), page.rows),
         Cardinality(PlacesOfWriteIns(page.rows)) <= MaxWriteIns
  PROVE  PageInv'
<1>1. PageTypes /\ current \in RaceIds
  BY DEF PageInv, PageTypes
<1>2. RaceIds' = RaceIds /\ Race(current)' = Race(current)
      /\ \A r \in RaceIds : Race(r)' = Race(r)
  BY DEF RaceIds, Race
<1>4. \A r \in RaceIds :
        /\ pages'[r] = IF r = current THEN page ELSE pages[r]
        /\ given'[r] = IF r = current THEN marks ELSE given[r]
  BY <1>1 DEF PageTypes
<1>5. PageTypes'
  BY <1>1, <1>2 DEF PageTypes
<1>6. \A r \in RaceIds' :
         /\ RowsRight(Race(r)', pages'[r].rows, given'[r])
         /\ FitsServer(election', Race(r)', pages'[r].rows)
         /\ Cardinality(PlacesOfWriteIns(pages'[r].rows)) <= MaxWriteIns
  BY <1>2, <1>4 DEF PageInv
<1>7. view'.kind \in {Kind(election', Race(current)'), "crashed"}
  BY <1>2 DEF PageInv
<1>8. answer' = "pending" => \A r \in RaceIds' :
        sent'[r] \in Seq(BallotRow) /\ FitsServer(election', Race(r)', sent'[r])
  BY <1>2 DEF PageInv
<1>9. QED
  BY <1>5, <1>6, <1>7, <1>8 DEF PageInv

(* New marks for the rows that are there. *)
Remarks(rows, scores) == [i \in DOMAIN rows |-> Row(rows[i].id, scores[i])]

LEMMA RemarksAreRows ==
  ASSUME NEW rows \in Seq(BallotRow),
         NEW scores, \A i \in DOMAIN rows : scores[i] \in Int
  PROVE  Remarks(rows, scores) \in Seq(BallotRow)
<1>1. \A i \in DOMAIN rows : Row(rows[i].id, scores[i]) \in BallotRow
  <2>1. TAKE i \in DOMAIN rows
  <2>2. rows[i] \in BallotRow
    OBVIOUS
  <2>3. QED
    BY <2>2 DEF Row, BallotRow
<1>2. QED
  BY <1>1 DEF Remarks

LEMMA Remarked ==
  ASSUME NEW race, NEW rows \in Seq(BallotRow), NEW marks, RowsRight(race, rows, marks),
         NEW scores, \A i \in DOMAIN rows : scores[i] \in Int,
         NEW new \in [DOMAIN marks -> Int], \A i \in DOMAIN rows : new[rows[i].id] = scores[i]
  PROVE  /\ Remarks(rows, scores) \in Seq(BallotRow)
         /\ DOMAIN Remarks(rows, scores) = DOMAIN rows
         /\ \A i \in DOMAIN rows : Remarks(rows, scores)[i].score = scores[i]
         /\ RowsRight(race, Remarks(rows, scores), new)
         /\ PlacesOfWriteIns(Remarks(rows, scores)) = PlacesOfWriteIns(rows)
<1> DEFINE after == Remarks(rows, scores)
           ids == {rows[i].id : i \in DOMAIN rows}
<1>1. \A i \in DOMAIN rows :
        /\ after[i] \in BallotRow
        /\ after[i].id = rows[i].id /\ after[i].score = scores[i]
  <2>1. TAKE i \in DOMAIN rows
  <2>2. rows[i] \in BallotRow
    OBVIOUS
  <2>3. rows[i].id \in STRING /\ scores[i] \in Int
    BY <2>2 DEF BallotRow
  <2>4. after[i] = [id |-> rows[i].id, score |-> scores[i]]
    BY DEF Row, Remarks
  <2>5. QED
    BY <2>3, <2>4 DEF BallotRow
<1>2. DOMAIN after = DOMAIN rows /\ after \in Seq(BallotRow)
  BY <1>1 DEF Remarks
<1> HIDE DEF after
<1>3. {after[i].id : i \in DOMAIN after} = ids
  BY <1>1, <1>2
<1>4. /\ \A i, j \in DOMAIN rows : rows[i].id = rows[j].id => i = j
      /\ Range(race.candidates) \subseteq ids
      /\ \A i \in DOMAIN rows : rows[i].id \in Range(race.candidates) \cup WriteInNames
      /\ DOMAIN new = ids
  BY DEF RowsRight
<1>5. \A i, j \in DOMAIN after : after[i].id = after[j].id => i = j
  BY <1>1, <1>2, <1>4
<1>6. \A i \in DOMAIN after : after[i].id \in Range(race.candidates) \cup WriteInNames
  BY <1>1, <1>2, <1>4
<1>7. new \in [DOMAIN new -> Int]
  OBVIOUS
<1>8. \A i \in DOMAIN after : new[after[i].id] = after[i].score
  BY <1>1, <1>2
<1> HIDE DEF ids
<1>9. RowsRight(race, after, new)
  BY <1>3, <1>4, <1>5, <1>6, <1>7, <1>8 DEF RowsRight
<1>10. PlacesOfWriteIns(after) = PlacesOfWriteIns(rows)
  BY <1>1, <1>2 DEF PlacesOfWriteIns
<1>11. QED
  BY <1>1, <1>2, <1>9, <1>10 DEF after

(* The bubbles offered are marks the server accepts. *)
LEMMA ColumnsFit ==
  ASSUME PageInv, view.kind \notin {"drag", "crashed"}, NEW v \in Columns
  PROVE  v \in Int /\ ~OutOfBounds(election, Race(current), v)
<1> DEFINE race == Race(current)
<1>1. /\ race.method \in Ranked \cup Scored \cup {"Approval", "Plurality"}
      /\ election.max \in Nat
      /\ Len(Here.rows) \in Nat
  BY PageFacts DEF RaceOnPage, Here
<1>2. view.kind = Kind(election, race)
  BY DEF PageInv
<1> HIDE DEF race
<1>3. CASE view.kind = "ranked"
  <2>1. race.method \in Ranked
    BY <1>1, <1>2, <1>3 DEF Kind, Ranked, Scored
  <2>2. MaxRankings \in Nat /\ (election.max # Unset => MaxRankings <= election.max)
    <3>1. MostRanks \in Nat /\ DefaultRanks \in Nat
      BY PageAssumption DEF ElectionsAssumption
    <3>2. election.max \in Int /\ MostRanks \in Int
      BY <1>1, <3>1
    <3>3. Min({election.max, MostRanks}) \in {election.max, MostRanks}
          /\ Min({election.max, MostRanks}) <= election.max
      BY <3>2, MinOfTwo
    <3>4. QED
      BY <1>1, <3>1, <3>3 DEF MaxRankings
  <2>3. Columns = 1..Min({Len(Here.rows), MaxRankings})
    BY <1>3, <2>1 DEF Columns, Ranked, Scored, race
  <2>10. Len(Here.rows) \in Int /\ MaxRankings \in Int
    BY <1>1, <2>2
  <2>4. /\ Min({Len(Here.rows), MaxRankings}) \in {Len(Here.rows), MaxRankings}
        /\ Min({Len(Here.rows), MaxRankings}) <= MaxRankings
    BY <2>10, MinOfTwo
  <2>5. v \in Int /\ v <= MaxRankings
    BY <1>1, <2>2, <2>3, <2>4
  <2>6. election.max # Unset => v <= election.max
    BY <1>1, <2>2, <2>5
  <2>7. ~OutOfBounds(election, race, v)
    BY <1>1, <2>1, <2>5, <2>6 DEF OutOfBounds, Ranked, Scored
  <2>8. QED
    BY <2>5, <2>7 DEF race
<1>4. CASE view.kind # "ranked"
  <2>1. race.method \notin Ranked
    BY <1>2, <1>4 DEF Kind, Ranked
  <2>2. v \in IF race.method \in Scored THEN 0..5 ELSE {1}
    BY <1>4 DEF Columns, race
  <2>3. v \in Int /\ ~OutOfBounds(election, race, v)
    BY <1>1, <2>1, <2>2 DEF OutOfBounds, Ranked, Scored
  <2>4. QED
    BY <2>3 DEF race
<1>5. QED
  BY <1>3, <1>4

LEMMA CommitKeeps ==
  ASSUME PageInv, view.kind \notin {"drag", "crashed"},
         NEW i \in DOMAIN Here.rows, NEW v \in Columns, Commit(i, v)
  PROVE  PageInv'
<1> DEFINE rows == Here.rows
           race == Race(current)
           scores == Toggled(ScoresOf(rows), i, v)
           marks == given[current]
           new == Toggled(marks, rows[i].id, v)
           warned == WarnOf(Here, scores)
           page == OnUpdate(warned, scores)
           after == Remarks(rows, scores)
<1>1. /\ pages' = [pages EXCEPT ![current] = page]
      /\ given' = [given EXCEPT ![current] = new]
      /\ UNCHANGED <<election, current, view, sent, answer>>
  BY DEF Commit
<1>2. /\ Here \in BallotSide /\ rows \in Seq(BallotRow) /\ Unmarked \in Int
      /\ RowsRight(race, rows, marks) /\ FitsServer(election, race, rows)
      /\ Cardinality(PlacesOfWriteIns(rows)) <= MaxWriteIns
      /\ view = [kind |-> view.kind, unranked |-> view.unranked]
  BY PageFacts DEF PageInv, PageTypes, Here
<1>3. v \in Int /\ ~OutOfBounds(election, race, v)
  BY ColumnsFit
<1>4. DOMAIN rows \subseteq Int /\ \A k \in DOMAIN rows : rows[k].score \in Int
  <2>1. DOMAIN rows = 1..Len(rows) /\ \A k \in DOMAIN rows : rows[k] \in BallotRow
    BY <1>2
  <2>2. QED
    BY <2>1 DEF BallotRow
<1>5. /\ \A j, k \in DOMAIN rows : rows[j].id = rows[k].id => j = k
      /\ marks \in [DOMAIN marks -> Int]
      /\ DOMAIN marks = {rows[k].id : k \in DOMAIN rows}
      /\ \A k \in DOMAIN rows : marks[rows[k].id] = rows[k].score
  BY <1>2 DEF RowsRight
<1>6. /\ ScoresOf(rows) = [k \in DOMAIN rows |-> rows[k].score]
      /\ DOMAIN ScoresOf(rows) = DOMAIN rows
  BY DEF ScoresOf
<1> HIDE DEF rows, marks, race
<1>7. \A k \in DOMAIN rows : scores[k] \in {v, Unmarked, rows[k].score}
  <2>1. DOMAIN scores = DOMAIN rows
    BY <1>6 DEF Toggled
  <2>2. QED
    BY <1>6 DEF Toggled
<1>8. new \in [DOMAIN marks -> Int]
  BY <1>2, <1>3, <1>5 DEF Toggled
<1>9. \A k \in DOMAIN rows : new[rows[k].id] = scores[k]
  <2>1. TAKE k \in DOMAIN rows
  <2>2. /\ rows[k].id \in DOMAIN marks /\ rows[i].id \in DOMAIN marks /\ i \in DOMAIN rows
        /\ rows[k].id = rows[i].id <=> k = i
        /\ marks[rows[i].id] = rows[i].score /\ marks[rows[k].id] = rows[k].score
    BY <1>5 DEF rows
  <2>3. QED
    BY <1>5, <1>6, <2>2 DEF Toggled
<1>10. \A k \in DOMAIN rows : scores[k] \in Int
  BY <1>2, <1>3, <1>4, <1>7
<1>11. DOMAIN scores = DOMAIN rows
  BY <1>6 DEF Toggled
<1> HIDE DEF scores, new
<1>19. after = [k \in DOMAIN rows |-> Row(rows[k].id, scores[k])]
  BY DEF Remarks
<1>12. /\ after \in Seq(BallotRow) /\ DOMAIN after = DOMAIN rows
       /\ \A k \in DOMAIN rows : after[k].score = scores[k]
       /\ RowsRight(race, after, new)
       /\ PlacesOfWriteIns(after) = PlacesOfWriteIns(rows)
  <2>1. rows \in Seq(BallotRow) /\ RowsRight(race, rows, marks)
    BY <1>2
  <2>2. RowsRight(race, after, new)
    BY <2>1, <1>8, <1>9, <1>10, Remarked, Zenon
  <2>3. after \in Seq(BallotRow)
    BY <2>1, <1>10, RemarksAreRows, Zenon
  <2>4. /\ DOMAIN after = DOMAIN rows
        /\ \A k \in DOMAIN rows : after[k].id = rows[k].id /\ after[k].score = scores[k]
    BY <1>19 DEF Row
  <2>5. PlacesOfWriteIns(after) = PlacesOfWriteIns(rows)
    BY <2>4 DEF PlacesOfWriteIns
  <2>6. \A k \in DOMAIN rows : after[k].score = scores[k]
    BY <2>4
  <2>9. QED
    BY <2>2, <2>3, <2>4, <2>5, <2>6
<1> HIDE DEF after
<1>13. warned \in BallotSide /\ warned.rows = rows
  <2>1. MaxRankings \in Int
    <3>1. MostRanks \in Nat /\ DefaultRanks \in Nat /\ election.max \in Nat
      BY PageFacts, PageAssumption DEF ElectionsAssumption
    <3>2. election.max \in Int /\ MostRanks \in Int
      BY <3>1
    <3>3. Min({election.max, MostRanks}) \in {election.max, MostRanks}
      BY <3>2, MinOfTwo
    <3>4. QED
      BY <3>1, <3>3 DEF MaxRankings
  <2>2. FindSkipped(scores) \in SUBSET Int
    BY <2>1 DEF FindSkipped
  <2>3. DOMAIN scores \subseteq Int /\ \A k \in DOMAIN scores : scores[k] \in Int
    BY <1>4, <1>10, <1>11
  <2>4. FindMatching(scores) \in SUBSET (Int \X Int)
    BY <2>3 DEF FindMatching
  <2>5. {} \in SUBSET (Int \X Int)
    OBVIOUS
  <2>6. \A skipped \in SUBSET Int, alerts \in SUBSET (Int \X Int) :
          [Here EXCEPT !.skipped = skipped, !.alerts = alerts] \in BallotSide
          /\ [Here EXCEPT !.skipped = skipped, !.alerts = alerts].rows = Here.rows
    BY <1>2 DEF BallotSide
  <2>7. QED
    BY <1>2, <2>2, <2>4, <2>5, <2>6 DEF WarnOf, rows
<1>14. page = [warned EXCEPT !.rows = after]
  BY <1>13, <1>19 DEF OnUpdate
<1> HIDE DEF warned, page
<1>15. page \in BallotSide /\ page.rows = after
  BY <1>12, <1>13, <1>14 DEF BallotSide
<1>16. FitsServer(election, race, after)
  <2>1. \A k \in DOMAIN rows : OutOfBounds(election, race, scores[k]) => Kind(election, race) = "drag"
    <3>1. ~OutOfBounds(election, race, Unmarked)
      BY DEF OutOfBounds
    <3>2. QED
      BY <1>2, <1>3, <1>7, <3>1 DEF FitsServer
  <2>2. QED
    BY <1>2, <1>12, <2>1 DEF FitsServer
<1>17. view' = [kind |-> view.kind, unranked |-> view'.unranked]
  BY <1>1, <1>2
<1>18. QED
  BY <1>1, <1>2, <1>12, <1>15, <1>16, <1>17, PageChanges DEF race

LEMMA PressKeeps ==
  ASSUME PageInv, NEW i, NEW v, NEW key \in {"left", "right", "home", "end"},
         Click(i, v) \/ PressKey(i, v, key)
  PROVE  PageInv'
<1>1. CASE Click(i, v)
  BY <1>1, CommitKeeps DEF Click, CanMark
<1>2. CASE PressKey(i, v, key)
  <2>1. /\ view.kind = Kind(election, Race(current)) /\ view.kind # "crashed"
        /\ Race(current).method \in Scored
        /\ i \in DOMAIN Here.rows /\ v \in Columns /\ Commit(i, KeyTarget(key, v))
    BY <1>2 DEF PageInv, PressKey, CanMark
  <2>2. view.kind \notin {"drag", "ranked"}
    BY <2>1 DEF Kind, Ranked, Scored
  <2>3. Columns = 0..5
    BY <2>1, <2>2 DEF Columns
  <2>4. /\ Max(Columns) \in 0..5 /\ \A x \in 0..5 : Max(Columns) >= x
        /\ Min(Columns) \in 0..5 /\ \A x \in 0..5 : Min(Columns) <= x
    <3>1. IsFiniteSet(0..5)
      <4>1. ASSUME NEW n \in Nat PROVE IsFiniteSet(0..n)
        BY FS_Interval
      <4>2. 5 \in Nat
        OBVIOUS
      <4>3. QED
        BY <4>1, <4>2, Zenon
    <3>2. 0..5 # {} /\ \A x \in 0..5 : x \in Int
      OBVIOUS
    <3>3. IsFiniteSet(Columns) /\ Columns # {} /\ \A x \in Columns : x \in Int
      BY <2>3, <3>1, <3>2, Zenon
    <3>4. /\ Max(Columns) \in Columns /\ \A x \in Columns : Max(Columns) >= x
          /\ Min(Columns) \in Columns /\ \A x \in Columns : Min(Columns) <= x
      BY <3>3, FiniteExtremes
    <3>5. QED
      BY <2>3, <3>4
  <2>5. KeyTarget(key, v) \in 0..5
    <3>1. v \in 0..5
      BY <2>1, <2>3
    <3>2. v # Max(Columns) => v + 1 \in 0..5
      BY <2>4, <3>1
    <3>3. v # Min(Columns) => v - 1 \in 0..5
      BY <2>4, <3>1
    <3>4. CASE key = "right"
      BY <2>4, <3>2, <3>4 DEF KeyTarget
    <3>5. CASE key = "left"
      BY <2>4, <3>3, <3>5 DEF KeyTarget
    <3>6. CASE key \in {"home", "end"}
      BY <2>4, <3>6 DEF KeyTarget
    <3>7. QED
      BY <3>4, <3>5, <3>6
  <2>6. QED
    BY <2>1, <2>2, <2>3, <2>5, CommitKeeps
<1>3. QED
  BY <1>1, <1>2

(* Dragging marks every candidate with its place in the order, or not at all;*)
(* of the order only its length matters here.                                *)
LEMMA RankIsMark ==
  ASSUME NEW order, DOMAIN order \subseteq Int, NEW c
  PROVE  RankOf(order, c) \in Int
<1>1. Unmarked \in Int
  BY PageAssumption DEF ElectionsAssumption
<1>2. CASE c \in Range(order)
  <2>1. \E k \in DOMAIN order : order[k] = c
    BY <1>2 DEF Range
  <2>2. QED
    BY <1>2, <2>1 DEF RankOf
<1>3. QED
  BY <1>1, <1>2 DEF RankOf

LEMMA Placed ==
  ASSUME NEW list, NEW n \in Nat, DOMAIN list = 1..n, list = [i \in 1..n |-> list[i]],
         NEW k \in Nat, NEW c
  PROVE  DOMAIN PutIn(list, k, c) \subseteq Int
<1> DEFINE T == Range(list) \cup {c}
           m == Min({k, n}) + 1
<1>1. list \in Seq(T) /\ Len(list) = n
  BY DEF Range
<1>2. Min({k, n}) \in {k, n} /\ Min({k, n}) <= n
  <2>1. k \in Int /\ n \in Int
    OBVIOUS
  <2>2. QED
    BY <2>1, MinOfTwo
<1>3. m \in 1..(n + 1)
  BY <1>2
<1>4. PutIn(list, k, c) = SubSeq(list, 1, m - 1) \o <<c>> \o SubSeq(list, m, n)
  BY <1>1 DEF PutIn, InsertAt
<1> HIDE DEF m, T
<1> DEFINE front == SubSeq(list, 1, m - 1)
           back == SubSeq(list, m, n)
<1>5. front \in Seq(T) /\ back \in Seq(T) /\ <<c>> \in Seq(T)
  BY <1>1, <1>3 DEF T
<1> HIDE DEF front, back
<1>6. front \o <<c>> \o back \in Seq(T)
  BY <1>5
<1>7. \A s \in Seq(T) : DOMAIN s \subseteq Int
  OBVIOUS
<1>8. PutIn(list, k, c) \in Seq(T)
  BY <1>4, <1>6 DEF front, back
<1>9. QED
  BY <1>7, <1>8

LEMMA CommitOrderKeeps ==
  ASSUME PageInv, NEW order, DOMAIN order \subseteq Int, CommitOrder(order), view.kind = "drag",
         view' = [kind |-> view.kind, unranked |-> view'.unranked],
         UNCHANGED <<election, current, sent, answer>>
  PROVE  PageInv'
<1> DEFINE rows == Here.rows
           race == Race(current)
           marks == given[current]
           scores == [i \in DOMAIN rows |-> RankOf(order, rows[i].id)]
           new == [c \in DOMAIN marks |-> RankOf(order, c)]
           page == OnUpdate(Here, scores)
           after == Remarks(rows, scores)
<1>1. /\ pages' = [pages EXCEPT ![current] = page]
      /\ given' = [given EXCEPT ![current] = new]
  BY DEF CommitOrder
<1>2. /\ Here \in BallotSide /\ rows \in Seq(BallotRow)
      /\ RowsRight(race, rows, marks) /\ FitsServer(election, race, rows)
      /\ Cardinality(PlacesOfWriteIns(rows)) <= MaxWriteIns
      /\ Kind(election, race) = "drag"
  BY PageFacts DEF PageInv, PageTypes, Here
<1>3. DOMAIN marks = {rows[k].id : k \in DOMAIN rows}
  BY <1>2 DEF RowsRight
<1> HIDE DEF rows, marks, race
<1>4. \A k \in DOMAIN rows : scores[k] \in Int
  BY RankIsMark
<1>5. new \in [DOMAIN marks -> Int]
  BY RankIsMark
<1>6. \A k \in DOMAIN rows : new[rows[k].id] = scores[k]
  BY <1>3
<1>7. page = [Here EXCEPT !.rows = after]
  BY DEF OnUpdate, Remarks, rows
<1> HIDE DEF scores, new
<1>8. /\ DOMAIN after = DOMAIN rows
      /\ \A k \in DOMAIN rows : after[k].id = rows[k].id /\ after[k].score = scores[k]
  BY DEF Remarks, Row
<1>9. PlacesOfWriteIns(after) = PlacesOfWriteIns(rows)
  BY <1>8 DEF PlacesOfWriteIns
<1>10. RowsRight(race, after, new) /\ after \in Seq(BallotRow)
  <2>1. RowsRight(race, rows, marks) /\ rows \in Seq(BallotRow)
    BY <1>2
  <2>2. RowsRight(race, after, new)
    BY <2>1, <1>4, <1>5, <1>6, Remarked, Zenon
  <2>3. after \in Seq(BallotRow)
    BY <2>1, <1>4, RemarksAreRows, Zenon
  <2>4. QED
    BY <2>2, <2>3
<1> HIDE DEF after, page
<1>11. page \in BallotSide /\ page.rows = after
  BY <1>2, <1>7, <1>10 DEF BallotSide
<1>12. FitsServer(election, race, after)
  BY <1>2, <1>9 DEF FitsServer
<1>13. QED
  BY <1>1, <1>2, <1>9, <1>10, <1>11, <1>12, PageChanges DEF race

LEMMA DragKeeps ==
  ASSUME PageInv, NEW c, NEW to, NEW k \in Nat, Drag(c, to, k)
  PROVE  PageInv'
<1>1. view = [kind |-> view.kind, unranked |-> view.unranked]
  BY DEF PageInv, PageTypes
<1>2. /\ view.kind = "drag" /\ UNCHANGED <<election, current, sent, answer>>
      /\ view' = [kind |-> view.kind, unranked |-> view'.unranked]
  BY <1>1 DEF Drag
<1>3. \E n \in Nat : /\ DOMAIN Without(RankedIds, c) = 1..n
                     /\ Without(RankedIds, c) = [i \in 1..n |-> Without(RankedIds, c)[i]]
  <2>1. RankedIds = [i \in DOMAIN RankedRows |-> RankedRows[i].id]
    BY DEF RankedIds, IdsOf
  <2>2. \E m \in Nat : DOMAIN RankedIds = 1..m
    <3>1. \A S : DOMAIN RankedIds = DOMAIN RankedRows
      BY <2>1
    <3>2. \E S, ahead : RankedRows = Entries(Here.rows, InOrder(S, ahead))
                        /\ S \subseteq DOMAIN Here.rows
      BY DEF RankedRows
    <3>3. PICK S, ahead : RankedRows = Entries(Here.rows, InOrder(S, ahead))
                          /\ S \subseteq DOMAIN Here.rows
      BY <3>2
    <3>4. Cardinality(S) \in Nat
      <4>1. Here.rows \in Seq(BallotRow)
        BY PageFacts DEF Here
      <4>2. Len(Here.rows) \in Nat /\ S \subseteq 1..Len(Here.rows)
        BY <3>3, <4>1
      <4>3. QED
        BY <4>2, Places
    <3>5. DOMAIN RankedRows = 1..Cardinality(S)
      BY <3>3 DEF Entries, InOrder
    <3>6. QED
      BY <3>1, <3>4, <3>5
  <2>3. PICK m \in Nat : DOMAIN RankedIds = 1..m
    BY <2>2
  <2> DEFINE I == {i \in DOMAIN RankedIds : RankedIds[i] # c}
  <2>4. Without(RankedIds, c) = Entries(RankedIds, Ascending(I))
    BY DEF Without, Selected
  <2>5. I \subseteq 1..m
    BY <2>3
  <2> HIDE DEF I
  <2>6. Cardinality(I) \in Nat
    BY <2>5, Places
  <2>7. DOMAIN Ascending(I) = 1..Cardinality(I)
    BY DEF Ascending, InOrder
  <2>8. QED
    BY <2>4, <2>6, <2>7 DEF Entries
<1>4. /\ DOMAIN Without(RankedIds, c) \subseteq Int
      /\ DOMAIN PutIn(Without(RankedIds, c), k, c) \subseteq Int
  BY <1>3, Placed
<1>5. CASE UNCHANGED <<pages, given>>
  <2>1. pages \in [RaceIds -> BallotSide] /\ current \in RaceIds
        /\ given = [r \in RaceIds |-> given[r]]
    BY DEF PageInv, PageTypes
  <2>2. pages' = [pages EXCEPT ![current] = Here] /\ given' = [given EXCEPT ![current] = given[current]]
    BY <1>5, <2>1 DEF Here
  <2>3. /\ Here \in BallotSide /\ RowsRight(Race(current), Here.rows, given[current])
        /\ FitsServer(election, Race(current), Here.rows)
        /\ Cardinality(PlacesOfWriteIns(Here.rows)) <= MaxWriteIns
    BY <2>1 DEF PageInv, Here
  <2>4. QED
    BY <1>2, <2>2, <2>3, PageChanges
<1>6. CASE \/ CommitOrder(PutIn(Without(RankedIds, c), k, c))
           \/ CommitOrder(Without(RankedIds, c))
  BY <1>2, <1>4, <1>6, CommitOrderKeeps
<1>7. QED
  BY <1>5, <1>6 DEF Drag

(* The name that was added is new, and counts. *)
LEMMA AddKeeps ==
  ASSUME PageInv, NEW n \in WriteInNames, AddWriteIn(n)
  PROVE  PageInv'
<1> DEFINE rows == Here.rows
           race == Race(current)
           marks == given[current]
           new == [c \in DOMAIN marks \cup {n} |-> IF c = n THEN Unmarked ELSE marks[c]]
           after == Append(rows, Row(n, Unmarked))
           page == [Here EXCEPT !.rows = after]
           W == PlacesOfWriteIns(rows)
           last == Len(rows) + 1
<1>1. /\ UNCHANGED <<election, current, view, sent, answer>>
      /\ race.writeIns /\ \A i \in DOMAIN rows : rows[i].id # n
      /\ Cardinality(WriteInsOf(rows)) < MaxWriteIns
  BY DEF AddWriteIn, CanAdd, Range
<1>2. /\ Here \in BallotSide /\ rows \in Seq(BallotRow) /\ Unmarked \in Int
      /\ RowsRight(race, rows, marks) /\ FitsServer(election, race, rows)
      /\ IsFiniteSet(W) /\ Cardinality(W) <= MaxWriteIns
      /\ view = [kind |-> view.kind, unranked |-> view.unranked]
      /\ pages \in [RaceIds -> BallotSide] /\ current \in RaceIds
      /\ given = [r \in RaceIds |-> given[r]]
      /\ n \in STRING /\ MaxWriteIns \in 0..10
  BY PageFacts DEF PageInv, PageTypes, Here
<1>3. /\ pages' = [pages EXCEPT ![current] = page]
      /\ given' = [given EXCEPT ![current] = new]
  BY <1>2 DEF AddWriteIn, Here
<1>4. Row(n, Unmarked) \in BallotRow
  BY <1>2 DEF Row, BallotRow
<1>5. /\ after \in Seq(BallotRow) /\ Len(rows) \in Nat /\ DOMAIN rows = 1..Len(rows)
      /\ DOMAIN after = DOMAIN rows \cup {last} /\ last \notin DOMAIN rows
      /\ \A i \in DOMAIN rows : after[i] = rows[i]
      /\ after[last].id = n /\ after[last].score = Unmarked
  BY <1>2, <1>4 DEF Row
<1>6. page \in BallotSide /\ page.rows = after
  BY <1>2, <1>5 DEF BallotSide
<1>7. /\ \A i, j \in DOMAIN rows : rows[i].id = rows[j].id => i = j
      /\ Range(race.candidates) \subseteq {rows[i].id : i \in DOMAIN rows}
      /\ \A i \in DOMAIN rows : rows[i].id \in Range(race.candidates) \cup WriteInNames
      /\ marks \in [DOMAIN marks -> Int]
      /\ DOMAIN marks = {rows[i].id : i \in DOMAIN rows}
      /\ \A i \in DOMAIN rows : marks[rows[i].id] = rows[i].score
  BY <1>2 DEF RowsRight
<1> HIDE DEF rows, marks, race, after, page, last
<1>8. {after[i].id : i \in DOMAIN after} = {rows[i].id : i \in DOMAIN rows} \cup {n}
  BY <1>5
<1>9. new \in [DOMAIN marks \cup {n} -> Int] /\ DOMAIN new = DOMAIN marks \cup {n}
  BY <1>2, <1>7
<1>10. \A i \in DOMAIN after : new[after[i].id] = after[i].score
  <2>1. TAKE i \in DOMAIN after
  <2>2. CASE i = last
    BY <1>5, <2>2
  <2>3. CASE i \in DOMAIN rows
    <3>1. rows[i].id # n /\ rows[i].id \in DOMAIN marks
      BY <1>1, <1>7, <2>3
    <3>2. QED
      BY <1>5, <1>7, <2>3, <3>1
  <2>4. QED
    BY <1>5, <2>2, <2>3
<1> HIDE DEF new
<1>11. RowsRight(race, after, new)
  <2>1. \A i, j \in DOMAIN after : after[i].id = after[j].id => i = j
    BY <1>1, <1>5, <1>7
  <2>2. \A i \in DOMAIN after : after[i].id \in Range(race.candidates) \cup WriteInNames
    BY <1>5, <1>7
  <2>3. Range(race.candidates) \subseteq {after[i].id : i \in DOMAIN after}
    BY <1>7, <1>8
  <2>4. DOMAIN new = {after[i].id : i \in DOMAIN after}
    BY <1>7, <1>8, <1>9
  <2>5. new \in [DOMAIN new -> Int]
    BY <1>9
  <2>6. QED
    BY <1>10, <2>1, <2>2, <2>3, <2>4, <2>5 DEF RowsRight
<1>12. PlacesOfWriteIns(after) = W \cup {last} /\ last \notin W
  BY <1>5 DEF PlacesOfWriteIns, IsWriteIn
<1>13. Cardinality(W) = Cardinality(WriteInsOf(rows))
  <2>1. DEFINE f == [i \in W |-> rows[i].id]
  <2>2. WriteInsOf(rows) = {rows[i].id : i \in W}
    BY DEF WriteInsOf, PlacesOfWriteIns, Range
  <2>3. f \in Bijection(W, WriteInsOf(rows))
    <3>1. W \subseteq DOMAIN rows
      BY DEF PlacesOfWriteIns
    <3>2. QED
      BY <1>7, <2>2, <3>1 DEF Bijection, Injection, Surjection, IsInjective
  <2>4. QED
    BY <1>2, <2>3, FS_Bijection DEF ExistsBijection
<1> HIDE DEF W
<1>14. Cardinality(PlacesOfWriteIns(after)) <= MaxWriteIns
       /\ Cardinality(PlacesOfWriteIns(after)) <= 10
  <2>1. Cardinality(W \cup {last}) = Cardinality(W) + 1 /\ Cardinality(W) \in Nat
    BY <1>2, <1>12, FS_AddElement, FS_CardinalityType
  <2>2. QED
    BY <1>1, <1>2, <1>12, <1>13, <2>1
<1>15. FitsServer(election, race, after)
  <2>1. ~OutOfBounds(election, race, Unmarked)
    BY DEF OutOfBounds
  <2>2. QED
    BY <1>1, <1>2, <1>5, <1>14, <2>1 DEF FitsServer
<1>16. view' = [kind |-> view.kind, unranked |-> view'.unranked]
  BY <1>1, <1>2
<1>17. QED
  BY <1>1, <1>2, <1>3, <1>6, <1>11, <1>14, <1>15, <1>16, PageChanges DEF race

LEMMA RemoveKeeps ==
  ASSUME PageInv, NEW n \in WriteInNames, RemoveWriteIn(n)
  PROVE  PageInv'
<1> DEFINE rows == Here.rows
           race == Race(current)
           marks == given[current]
           new == [c \in DOMAIN marks \ {n} |-> marks[c]]
           I == {i \in DOMAIN rows : rows[i].id # n}
           after == Selected(rows, I)
           page == [Here EXCEPT !.rows = after]
           o == Ascending(I)
           W == PlacesOfWriteIns(rows)
<1>1. UNCHANGED <<election, current, view, sent, answer>>
  BY DEF RemoveWriteIn
<1>2. /\ Here \in BallotSide /\ rows \in Seq(BallotRow)
      /\ RowsRight(race, rows, marks) /\ FitsServer(election, race, rows)
      /\ IsFiniteSet(W) /\ Cardinality(W) <= MaxWriteIns
      /\ view = [kind |-> view.kind, unranked |-> view.unranked]
      /\ pages \in [RaceIds -> BallotSide] /\ current \in RaceIds
      /\ given = [r \in RaceIds |-> given[r]]
      /\ MaxWriteIns \in 0..10
      /\ Range(race.candidates) \cap WriteInNames = {}
  BY PageFacts DEF PageInv, PageTypes, Here
<1>3. /\ pages' = [pages EXCEPT ![current] = page]
      /\ given' = [given EXCEPT ![current] = new]
  BY <1>2 DEF RemoveWriteIn, Here
<1>4. /\ \A i, j \in DOMAIN rows : rows[i].id = rows[j].id => i = j
      /\ Range(race.candidates) \subseteq {rows[i].id : i \in DOMAIN rows}
      /\ \A i \in DOMAIN rows : rows[i].id \in Range(race.candidates) \cup WriteInNames
      /\ marks \in [DOMAIN marks -> Int]
      /\ DOMAIN marks = {rows[i].id : i \in DOMAIN rows}
      /\ \A i \in DOMAIN rows : marks[rows[i].id] = rows[i].score
  BY <1>2 DEF RowsRight
<1> HIDE DEF rows, marks, race
<1>5. /\ after \in Seq(BallotRow) /\ DOMAIN after = 1..Cardinality(I)
      /\ \A k \in DOMAIN after : o[k] \in I /\ after[k] = rows[o[k]]
      /\ \A i \in I : \E k \in DOMAIN after : o[k] = i
      /\ \A j, k \in DOMAIN after : o[j] = o[k] => j = k
      /\ \A i \in I : i \in DOMAIN rows /\ rows[i].id # n
  <2>1. I \subseteq DOMAIN rows /\ \A i \in I : i \in DOMAIN rows /\ rows[i].id # n
    OBVIOUS
  <2> HIDE DEF I
  <2>2. rows \in Seq(BallotRow)
    BY <1>2
  <2>3. after \in Seq(BallotRow) /\ DOMAIN after = 1..Cardinality(I)
    BY <2>1, <2>2, SelectedIs
  <2>4. \A k \in 1..Cardinality(I) : o[k] \in I /\ after[k] = rows[o[k]]
    BY <2>1, <2>2, SelectedIs
  <2>5. \A i \in I : \E k \in 1..Cardinality(I) : o[k] = i
    BY <2>1, <2>2, SelectedIs
  <2>6. \A j, k \in 1..Cardinality(I) : o[j] = o[k] => j = k
    BY <2>1, <2>2, SelectedIs
  <2> HIDE DEF after, o
  <2>7. QED
    BY <2>1, <2>3, <2>4, <2>5, <2>6
<1> HIDE DEF after, o
<1>6. page \in BallotSide /\ page.rows = after
  BY <1>2, <1>5 DEF BallotSide
<1>7. {after[k].id : k \in DOMAIN after} = {rows[i].id : i \in DOMAIN rows} \ {n}
  <2>1. \A k \in DOMAIN after : after[k].id \in {rows[i].id : i \in DOMAIN rows} \ {n}
    BY <1>5
  <2>2. \A i \in DOMAIN rows : rows[i].id # n => \E k \in DOMAIN after : after[k].id = rows[i].id
    BY <1>5
  <2>3. QED
    BY <2>1, <2>2
<1>8. new \in [DOMAIN marks \ {n} -> Int] /\ DOMAIN new = DOMAIN marks \ {n}
      /\ \A c \in DOMAIN marks \ {n} : new[c] = marks[c]
  BY <1>4
<1> HIDE DEF new
<1>9. RowsRight(race, after, new)
  <2>1. \A i, j \in DOMAIN after : after[i].id = after[j].id => i = j
    BY <1>4, <1>5
  <2>2. \A k \in DOMAIN after : after[k].id \in Range(race.candidates) \cup WriteInNames
    BY <1>4, <1>5
  <2>3. Range(race.candidates) \subseteq {after[i].id : i \in DOMAIN after}
    <3>1. n \notin Range(race.candidates)
      BY <1>2
    <3>2. QED
      BY <1>4, <1>7, <3>1
  <2>4. DOMAIN new = {after[i].id : i \in DOMAIN after}
    BY <1>4, <1>7, <1>8
  <2>5. new \in [DOMAIN new -> Int]
    BY <1>8
  <2>6. \A k \in DOMAIN after : new[after[k].id] = after[k].score
    <3>1. TAKE k \in DOMAIN after
    <3>2. after[k].id \in DOMAIN marks \ {n} /\ after[k] = rows[o[k]] /\ o[k] \in DOMAIN rows
      BY <1>4, <1>5
    <3>3. QED
      BY <1>4, <1>8, <3>2
  <2>7. QED
    BY <2>1, <2>2, <2>3, <2>4, <2>5, <2>6 DEF RowsRight
<1>10. /\ IsFiniteSet(PlacesOfWriteIns(after))
       /\ Cardinality(PlacesOfWriteIns(after)) <= Cardinality(W)
       /\ \A k \in PlacesOfWriteIns(after) : o[k] \in W
  <2>1. DEFINE V == PlacesOfWriteIns(after)
  <2>2. \A k \in V : o[k] \in W /\ k \in DOMAIN after
    BY <1>5 DEF PlacesOfWriteIns
  <2>3. \A j, k \in V : o[j] = o[k] => j = k
    BY <1>5, <2>2
  <2>4. [k \in V |-> o[k]] \in Injection(V, W)
    BY <2>2, <2>3 DEF Injection, IsInjective
  <2>5. QED
    BY <1>2, <2>2, <2>4, FS_Injection DEF ExistsInjection
<1>11. Cardinality(PlacesOfWriteIns(after)) <= MaxWriteIns
       /\ Cardinality(PlacesOfWriteIns(after)) <= 10
  <2>1. Cardinality(W) \in Nat /\ Cardinality(PlacesOfWriteIns(after)) \in Nat
    BY <1>2, <1>10, FS_CardinalityType
  <2>2. QED
    BY <1>2, <1>10, <2>1
<1>12. FitsServer(election, race, after)
  <2>1. \A k \in DOMAIN after : \E i \in DOMAIN rows : after[k].score = rows[i].score
    BY <1>5
  <2>2. PlacesOfWriteIns(after) # {} => W # {}
    BY <1>10
  <2>3. QED
    BY <1>2, <1>11, <2>1, <2>2 DEF FitsServer
<1>13. view' = [kind |-> view.kind, unranked |-> view'.unranked]
  BY <1>1, <1>2
<1>14. QED
  BY <1>1, <1>2, <1>3, <1>6, <1>9, <1>11, <1>12, <1>13, PageChanges DEF race

(* The steps that leave the marks alone. *)
LEMMA MarksStay ==
  ASSUME PageInv, UNCHANGED <<election, pages, given>>, current' \in RaceIds,
         view' = [kind |-> view'.kind, unranked |-> view'.unranked],
         view'.kind \in {Kind(election, Race(current')), "crashed"},
         answer' = "pending" => \A r \in RaceIds :
           sent'[r] \in Seq(BallotRow) /\ FitsServer(election, Race(r), sent'[r])
  PROVE  PageInv'
<1>1. RaceIds' = RaceIds /\ Race(current)' = Race(current') /\ \A r \in RaceIds : Race(r)' = Race(r)
  BY DEF RaceIds, Race
<1>2. PageTypes'
  BY <1>1 DEF PageInv, PageTypes
<1>3. \A r \in RaceIds' :
        /\ RowsRight(Race(r)', pages'[r].rows, given'[r])
        /\ FitsServer(election', Race(r)', pages'[r].rows)
        /\ Cardinality(PlacesOfWriteIns(pages'[r].rows)) <= MaxWriteIns
  BY <1>1 DEF PageInv
<1>4. view'.kind \in {Kind(election', Race(current)'), "crashed"}
  BY <1>1
<1>5. answer' = "pending" => \A r \in RaceIds' :
        sent'[r] \in Seq(BallotRow) /\ FitsServer(election', Race(r)', sent'[r])
  BY <1>1
<1>6. QED
  BY <1>2, <1>3, <1>4, <1>5 DEF PageInv

(* What goes out for a race: its candidates, in the order of the race, and   *)
(* behind them the write-ins, each as it stands on the page.                 *)
IsVote(cs, rows, vote) ==
  LET n == Len(cs)
      all == n + Cardinality(PlacesOfWriteIns(rows))
  IN /\ n \in Nat /\ Cardinality(PlacesOfWriteIns(rows)) \in Nat
     /\ vote \in Seq(BallotRow) /\ Len(vote) = all /\ DOMAIN vote = 1..all
     /\ \A i \in 1..n : vote[i].id = cs[i]
     /\ \A i \in 1..all : i > n => IsWriteIn(vote[i].id)
     /\ \A i \in 1..all : \E j \in DOMAIN rows : vote[i] = rows[j]
     /\ \A j \in PlacesOfWriteIns(rows) : \E i \in 1..all : vote[i] = rows[j]
     /\ \A i, k \in 1..all : i > n /\ k > n /\ vote[i].id = vote[k].id => i = k

LEMMA VoteIs ==
  ASSUME PageInv, NEW r \in RaceIds
  PROVE  IsVote(Race(r).candidates, pages[r].rows, VoteOf(r))
<1> DEFINE cs == Race(r).candidates
           rows == pages[r].rows
           n == Len(cs)
           W == PlacesOfWriteIns(rows)
           m == Cardinality(W)
           o == Ascending(W)
           row(c) == CHOOSE w \in Range(rows) : w.id = c
           picked == Selected(rows, W)
           first == [i \in DOMAIN cs |-> row(cs[i])]
           vote == VoteOf(r)
<1>1. /\ cs \in Seq(STRING) /\ Range(cs) \cap WriteInNames = {}
      /\ rows \in Seq(BallotRow) /\ RowsRight(Race(r), rows, given[r])
  BY PageFacts DEF PageInv
<1>2. n \in Nat /\ DOMAIN cs = 1..n /\ DOMAIN rows = 1..Len(rows) /\ Len(rows) \in Nat
  BY <1>1
<1>3. /\ \A i, j \in DOMAIN rows : rows[i].id = rows[j].id => i = j
      /\ Range(cs) \subseteq {rows[i].id : i \in DOMAIN rows}
  BY <1>1 DEF RowsRight
<1>4. {k \in DOMAIN cs : ~IsWriteIn(cs[k])} = DOMAIN cs
  BY <1>1 DEF IsWriteIn, Range
<1>5. Selected(cs, {k \in DOMAIN cs : ~IsWriteIn(cs[k])}) = cs
  BY <1>1, <1>4, SelectedAll
<1>6. vote = first \o picked
  <2>1. ASSUME NEW chosen, chosen = cs
        PROVE  [i \in DOMAIN chosen |-> row(chosen[i])] = first
    BY <2>1
  <2>2. W = {k \in DOMAIN rows : IsWriteIn(rows[k].id)}
    BY DEF PlacesOfWriteIns
  <2> HIDE DEF row, first, W
  <2>3. vote = [i \in DOMAIN Selected(cs, {k \in DOMAIN cs : ~IsWriteIn(cs[k])}) |->
                  row(Selected(cs, {k \in DOMAIN cs : ~IsWriteIn(cs[k])})[i])] \o picked
    BY <2>2 DEF VoteOf, row
  <2>4. QED
    BY <1>5, <2>1, <2>3
<1>7. \A i \in 1..n : \E j \in DOMAIN rows : row(cs[i]) = rows[j] /\ rows[j].id = cs[i]
  <2>1. TAKE i \in 1..n
  <2>2. cs[i] \in Range(cs)
    BY <1>2 DEF Range
  <2>3. \E w \in Range(rows) : w.id = cs[i]
    BY <1>3, <2>2 DEF Range
  <2>4. row(cs[i]) \in Range(rows) /\ row(cs[i]).id = cs[i]
    BY <2>3
  <2> HIDE DEF row
  <2>5. QED
    BY <2>4 DEF Range
<1>22. n = Len(cs)
  OBVIOUS
<1> HIDE DEF row, cs, n, rows
<1>8. first \in Seq(BallotRow) /\ Len(first) = n /\ \A i \in 1..n : first[i] = row(cs[i])
  <2>1. \A i \in 1..n : row(cs[i]) \in BallotRow
    BY <1>1, <1>7
  <2>2. first = [i \in 1..n |-> row(cs[i])]
    BY <1>2
  <2> HIDE DEF first
  <2>3. QED
    BY <1>2, <2>1, <2>2
<1>9. W \subseteq DOMAIN rows /\ \A j \in W : IsWriteIn(rows[j].id)
  BY DEF PlacesOfWriteIns
<1> HIDE DEF W, o, first, m
<1>10. m \in Nat /\ picked \in Seq(BallotRow) /\ Len(picked) = m
  BY <1>1, <1>9, SelectedIs DEF m
<1>11. \A k \in 1..m : o[k] \in W /\ picked[k] = rows[o[k]]
  BY <1>1, <1>9, SelectedIs DEF m, o
<1>12. \A i \in W : \E k \in 1..m : o[k] = i
  BY <1>1, <1>9, SelectedIs DEF m, o
<1>13. \A j, k \in 1..m : o[j] = o[k] => j = k
  BY <1>1, <1>9, SelectedIs DEF m, o
<1> HIDE DEF picked, vote
<1>14. /\ vote \in Seq(BallotRow) /\ Len(vote) = n + m /\ DOMAIN vote = 1..(n + m)
       /\ \A i \in 1..n : vote[i] = first[i]
       /\ \A i \in 1..(n + m) : i > n => vote[i] = picked[i - n]
  <2>1. vote \in Seq(BallotRow) /\ Len(vote) = n + m
    BY <1>6, <1>8, <1>10, ConcatProperties
  <2>2. \A i \in 1..(n + m) : vote[i] = IF i <= n THEN first[i] ELSE picked[i - n]
    BY <1>6, <1>8, <1>10, ConcatProperties
  <2>3. DOMAIN vote = 1..(n + m)
    BY <2>1
  <2>4. \A i \in 1..n : i \in 1..(n + m) /\ i <= n
    BY <1>2, <1>10
  <2>5. \A i \in 1..(n + m) : i > n => ~(i <= n)
    BY <1>2, <1>10
  <2>6. QED
    BY <2>1, <2>2, <2>3, <2>4, <2>5
<1>15. \A i \in 1..(n + m) : i > n =>
         i - n \in 1..m /\ o[i - n] \in W /\ vote[i] = rows[o[i - n]]
  BY <1>2, <1>10, <1>11, <1>14
<1>16. \A i \in 1..n : vote[i].id = cs[i]
  BY <1>7, <1>8, <1>14
<1>17. \A i \in 1..(n + m) : i > n => IsWriteIn(vote[i].id)
  BY <1>9, <1>15
<1>18. \A i \in 1..(n + m) : \E j \in DOMAIN rows : vote[i] = rows[j]
  <2>1. TAKE i \in 1..(n + m)
  <2>2. CASE i > n
    BY <1>9, <1>15, <2>2
  <2>3. CASE ~(i > n)
    <3>1. i \in 1..n
      BY <1>2, <1>10, <2>3
    <3>2. QED
      BY <1>7, <1>8, <1>14, <3>1
  <2>4. QED
    BY <2>2, <2>3
<1>19. \A j \in W : \E i \in 1..(n + m) : vote[i] = rows[j]
  <2>1. TAKE j \in W
  <2>2. PICK k \in 1..m : o[k] = j
    BY <1>12
  <2>3. n + k \in 1..(n + m) /\ n + k > n /\ (n + k) - n = k
    BY <1>2, <1>10
  <2>4. QED
    BY <1>15, <2>2, <2>3
<1>20. \A i, k \in 1..(n + m) : i > n /\ k > n /\ vote[i].id = vote[k].id => i = k
  <2>1. SUFFICES ASSUME NEW i \in 1..(n + m), NEW k \in 1..(n + m), i > n, k > n,
                        vote[i].id = vote[k].id
                 PROVE  i = k
    OBVIOUS
  <2>2. o[i - n] = o[k - n] /\ i - n \in 1..m /\ k - n \in 1..m
    BY <1>3, <1>9, <1>15, <2>1
  <2>3. i - n = k - n
    BY <1>13, <2>2
  <2>4. QED
    BY <1>2, <1>10, <2>3
<1>21. QED
  BY <1>2, <1>10, <1>14, <1>16, <1>17, <1>18, <1>19, <1>20 DEF IsVote, vote, W, cs, rows, n, m

(* A vote the server accepts, if the page does.                              *)
LEMMA VoteFits ==
  ASSUME PageInv, NEW r \in RaceIds
  PROVE  VoteOf(r) \in Seq(BallotRow) /\ FitsServer(election, Race(r), VoteOf(r))
<1> DEFINE rows == pages[r].rows
           race == Race(r)
           cs == race.candidates
           n == Len(cs)
           m == Cardinality(PlacesOfWriteIns(rows))
           vote == VoteOf(r)
<1>1. /\ n \in Nat /\ m \in Nat /\ vote \in Seq(BallotRow) /\ DOMAIN vote = 1..(n + m)
      /\ \A i \in 1..n : vote[i].id = cs[i]
      /\ \A i \in 1..(n + m) : i > n => IsWriteIn(vote[i].id)
      /\ \A i \in 1..(n + m) : \E j \in DOMAIN rows : vote[i] = rows[j]
      /\ \A j \in PlacesOfWriteIns(rows) : \E i \in 1..(n + m) : vote[i] = rows[j]
  BY VoteIs DEF IsVote
<1>2. FitsServer(election, race, rows) /\ cs \in Seq(STRING)
      /\ Range(cs) \cap WriteInNames = {} /\ rows \in Seq(BallotRow)
  BY PageFacts DEF PageInv
<1> HIDE DEF rows, race, vote, m
<1>3. \A i \in 1..n : ~IsWriteIn(vote[i].id)
  <2>1. DOMAIN cs = 1..n
    BY <1>2
  <2>2. \A i \in 1..n : cs[i] \in Range(cs)
    BY <2>1 DEF Range
  <2> HIDE DEF cs, n
  <2>3. QED
    BY <1>1, <1>2, <2>2 DEF IsWriteIn
<1>4. PlacesOfWriteIns(vote) = (n + 1)..(n + m)
  <2>1. \A i \in 1..(n + m) : IsWriteIn(vote[i].id) <=> i > n
    <3>1. TAKE i \in 1..(n + m)
    <3>2. i > n \/ i \in 1..n
      BY <1>1
    <3>3. i \in 1..n => ~(i > n)
      BY <1>1
    <3>4. QED
      BY <1>1, <1>3, <3>2, <3>3
  <2>2. PlacesOfWriteIns(vote) = {i \in 1..(n + m) : i > n}
    BY <1>1, <2>1 DEF PlacesOfWriteIns
  <2>3. QED
    BY <1>1, <2>2
<1>5. Cardinality(PlacesOfWriteIns(vote)) = m
  <2>1. n + 1 \in Int /\ n + m \in Int
    BY <1>1
  <2>2. Cardinality((n + 1)..(n + m)) = IF n + 1 > n + m THEN 0 ELSE (n + m) - (n + 1) + 1
    BY <2>1, FS_Interval
  <2>3. QED
    BY <1>1, <1>4, <2>2
<1>6. \A i \in DOMAIN vote :
        OutOfBounds(election, race, vote[i].score) => Kind(election, race) = "drag"
  BY <1>1, <1>2 DEF FitsServer
<1>7. PlacesOfWriteIns(vote) # {} => PlacesOfWriteIns(rows) # {}
  <2>1. ASSUME NEW i \in PlacesOfWriteIns(vote) PROVE PlacesOfWriteIns(rows) # {}
    BY <1>1, <2>1 DEF PlacesOfWriteIns
  <2>2. QED
    BY <2>1
<1>8. FitsServer(election, race, vote)
  BY <1>2, <1>5, <1>6, <1>7 DEF FitsServer, m
<1>9. QED
  BY <1>1, <1>8 DEF vote, race

(* The vote is the marks of the voter, each candidate's own.                 *)
LEMMA VoteAsMarked ==
  ASSUME PageInv, NEW r \in RaceIds
  PROVE  AsMarked(r, VoteOf(r))
<1> DEFINE rows == pages[r].rows
           cs == Race(r).candidates
           n == Len(cs)
           m == Cardinality(PlacesOfWriteIns(rows))
           vote == VoteOf(r)
           marks == given[r]
<1>1. /\ n \in Nat /\ m \in Nat /\ vote \in Seq(BallotRow)
      /\ Len(vote) = n + m /\ DOMAIN vote = 1..(n + m)
      /\ \A i \in 1..n : vote[i].id = cs[i]
      /\ \A i \in 1..(n + m) : i > n => IsWriteIn(vote[i].id)
      /\ \A i \in 1..(n + m) : \E j \in DOMAIN rows : vote[i] = rows[j]
      /\ \A j \in PlacesOfWriteIns(rows) : \E i \in 1..(n + m) : vote[i] = rows[j]
      /\ \A i, k \in 1..(n + m) : i > n /\ k > n /\ vote[i].id = vote[k].id => i = k
  BY VoteIs DEF IsVote
<1>2. /\ cs \in Seq(STRING) /\ IsInjective(cs) /\ Range(cs) \cap WriteInNames = {}
      /\ RowsRight(Race(r), rows, marks)
  BY PageFacts DEF PageInv
<1>3. /\ \A i \in DOMAIN rows : rows[i].id \in Range(cs) \cup WriteInNames
      /\ DOMAIN marks = {rows[i].id : i \in DOMAIN rows}
      /\ \A i \in DOMAIN rows : marks[rows[i].id] = rows[i].score
  BY <1>2 DEF RowsRight
<1>4. DOMAIN cs = 1..n /\ \A i \in 1..n : i \in 1..(n + m) /\ cs[i] \in Range(cs)
  BY <1>1, <1>2 DEF Range
<1>5. DOMAIN marks = {vote[i].id : i \in 1..(n + m)}
  <2>1. \A i \in 1..(n + m) : vote[i].id \in DOMAIN marks
    BY <1>1, <1>3
  <2>2. ASSUME NEW j \in DOMAIN rows PROVE \E i \in 1..(n + m) : vote[i].id = rows[j].id
    <3>1. CASE rows[j].id \in Range(cs)
      <4>1. PICK i \in 1..n : cs[i] = rows[j].id
        BY <1>4, <3>1 DEF Range
      <4>2. i \in 1..(n + m) /\ vote[i].id = rows[j].id
        BY <1>1, <1>4, <4>1
      <4>3. QED
        BY <4>2
    <3>2. CASE rows[j].id \in WriteInNames
      BY <1>1, <3>2 DEF PlacesOfWriteIns, IsWriteIn
    <3>3. QED
      BY <1>3, <3>1, <3>2
  <2>3. QED
    BY <1>3, <2>1, <2>2
<1>6. \A i, k \in 1..(n + m) : vote[i].id = vote[k].id => i = k
  <2>1. SUFFICES ASSUME NEW i \in 1..(n + m), NEW k \in 1..(n + m), vote[i].id = vote[k].id
                 PROVE  i = k
    OBVIOUS
  <2>2. (i > n \/ i \in 1..n) /\ (k > n \/ k \in 1..n)
    BY <1>1
  <2>3. \A j \in 1..n : vote[j].id \notin WriteInNames
    BY <1>1, <1>2, <1>4
  <2>4. CASE i > n /\ k > n
    BY <1>1, <2>1, <2>4
  <2>5. CASE i \in 1..n /\ k \in 1..n
    <3>1. cs[i] = cs[k]
      BY <1>1, <2>1, <2>5
    <3>2. QED
      BY <1>2, <1>4, <2>5, <3>1 DEF IsInjective
  <2>6. CASE (i > n /\ k \in 1..n) \/ (k > n /\ i \in 1..n)
    BY <1>1, <2>1, <2>3, <2>6 DEF IsWriteIn
  <2>7. QED
    BY <2>2, <2>4, <2>5, <2>6
<1> HIDE DEF rows, vote, marks, m, cs
<1>7. Cardinality(DOMAIN marks) = Len(vote)
  <2>1. DEFINE ids == [i \in 1..(n + m) |-> vote[i].id]
  <2>2. ids \in Bijection(1..(n + m), DOMAIN marks)
    BY <1>5, <1>6 DEF Bijection, Injection, Surjection, IsInjective
  <2>3. n + m \in Nat
    BY <1>1
  <2>4. IsFiniteSet(1..(n + m)) /\ Cardinality(1..(n + m)) = n + m
    <3>1. ASSUME NEW k \in Nat PROVE IsFiniteSet(1..k) /\ Cardinality(1..k) = k
      BY FS_Interval
    <3>2. QED
      BY <2>3, <3>1
  <2> HIDE DEF ids
  <2>5. Cardinality(DOMAIN marks) = n + m
    BY <2>2, <2>4, FS_Bijection DEF ExistsBijection
  <2>6. QED
    BY <1>1, <2>5
<1>8. IdsOf(SubSeq(vote, 1, n)) = cs
  <2>1. /\ SubSeq(vote, 1, n) \in Seq(BallotRow) /\ Len(SubSeq(vote, 1, n)) = n
        /\ DOMAIN SubSeq(vote, 1, n) = 1..n
        /\ \A i \in 1..n : SubSeq(vote, 1, n)[i] = vote[i]
    BY <1>1
  <2>2. IdsOf(SubSeq(vote, 1, n)) = [i \in 1..n |-> cs[i]]
    BY <1>1, <2>1 DEF IdsOf
  <2>3. QED
    BY <1>2, <1>4, <2>2
<1>9. Range(IdsOf(vote)) = DOMAIN marks
  BY <1>1, <1>5 DEF IdsOf, Range
<1>10. \A s \in Range(vote) : s.score = marks[s.id]
  BY <1>1, <1>3 DEF Range
<1>11. QED
  BY <1>7, <1>8, <1>9, <1>10 DEF AsMarked, vote, marks, cs

(* A ballot that fits, and is refused all the same.                          *)
LEMMA RefusedFor ==
  ASSUME PageInv, answer = "pending", Invalid(sent)
  PROVE  \E r \in RaceIds : Unchecked(r)
<1>1. PICK r \in RaceIds :
        \/ \E s \in Range(sent[r]) : OutOfBounds(election, Race(r), s.score)
        \/ BadWriteIns(Race(r), sent[r])
  BY DEF Invalid
<1> DEFINE votes == sent[r]
           race == Race(r)
           names == {s.id : s \in {t \in Range(votes) : IsWriteIn(t.id)}}
           W == PlacesOfWriteIns(votes)
<1>2. votes \in Seq(BallotRow) /\ FitsServer(election, race, votes) /\ race \in RaceOnPage
  BY PageFacts DEF PageInv
<1>3. names = {votes[i].id : i \in W} /\ names \subseteq Range(IdsOf(votes))
  BY DEF PlacesOfWriteIns, Range, IdsOf
<1> HIDE DEF votes, race
<1>4. CASE \E s \in Range(votes) : OutOfBounds(election, race, s.score)
  <2>1. PICK s \in Range(votes) : OutOfBounds(election, race, s.score)
    BY <1>4
  <2>2. Kind(election, race) = "drag"
    BY <1>2, <2>1 DEF FitsServer, Range
  <2>3. race.method = "IRV"
    BY <1>2, <2>2 DEF Kind, RaceOnPage, Ranked, Scored
  <2>4. s.score > election.max
    BY <2>1, <2>3 DEF OutOfBounds, Ranked, Scored
  <2>5. QED
    BY <2>1, <2>2, <2>4 DEF Unchecked, votes, race
<1>5. CASE BadWriteIns(race, votes)
  <2>1. ~(names # {} /\ ~race.writeIns)
    BY <1>2, <1>3 DEF FitsServer
  <2>2. ~(Cardinality(names) > 10)
    <3>1. IsFiniteSet(W) /\ Cardinality(W) \in Nat /\ Cardinality(W) <= 10
      <4>1. Len(votes) \in Nat /\ W \subseteq 1..Len(votes)
        BY <1>2 DEF PlacesOfWriteIns
      <4>2. IsFiniteSet(W) /\ Cardinality(W) \in Nat
        BY <4>1, Places
      <4>3. QED
        BY <1>2, <4>2 DEF FitsServer
    <3>2. DEFINE ids == [i \in W |-> votes[i].id]
    <3>3. ids \in Surjection(W, names)
      BY <1>3 DEF Surjection
    <3> HIDE DEF ids, W, names
    <3>4. IsFiniteSet(names) /\ Cardinality(names) <= Cardinality(W)
      BY <3>1, <3>3, FS_Surjection
    <3>5. Cardinality(names) \in Nat
      BY <3>4, FS_CardinalityType
    <3>6. QED
      BY <3>1, <3>4, <3>5
  <2>3. names \cap LongNames # {}
    BY <1>5, <2>1, <2>2 DEF BadWriteIns
  <2>4. QED
    BY <1>3, <2>3 DEF Unchecked, votes
<1>6. QED
  BY <1>1, <1>4, <1>5 DEF votes, race

LEMMA GoToKeeps ==
  ASSUME PageInv, NEW r \in RaceIds, GoTo(r)
  PROVE  PageInv'
<1>1. view' = ViewOf(r) /\ current' = r /\ UNCHANGED <<election, pages, sent, answer, given>>
  BY DEF GoTo
<1>2. view = [kind |-> view.kind, unranked |-> view.unranked]
  BY DEF PageInv, PageTypes
<1>3. /\ ViewOf(r) = [kind |-> ViewOf(r).kind, unranked |-> ViewOf(r).unranked]
      /\ ViewOf(r).kind \in {Kind(election, Race(r)), "crashed"}
  BY <1>2 DEF ViewOf, Mounted, Crashed, Race
<1>4. QED
  BY <1>1, <1>3, MarksStay DEF PageInv

LEMMA PostKeeps ==
  ASSUME PageInv,
         \/ OpenReview \/ CloseReview \/ SubmitBallot \/ Accepted
         \/ BallotRefused \/ PostFails \/ Left \/ UNCHANGED pageVars
  PROVE  PageInv'
<1>1. UNCHANGED <<election, pages, given, current, view>>
  BY DEF OpenReview, CloseReview, SubmitBallot, Accepted, BallotRefused, PostFails, NotStored,
         Left, pageVars
<1>2. /\ current \in RaceIds /\ view = [kind |-> view.kind, unranked |-> view.unranked]
      /\ view.kind \in {Kind(election, Race(current)), "crashed"}
  BY DEF PageInv, PageTypes
<1>3. answer' = "pending" => \A r \in RaceIds :
        sent'[r] \in Seq(BallotRow) /\ FitsServer(election, Race(r), sent'[r])
  <2>1. CASE SubmitBallot
    BY <2>1, VoteFits DEF SubmitBallot
  <2>2. CASE ~SubmitBallot
    <3>1. answer' = "pending" => answer = "pending" /\ sent' = sent
      BY <2>2 DEF OpenReview, CloseReview, Accepted, BallotRefused, PostFails, NotStored, Left, pageVars
    <3>2. QED
      BY <3>1 DEF PageInv
  <2>3. QED
    BY <2>1, <2>2
<1>4. QED
  BY <1>1, <1>2, <1>3, MarksStay

LEMMA PageSteps == PageInv /\ [PageNext]_pageVars => PageInv'
<1>1. SUFFICES ASSUME PageInv, [PageNext]_pageVars PROVE PageInv'
  OBVIOUS
<1>2. CASE \/ \E i \in DOMAIN Here.rows, v \in Columns : Click(i, v)
           \/ \E i \in DOMAIN Here.rows, v \in Columns,
                 key \in {"left", "right", "home", "end"} : PressKey(i, v, key)
  <2>1. \E i, v : \E key \in {"left", "right", "home", "end"} : Click(i, v) \/ PressKey(i, v, key)
    BY <1>2
  <2>2. QED
    BY <1>1, <2>1, PressKeeps
<1>3. CASE \E c \in Range(IdsOf(Here.rows)), to \in {"ranked", "unranked"},
             k \in 0..Len(Here.rows) : Drag(c, to, k)
  <2>1. PICK c \in Range(IdsOf(Here.rows)), to \in {"ranked", "unranked"},
             k \in 0..Len(Here.rows) : Drag(c, to, k)
    BY <1>3
  <2>2. k \in Nat
    OBVIOUS
  <2>3. QED
    BY <1>1, <2>1, <2>2, DragKeeps
<1>4. CASE \E n \in WriteInNames : AddWriteIn(n) \/ RemoveWriteIn(n)
  BY <1>1, <1>4, AddKeeps, RemoveKeeps
<1>5. CASE \E r \in RaceIds : GoTo(r)
  BY <1>1, <1>5, GoToKeeps
<1>6. CASE Reload
  BY <1>1, <1>6, ReloadKeeps
<1>7. CASE \/ OpenReview \/ CloseReview \/ SubmitBallot \/ Accepted
           \/ BallotRefused \/ PostFails \/ Left \/ UNCHANGED pageVars
  BY <1>1, <1>7, PostKeeps
<1>8. QED
  BY <1>1, <1>2, <1>3, <1>4, <1>5, <1>6, <1>7 DEF PageNext

(* In every state of the voting page each race lists its candidates and some *)
(* write-ins, no two with the same id, with the marks the voter gave, and the*)
(* marks and the write-ins of the page and of the ballot in flight are those *)
(* ballotValidation accepts, but for dragged ranks and for long names.       *)
THEOREM PageInvariant == PageSpec => []PageInv
<1>1. QED
  BY PageStarts, PageSteps, PTL DEF PageSpec

(* The votes that go out are the marks the voter gave, by candidate, however *)
(* the page shuffled them and in whatever order it was marked; and the server*)
(* refuses a ballot only for a dragged rank or a long write-in name.         *)
THEOREM VotesAsMarked == PageSpec => SentAsMarked
<1>1. ASSUME PageInv, [PageNext]_pageVars
      PROVE  [/\ sent' \notin {sent, <<>>} => \A r \in RaceIds : AsMarked(r, sent'[r])
              /\ answer' = "refused" /\ answer # "refused" => \E r \in RaceIds : Unchecked(r)
             ]_<<sent, answer>>
  <2>1. sent' \notin {sent, <<>>} => sent' = [r \in RaceIds |-> VoteOf(r)]
    BY <1>1 DEF PageNext, pageVars, Click, PressKey, Commit, Drag, AddWriteIn, RemoveWriteIn,
       GoTo, OpenReview, CloseReview, SubmitBallot, Accepted, BallotRefused, PostFails, NotStored,
       Reload, Left
  <2>2. \A r \in RaceIds : AsMarked(r, VoteOf(r))
    BY <1>1, VoteAsMarked
  <2>3. answer' = "refused" /\ answer # "refused" => answer = "pending" /\ Invalid(sent)
    BY <1>1 DEF PageNext, pageVars, Click, PressKey, Commit, Drag, AddWriteIn, RemoveWriteIn,
       GoTo, OpenReview, CloseReview, SubmitBallot, Accepted, BallotRefused, PostFails, NotStored,
       Reload, Left
  <2>4. QED
    BY <1>1, <2>1, <2>2, <2>3, RefusedFor
<1>2. QED
  BY <1>1, PageInvariant, PTL DEF PageSpec, SentAsMarked
=============================================================================
