--------------------------- MODULE CastVoteProofs ---------------------------
(* Theorems about CastVote, for every value of its constants.              *)
EXTENDS CastVote, FiniteSetTheorems, TLAPS

\* The record constructors build values of the declared types.
LEMMA IdleType ==
  ASSUME NEW v \in Voters \cup {None}, NEW result \in Results
  PROVE  Idle(result, v) \in Request
BY DEF Idle, Request

LEMMA HoldingType ==
  ASSUME NEW v \in Voters \cup {None}, NEW row \in RollRow \cup {None},
         NEW pc \in {"create", "ready"}
  PROVE  Holding(pc, v, row) \in Request
BY DEF Holding, Idle, Request, Results

LEMMA NewRollType ==
  ASSUME NEW v \in Voters, NEW t \in Times
  PROVE  NewRoll(v, t) \in RollRow
BY DEF NewRoll, RollRow, RollState

\* Demoting rows of a table leaves a table of the same type.
LEMMA DemoteRolls ==
  ASSUME NEW table \in SUBSET RollRow, NEW selected
  PROVE  Demote(table, selected) \in SUBSET RollRow
BY DEF Demote, RollRow

LEMMA DemoteBallots ==
  ASSUME NEW table \in SUBSET BallotRow, NEW selected
  PROVE  Demote(table, selected) \in SUBSET BallotRow
BY DEF Demote, BallotRow

\* A step that only replaces request r's record.
LEMMA RequestStep ==
  ASSUME TypeOK, NEW r \in Requests, NEW rec \in Request,
         reqs' = [reqs EXCEPT ![r] = rec],
         rec.pc # "done" => rec.voter \in Voters,
         rec.pc \in {"ready", "submit"} => rec.copy \in RollRow,
         rec.pc = "submit" => rec.ballot \in BallotIds,
         rolls' \in SUBSET RollRow, ballots' \in SUBSET BallotRow,
         UNCHANGED edits
  PROVE  TypeOK'
BY DEF TypeOK

LEMMA IdleStep ==
  ASSUME TypeOK, NEW r \in Requests, NEW v \in Voters \cup {None},
         NEW result \in Results, reqs' = [reqs EXCEPT ![r] = Idle(result, v)],
         rolls' \in SUBSET RollRow, ballots' \in SUBSET BallotRow,
         UNCHANGED edits
  PROVE  TypeOK'
BY RequestStep, IdleType, Idle(result, v).pc = "done" DEF Idle

LEMMA HoldStep ==
  ASSUME TypeOK, NEW r \in Requests, NEW v \in Voters, NEW row \in RollRow,
         reqs' = [reqs EXCEPT ![r] = Holding("ready", v, row)],
         rolls' \in SUBSET RollRow, UNCHANGED <<ballots, edits>>
  PROVE  TypeOK'
<1>1. /\ Holding("ready", v, row) \in Request
      /\ Holding("ready", v, row).pc = "ready"
      /\ Holding("ready", v, row).voter = v
      /\ Holding("ready", v, row).copy = row
  BY HoldingType DEF Holding, Idle
<1>2. ballots' \in SUBSET BallotRow
  BY DEF TypeOK
<1>3. QED
  BY <1>1, <1>2, RequestStep

\* Every value the program stores is of its type.
THEOREM TypeCorrect == Spec => []TypeOK
<1> USE SettingsAssumption, NoneAssumption
<1>1. Init => TypeOK
  <2> SUFFICES ASSUME Init PROVE TypeOK
    OBVIOUS
  <2>1. rolls \subseteq RollRow
    BY NewRollType DEF Init
  <2>2. /\ Idle("none", None) \in Request
        /\ Idle("none", None).pc = "done"
    BY IdleType DEF Idle, Results
  <2>3. QED
    BY <2>1, <2>2 DEF Init, TypeOK
<1>2. TypeOK /\ [Next]_vars => TypeOK'
  <2> SUFFICES ASSUME TypeOK, [Next]_vars PROVE TypeOK'
    OBVIOUS
  <2>0. /\ rolls \in SUBSET RollRow /\ ballots \in SUBSET BallotRow
        /\ \A r \in Requests : /\ reqs[r] \in Request
                               /\ reqs[r].voter \in Voters \cup {None}
    BY DEF TypeOK, Request
  <2>1. ASSUME NEW r \in Requests, NEW v \in Voters, ReadRoll(r, v) PROVE TypeOK'
    BY <2>0, <2>1, HoldStep DEF ReadRoll, HeadRolls
  <2>2. ASSUME NEW r \in Requests, NEW v \in Voters, RefuseVoted(r, v) PROVE TypeOK'
    BY <2>0, <2>2, IdleStep, "alreadyVoted" \in Results DEF RefuseVoted, Results
  <2>3. ASSUME NEW r \in Requests, NEW v \in Voters, RefuseUnknown(r, v) PROVE TypeOK'
    BY <2>0, <2>3, IdleStep, "unauthorized" \in Results DEF RefuseUnknown, Results
  <2>4. ASSUME NEW r \in Requests, NEW v \in Voters, MissRoll(r, v) PROVE TypeOK'
    <3>1. /\ Holding("create", v, None) \in Request
          /\ Holding("create", v, None).pc = "create"
          /\ Holding("create", v, None).voter = v
      BY HoldingType DEF Holding, Idle
    <3>2. QED
      BY <2>0, <2>4, <3>1, RequestStep DEF MissRoll
  <2>5. ASSUME NEW r \in Requests, NEW t \in Times, CreateRoll(r, t) PROVE TypeOK'
    <3>1. reqs[r].voter \in Voters
      BY <2>5 DEF CreateRoll, TypeOK
    <3>2. /\ NewRoll(reqs[r].voter, t) \in RollRow
          /\ NewRoll(reqs[r].voter, t).voter = reqs[r].voter
      BY <3>1, NewRollType DEF NewRoll
    <3>3. QED
      BY <2>0, <2>5, <3>1, <3>2, HoldStep DEF CreateRoll
  <2>6. ASSUME NEW r \in Requests, NEW v \in Voters, NEW t \in Times,
               MakeUpRoll(r, v, t)
        PROVE  TypeOK'
    BY <2>0, <2>6, NewRollType, HoldStep DEF MakeUpRoll
  <2>7. ASSUME NEW r \in Requests, ReuseBallot(r) PROVE TypeOK'
    <3>1. PICK row \in ballots :
            reqs' = [reqs EXCEPT ![r].pc = "submit", ![r].ballot = row.ballot,
                                 ![r].target = row.version]
      BY <2>7 DEF ReuseBallot, PriorBallots
    <3> DEFINE rec == [reqs[r] EXCEPT !.pc = "submit", !.ballot = row.ballot,
                                      !.target = row.version]
    <3>2. row.ballot \in BallotIds /\ row.version \in Times
      BY <2>0 DEF BallotRow
    <3>3. /\ rec \in Request /\ rec.voter = reqs[r].voter
          /\ rec.copy = reqs[r].copy /\ rec.ballot = row.ballot
      BY <2>0, <3>2 DEF Request
    <3>4. reqs' = [reqs EXCEPT ![r] = rec]
      BY <3>1
    <3>5. reqs[r].voter \in Voters /\ reqs[r].copy \in RollRow
      BY <2>7 DEF ReuseBallot, TypeOK
    <3> HIDE DEF rec
    <3>6. QED
      BY <2>0, <2>7, <3>2, <3>3, <3>4, <3>5, RequestStep DEF ReuseBallot
  <2>8. ASSUME NEW r \in Requests, NEW b \in BallotIds, PickBallot(r, b) PROVE TypeOK'
    <3> DEFINE rec == [reqs[r] EXCEPT !.pc = "submit", !.ballot = b]
    <3>1. /\ rec \in Request /\ rec.voter = reqs[r].voter
          /\ rec.copy = reqs[r].copy /\ rec.ballot = b
      BY <2>0 DEF Request
    <3>2. reqs' = [reqs EXCEPT ![r] = rec]
      BY <2>8 DEF PickBallot
    <3>3. reqs[r].voter \in Voters /\ reqs[r].copy \in RollRow
      BY <2>8 DEF PickBallot, TypeOK
    <3> HIDE DEF rec
    <3>4. QED
      BY <2>0, <2>8, <3>1, <3>2, <3>3, RequestStep DEF PickBallot
  <2>9. ASSUME NEW r \in Requests, StartUpdate(r) PROVE TypeOK'
    BY <2>9 DEF StartUpdate, HeadBallots, TypeOK, Request, BallotRow
  <2>10. ASSUME NEW r \in Requests, NEW t \in Times, CommitVote(r, t) PROVE TypeOK'
    <3>1. /\ reqs[r].copy \in RollRow /\ reqs[r].ballot \in BallotIds
          /\ reqs[r].voter \in Voters
      BY <2>10 DEF CommitVote, TypeOK
    <3>2. RollToInsert(r, t) \in RollRow
      <4>1. reqs[r].copy.casts + 1 \in Nat
        BY <3>1 DEF RollRow
      <4>2. QED
        BY <3>1, <4>1 DEF RollToInsert, RollRow
    <3>3. BallotToInsert(r, t) \in BallotRow
      BY <3>1 DEF BallotToInsert, BallotRow
    <3>4. BallotsAfter(r) \in SUBSET BallotRow
      BY <2>0, DemoteBallots DEF BallotsAfter
    <3>5. Demote(rolls, Unchanged(r)) \in SUBSET RollRow
      BY <2>0, DemoteRolls
    <3>6. QED
      BY <2>0, <2>10, <3>2, <3>3, <3>4, <3>5, IdleStep, "accepted" \in Results
      DEF CommitVote, Finish, Results
  <2>11. ASSUME NEW r \in Requests, RejectBallotUpdate(r) PROVE TypeOK'
    BY <2>0, <2>11, IdleStep, "conflict" \in Results
    DEF RejectBallotUpdate, Finish, Results
  <2>12. ASSUME NEW r \in Requests, NEW t \in Times, RejectStaleRoll(r, t) PROVE TypeOK'
    BY <2>0, <2>12, IdleStep, "conflict" \in Results, "alreadyVoted" \in Results
    DEF RejectStaleRoll, Finish, Results
  <2>13. ASSUME NEW r \in Requests, FailRequest(r) PROVE TypeOK'
    BY <2>0, <2>13, IdleStep, "error" \in Results DEF FailRequest, Finish, Results
  <2>14. ASSUME NEW e \in Editors, NEW v \in Voters, NEW kind \in EditKinds,
                ReadForEdit(e, v, kind)
         PROVE  TypeOK'
    <3>1. \A state \in RollState : NewState(kind, state) \in RollState
      BY DEF NewState, RollState
    <3>2. PICK row \in rolls :
            edits' = [edits EXCEPT ![e] =
              [row EXCEPT !.state = NewState(kind, @), !.emailed = @ \/ kind = "email"]]
      BY <2>14 DEF ReadForEdit, HeadRolls
    <3>3. [row EXCEPT !.state = NewState(kind, @), !.emailed = @ \/ kind = "email"]
            \in RollRow
      BY <2>0, <3>1 DEF RollRow
    <3>4. QED
      BY <2>14, <3>2, <3>3 DEF ReadForEdit, TypeOK
  <2>15. ASSUME NEW e \in Editors, NEW t \in Times, WriteEdit(e, t) PROVE TypeOK'
    <3>1. edits[e] \in RollRow
      BY <2>15 DEF WriteEdit, TypeOK
    <3>2. [edits[e] EXCEPT !.version = t, !.head = TRUE] \in RollRow
      BY <3>1 DEF RollRow
    <3>3. rolls' \in SUBSET RollRow
      BY <2>0, <2>15, <3>2, DemoteRolls DEF WriteEdit
    <3>4. QED
      BY <2>15, <3>3 DEF WriteEdit, TypeOK
  <2>16. ASSUME NEW e \in Editors, FailEdit(e) PROVE TypeOK'
    BY <2>16 DEF FailEdit, TypeOK
  <2>17. CASE UNCHANGED vars
    BY <2>17 DEF vars, TypeOK
  <2>18. QED
    BY <2>1, <2>2, <2>3, <2>4, <2>5, <2>6, <2>7, <2>8, <2>9, <2>10, <2>11,
       <2>12, <2>13, <2>14, <2>15, <2>16, <2>17 DEF Next, Cast, Lookup, Edit
<1>3. QED
  BY <1>1, <1>2, PTL DEF Spec

-----------------------------------------------------------------------------
(* Writing a versioned row.                                                *)

\* What is known of table new, got from old by demoting heads of n's voter
\* and inserting n as the head.
RollWritten(old, new, n) ==
  /\ n \in new /\ n.head
  /\ \A x \in old : \E y \in new : SameRow(x, y)
  /\ \A y \in new :
       y = n \/ \E x \in old : SameRow(x, y) /\ (y.head => x = y)
  /\ \A y \in new : y.voter = n.voter /\ y.head => y = n
  /\ \A x \in old : x.voter # n.voter => x \in new
  /\ \A x \in old : x.voter = n.voter => x.version # n.version
  /\ \A x, y \in new : x.voter = y.voter /\ x.version = y.version => x = y

LEMMA RollWriteFacts ==
  ASSUME NEW old \in SUBSET RollRow, NEW n \in RollRow, n.head,
         \A x, y \in old : x.voter = y.voter /\ x.version = y.version => x = y,
         NEW selected, \A x \in selected : x.voter = n.voter,
         RollFits(Demote(old, selected), n)
  PROVE  RollWritten(old, Demote(old, selected) \cup {n}, n)
<1> DEFINE low(x) == [x EXCEPT !.head = FALSE]
           new == Demote(old, selected) \cup {n}
<1>1. \A x \in old : SameRow(x, low(x)) /\ SameRow(x, x) /\ ~low(x).head
  BY DEF SameRow, RollRow
<1>2. \A x \in old : \E y \in Demote(old, selected) : SameRow(x, y)
  BY <1>1 DEF Demote
<1>3. \A y \in Demote(old, selected) :
        \E x \in old : SameRow(x, y) /\ (y.head => x = y)
  BY <1>1 DEF Demote
<1>4. \A x \in old : x.voter # n.voter => x \in Demote(old, selected)
  BY DEF Demote
<1>5. \A y \in Demote(old, selected) :
        y.voter = n.voter => y.version # n.version /\ ~y.head
  BY DEF RollFits
<1>6. \A x \in old : x.voter = n.voter => x.version # n.version
  BY <1>2, <1>5 DEF SameRow
<1>7. ASSUME NEW y \in Demote(old, selected), NEW z \in Demote(old, selected),
             y.voter = z.voter, y.version = z.version
      PROVE  y = z
  <2>1. PICK x \in old : y = IF x \in selected THEN low(x) ELSE x
    BY DEF Demote
  <2>2. PICK w \in old : z = IF w \in selected THEN low(w) ELSE w
    BY DEF Demote
  <2>3. x = w
    BY <1>1, <1>7, <2>1, <2>2 DEF SameRow
  <2>4. QED
    BY <2>1, <2>2, <2>3
<1>8. QED
  BY <1>2, <1>3, <1>4, <1>5, <1>6, <1>7 DEF RollWritten

SameBallot(a, b) == a.ballot = b.ballot /\ a.voter = b.voter

BallotWritten(old, new, n) ==
  /\ n \in new /\ n.head
  /\ \A a \in old : \E b \in new : SameBallot(a, b)
  /\ \A b \in new :
       b = n \/ \E a \in old : SameBallot(a, b) /\ (b.head => a = b)
  /\ \A b \in new : b.ballot = n.ballot /\ b.head => b = n
  /\ \A a \in old : a.ballot # n.ballot => a \in new

LEMMA BallotWriteFacts ==
  ASSUME NEW old \in SUBSET BallotRow, NEW n \in BallotRow, n.head,
         NEW selected, \A x \in selected : x.ballot = n.ballot,
         BallotFits(Demote(old, selected), n)
  PROVE  BallotWritten(old, Demote(old, selected) \cup {n}, n)
<1> DEFINE low(x) == [x EXCEPT !.head = FALSE]
<1>1. \A x \in old : SameBallot(x, low(x)) /\ SameBallot(x, x) /\ ~low(x).head
  BY DEF SameBallot, BallotRow
<1>2. \A x \in old : \E y \in Demote(old, selected) : SameBallot(x, y)
  BY <1>1 DEF Demote
<1>3. \A y \in Demote(old, selected) :
        \E x \in old : SameBallot(x, y) /\ (y.head => x = y)
  BY <1>1 DEF Demote
<1>4. \A x \in old : x.ballot # n.ballot => x \in Demote(old, selected)
  BY DEF Demote
<1>5. \A y \in Demote(old, selected) : y.ballot = n.ballot => ~y.head
  BY DEF BallotFits
<1>6. QED
  BY <1>2, <1>3, <1>4, <1>5 DEF BallotWritten

LEMMA DemoteNothing ==
  ASSUME NEW table PROVE Demote(table, {}) = table
BY DEF Demote

-----------------------------------------------------------------------------
(* CastInv is inductive: the parts that a write of a roll row may disturb. *)

\* The roll table keeps one row per key and one head per voter.
LEMMA RollTableStep ==
  ASSUME RollTableInv, NEW n, RollWritten(rolls, rolls', n)
  PROVE  RollTableInv'
<1>1. ASSUME NEW x \in rolls', NEW y \in rolls', x.voter = y.voter,
             x.version = y.version \/ (x.head /\ y.head)
      PROVE  x = y
  <2>1. CASE x.version = y.version
    BY <1>1, <2>1 DEF RollWritten
  <2>2. CASE x.head /\ y.head /\ x.voter = n.voter
    BY <1>1, <2>2 DEF RollWritten
  <2>3. CASE x.head /\ y.head /\ x.voter # n.voter
    <3>1. x \in rolls /\ y \in rolls
      BY <1>1, <2>3 DEF RollWritten
    <3>2. QED
      BY <1>1, <2>3, <3>1 DEF RollTableInv
  <2>4. QED
    BY <1>1, <2>1, <2>2, <2>3
<1>2. ASSUME NEW x \in rolls'
      PROVE  \E h \in rolls' : h.voter = x.voter /\ h.head
  <2>1. CASE x.voter = n.voter
    BY <2>1 DEF RollWritten
  <2>2. CASE x.voter # n.voter
    BY <2>2 DEF RollWritten, RollTableInv, SameRow
  <2>3. QED
    BY <2>1, <2>2
<1>3. QED
  BY <1>1, <1>2 DEF RollTableInv

\* A request not touched by the step keeps what it relies on.
LEMMA CopyStep ==
  ASSUME NEW n, RollWritten(rolls, rolls', n), NEW r \in Requests, CopyInv(r),
         reqs'[r] = reqs[r], Access = "anyone" => n.voter # reqs[r].voter
  PROVE  CopyInv(r)'
<1>1. ASSUME NEW x \in rolls, SameRow(x, reqs[r].copy)
      PROVE  \E y \in rolls' : SameRow(y, reqs[r].copy)
  BY <1>1 DEF RollWritten, SameRow
<1>2. ASSUME Access = "anyone", NEW y \in rolls'
      PROVE  y.voter # reqs[r].voter
  BY <1>2 DEF RollWritten, SameRow, CopyInv
<1>3. (\E x \in rolls : SameRow(x, reqs[r].copy)) =>
        (\E x \in rolls' : SameRow(x, reqs'[r].copy))
  BY <1>1
<1>4. QED
  BY <1>2, <1>3 DEF CopyInv

\* The stored ballots change by a cast for voter v only.
BallotsGrow(v) ==
  /\ \A a \in ballots : \E b \in ballots' : SameBallot(a, b)
  /\ \A b \in ballots' : b.voter = v \/ \E a \in ballots : SameBallot(a, b)

LEMMA SubmitStep ==
  ASSUME NEW n, RollWritten(rolls, rolls', n), BallotsGrow(n.voter),
         NEW r \in Requests, CopyInv(r), SubmitInv(r), reqs'[r] = reqs[r],
         Access = "anyone" => n.voter # reqs[r].voter, SettingsAssumption
  PROVE  SubmitInv(r)'
<1>1. IsUpdate(r)' = IsUpdate(r)
  BY DEF IsUpdate
<1>2. CASE IsUpdate(r)
  BY <1>1, <1>2 DEF SubmitInv, BallotsGrow, SameBallot
<1>3. CASE ~IsUpdate(r)
  <2>1. SUFFICES ASSUME BallotUpdates
                 PROVE \/ \A b \in ballots' : b.voter # reqs[r].voter
                       \/ \A x \in rolls' : x.head /\ x.voter = reqs[r].voter =>
                            x.version # reqs[r].copy.version
    BY <1>1, <1>3 DEF SubmitInv
  <2>2. CASE n.voter = reqs[r].voter
    <3>1. PICK x \in rolls : SameRow(x, reqs[r].copy)
      BY <2>1, SettingsAssumption DEF CopyInv
    <3>2. n.version # reqs[r].copy.version
      BY <2>2, <3>1 DEF RollWritten, SameRow, CopyInv
    <3>3. QED
      BY <2>2, <3>2 DEF RollWritten
  <2>3. CASE n.voter # reqs[r].voter
    <3>1. CASE \A b \in ballots : b.voter # reqs[r].voter
      BY <2>3, <3>1 DEF BallotsGrow, SameBallot
    <3>2. CASE \A x \in rolls : x.head /\ x.voter = reqs[r].voter =>
                 x.version # reqs[r].copy.version
      BY <2>3, <3>2 DEF RollWritten
    <3>3. QED
      BY <1>3, <2>1, <3>1, <3>2 DEF SubmitInv
  <2>4. QED
    BY <2>2, <2>3
<1>4. QED
  BY <1>2, <1>3

LEMMA EditStep ==
  ASSUME NEW n, RollWritten(rolls, rolls', n), NEW e \in Editors,
         edits'[e] = edits[e], \E x \in rolls : SameRow(x, edits[e])
  PROVE  \E x \in rolls' : SameRow(x, edits'[e])
BY DEF RollWritten, SameRow

-----------------------------------------------------------------------------
(* CastInv is inductive: the steps.                                        *)

\* A step that only moves request r preserves the invariant if what it
\* records about r is right.
LEMMA LocalStep ==
  ASSUME TypeOK, CastInv, NEW r \in Requests, NEW rec,
         reqs' = [reqs EXCEPT ![r] = rec], UNCHANGED <<rolls, ballots, edits>>,
         rec.pc = "create" => Access = "device",
         rec.pc = "ready" => ~IsUpdate(r)',
         rec.pc \in {"ready", "submit"} => CopyInv(r)',
         rec.pc = "submit" => SubmitInv(r)',
         Access = "anyone" /\ rec.pc # "done" =>
           \A q \in Requests \ {r} :
             reqs[q].pc # "done" => reqs[q].voter # rec.voter
  PROVE  CastInv'
<1>1. /\ RollTableInv' /\ BallotTableInv' /\ CrossInv' /\ HeadInv' /\ EditInv'
  BY DEF CastInv, RollTableInv, BallotTableInv, CrossInv, HeadInv, EditInv
<1>2. reqs'[r] = rec /\ \A q \in Requests \ {r} : reqs'[q] = reqs[q]
  BY DEF TypeOK
<1>3. ASSUME NEW q \in Requests
      PROVE  /\ reqs'[q].pc = "create" => Access = "device"
             /\ reqs'[q].pc = "ready" => ~IsUpdate(q)'
             /\ reqs'[q].pc \in {"ready", "submit"} => CopyInv(q)'
             /\ reqs'[q].pc = "submit" => SubmitInv(q)'
  <2>1. CASE q = r
    BY <1>2, <2>1
  <2>2. CASE q # r
    BY <1>2, <2>2 DEF CastInv, RequestInv, CopyInv, SubmitInv, IsUpdate
  <2>3. QED
    BY <2>1, <2>2
<1>4. ASSUME Access = "anyone", NEW p \in Requests, NEW q \in Requests,
             reqs'[p].pc # "done", reqs'[q].pc # "done", p # q
      PROVE  reqs'[p].voter # reqs'[q].voter
  BY <1>2, <1>4 DEF CastInv, RequestInv
<1>5. QED
  BY <1>1, <1>3, <1>4 DEF CastInv, RequestInv

LEMMA FinishStep ==
  ASSUME TypeOK, CastInv, NEW r \in Requests, NEW result, NEW v,
         reqs' = [reqs EXCEPT ![r] = Idle(result, v)],
         UNCHANGED <<rolls, ballots, edits>>
  PROVE  CastInv'
BY LocalStep, Idle(result, v).pc = "done" DEF Idle

LEMMA ReadRollInv ==
  ASSUME TypeOK, CastInv, NEW r \in Requests, NEW v \in Voters, ReadRoll(r, v)
  PROVE  CastInv'
<1>1. PICK row \in HeadRolls(v) :
        /\ row.submitted => BallotUpdates
        /\ reqs' = [reqs EXCEPT ![r] = Holding("ready", v, row)]
  BY DEF ReadRoll
<1> DEFINE rec == Holding("ready", v, row)
<1>2. /\ rec.pc = "ready" /\ rec.voter = v /\ rec.copy = row /\ rec.target = None
      /\ reqs'[r] = rec
  BY <1>1 DEF Holding, Idle, TypeOK
<1>3. row \in rolls /\ row.voter = v
  BY DEF HeadRolls
<1>4. CopyInv(r)' /\ ~IsUpdate(r)'
  BY <1>1, <1>2, <1>3 DEF CopyInv, IsUpdate, SameRow, ReadRoll
<1> HIDE DEF rec
<1>5. QED
  BY <1>1, <1>2, <1>4, LocalStep DEF ReadRoll, rec

LEMMA MissRollInv ==
  ASSUME TypeOK, CastInv, NEW r \in Requests, NEW v \in Voters, MissRoll(r, v)
  PROVE  CastInv'
<1>1. Holding("create", v, None).pc = "create"
  BY DEF Holding, Idle
<1>2. QED
  BY <1>1, LocalStep DEF MissRoll

LEMMA MakeUpRollInv ==
  ASSUME TypeOK, CastInv, NEW r \in Requests, NEW v \in Voters, NEW t \in Times,
         MakeUpRoll(r, v, t)
  PROVE  CastInv'
<1> DEFINE rec == Holding("ready", v, NewRoll(v, t))
<1>1. /\ rec.pc = "ready" /\ rec.voter = v /\ rec.copy = NewRoll(v, t)
      /\ rec.target = None /\ reqs' = [reqs EXCEPT ![r] = rec] /\ reqs'[r] = rec
  BY DEF Holding, Idle, TypeOK, MakeUpRoll
<1>2. \A x \in rolls : x.voter # v
  BY DEF MakeUpRoll, HeadRolls, CastInv, RollTableInv
<1>3. NewRoll(v, t).voter = v /\ ~NewRoll(v, t).submitted
  BY DEF NewRoll
<1>4. Access = "anyone" /\ UNCHANGED <<rolls, ballots, edits>>
  BY DEF MakeUpRoll
<1>5. \A q \in Requests : reqs[q].pc # "done" => reqs[q].voter # v
  BY DEF MakeUpRoll
<1> HIDE DEF rec
<1>6. CopyInv(r)' /\ ~IsUpdate(r)'
  BY <1>1, <1>2, <1>3, <1>4 DEF CopyInv, IsUpdate
<1>7. QED
  BY <1>1, <1>4, <1>5, <1>6, LocalStep

LEMMA ReuseBallotInv ==
  ASSUME TypeOK, CastInv, NEW r \in Requests, ReuseBallot(r)
  PROVE  CastInv'
<1>1. PICK row \in PriorBallots(reqs[r].voter) :
        reqs' = [reqs EXCEPT ![r].pc = "submit", ![r].ballot = row.ballot,
                             ![r].target = row.version]
  BY DEF ReuseBallot
<1> DEFINE rec == [reqs[r] EXCEPT !.pc = "submit", !.ballot = row.ballot,
                                  !.target = row.version]
<1>2. /\ rec.pc = "submit" /\ rec.ballot = row.ballot /\ rec.target = row.version
      /\ rec.voter = reqs[r].voter /\ rec.copy = reqs[r].copy
      /\ reqs' = [reqs EXCEPT ![r] = rec] /\ reqs'[r] = rec
  BY <1>1 DEF TypeOK, Request
<1>3. /\ row \in ballots /\ row.version # None
      /\ \E x \in rolls : x.voter = reqs[r].voter /\ x.ballot = row.ballot
  BY NoneAssumption DEF PriorBallots, TypeOK, BallotRow
<1>4. PICK x \in rolls : x.voter = reqs[r].voter /\ x.ballot = row.ballot
  BY <1>3
<1>5. row.voter = reqs[r].voter
  <2>1. PICK y \in rolls : y.voter = row.voter /\ y.ballot = row.ballot /\ y.submitted
    BY <1>3 DEF CastInv, CrossInv
  <2>2. x.submitted
    BY <1>3, <1>4, NoneAssumption DEF CastInv, CrossInv, TypeOK, BallotRow
  <2>3. QED
    BY <1>3, <1>4, <2>2 DEF CastInv, CrossInv, BallotTableInv
<1>6. CopyInv(r)
  BY DEF CastInv, RequestInv, ReuseBallot
<1>7. CopyInv(r)'
  BY <1>2, <1>6 DEF CopyInv, ReuseBallot
<1>8. SubmitInv(r)'
  BY <1>2, <1>3, <1>5 DEF SubmitInv, IsUpdate, ReuseBallot
<1>9. Access = "anyone" => \A q \in Requests \ {r} :
        reqs[q].pc # "done" => reqs[q].voter # reqs[r].voter
  BY DEF ReuseBallot, CastInv, RequestInv
<1>10. UNCHANGED <<rolls, ballots, edits>>
  BY DEF ReuseBallot
<1> HIDE DEF rec
<1>11. QED
  BY <1>2, <1>7, <1>8, <1>9, <1>10, LocalStep

LEMMA PickBallotInv ==
  ASSUME TypeOK, CastInv, NEW r \in Requests, NEW b \in BallotIds, PickBallot(r, b)
  PROVE  CastInv'
<1> DEFINE rec == [reqs[r] EXCEPT !.pc = "submit", !.ballot = b]
<1>1. /\ rec.pc = "submit" /\ rec.ballot = b /\ rec.target = reqs[r].target
      /\ rec.voter = reqs[r].voter /\ rec.copy = reqs[r].copy
      /\ reqs' = [reqs EXCEPT ![r] = rec] /\ reqs'[r] = rec
  BY DEF PickBallot, TypeOK, Request
<1>2. /\ UNCHANGED <<rolls, ballots, edits>> /\ reqs[r].pc = "ready"
      /\ BallotUpdates => PriorBallots(reqs[r].voter) = {}
  BY DEF PickBallot
<1>3. CopyInv(r) /\ ~IsUpdate(r)
  BY <1>2 DEF CastInv, RequestInv
<1>4. CopyInv(r)' /\ ~IsUpdate(r)'
  BY <1>1, <1>2, <1>3 DEF CopyInv, IsUpdate
<1>5. ASSUME BallotUpdates
      PROVE  \A a \in ballots : a.voter # reqs[r].voter
  <2> SUFFICES ASSUME NEW a \in ballots, a.voter = reqs[r].voter PROVE FALSE
    OBVIOUS
  <2>1. PICK h \in ballots : h.ballot = a.ballot /\ h.head
    BY DEF CastInv, BallotTableInv
  <2>2. PICK x \in rolls : x.voter = a.voter /\ x.ballot = a.ballot
    BY DEF CastInv, CrossInv
  <2>3. QED
    BY <1>2, <1>5, <2>1, <2>2 DEF PriorBallots
<1>6. ~reqs[r].copy.submitted
  <2> SUFFICES ASSUME reqs[r].copy.submitted PROVE FALSE
    OBVIOUS
  <2>1. BallotUpdates /\ Access = "closed"
    BY <1>3, SettingsAssumption DEF CopyInv
  <2>2. PICK x \in rolls : SameRow(x, reqs[r].copy)
    BY <1>3, <2>1 DEF CopyInv
  <2>3. QED
    BY <1>3, <1>5, <2>1, <2>2 DEF CastInv, CrossInv, CopyInv, SameRow
<1>7. SubmitInv(r)'
  BY <1>1, <1>2, <1>4, <1>5, <1>6 DEF SubmitInv
<1>8. Access = "anyone" => \A q \in Requests \ {r} :
        reqs[q].pc # "done" => reqs[q].voter # reqs[r].voter
  BY <1>2 DEF CastInv, RequestInv
<1> HIDE DEF rec
<1>9. QED
  BY <1>1, <1>2, <1>4, <1>7, <1>8, LocalStep

LEMMA StartUpdateInv ==
  ASSUME TypeOK, CastInv, NEW r \in Requests, StartUpdate(r)
  PROVE  CastInv'
<1>1. PICK row \in HeadBallots(reqs[r].ballot) :
        reqs' = [reqs EXCEPT ![r].target = row.version]
  BY DEF StartUpdate
<1> DEFINE rec == [reqs[r] EXCEPT !.target = row.version]
<1>2. /\ rec.pc = reqs[r].pc /\ rec.ballot = reqs[r].ballot
      /\ rec.target = row.version /\ rec.voter = reqs[r].voter
      /\ rec.copy = reqs[r].copy
      /\ reqs' = [reqs EXCEPT ![r] = rec] /\ reqs'[r] = rec
  BY <1>1 DEF TypeOK, Request
<1>3. row.version # None
  BY NoneAssumption DEF HeadBallots, TypeOK, BallotRow
<1>4. /\ UNCHANGED <<rolls, ballots, edits>> /\ reqs[r].pc = "submit" /\ IsUpdate(r)
  BY DEF StartUpdate
<1>5. CopyInv(r) /\ SubmitInv(r)
  BY <1>4 DEF CastInv, RequestInv
<1>6. CopyInv(r)'
  BY <1>2, <1>4, <1>5 DEF CopyInv
<1>7. SubmitInv(r)'
  BY <1>2, <1>3, <1>4, <1>5 DEF SubmitInv, IsUpdate
<1>8. Access = "anyone" => \A q \in Requests \ {r} :
        reqs[q].pc # "done" => reqs[q].voter # reqs[r].voter
  BY <1>4 DEF CastInv, RequestInv
<1> HIDE DEF rec
<1>9. QED
  BY <1>2, <1>4, <1>6, <1>7, <1>8, LocalStep

\* A request in flight of an election without authentication fields has a
\* voter id that no roll row has.
LEMMA FreshVoter ==
  ASSUME CastInv, NEW r \in Requests, reqs[r].pc \in {"ready", "submit"},
         Access = "anyone", NEW x \in rolls
  PROVE  x.voter # reqs[r].voter
BY DEF CastInv, RequestInv, CopyInv

LEMMA WriteEditInv ==
  ASSUME TypeOK, CastInv, NEW e \in Editors, NEW t \in Times, WriteEdit(e, t)
  PROVE  CastInv'
<1> DEFINE n == [edits[e] EXCEPT !.version = t, !.head = TRUE]
<1>1. /\ n \in RollRow /\ n.head /\ n.voter = edits[e].voter
      /\ n.submitted = edits[e].submitted /\ n.ballot = edits[e].ballot
  BY DEF WriteEdit, TypeOK, RollRow
<1>2. /\ RollFits(Demote(rolls, HeadRolls(n.voter)), n)
      /\ rolls' = Demote(rolls, HeadRolls(n.voter)) \cup {n}
      /\ UNCHANGED <<ballots, reqs>> /\ edits[e] # None
      /\ edits' = [edits EXCEPT ![e] = None]
  BY DEF WriteEdit
<1> HIDE DEF n
<1>3. RollWritten(rolls, rolls', n)
  BY <1>1, <1>2, RollWriteFacts DEF TypeOK, HeadRolls, CastInv, RollTableInv
<1>4. PICK x \in rolls : SameRow(x, edits[e])
  BY <1>2 DEF CastInv, EditInv
<1>5. x.voter = n.voter /\ x.submitted = n.submitted /\ x.ballot = n.ballot
  BY <1>1, <1>4 DEF SameRow
<1>6. RollTableInv'
  BY <1>3, RollTableStep DEF CastInv
<1>7. BallotTableInv'
  BY <1>2 DEF CastInv, BallotTableInv
<1>8. CrossInv'
  <2>1. \A y \in rolls' : \E z \in rolls :
          z.voter = y.voter /\ z.submitted = y.submitted /\ z.ballot = y.ballot
    BY <1>3, <1>5 DEF RollWritten, SameRow
  <2>2. \A z \in rolls : \E y \in rolls' :
          z.voter = y.voter /\ z.submitted = y.submitted /\ z.ballot = y.ballot
    BY <1>3 DEF RollWritten, SameRow
  <2>3. \A y \in rolls' :
          /\ ~y.submitted => y.ballot = None
          /\ y.submitted =>
               \E b \in ballots : b.ballot = y.ballot /\ b.voter = y.voter
    BY <2>1 DEF CastInv, CrossInv
  <2>4. \A b \in ballots : \E y \in rolls' :
          y.voter = b.voter /\ y.ballot = b.ballot /\ y.submitted
    BY <2>2 DEF CastInv, CrossInv
  <2>5. BallotUpdates =>
          \A a, b \in ballots : a.voter = b.voter => a.ballot = b.ballot
    BY DEF CastInv, CrossInv
  <2>6. QED
    BY <1>2, <2>3, <2>4, <2>5 DEF CrossInv
<1>9. HeadInv'
  BY DEF HeadInv
<1>10. BallotsGrow(n.voter)
  BY <1>2 DEF BallotsGrow, SameBallot
<1>11. ASSUME NEW r \in Requests
       PROVE  /\ reqs[r].pc \in {"ready", "submit"} => CopyInv(r)'
              /\ reqs[r].pc = "submit" => SubmitInv(r)'
  <2>1. reqs[r].pc \in {"ready", "submit"} /\ Access = "anyone" =>
          n.voter # reqs[r].voter
    BY <1>5, FreshVoter
  <2>2. reqs'[r] = reqs[r]
    BY <1>2
  <2>3. reqs[r].pc \in {"ready", "submit"} => CopyInv(r)
    BY DEF CastInv, RequestInv
  <2>4. reqs[r].pc = "submit" => SubmitInv(r)
    BY DEF CastInv, RequestInv
  <2>5. QED
    BY <1>3, <1>10, <2>1, <2>2, <2>3, <2>4, CopyStep, SubmitStep, SettingsAssumption
<1>12. RequestInv'
  BY <1>2, <1>11 DEF CastInv, RequestInv, IsUpdate
<1>13. EditInv'
  <2>1. ASSUME NEW f \in Editors, edits'[f] # None
        PROVE  \E y \in rolls' : SameRow(y, edits'[f])
    <3>1. f # e /\ edits'[f] = edits[f]
      BY <1>2, <2>1 DEF TypeOK
    <3>2. \E y \in rolls : SameRow(y, edits[f])
      BY <2>1, <3>1 DEF CastInv, EditInv
    <3>3. QED
      BY <1>3, <3>1, <3>2, EditStep
  <2>2. QED
    BY <2>1 DEF EditInv
<1>14. QED
  BY <1>6, <1>7, <1>8, <1>9, <1>12, <1>13 DEF CastInv

\* What CommitVote relies on when it stores ballot id b for voter v: every
\* stored row with that id is v's, and with ballot updates v has no other.
LEMMA CommitOwner ==
  ASSUME TypeOK, CastInv, NEW r \in Requests, NEW t \in Times, CommitVote(r, t),
         NEW a \in ballots
  PROVE  /\ a.ballot = reqs[r].ballot => a.voter = reqs[r].voter
         /\ BallotUpdates /\ a.voter = reqs[r].voter => a.ballot = reqs[r].ballot
<1>1. CopyInv(r) /\ SubmitInv(r)
  BY DEF CommitVote, CastInv, RequestInv
<1>2. CASE IsUpdate(r)
  BY <1>1, <1>2 DEF SubmitInv, CastInv, BallotTableInv, CrossInv
<1>3. CASE ~IsUpdate(r)
  <2>1. BallotFits(ballots, BallotToInsert(r, t))
    BY <1>3 DEF CommitVote, BallotsAfter
  <2>2. a.ballot # reqs[r].ballot
    <3> SUFFICES ASSUME a.ballot = reqs[r].ballot PROVE FALSE
      OBVIOUS
    <3>1. PICK h \in ballots : h.ballot = a.ballot /\ h.head
      BY DEF CastInv, BallotTableInv
    <3>2. QED
      BY <2>1, <3>1 DEF BallotFits, BallotToInsert
  <2>3. BallotUpdates => a.voter # reqs[r].voter
    <3> SUFFICES ASSUME BallotUpdates, a.voter = reqs[r].voter PROVE FALSE
      OBVIOUS
    <3>1. Unchanged(r) = {}
      BY <1>1, <1>3 DEF SubmitInv, Unchanged, HeadRolls
    <3>2. PICK x \in rolls : x.voter = reqs[r].voter
      BY <1>1, SettingsAssumption DEF CopyInv, SameRow
    <3>3. HeadRolls(reqs[r].voter) # {}
      BY <3>2 DEF HeadRolls, CastInv, RollTableInv
    <3>4. QED
      BY <3>1, <3>3 DEF CommitVote, RollFree
  <2>4. QED
    BY <2>2, <2>3
<1>4. QED
  BY <1>2, <1>3

\* The row the OCC check accepts still says what the request read.
LEMMA CommitUnvoted ==
  ASSUME TypeOK, CastInv, NEW r \in Requests, NEW t \in Times, CommitVote(r, t),
         ~IsUpdate(r), NEW x \in HeadRolls(reqs[r].voter)
  PROVE  ~x.submitted
<1>1. CopyInv(r) /\ SubmitInv(r)
  BY DEF CommitVote, CastInv, RequestInv
<1>2. x \in rolls /\ x.head /\ x.voter = reqs[r].voter
  BY DEF HeadRolls
<1>3. Access # "anyone"
  BY <1>1, <1>2 DEF CopyInv
<1>4. PICK u \in rolls : u.head /\ u.voter = reqs[r].voter
                         /\ u.version = reqs[r].copy.version
  BY DEF CommitVote, RollFree, Unchanged, HeadRolls
<1>5. PICK y \in rolls : SameRow(y, reqs[r].copy)
  BY <1>1, <1>3 DEF CopyInv
<1>6. u = x /\ y = u
  BY <1>1, <1>2, <1>4, <1>5 DEF CastInv, RollTableInv, SameRow, CopyInv
<1>7. QED
  BY <1>1, <1>5, <1>6 DEF SubmitInv, SameRow

\* The two writes of the transaction.
LEMMA CommitWrites ==
  ASSUME TypeOK, CastInv, NEW r \in Requests, NEW t \in Times, CommitVote(r, t)
  PROVE  /\ BallotWritten(ballots, ballots', BallotToInsert(r, t))
         /\ RollWritten(rolls, rolls', RollToInsert(r, t))
         /\ BallotToInsert(r, t).ballot = reqs[r].ballot
         /\ BallotToInsert(r, t).voter = reqs[r].voter
         /\ RollToInsert(r, t).voter = reqs[r].voter
         /\ RollToInsert(r, t).ballot = reqs[r].ballot
         /\ RollToInsert(r, t).submitted
<1> DEFINE m == BallotToInsert(r, t)
           n == RollToInsert(r, t)
<1>1. /\ reqs[r].copy \in RollRow /\ reqs[r].ballot \in BallotIds
      /\ reqs[r].voter \in Voters /\ reqs[r].pc = "submit"
  BY DEF CommitVote, TypeOK
<1>2. reqs[r].copy.voter = reqs[r].voter
  BY <1>1 DEF CastInv, RequestInv, CopyInv
<1>3. reqs[r].copy.casts + 1 \in Nat
  BY <1>1 DEF RollRow
<1>4. /\ n \in RollRow /\ n.head /\ n.voter = reqs[r].voter
      /\ n.ballot = reqs[r].ballot /\ n.submitted
  BY <1>1, <1>2, <1>3 DEF RollToInsert, RollRow
<1>5. /\ m \in BallotRow /\ m.head /\ m.voter = reqs[r].voter
      /\ m.ballot = reqs[r].ballot
  BY <1>1 DEF BallotToInsert, BallotRow
<1> HIDE DEF m, n
<1>6. /\ rolls \in SUBSET RollRow /\ ballots \in SUBSET BallotRow
      /\ \A x \in Unchanged(r) : x.voter = n.voter
      /\ \A x \in HeadBallots(reqs[r].ballot) : x.ballot = m.ballot
  BY <1>4, <1>5 DEF TypeOK, Unchanged, HeadRolls, HeadBallots
<1>7. RollWritten(rolls, rolls', n)
  <2>1. /\ RollFits(Demote(rolls, Unchanged(r)), n)
        /\ rolls' = Demote(rolls, Unchanged(r)) \cup {n}
    BY DEF CommitVote, n
  <2>2. \A x, y \in rolls : x.voter = y.voter /\ x.version = y.version => x = y
    BY DEF CastInv, RollTableInv
  <2>3. QED
    BY <1>4, <1>6, <2>1, <2>2, RollWriteFacts
<1>8. BallotWritten(ballots, ballots', m)
  <2>1. /\ BallotFits(BallotsAfter(r), m)
        /\ ballots' = BallotsAfter(r) \cup {m}
    BY DEF CommitVote, m
  <2>2. CASE IsUpdate(r)
    <3>1. BallotsAfter(r) = Demote(ballots, HeadBallots(reqs[r].ballot))
      BY <2>2 DEF BallotsAfter
    <3>2. QED
      BY <1>5, <1>6, <2>1, <3>1, BallotWriteFacts
  <2>3. CASE ~IsUpdate(r)
    <3>1. BallotsAfter(r) = Demote(ballots, {})
      BY <2>3, DemoteNothing DEF BallotsAfter
    <3>2. \A x \in {} : x.ballot = m.ballot
      OBVIOUS
    <3>3. QED
      BY <1>5, <1>6, <2>1, <3>1, <3>2, BallotWriteFacts
  <2>4. QED
    BY <2>2, <2>3
<1>9. QED
  BY <1>4, <1>5, <1>7, <1>8 DEF m, n

LEMMA CommitVoteInv ==
  ASSUME TypeOK, CastInv, NEW r \in Requests, NEW t \in Times, CommitVote(r, t)
  PROVE  CastInv'
<1> DEFINE m == BallotToInsert(r, t)
           n == RollToInsert(r, t)
           v == reqs[r].voter
<1>1. /\ BallotWritten(ballots, ballots', m) /\ RollWritten(rolls, rolls', n)
      /\ m.ballot = reqs[r].ballot /\ m.voter = v
      /\ n.voter = v /\ n.ballot = m.ballot /\ n.submitted
  BY CommitWrites
<1>2. \A a \in ballots : /\ a.ballot = m.ballot => a.voter = v
                         /\ BallotUpdates /\ a.voter = v => a.ballot = m.ballot
  BY <1>1, CommitOwner
<1>3. ~IsUpdate(r) => \A x \in HeadRolls(v) : ~x.submitted
  BY CommitUnvoted
<1>4. SubmitInv(r) /\ CopyInv(r)
  BY DEF CommitVote, CastInv, RequestInv
<1>5. /\ UNCHANGED edits /\ reqs[r].pc = "submit"
      /\ reqs' = [reqs EXCEPT ![r] = Idle("accepted", v)]
  BY DEF CommitVote, Finish
<1> HIDE DEF m, n, v
<1>6. RollTableInv'
  BY <1>1, RollTableStep DEF CastInv
<1>7. BallotTableInv'
  <2>1. ASSUME NEW a \in ballots', NEW b \in ballots', a.ballot = b.ballot
        PROVE  (a.head /\ b.head => a = b) /\ a.voter = b.voter
    <3>1. CASE a.ballot = m.ballot
      <4>1. \A c \in ballots' : c.ballot = m.ballot => c.voter = v
        BY <1>1, <1>2 DEF BallotWritten, SameBallot
      <4>2. \A c \in ballots' : c.ballot = m.ballot /\ c.head => c = m
        BY <1>1 DEF BallotWritten
      <4>3. QED
        BY <2>1, <3>1, <4>1, <4>2
    <3>2. CASE a.ballot # m.ballot
      BY <1>1, <2>1, <3>2 DEF BallotWritten, SameBallot, CastInv, BallotTableInv
    <3>3. QED
      BY <3>1, <3>2
  <2>2. ASSUME NEW a \in ballots'
        PROVE  \E h \in ballots' : h.ballot = a.ballot /\ h.head
    <3>1. CASE a.ballot = m.ballot
      BY <1>1, <3>1 DEF BallotWritten
    <3>2. CASE a.ballot # m.ballot
      BY <1>1, <3>2 DEF BallotWritten, SameBallot, CastInv, BallotTableInv
    <3>3. QED
      BY <3>1, <3>2
  <2>3. QED
    BY <2>1, <2>2 DEF BallotTableInv
<1>8. CrossInv'
  <2>1. ASSUME NEW x \in rolls'
        PROVE  /\ ~x.submitted => x.ballot = None
               /\ x.submitted =>
                    \E b \in ballots' : b.ballot = x.ballot /\ b.voter = x.voter
    <3>1. CASE x = n
      BY <1>1, <3>1 DEF BallotWritten
    <3>2. CASE x # n
      <4>1. PICK y \in rolls : SameRow(y, x)
        BY <1>1, <3>2 DEF RollWritten
      <4>2. QED
        BY <1>1, <4>1 DEF SameRow, CastInv, CrossInv, BallotWritten, SameBallot
    <3>3. QED
      BY <3>1, <3>2
  <2>2. ASSUME NEW b \in ballots'
        PROVE  \E x \in rolls' :
                 x.voter = b.voter /\ x.ballot = b.ballot /\ x.submitted
    <3>1. CASE b = m
      BY <1>1, <3>1 DEF RollWritten
    <3>2. CASE b # m
      <4>1. PICK a \in ballots : SameBallot(a, b)
        BY <1>1, <3>2 DEF BallotWritten
      <4>2. PICK x \in rolls : x.voter = a.voter /\ x.ballot = a.ballot /\ x.submitted
        BY DEF CastInv, CrossInv
      <4>3. QED
        BY <1>1, <4>1, <4>2 DEF RollWritten, SameRow, SameBallot
    <3>3. QED
      BY <3>1, <3>2
  <2>3. ASSUME BallotUpdates, NEW a \in ballots', NEW b \in ballots',
               a.voter = b.voter
        PROVE  a.ballot = b.ballot
    <3>1. /\ a = m \/ \E c \in ballots : SameBallot(c, a)
          /\ b = m \/ \E c \in ballots : SameBallot(c, b)
      BY <1>1 DEF BallotWritten
    <3>2. \A c, d \in ballots : c.voter = d.voter => c.ballot = d.ballot
      BY <2>3 DEF CastInv, CrossInv
    <3>3. CASE a = m \/ b = m
      BY <1>1, <1>2, <2>3, <3>1, <3>3 DEF SameBallot
    <3>4. CASE a # m /\ b # m
      BY <2>3, <3>1, <3>2, <3>4 DEF SameBallot
    <3>5. QED
      BY <3>3, <3>4
  <2>4. QED
    BY <2>1, <2>2, <2>3 DEF CrossInv
<1>9. HeadInv'
  <2> SUFFICES ASSUME Editors = {}, NEW b \in ballots', b.head
               PROVE  \E x \in rolls' : /\ x.head /\ x.voter = b.voter
                                       /\ x.submitted /\ x.ballot = b.ballot
    BY DEF HeadInv
  <2>1. CASE b = m
    BY <1>1, <2>1 DEF RollWritten
  <2>2. CASE b # m
    <3>1. b \in ballots /\ b.ballot # m.ballot
      BY <1>1, <2>2 DEF BallotWritten
    <3>2. PICK x \in rolls : /\ x.head /\ x.voter = b.voter
                             /\ x.submitted /\ x.ballot = b.ballot
      BY <3>1 DEF CastInv, HeadInv
    <3>3. x.voter # v
      <4> SUFFICES ASSUME x.voter = v PROVE FALSE
        OBVIOUS
      <4>1. IsUpdate(r)
        BY <1>3, <3>2 DEF HeadRolls
      <4>2. QED
        BY <1>2, <1>4, <3>1, <3>2, <4>1 DEF SubmitInv
    <3>4. QED
      BY <1>1, <3>2, <3>3 DEF RollWritten
  <2>3. QED
    BY <2>1, <2>2
<1>10. BallotsGrow(n.voter)
  BY <1>1 DEF BallotsGrow, BallotWritten
<1>11. /\ reqs'[r].pc = "done"
       /\ \A q \in Requests \ {r} : reqs'[q] = reqs[q]
  BY <1>5 DEF TypeOK, Idle
<1>12. ASSUME NEW q \in Requests \ {r}
       PROVE  /\ reqs[q].pc \in {"ready", "submit"} => CopyInv(q)'
              /\ reqs[q].pc = "submit" => SubmitInv(q)'
  <2>1. reqs[q].pc \in {"ready", "submit"} /\ Access = "anyone" =>
          n.voter # reqs[q].voter
    BY <1>1, <1>5 DEF CastInv, RequestInv, v
  <2>2. /\ reqs[q].pc \in {"ready", "submit"} => CopyInv(q)
        /\ reqs[q].pc = "submit" => SubmitInv(q)
    BY DEF CastInv, RequestInv
  <2>3. QED
    BY <1>1, <1>10, <1>11, <2>1, <2>2, CopyStep, SubmitStep, SettingsAssumption
<1>13. RequestInv'
  BY <1>11, <1>12 DEF CastInv, RequestInv, IsUpdate
<1>14. EditInv'
  BY <1>1, <1>5, EditStep DEF CastInv, EditInv
<1>15. QED
  BY <1>6, <1>7, <1>8, <1>9, <1>13, <1>14 DEF CastInv

LEMMA CreateRollInv ==
  ASSUME TypeOK, CastInv, NEW r \in Requests, NEW t \in Times, CreateRoll(r, t)
  PROVE  CastInv'
<1> DEFINE v == reqs[r].voter
           n == NewRoll(v, t)
<1>1. /\ n.head /\ n.voter = v /\ ~n.submitted /\ n.ballot = None
  BY DEF NewRoll
<1>2. v \in Voters /\ n \in RollRow /\ Access = "device"
  BY NewRollType DEF CreateRoll, TypeOK, CastInv, RequestInv
<1>3. /\ RollFits(rolls, n) /\ rolls' = rolls \cup {n}
      /\ UNCHANGED <<ballots, edits>>
      /\ reqs' = [reqs EXCEPT ![r] = Holding("ready", v, n)]
  BY DEF CreateRoll, NewRoll
<1> HIDE DEF n, v
<1>4. RollWritten(rolls, rolls', n)
  <2>1. \A x, y \in rolls : x.voter = y.voter /\ x.version = y.version => x = y
    BY DEF CastInv, RollTableInv
  <2>2. \A x \in {} : x.voter = n.voter
    OBVIOUS
  <2>3. rolls \in SUBSET RollRow
    BY DEF TypeOK
  <2>4. QED
    BY <1>1, <1>2, <1>3, <2>1, <2>2, <2>3, DemoteNothing, RollWriteFacts
<1>5. \A x \in rolls : x \in rolls' /\ x.voter # v
  <2>1. \A x \in rolls : x.head => x.voter # v
    BY <1>1, <1>3 DEF RollFits
  <2>2. QED
    BY <1>3, <2>1 DEF CastInv, RollTableInv
<1>6. RollTableInv'
  BY <1>4, RollTableStep DEF CastInv
<1>7. BallotTableInv'
  BY <1>3 DEF CastInv, BallotTableInv
<1>8. CrossInv'
  <2>1. \A x \in rolls' :
          /\ ~x.submitted => x.ballot = None
          /\ x.submitted =>
               \E b \in ballots : b.ballot = x.ballot /\ b.voter = x.voter
    BY <1>1, <1>3 DEF CastInv, CrossInv
  <2>2. \A b \in ballots :
          \E x \in rolls' : x.voter = b.voter /\ x.ballot = b.ballot /\ x.submitted
    BY <1>5 DEF CastInv, CrossInv
  <2>3. ~BallotUpdates
    BY <1>2, SettingsAssumption
  <2>4. QED
    BY <1>3, <2>1, <2>2, <2>3 DEF CrossInv
<1>9. HeadInv'
  BY <1>3, <1>5 DEF CastInv, HeadInv
<1>10. BallotsGrow(n.voter)
  BY <1>3 DEF BallotsGrow, SameBallot
<1>11. /\ reqs'[r].pc = "ready" /\ reqs'[r].voter = v /\ reqs'[r].copy = n
       /\ reqs'[r].target = None
       /\ \A q \in Requests \ {r} : reqs'[q] = reqs[q]
  BY <1>3 DEF TypeOK, Holding, Idle
<1>12. CopyInv(r)' /\ ~IsUpdate(r)'
  BY <1>1, <1>2, <1>4, <1>11 DEF CopyInv, IsUpdate, RollWritten, SameRow
<1>13. ASSUME NEW q \in Requests \ {r}
       PROVE  /\ reqs[q].pc \in {"ready", "submit"} => CopyInv(q)'
              /\ reqs[q].pc = "submit" => SubmitInv(q)'
  <2>1. /\ reqs[q].pc \in {"ready", "submit"} => CopyInv(q)
        /\ reqs[q].pc = "submit" => SubmitInv(q)
    BY DEF CastInv, RequestInv
  <2>2. Access # "anyone"
    BY <1>2
  <2>3. QED
    BY <1>4, <1>10, <1>11, <2>1, <2>2, CopyStep, SubmitStep, SettingsAssumption
<1>14. RequestInv'
  BY <1>2, <1>11, <1>12, <1>13 DEF CastInv, RequestInv, IsUpdate
<1>15. EditInv'
  BY <1>3, <1>5 DEF CastInv, EditInv
<1>16. QED
  BY <1>6, <1>7, <1>8, <1>9, <1>14, <1>15 DEF CastInv

LEMMA ReadForEditInv ==
  ASSUME TypeOK, CastInv, NEW e \in Editors, NEW v \in Voters,
         NEW kind \in EditKinds, ReadForEdit(e, v, kind)
  PROVE  CastInv'
<1>1. PICK row \in rolls :
        edits' = [edits EXCEPT ![e] =
          [row EXCEPT !.state = NewState(kind, @), !.emailed = @ \/ kind = "email"]]
  BY DEF ReadForEdit, HeadRolls
<1>2. SameRow(row, [row EXCEPT !.state = NewState(kind, @),
                               !.emailed = @ \/ kind = "email"])
  BY DEF SameRow, TypeOK, RollRow
<1>3. UNCHANGED <<rolls, ballots, reqs>>
  BY DEF ReadForEdit
<1>4. EditInv'
  BY <1>1, <1>2, <1>3 DEF CastInv, EditInv, TypeOK
<1>5. QED
  BY <1>3, <1>4 DEF CastInv, RollTableInv, BallotTableInv, CrossInv, HeadInv,
     RequestInv, CopyInv, SubmitInv, IsUpdate

LEMMA FailEditInv ==
  ASSUME TypeOK, CastInv, NEW e \in Editors, FailEdit(e)
  PROVE  CastInv'
<1>1. UNCHANGED <<rolls, ballots, reqs>> /\ edits' = [edits EXCEPT ![e] = None]
  BY DEF FailEdit
<1>2. EditInv'
  BY <1>1 DEF CastInv, EditInv, TypeOK
<1>3. QED
  BY <1>1, <1>2 DEF CastInv, RollTableInv, BallotTableInv, CrossInv, HeadInv,
     RequestInv, CopyInv, SubmitInv, IsUpdate

\* The invariant that carries the theorems below.
THEOREM CastInvariant == Spec => []CastInv
<1>1. Init => CastInv
  <2> SUFFICES ASSUME Init PROVE CastInv
    OBVIOUS
  <2>1. PICK invited \in SUBSET Voters, t \in Times :
          rolls = {NewRoll(v, t) : v \in invited}
    BY DEF Init
  <2>2. \A x \in rolls : \E v \in invited : x = NewRoll(v, t) /\ x.voter = v
    BY <2>1 DEF NewRoll
  <2>3. \A x \in rolls : x.head /\ ~x.submitted /\ x.ballot = None
    BY <2>1 DEF NewRoll
  <2>4. RollTableInv
    BY <2>2, <2>3 DEF RollTableInv
  <2>5. BallotTableInv /\ CrossInv /\ HeadInv /\ EditInv
    BY <2>3 DEF Init, BallotTableInv, CrossInv, HeadInv, EditInv
  <2>6. \A r \in Requests : reqs[r].pc = "done"
    BY DEF Init, Idle
  <2>7. RequestInv
    BY <2>6 DEF RequestInv
  <2>8. QED
    BY <2>4, <2>5, <2>7 DEF CastInv
<1>2. TypeOK /\ CastInv /\ [Next]_vars => CastInv'
  <2> SUFFICES ASSUME TypeOK, CastInv, [Next]_vars PROVE CastInv'
    OBVIOUS
  <2>1. ASSUME NEW r \in Requests, Cast(r) PROVE CastInv'
    <3>1. ASSUME NEW v \in Voters, ReadRoll(r, v) PROVE CastInv'
      BY <3>1, ReadRollInv
    <3>2. ASSUME NEW v \in Voters, RefuseVoted(r, v) PROVE CastInv'
      BY <3>2, FinishStep DEF RefuseVoted
    <3>3. ASSUME NEW v \in Voters, RefuseUnknown(r, v) PROVE CastInv'
      BY <3>3, FinishStep DEF RefuseUnknown
    <3>4. ASSUME NEW v \in Voters, MissRoll(r, v) PROVE CastInv'
      BY <3>4, MissRollInv
    <3>5. ASSUME NEW v \in Voters, NEW t \in Times, MakeUpRoll(r, v, t) PROVE CastInv'
      BY <3>5, MakeUpRollInv
    <3>6. ASSUME ReuseBallot(r) PROVE CastInv'
      BY <3>6, ReuseBallotInv
    <3>7. ASSUME NEW b \in BallotIds, PickBallot(r, b) PROVE CastInv'
      BY <3>7, PickBallotInv
    <3>8. ASSUME StartUpdate(r) PROVE CastInv'
      BY <3>8, StartUpdateInv
    <3>9. ASSUME RejectBallotUpdate(r) PROVE CastInv'
      BY <3>9, FinishStep DEF RejectBallotUpdate, Finish
    <3>10. ASSUME FailRequest(r) PROVE CastInv'
      BY <3>10, FinishStep DEF FailRequest, Finish
    <3>11. ASSUME NEW t \in Times, CreateRoll(r, t) PROVE CastInv'
      BY <3>11, CreateRollInv
    <3>12. ASSUME NEW t \in Times, CommitVote(r, t) PROVE CastInv'
      BY <3>12, CommitVoteInv
    <3>13. ASSUME NEW t \in Times, RejectStaleRoll(r, t) PROVE CastInv'
      BY <3>13, FinishStep DEF RejectStaleRoll, Finish
    <3>14. QED
      BY <2>1, <3>1, <3>2, <3>3, <3>4, <3>5, <3>6, <3>7, <3>8, <3>9, <3>10,
         <3>11, <3>12, <3>13 DEF Cast, Lookup
  <2>2. ASSUME NEW e \in Editors, Edit(e) PROVE CastInv'
    BY <2>2, ReadForEditInv, WriteEditInv, FailEditInv DEF Edit
  <2>3. CASE UNCHANGED vars
    BY <2>3 DEF vars, CastInv, RollTableInv, BallotTableInv, CrossInv, HeadInv,
       RequestInv, CopyInv, SubmitInv, IsUpdate, EditInv
  <2>4. QED
    BY <2>1, <2>2, <2>3 DEF Next
<1>3. QED
  BY <1>1, <1>2, TypeCorrect, PTL DEF Spec

\* Only a commit changes the stored ballots.
LEMMA OnlyCommitStores ==
  ASSUME Next, ballots' # ballots
  PROVE  \E r \in Requests, t \in Times : CommitVote(r, t)
BY DEF Next, Cast, Lookup, Edit, ReadRoll, RefuseVoted,
   RefuseUnknown, MissRoll, CreateRoll, MakeUpRoll, ReuseBallot, PickBallot,
   StartUpdate, RejectBallotUpdate, RejectStaleRoll, FailRequest,
   ReadForEdit, WriteEdit, FailEdit

-----------------------------------------------------------------------------
(* Theorems from CastInv alone.                                            *)

\* Whatever the roll edits do, a voter has at most one counted ballot when
\* ballot updates are on; without them it takes the absence of roll edits,
\* and the run on stale edits shows that it does.
THEOREM OneVote ==
  ASSUME Editors = {} \/ BallotUpdates
  PROVE  Spec => []OneVotePerVoter
<1>1. CastInv => OneVotePerVoter
  <2> SUFFICES ASSUME CastInv, NEW a \in ballots, NEW b \in ballots,
                      a.head, b.head, a.voter = b.voter
               PROVE  a = b
    BY DEF OneVotePerVoter
  <2>1. CASE BallotUpdates
    BY <2>1 DEF CastInv, CrossInv, BallotTableInv
  <2>2. CASE Editors = {}
    BY <2>2 DEF CastInv, HeadInv, RollTableInv, BallotTableInv
  <2>3. QED
    BY <2>1, <2>2
<1>2. QED
  BY <1>1, CastInvariant, PTL

\* Every counted ballot can be traced to its voter's roll.
THEOREM Traceable == Spec => []VotesTraceable
<1>1. CastInv => VotesTraceable
  BY DEF CastInv, CrossInv, VotesTraceable
<1>2. QED
  BY <1>1, CastInvariant, PTL

\* The check "has this voter voted", made before several awaits, holds at the
\* commit: with any roll edits, any clocks, any access mode.
THEOREM SubmittedRollGetsNoVote == Spec => NoVoteOnSubmittedRoll
<1>1. TypeOK /\ CastInv /\ [Next]_vars =>
        [\A v \in Voters :
           (\A row \in HeadRolls(v) : ~row.submitted)
             \/ CountedIds(v)' \subseteq CountedIds(v)]_vars
  <2> SUFFICES ASSUME TypeOK, CastInv, Next, NEW v \in Voters,
                      NEW x \in HeadRolls(v), x.submitted
               PROVE  CountedIds(v)' \subseteq CountedIds(v)
    OBVIOUS
  <2>1. CASE UNCHANGED ballots
    BY <2>1 DEF CountedIds, VotesOf
  <2>2. ASSUME NEW r \in Requests, NEW t \in Times, CommitVote(r, t)
        PROVE  CountedIds(v)' \subseteq CountedIds(v)
    <3>1. /\ BallotWritten(ballots, ballots', BallotToInsert(r, t))
          /\ BallotToInsert(r, t).ballot = reqs[r].ballot
          /\ BallotToInsert(r, t).voter = reqs[r].voter
      BY <2>2, CommitWrites
    <3> DEFINE m == BallotToInsert(r, t)
    <3> HIDE DEF m
    <3>2. SUFFICES ASSUME NEW b \in ballots', b.head, b.voter = v
                   PROVE  \E a \in ballots : a.head /\ a.voter = v /\ a.ballot = b.ballot
      BY DEF CountedIds, VotesOf
    <3>3. CASE b # m
      BY <3>1, <3>2, <3>3 DEF BallotWritten, m
    <3>4. CASE b = m
      <4>1. v = reqs[r].voter
        BY <3>1, <3>2, <3>4 DEF m
      <4>2. IsUpdate(r)
        BY <2>2, <4>1, CommitUnvoted
      <4>3. PICK a \in ballots : a.ballot = reqs[r].ballot /\ a.voter = v
        BY <2>2, <4>1, <4>2 DEF CommitVote, CastInv, RequestInv, SubmitInv
      <4>4. PICK h \in ballots : h.ballot = a.ballot /\ h.head
        BY DEF CastInv, BallotTableInv
      <4>5. QED
        BY <3>1, <3>4, <4>3, <4>4 DEF m, CastInv, BallotTableInv
    <3>5. QED
      BY <3>3, <3>4
  <2>3. QED
    BY <2>1, <2>2, OnlyCommitStores
<1>2. QED
  BY <1>1, TypeCorrect, CastInvariant, PTL DEF Spec, NoVoteOnSubmittedRoll

-----------------------------------------------------------------------------
(* What the tables record: RecordInv.                                      *)

\* The fields a change of head leaves alone and an edit does not.
SameEntry(x, y) ==
  /\ x.voter = y.voter /\ x.version = y.version
  /\ x.state = y.state /\ x.emailed = y.emailed /\ x.casts = y.casts

\* A step changes the roll at most by demoting heads and adding n, whose
\* version no row of the voter has.
RollKept(n) ==
  \A y \in rolls' :
    \/ y = n /\ \A x \in rolls : x.voter = n.voter => x.version # n.version
    \/ \E x \in rolls : SameEntry(x, y) /\ (y.head => x = y)

LEMMA RollWriteKeeps ==
  ASSUME rolls \subseteq RollRow, NEW n \in RollRow, NEW selected,
         RollFits(Demote(rolls, selected), n), rolls' = Demote(rolls, selected) \cup {n}
  PROVE  RollKept(n)
<1> DEFINE low(x) == [x EXCEPT !.head = FALSE]
<1>1. \A x \in rolls : SameEntry(x, low(x)) /\ SameEntry(x, x) /\ ~low(x).head
  BY DEF SameEntry, RollRow
<1>2. \A y \in Demote(rolls, selected) :
        \E x \in rolls : SameEntry(x, y) /\ (y.head => x = y)
  BY <1>1 DEF Demote
<1>3. \A x \in rolls : \E y \in Demote(rolls, selected) : SameEntry(x, y)
  BY <1>1 DEF Demote
<1>4. \A x \in rolls : x.voter = n.voter => x.version # n.version
  BY <1>3 DEF SameEntry, RollFits
<1>5. QED
  BY <1>2, <1>4 DEF RollKept

\* What a request relies on survives a write to the roll.
LEMMA CopyTrueStep ==
  ASSUME NEW n, RollKept(n), NEW r \in Requests, CopyInv(r), CopyTrue(r),
         reqs'[r] = reqs[r], Access = "anyone" => n.voter # reqs[r].voter
  PROVE  CopyTrue(r)'
<1>1. SUFFICES ASSUME NEW y \in rolls', y.voter = reqs[r].voter,
                      y.version = reqs[r].copy.version
               PROVE  /\ y.state = reqs[r].copy.state /\ y.emailed = reqs[r].copy.emailed
                      /\ y.casts = reqs[r].copy.casts
  BY DEF CopyTrue
<1>2. PICK x \in rolls : SameEntry(x, y)
  <2>1. CASE y = n /\ \A x \in rolls : x.voter = n.voter => x.version # n.version
    <3>1. Access # "anyone"
      BY <1>1, <2>1
    <3>2. PICK x \in rolls : SameRow(x, reqs[r].copy)
      BY <3>1 DEF CopyInv
    <3>3. QED
      BY <1>1, <2>1, <3>2 DEF SameRow, CopyInv
  <2>2. QED
    BY <2>1 DEF RollKept
<1>3. QED
  BY <1>1, <1>2 DEF CopyTrue, SameEntry

\* A step that only moves request r.
LEMMA RecordLocal ==
  ASSUME TypeOK, RecordInv, NEW r \in Requests, NEW rec,
         reqs' = [reqs EXCEPT ![r] = rec], UNCHANGED <<rolls, ballots>>,
         rec.pc \in {"ready", "submit"} => CopyTrue(r)'
  PROVE  RecordInv'
<1>1. reqs'[r] = rec /\ \A q \in Requests \ {r} : reqs'[q] = reqs[q]
  BY DEF TypeOK
<1>2. ASSUME NEW q \in Requests, reqs'[q].pc \in {"ready", "submit"}
      PROVE  CopyTrue(q)'
  <2>1. CASE q = r
    BY <1>1, <1>2, <2>1
  <2>2. CASE q # r
    BY <1>1, <1>2, <2>2 DEF RecordInv, CopyTrue
  <2>3. QED
    BY <2>1, <2>2
<1>3. \A x \in rolls : (Cardinality(BallotsOf(x.voter)))' = Cardinality(BallotsOf(x.voter))
  BY DEF BallotsOf
<1>4. QED
  BY <1>2, <1>3 DEF RecordInv

LEMMA RecordIdle ==
  ASSUME TypeOK, RecordInv, NEW r \in Requests, NEW result, NEW v,
         reqs' = [reqs EXCEPT ![r] = Idle(result, v)], UNCHANGED <<rolls, ballots>>
  PROVE  RecordInv'
BY RecordLocal, Idle(result, v).pc = "done" DEF Idle

LEMMA ReadRollRecord ==
  ASSUME TypeOK, CastInv, RecordInv, NEW r \in Requests, NEW v \in Voters, ReadRoll(r, v)
  PROVE  RecordInv'
<1>1. PICK row \in HeadRolls(v) : reqs' = [reqs EXCEPT ![r] = Holding("ready", v, row)]
  BY DEF ReadRoll
<1> DEFINE rec == Holding("ready", v, row)
<1>2. rec.pc = "ready" /\ rec.voter = v /\ rec.copy = row /\ reqs'[r] = rec
  BY <1>1 DEF Holding, Idle, TypeOK
<1>3. row \in rolls /\ row.voter = v /\ UNCHANGED <<rolls, ballots>> /\ Access # "anyone"
  BY DEF HeadRolls, ReadRoll
<1>4. CopyTrue(r)'
  BY <1>2, <1>3 DEF CopyTrue, CastInv, RollTableInv
<1>5. QED
  BY <1>1, <1>3, <1>4, RecordLocal

LEMMA MakeUpRollRecord ==
  ASSUME TypeOK, CastInv, RecordInv, NEW r \in Requests, NEW v \in Voters, NEW t \in Times,
         MakeUpRoll(r, v, t)
  PROVE  RecordInv'
<1> DEFINE rec == Holding("ready", v, NewRoll(v, t))
<1>1. /\ rec.pc = "ready" /\ rec.voter = v /\ rec.copy = NewRoll(v, t)
      /\ reqs' = [reqs EXCEPT ![r] = rec] /\ reqs'[r] = rec
      /\ UNCHANGED <<rolls, ballots>>
  BY DEF Holding, Idle, TypeOK, MakeUpRoll
<1>2. \A x \in rolls : x.voter # v
  BY DEF MakeUpRoll, HeadRolls, CastInv, RollTableInv
<1>3. CopyTrue(r)'
  BY <1>1, <1>2 DEF CopyTrue, NewRoll
<1>4. QED
  BY <1>1, <1>3, RecordLocal

\* A request that goes on with the copy it has.
LEMMA SubmitRecord ==
  ASSUME TypeOK, RecordInv, NEW r \in Requests, NEW rec \in Request,
         reqs[r].pc \in {"ready", "submit"}, rec.voter = reqs[r].voter,
         rec.copy = reqs[r].copy, reqs' = [reqs EXCEPT ![r] = rec],
         UNCHANGED <<rolls, ballots>>
  PROVE  RecordInv'
<1>1. reqs'[r] = rec
  BY DEF TypeOK
<1>2. CopyTrue(r)'
  BY <1>1 DEF RecordInv, CopyTrue
<1>3. QED
  BY <1>2, RecordLocal

LEMMA ReuseBallotRecord ==
  ASSUME TypeOK, RecordInv, NEW r \in Requests, ReuseBallot(r)
  PROVE  RecordInv'
<1>1. PICK row \in ballots :
        reqs' = [reqs EXCEPT ![r].pc = "submit", ![r].ballot = row.ballot,
                             ![r].target = row.version]
  BY DEF ReuseBallot, PriorBallots
<1> DEFINE rec == [reqs[r] EXCEPT !.pc = "submit", !.ballot = row.ballot,
                                  !.target = row.version]
<1>2. /\ rec \in Request /\ rec.voter = reqs[r].voter /\ rec.copy = reqs[r].copy
      /\ reqs' = [reqs EXCEPT ![r] = rec]
  BY <1>1 DEF TypeOK, Request, BallotRow
<1> HIDE DEF rec
<1>3. QED
  BY <1>2, SubmitRecord DEF ReuseBallot

LEMMA PickBallotRecord ==
  ASSUME TypeOK, RecordInv, NEW r \in Requests, NEW b \in BallotIds, PickBallot(r, b)
  PROVE  RecordInv'
<1> DEFINE rec == [reqs[r] EXCEPT !.pc = "submit", !.ballot = b]
<1>1. /\ rec \in Request /\ rec.voter = reqs[r].voter /\ rec.copy = reqs[r].copy
      /\ reqs' = [reqs EXCEPT ![r] = rec]
  BY DEF PickBallot, TypeOK, Request
<1> HIDE DEF rec
<1>2. QED
  BY <1>1, SubmitRecord DEF PickBallot

LEMMA StartUpdateRecord ==
  ASSUME TypeOK, RecordInv, NEW r \in Requests, StartUpdate(r)
  PROVE  RecordInv'
<1>1. PICK row \in ballots : reqs' = [reqs EXCEPT ![r].target = row.version]
  BY DEF StartUpdate, HeadBallots
<1> DEFINE rec == [reqs[r] EXCEPT !.target = row.version]
<1>2. /\ rec \in Request /\ rec.voter = reqs[r].voter /\ rec.copy = reqs[r].copy
      /\ reqs' = [reqs EXCEPT ![r] = rec]
  BY <1>1 DEF TypeOK, Request, BallotRow
<1> HIDE DEF rec
<1>3. QED
  BY <1>2, SubmitRecord DEF StartUpdate

LEMMA CreateRollRecord ==
  ASSUME TypeOK, CastInv, RecordInv, NEW r \in Requests, NEW t \in Times, CreateRoll(r, t)
  PROVE  RecordInv'
<1> DEFINE v == reqs[r].voter
           n == NewRoll(v, t)
<1>1. n.head /\ n.voter = v /\ n.casts = 0 /\ n.version = t
  BY DEF NewRoll
<1>2. v \in Voters /\ n \in RollRow /\ Access = "device"
  BY NewRollType DEF CreateRoll, TypeOK, CastInv, RequestInv
<1>3. /\ RollFits(rolls, n) /\ rolls' = rolls \cup {n} /\ UNCHANGED ballots
      /\ reqs' = [reqs EXCEPT ![r] = Holding("ready", v, n)]
  BY DEF CreateRoll, NewRoll
<1> HIDE DEF n, v
<1>4. RollKept(n)
  BY <1>2, <1>3, DemoteNothing, RollWriteKeeps DEF TypeOK
<1>5. \A x \in rolls : x.voter # v
  <2>1. \A x \in rolls : x.head => x.voter # v
    BY <1>1, <1>3 DEF RollFits
  <2>2. QED
    BY <2>1 DEF CastInv, RollTableInv
<1>6. /\ reqs'[r].voter = v /\ reqs'[r].copy = n
      /\ \A q \in Requests \ {r} : reqs'[q] = reqs[q]
  BY <1>3 DEF TypeOK, Holding, Idle
<1>7. ASSUME NEW q \in Requests, reqs'[q].pc \in {"ready", "submit"}
      PROVE  CopyTrue(q)'
  <2>1. CASE q = r
    BY <1>1, <1>2, <1>3, <1>5, <1>6, <2>1 DEF CopyTrue
  <2>2. CASE q # r
    <3>1. reqs'[q] = reqs[q] /\ CopyTrue(q) /\ CopyInv(q)
      BY <1>6, <1>7, <2>2 DEF RecordInv, CastInv, RequestInv
    <3>2. QED
      BY <1>2, <1>4, <3>1, CopyTrueStep
  <2>3. QED
    BY <2>1, <2>2
<1>8. ASSUME Editors = {}, NEW x \in rolls', x.head
      PROVE  x.casts = Cardinality({b \in ballots : b.voter = x.voter})
  <2>1. CASE x \in rolls
    BY <1>8, <2>1 DEF RecordInv, BallotsOf
  <2>2. CASE x = n
    <3>1. {b \in ballots : b.voter = v} = {}
      BY <1>5 DEF CastInv, CrossInv
    <3>2. QED
      BY <1>1, <2>2, <3>1, FS_EmptySet
  <2>3. QED
    BY <1>3, <2>1, <2>2
<1>9. QED
  BY <1>3, <1>7, <1>8 DEF RecordInv, BallotsOf

LEMMA WriteEditRecord ==
  ASSUME TypeOK, CastInv, RecordInv, NEW e \in Editors, NEW t \in Times, WriteEdit(e, t)
  PROVE  RecordInv'
<1> DEFINE n == [edits[e] EXCEPT !.version = t, !.head = TRUE]
<1>1. n \in RollRow /\ n.voter = edits[e].voter
  BY DEF WriteEdit, TypeOK, RollRow
<1>2. /\ RollFits(Demote(rolls, HeadRolls(n.voter)), n)
      /\ rolls' = Demote(rolls, HeadRolls(n.voter)) \cup {n}
      /\ UNCHANGED <<ballots, reqs>> /\ edits[e] # None
  BY DEF WriteEdit
<1> HIDE DEF n
<1>3. RollKept(n)
  BY <1>1, <1>2, RollWriteKeeps DEF TypeOK
<1>4. \E x \in rolls : x.voter = n.voter
  BY <1>1, <1>2 DEF CastInv, EditInv, SameRow
<1>5. ASSUME NEW r \in Requests, reqs[r].pc \in {"ready", "submit"}
      PROVE  CopyTrue(r)'
  <2>1. CopyTrue(r) /\ CopyInv(r) /\ reqs'[r] = reqs[r]
    BY <1>2, <1>5 DEF RecordInv, CastInv, RequestInv
  <2>2. Access = "anyone" => n.voter # reqs[r].voter
    BY <1>4, <1>5, FreshVoter
  <2>3. QED
    BY <1>3, <2>1, <2>2, CopyTrueStep
<1>6. Editors # {}
  OBVIOUS
<1>7. QED
  BY <1>2, <1>5, <1>6 DEF RecordInv

\* Demoting some rows of a table loses and merges none of them.
LEMMA DemoteCount ==
  ASSUME NEW table \in SUBSET BallotRow, IsFiniteSet(table), NEW selected,
         \A a, b \in table : a.ballot = b.ballot /\ a.version = b.version => a = b
  PROVE  /\ IsFiniteSet(Demote(table, selected))
         /\ Cardinality(Demote(table, selected)) = Cardinality(table)
<1> DEFINE low(x) == IF x \in selected THEN [x EXCEPT !.head = FALSE] ELSE x
           f == [x \in table |-> low(x)]
<1>1. \A x \in table : low(x).ballot = x.ballot /\ low(x).version = x.version
  BY DEF BallotRow
<1>2. Demote(table, selected) = {low(x) : x \in table}
  BY DEF Demote
<1>3. f \in [table -> Demote(table, selected)]
  BY <1>2
<1>4. ASSUME NEW a \in table, NEW b \in table, f[a] = f[b]
      PROVE  a = b
  <2>1. low(a) = low(b)
    BY <1>4
  <2>2. a.ballot = b.ballot /\ a.version = b.version
    BY <1>1, <2>1
  <2>3. QED
    BY <2>2
<1>5. \A y \in Demote(table, selected) : \E x \in table : f[x] = y
  BY <1>2
<1>6. f \in Bijection(table, Demote(table, selected))
  BY <1>3, <1>4, <1>5 DEF Bijection, Injection, Surjection, IsInjective
<1>7. ExistsBijection(table, Demote(table, selected))
  BY <1>6 DEF ExistsBijection
<1>8. QED
  BY <1>7, FS_Bijection

\* The cast adds one version of a ballot, for its voter.
LEMMA CommitCounts ==
  ASSUME TypeOK, CastInv, RecordInv, NEW r \in Requests, NEW t \in Times, CommitVote(r, t)
  PROVE  /\ IsFiniteSet(ballots')
         /\ \A a, b \in ballots' : a.ballot = b.ballot /\ a.version = b.version => a = b
         /\ \A v \in Voters :
              Cardinality({b \in ballots' : b.voter = v}) =
                Cardinality(BallotsOf(v)) + (IF v = reqs[r].voter THEN 1 ELSE 0)
<1> DEFINE m == BallotToInsert(r, t)
           after == BallotsAfter(r)
<1>1. PICK selected : after = Demote(ballots, selected)
  BY DemoteNothing DEF BallotsAfter
<1>2. /\ BallotFits(after, m) /\ ballots' = after \cup {m} /\ m.voter = reqs[r].voter
  BY DEF CommitVote, BallotToInsert
<1> HIDE DEF m, after
<1>3. \A a, b \in ballots : a.ballot = b.ballot /\ a.version = b.version => a = b
  BY DEF RecordInv
<1>4. ballots \in SUBSET BallotRow /\ IsFiniteSet(ballots)
  BY DEF TypeOK, RecordInv
<1>5. IsFiniteSet(after)
  BY <1>1, <1>3, <1>4, DemoteCount
<1>6. m \notin after
  BY <1>2 DEF BallotFits
<1>7. ASSUME NEW a \in after, NEW b \in after, a.ballot = b.ballot, a.version = b.version
      PROVE  a = b
  <2>1. PICK x \in ballots : a = IF x \in selected THEN [x EXCEPT !.head = FALSE] ELSE x
    BY <1>1 DEF Demote
  <2>2. PICK y \in ballots : b = IF y \in selected THEN [y EXCEPT !.head = FALSE] ELSE y
    BY <1>1 DEF Demote
  <2>3. x = y
    BY <1>3, <1>4, <1>7, <2>1, <2>2 DEF BallotRow
  <2>4. QED
    BY <2>1, <2>2, <2>3
<1>8. \A a, b \in ballots' : a.ballot = b.ballot /\ a.version = b.version => a = b
  BY <1>2, <1>7 DEF BallotFits
<1>9. IsFiniteSet(ballots')
  BY <1>2, <1>5, FS_AddElement
<1>10. ASSUME NEW v \in Voters
       PROVE  Cardinality({b \in ballots' : b.voter = v}) =
                Cardinality(BallotsOf(v)) + (IF v = reqs[r].voter THEN 1 ELSE 0)
  <2> DEFINE mine == {b \in after : b.voter = v}
  <2>1. mine = Demote(BallotsOf(v), selected)
    BY <1>1, <1>4 DEF Demote, BallotsOf, BallotRow
  <2>2. BallotsOf(v) \in SUBSET BallotRow /\ IsFiniteSet(BallotsOf(v))
    BY <1>4, FS_Subset DEF BallotsOf
  <2>3. IsFiniteSet(mine) /\ Cardinality(mine) = Cardinality(BallotsOf(v))
    BY <1>3, <2>1, <2>2, DemoteCount DEF BallotsOf
  <2>4. Cardinality(mine) \in Nat
    BY <2>3, FS_CardinalityType
  <2>5. CASE v = reqs[r].voter
    <3>1. {b \in ballots' : b.voter = v} = mine \cup {m}
      BY <1>2, <2>5
    <3>2. m \notin mine
      BY <1>6
    <3> HIDE DEF mine
    <3>3. QED
      BY <2>3, <2>5, <3>1, <3>2, FS_AddElement
  <2>6. CASE v # reqs[r].voter
    <3>1. {b \in ballots' : b.voter = v} = mine
      BY <1>2, <2>6
    <3>2. Cardinality(BallotsOf(v)) \in Nat
      BY <2>3, <2>4
    <3> HIDE DEF mine
    <3>3. (IF v = reqs[r].voter THEN 1 ELSE 0) = 0
      BY <2>6
    <3>4. Cardinality(BallotsOf(v)) + (IF v = reqs[r].voter THEN 1 ELSE 0)
            = Cardinality(BallotsOf(v))
      BY <3>2, <3>3
    <3>5. Cardinality({b \in ballots' : b.voter = v}) = Cardinality(BallotsOf(v))
      BY <2>3, <3>1
    <3>6. QED
      BY <3>4, <3>5
  <2>7. QED
    BY <2>5, <2>6
<1>11. QED
  BY <1>8, <1>9, <1>10

\* The row of the roll that a cast stores.
LEMMA CommitRow ==
  ASSUME TypeOK, CastInv, NEW r \in Requests, NEW t \in Times, CommitVote(r, t)
  PROVE  /\ RollToInsert(r, t) \in RollRow /\ reqs[r].copy \in RollRow
         /\ reqs[r].voter \in Voters
         /\ RollToInsert(r, t).state = reqs[r].copy.state
         /\ RollToInsert(r, t).emailed = reqs[r].copy.emailed
         /\ RollToInsert(r, t).casts = reqs[r].copy.casts + 1
         /\ RollToInsert(r, t).voter = reqs[r].voter
         /\ RollKept(RollToInsert(r, t))
<1>1. /\ reqs[r].copy \in RollRow /\ reqs[r].ballot \in BallotIds
      /\ reqs[r].voter \in Voters
  BY DEF CommitVote, TypeOK
<1>2. reqs[r].copy.casts + 1 \in Nat
  BY <1>1 DEF RollRow
<1>3. /\ RollToInsert(r, t) \in RollRow
      /\ RollToInsert(r, t).state = reqs[r].copy.state
      /\ RollToInsert(r, t).emailed = reqs[r].copy.emailed
      /\ RollToInsert(r, t).casts = reqs[r].copy.casts + 1
  BY <1>1, <1>2 DEF RollToInsert, RollRow
<1>4. /\ RollFits(Demote(rolls, Unchanged(r)), RollToInsert(r, t))
      /\ rolls' = Demote(rolls, Unchanged(r)) \cup {RollToInsert(r, t)}
  BY DEF CommitVote
<1>5. RollKept(RollToInsert(r, t))
  BY <1>3, <1>4, RollWriteKeeps DEF TypeOK
<1>6. QED
  BY <1>1, <1>3, <1>5, CommitWrites

\* At the commit, the head of the voter's roll row is as the request read it.
LEMMA CommitHead ==
  ASSUME TypeOK, CastInv, RecordInv, NEW r \in Requests, NEW t \in Times, CommitVote(r, t),
         NEW x \in rolls, x.head, x.voter = reqs[r].voter
  PROVE  /\ x.state = reqs[r].copy.state /\ x.emailed = reqs[r].copy.emailed
         /\ x.casts = reqs[r].copy.casts
<1>1. PICK u \in rolls : u.head /\ u.voter = reqs[r].voter /\ u.version = reqs[r].copy.version
  BY DEF CommitVote, RollFree, Unchanged, HeadRolls
<1>2. u = x
  BY <1>1 DEF CastInv, RollTableInv
<1>3. CopyTrue(r)
  BY DEF CommitVote, RecordInv
<1>4. QED
  BY <1>1, <1>2, <1>3 DEF CopyTrue

LEMMA CommitVoteRecord ==
  ASSUME TypeOK, CastInv, RecordInv, NEW r \in Requests, NEW t \in Times, CommitVote(r, t)
  PROVE  RecordInv'
<1> DEFINE n == RollToInsert(r, t)
           v == reqs[r].voter
<1>1. /\ n.casts = reqs[r].copy.casts + 1 /\ n.voter = v /\ v \in Voters
      /\ RollKept(n) /\ RollWritten(rolls, rolls', n)
      /\ reqs[r].copy \in RollRow
  BY CommitRow, CommitWrites
<1>2. /\ reqs[r].pc = "submit" /\ RollFree(r)
      /\ reqs' = [reqs EXCEPT ![r] = Idle("accepted", v)]
  BY DEF CommitVote, Finish
<1> HIDE DEF n, v
<1>3. /\ reqs'[r].pc = "done"
      /\ \A q \in Requests \ {r} : reqs'[q] = reqs[q]
  BY <1>2 DEF TypeOK, Idle
<1>4. ASSUME NEW q \in Requests, reqs'[q].pc \in {"ready", "submit"}
      PROVE  CopyTrue(q)'
  <2>1. q # r /\ reqs'[q] = reqs[q] /\ CopyTrue(q) /\ CopyInv(q)
    BY <1>3, <1>4 DEF RecordInv, CastInv, RequestInv
  <2>2. Access = "anyone" => n.voter # reqs[q].voter
    BY <1>1, <1>2, <1>4, <2>1 DEF CastInv, RequestInv, v
  <2>3. QED
    BY <1>1, <2>1, <2>2, CopyTrueStep
<1>5. ASSUME Editors = {}
      PROVE  reqs[r].copy.casts = Cardinality(BallotsOf(v))
  <2>1. CASE \E x \in rolls : x.head /\ x.voter = v
    BY <1>5, <2>1, CommitHead DEF RecordInv, v
  <2>2. CASE ~\E x \in rolls : x.head /\ x.voter = v
    <3>1. \A x \in rolls : x.voter # v
      BY <2>2 DEF CastInv, RollTableInv
    <3>2. Access = "anyone"
      BY <1>2, <3>1 DEF CastInv, RequestInv, CopyInv, SameRow, v
    <3>3. BallotsOf(v) = {}
      BY <3>1 DEF BallotsOf, CastInv, CrossInv
    <3>4. CopyTrue(r)
      BY <1>2 DEF RecordInv
    <3>5. QED
      BY <3>2, <3>3, <3>4, FS_EmptySet DEF CopyTrue
  <2>3. QED
    BY <2>1, <2>2
<1>6. ASSUME Editors = {}, NEW x \in rolls', x.head
      PROVE  x.casts = Cardinality({b \in ballots' : b.voter = x.voter})
  <2>1. CASE x = n
    <3>1. Cardinality({b \in ballots' : b.voter = v}) = Cardinality(BallotsOf(v)) + 1
      BY <1>1, CommitCounts DEF v
    <3>2. QED
      BY <1>1, <1>5, <1>6, <2>1, <3>1
  <2>2. CASE x # n
    <3>1. x \in rolls /\ x.voter # v /\ x.voter \in Voters
      BY <1>1, <1>6, <2>2 DEF RollWritten, TypeOK, RollRow
    <3>2. Cardinality({b \in ballots' : b.voter = x.voter}) = Cardinality(BallotsOf(x.voter)) + 0
      BY <3>1, CommitCounts DEF v
    <3>3. x.casts \in Nat /\ x.casts = Cardinality(BallotsOf(x.voter))
      BY <1>6, <3>1 DEF RecordInv, TypeOK, RollRow
    <3>4. QED
      BY <3>2, <3>3
  <2>3. QED
    BY <2>1, <2>2
<1>7. QED
  BY <1>4, <1>6, CommitCounts DEF RecordInv, BallotsOf

\* The tables record every cast: the second inductive invariant.
THEOREM RecordInvariant == Spec => []RecordInv
<1>1. Init => RecordInv
  <2> SUFFICES ASSUME Init PROVE RecordInv
    OBVIOUS
  <2>1. ballots = {} /\ \A r \in Requests : reqs[r].pc = "done"
    BY DEF Init, Idle
  <2>2. \A x \in rolls : x.casts = 0
    BY DEF Init, NewRoll
  <2>3. \A v : BallotsOf(v) = {}
    BY <2>1 DEF BallotsOf
  <2>4. IsFiniteSet(ballots) /\ \A v : Cardinality(BallotsOf(v)) = 0
    BY <2>1, <2>3, FS_EmptySet
  <2>5. QED
    BY <2>1, <2>2, <2>4 DEF RecordInv
<1>2. TypeOK /\ CastInv /\ RecordInv /\ [Next]_vars => RecordInv'
  <2> SUFFICES ASSUME TypeOK, CastInv, RecordInv, [Next]_vars PROVE RecordInv'
    OBVIOUS
  <2>1. ASSUME NEW r \in Requests, Cast(r) PROVE RecordInv'
    <3>1. ASSUME NEW v \in Voters, ReadRoll(r, v) PROVE RecordInv'
      BY <3>1, ReadRollRecord
    <3>2. ASSUME NEW v \in Voters, RefuseVoted(r, v) PROVE RecordInv'
      BY <3>2, RecordIdle DEF RefuseVoted
    <3>3. ASSUME NEW v \in Voters, RefuseUnknown(r, v) PROVE RecordInv'
      BY <3>3, RecordIdle DEF RefuseUnknown
    <3>4. ASSUME NEW v \in Voters, MissRoll(r, v) PROVE RecordInv'
      BY <3>4, Holding("create", v, None).pc = "create", RecordLocal
      DEF MissRoll, Holding, Idle
    <3>5. ASSUME NEW v \in Voters, NEW t \in Times, MakeUpRoll(r, v, t) PROVE RecordInv'
      BY <3>5, MakeUpRollRecord
    <3>6. ASSUME ReuseBallot(r) PROVE RecordInv'
      BY <3>6, ReuseBallotRecord
    <3>7. ASSUME NEW b \in BallotIds, PickBallot(r, b) PROVE RecordInv'
      BY <3>7, PickBallotRecord
    <3>8. ASSUME StartUpdate(r) PROVE RecordInv'
      BY <3>8, StartUpdateRecord
    <3>9. ASSUME RejectBallotUpdate(r) PROVE RecordInv'
      BY <3>9, RecordIdle DEF RejectBallotUpdate, Finish
    <3>10. ASSUME FailRequest(r) PROVE RecordInv'
      BY <3>10, RecordIdle DEF FailRequest, Finish
    <3>11. ASSUME NEW t \in Times, CreateRoll(r, t) PROVE RecordInv'
      BY <3>11, CreateRollRecord
    <3>12. ASSUME NEW t \in Times, CommitVote(r, t) PROVE RecordInv'
      BY <3>12, CommitVoteRecord
    <3>13. ASSUME NEW t \in Times, RejectStaleRoll(r, t) PROVE RecordInv'
      BY <3>13, RecordIdle DEF RejectStaleRoll, Finish
    <3>14. QED
      BY <2>1, <3>1, <3>2, <3>3, <3>4, <3>5, <3>6, <3>7, <3>8, <3>9, <3>10,
         <3>11, <3>12, <3>13 DEF Cast, Lookup
  <2>2. CASE UNCHANGED <<rolls, ballots, reqs>>
    BY <2>2 DEF RecordInv, BallotsOf, CopyTrue
  <2>3. ASSUME NEW e \in Editors, Edit(e) PROVE RecordInv'
    BY <2>2, <2>3, WriteEditRecord DEF Edit, ReadForEdit, FailEdit
  <2>4. QED
    BY <2>1, <2>2, <2>3 DEF Next, vars
<1>3. QED
  BY <1>1, <1>2, TypeCorrect, CastInvariant, PTL DEF Spec

\* Without roll edits behind the casts' backs, the roll and the ballot box
\* agree: each counts the same ballots of a voter, and the head of a roll row
\* counts the versions ever stored.
THEOREM RollAgrees ==
  ASSUME Editors = {}
  PROVE  Spec => []RollMatchesBallots
<1>1. TypeOK /\ CastInv /\ RecordInv => RollMatchesBallots
  <2> SUFFICES ASSUME TypeOK, CastInv, RecordInv PROVE RollMatchesBallots
    OBVIOUS
  <2>1. ASSUME NEW v \in Voters
        PROVE  CountedIds(v) =
                 {row.ballot : row \in {h \in HeadRolls(v) : h.submitted}}
    <3>1. ASSUME NEW b \in VotesOf(v)
          PROVE  \E h \in HeadRolls(v) : h.submitted /\ h.ballot = b.ballot
      BY <3>1 DEF CastInv, HeadInv, VotesOf, HeadRolls
    <3>2. ASSUME NEW h \in HeadRolls(v), h.submitted
          PROVE  \E b \in VotesOf(v) : b.ballot = h.ballot
      <4>1. PICK a \in ballots : a.ballot = h.ballot /\ a.voter = v
        BY <3>2 DEF CastInv, CrossInv, HeadRolls
      <4>2. PICK b \in ballots : b.ballot = a.ballot /\ b.head
        BY DEF CastInv, BallotTableInv
      <4>3. b.voter = v
        BY <4>1, <4>2 DEF CastInv, BallotTableInv
      <4>4. QED
        BY <4>1, <4>2, <4>3 DEF VotesOf
    <3>3. QED
      BY <3>1, <3>2 DEF CountedIds
  <2>2. \A row \in rolls :
          row.head => row.casts = Cardinality({b \in ballots : b.voter = row.voter})
    BY DEF RecordInv, BallotsOf
  <2>3. QED
    BY <2>1, <2>2 DEF RollMatchesBallots
<1>2. QED
  BY <1>1, TypeCorrect, CastInvariant, RecordInvariant, PTL

\* A cast stores the state and the emails of the roll row as they are at the
\* commit, whatever was edited after the request read the row.
THEOREM EditsKept == Spec => CastKeepsEdits
<1>1. TypeOK /\ CastInv /\ RecordInv /\ [Next]_vars =>
        [ballots' # ballots =>
           \A old \in rolls, new \in rolls' :
             old.head /\ new.head /\ old.voter = new.voter =>
               old.state = new.state /\ old.emailed = new.emailed]_vars
  <2> SUFFICES ASSUME TypeOK, CastInv, RecordInv, Next, ballots' # ballots,
                      NEW old \in rolls, NEW new \in rolls',
                      old.head, new.head, old.voter = new.voter
               PROVE  old.state = new.state /\ old.emailed = new.emailed
    OBVIOUS
  <2>1. PICK r \in Requests, t \in Times : CommitVote(r, t)
    BY OnlyCommitStores
  <2> DEFINE n == RollToInsert(r, t)
  <2>2. /\ n.state = reqs[r].copy.state /\ n.emailed = reqs[r].copy.emailed
        /\ n.voter = reqs[r].voter /\ RollWritten(rolls, rolls', n)
    BY <2>1, CommitRow, CommitWrites
  <2> HIDE DEF n
  <2>3. CASE new = n
    BY <2>1, <2>2, <2>3, CommitHead
  <2>4. CASE new # n
    <3>1. new \in rolls
      BY <2>2, <2>4 DEF RollWritten
    <3>2. QED
      BY <3>1 DEF CastInv, RollTableInv
  <2>5. QED
    BY <2>3, <2>4
<1>2. QED
  BY <1>1, TypeCorrect, CastInvariant, RecordInvariant, PTL DEF Spec, CastKeepsEdits

-----------------------------------------------------------------------------
(* What a voter is told.                                                   *)

\* The answer a request goes on with, and the two ways to be told anew that
\* its voter has voted.
LEMMA AlreadyVotedSources ==
  ASSUME TypeOK, [Next]_vars, NEW r \in Requests, reqs'[r].result = "alreadyVoted"
  PROVE  \/ reqs[r].result = "alreadyVoted" /\ reqs'[r].voter = reqs[r].voter
         \/ \E v \in Voters : RefuseVoted(r, v)
         \/ \E t \in Times : RejectStaleRoll(r, t)
<1>1. CASE reqs'[r] = reqs[r]
  BY <1>1
<1>2. CASE reqs'[r] # reqs[r]
  <2>1. PICK q \in Requests : Cast(q)
    BY <1>2 DEF Next, vars, Edit, ReadForEdit, WriteEdit, FailEdit
  <2>2. q = r
    BY <1>2, <2>1 DEF Cast, Lookup, ReadRoll, RefuseVoted, RefuseUnknown, MissRoll,
       CreateRoll, MakeUpRoll, ReuseBallot, PickBallot, StartUpdate, CommitVote,
       RejectBallotUpdate, RejectStaleRoll, FailRequest, Finish, TypeOK
  <2>3. CASE ReuseBallot(r) \/ (\E b \in BallotIds : PickBallot(r, b)) \/ StartUpdate(r)
    <3>1. reqs[r] \in Request
      BY DEF TypeOK
    <3>2. CASE ReuseBallot(r)
      <4>1. PICK row \in ballots :
              reqs' = [reqs EXCEPT ![r].pc = "submit", ![r].ballot = row.ballot,
                                   ![r].target = row.version]
        BY <3>2 DEF ReuseBallot, PriorBallots
      <4>2. QED
        BY <3>1, <4>1 DEF TypeOK, Request
    <3>3. ASSUME NEW b \in BallotIds, PickBallot(r, b)
          PROVE  reqs'[r].result = reqs[r].result /\ reqs'[r].voter = reqs[r].voter
      BY <3>1, <3>3 DEF PickBallot, TypeOK, Request
    <3>4. CASE StartUpdate(r)
      <4>1. PICK row \in ballots : reqs' = [reqs EXCEPT ![r].target = row.version]
        BY <3>4 DEF StartUpdate, HeadBallots
      <4>2. QED
        BY <3>1, <4>1 DEF TypeOK, Request
    <3>5. QED
      BY <2>3, <3>2, <3>3, <3>4
  <2>4. \A pc, v, row : Holding(pc, v, row).result = "none"
    BY DEF Holding, Idle
  <2>5. \A result, v : Idle(result, v).result = result
    BY DEF Idle
  <2>6. ASSUME NEW v \in Voters, ReadRoll(r, v) \/ MissRoll(r, v) \/ RefuseUnknown(r, v)
        PROVE  FALSE
    BY <2>6, <2>4, <2>5 DEF ReadRoll, MissRoll, RefuseUnknown, TypeOK
  <2>7. ASSUME NEW v \in Voters, NEW t \in Times, MakeUpRoll(r, v, t) PROVE FALSE
    BY <2>7, <2>4 DEF MakeUpRoll, TypeOK
  <2>8. ASSUME NEW t \in Times, CreateRoll(r, t) \/ CommitVote(r, t) PROVE FALSE
    BY <2>8, <2>4, <2>5 DEF CreateRoll, CommitVote, Finish, TypeOK
  <2>9. CASE RejectBallotUpdate(r) \/ FailRequest(r)
    BY <2>9 DEF RejectBallotUpdate, FailRequest, Finish, Idle, TypeOK
  <2>10. QED
    BY <2>1, <2>2, <2>3, <2>6, <2>7, <2>8, <2>9 DEF Cast, Lookup
<1>3. QED
  BY <1>1, <1>2

\* The voter of a ballot that is stored, or goes on being stored, has a
\* ballot that is counted.
LEMMA StoredIsCounted ==
  ASSUME BallotTableInv, NEW b \in ballots
  PROVE  \E h \in ballots : h.head /\ h.voter = b.voter
BY DEF BallotTableInv

LEMMA StoredStaysCounted ==
  ASSUME TypeOK, CastInv, BallotTableInv', [Next]_vars, NEW a \in ballots
  PROVE  \E h \in ballots' : h.head /\ h.voter = a.voter
<1>1. CASE UNCHANGED ballots
  BY <1>1, StoredIsCounted DEF CastInv
<1>2. ASSUME NEW r \in Requests, NEW t \in Times, CommitVote(r, t)
      PROVE  \E h \in ballots' : h.head /\ h.voter = a.voter
  <2>1. PICK b \in ballots' : b.voter = a.voter
    BY <1>2, CommitWrites DEF BallotWritten, SameBallot
  <2>2. QED
    BY <2>1 DEF BallotTableInv
<1>3. QED
  BY <1>1, <1>2, OnlyCommitStores DEF vars

\* Nobody is told "User has already voted" whose ballot is not counted: not
\* at the check before the awaits, not when the transaction finds the roll
\* row written by another request.
THEOREM AlreadyVotedTrue == Spec => []AlreadyVotedIsTrue
<1>1. Init => AlreadyVotedIsTrue
  BY DEF Init, AlreadyVotedIsTrue, Idle
<1>2. TypeOK /\ CastInv /\ CastInv' /\ AlreadyVotedIsTrue /\ [Next]_vars => AlreadyVotedIsTrue'
  <2> SUFFICES ASSUME TypeOK, CastInv, CastInv', AlreadyVotedIsTrue, [Next]_vars,
                      NEW r \in Requests, reqs'[r].result = "alreadyVoted"
               PROVE  \E h \in ballots' : h.head /\ h.voter = reqs'[r].voter
    BY DEF AlreadyVotedIsTrue, VotesOf
  <2>1. SUFFICES \E a \in ballots : a.voter = reqs'[r].voter
    BY StoredStaysCounted DEF CastInv
  <2>2. CASE reqs[r].result = "alreadyVoted" /\ reqs'[r].voter = reqs[r].voter
    BY <2>2 DEF AlreadyVotedIsTrue, VotesOf
  <2>3. ASSUME NEW v \in Voters, RefuseVoted(r, v)
        PROVE  \E a \in ballots : a.voter = reqs'[r].voter
    <3>1. reqs'[r].voter = v
      BY <2>3 DEF RefuseVoted, Idle, TypeOK
    <3>2. PICK x \in rolls : x.submitted /\ x.voter = v
      BY <2>3 DEF RefuseVoted, HeadRolls
    <3>3. QED
      BY <3>1, <3>2 DEF CastInv, CrossInv
  <2>4. ASSUME NEW t \in Times, RejectStaleRoll(r, t)
        PROVE  \E a \in ballots : a.voter = reqs'[r].voter
    <3>1. PICK x \in HeadRolls(reqs[r].voter) :
            reqs' = [reqs EXCEPT ![r] =
              Idle(IF x.submitted THEN "alreadyVoted" ELSE "conflict", reqs[r].voter)]
      BY <2>4 DEF RejectStaleRoll, Finish
    <3>2. x \in rolls /\ x.voter = reqs[r].voter
      BY <3>1 DEF HeadRolls
    <3>3. reqs'[r] = Idle(IF x.submitted THEN "alreadyVoted" ELSE "conflict", reqs[r].voter)
      BY <3>1 DEF TypeOK
    <3>4. reqs'[r].voter = x.voter /\ x.submitted
      BY <3>2, <3>3 DEF Idle
    <3>5. QED
      BY <3>2, <3>4 DEF CastInv, CrossInv
  <2>5. QED
    BY <2>2, <2>3, <2>4, AlreadyVotedSources
<1>3. QED
  BY <1>1, <1>2, TypeCorrect, CastInvariant, PTL DEF Spec

-----------------------------------------------------------------------------
(* Casting implements the ballot box.                                      *)

Entry(row) == [voter |-> row.voter, ballot |-> row.ballot, version |-> row.version]

\* A commit replaces the head of its ballot and touches no other head.
LEMMA CommitHeads ==
  ASSUME TypeOK, CastInv, NEW r \in Requests, NEW t \in Times, CommitVote(r, t)
  PROVE  {b \in ballots' : b.head} =
           {b \in ballots : b.head /\ b.ballot # reqs[r].ballot} \cup {BallotToInsert(r, t)}
<1> DEFINE m == BallotToInsert(r, t)
<1>1. BallotWritten(ballots, ballots', m) /\ m.ballot = reqs[r].ballot
  BY CommitWrites
<1> HIDE DEF m
<1>2. ASSUME NEW b \in ballots', b.head, b # m
      PROVE  b \in ballots /\ b.ballot # reqs[r].ballot
  BY <1>1, <1>2 DEF BallotWritten
<1>3. ASSUME NEW a \in ballots, a.head, a.ballot # reqs[r].ballot
      PROVE  a \in ballots'
  BY <1>1, <1>3 DEF BallotWritten
<1>4. m \in ballots' /\ m.head
  BY <1>1 DEF BallotWritten
<1>5. QED
  BY <1>2, <1>3, <1>4 DEF m

\* The first ballot of a voter enters the box.
LEMMA CommitCasts ==
  ASSUME TypeOK, CastInv, NEW r \in Requests, NEW t \in Times, CommitVote(r, t),
         ~IsUpdate(r), Editors = {} \/ BallotUpdates
  PROVE  \A b \in ballots :
           b.head => b.voter # reqs[r].voter /\ b.ballot # reqs[r].ballot
<1> SUFFICES ASSUME NEW b \in ballots, b.head
             PROVE  b.voter # reqs[r].voter /\ b.ballot # reqs[r].ballot
  OBVIOUS
<1>1. b.ballot # reqs[r].ballot
  BY DEF CommitVote, BallotsAfter, BallotFits, BallotToInsert
<1>2. CASE BallotUpdates
  BY <1>1, <1>2, CommitOwner
<1>3. CASE Editors = {}
  <2>1. PICK x \in rolls : x.head /\ x.voter = b.voter /\ x.submitted
    BY <1>3 DEF CastInv, HeadInv
  <2>2. QED
    BY <1>1, <2>1, CommitUnvoted DEF HeadRolls
<1>4. QED
  BY <1>2, <1>3

\* The box entry that an update rewrites: the voter's own, another version.
LEMMA CommitRewrites ==
  ASSUME TypeOK, CastInv, NEW r \in Requests, NEW t \in Times, CommitVote(r, t),
         IsUpdate(r)
  PROVE  /\ BallotUpdates
         /\ \E h \in ballots : /\ h.head /\ h.ballot = reqs[r].ballot
                               /\ h.voter = reqs[r].voter /\ h.version # t
<1>1. BallotUpdates
  BY DEF CommitVote, CastInv, RequestInv, SubmitInv
<1>2. PICK h \in HeadBallots(reqs[r].ballot) : h.version = reqs[r].target
  BY DEF CommitVote, TargetHeld
<1>3. h \in ballots /\ h.head /\ h.ballot = reqs[r].ballot
  BY DEF HeadBallots
<1>4. h.voter = reqs[r].voter
  BY <1>3, CommitOwner
<1> DEFINE low == [h EXCEPT !.head = FALSE]
<1>5. low \in BallotsAfter(r) /\ low.ballot = h.ballot /\ low.version = h.version
  BY <1>3 DEF BallotsAfter, Demote, TypeOK, BallotRow
<1>6. BallotToInsert(r, t).ballot = reqs[r].ballot /\ BallotToInsert(r, t).version = t
  BY DEF BallotToInsert
<1>7. h.version # t
  BY <1>3, <1>5, <1>6 DEF CommitVote, BallotFits
<1>8. QED
  BY <1>1, <1>3, <1>4, <1>7

LEMMA CommitBox ==
  ASSUME TypeOK, CastInv, NEW r \in Requests, NEW t \in Times, CommitVote(r, t),
         Editors = {} \/ BallotUpdates
  PROVE  Box!Next
<1> DEFINE m == BallotToInsert(r, t)
           heads == {b \in ballots : b.head}
           box == {Entry(b) : b \in heads}
           later == {Entry(b) : b \in {b \in ballots' : b.head}}
<1>1. PICK e \in Box!Counted : e = Entry(m)
  BY DEF Entry, Box!Counted, BallotToInsert, CommitVote, TypeOK
<1>2. e.voter = reqs[r].voter /\ e.ballot = reqs[r].ballot /\ e.version = t
  BY <1>1 DEF Entry, BallotToInsert
<1>3. later = {Entry(b) : b \in {h \in heads : h.ballot # reqs[r].ballot}} \cup {e}
  BY <1>1, CommitHeads
<1>4. CASE ~IsUpdate(r)
  <2>1. \A b \in heads : b.voter # reqs[r].voter /\ b.ballot # reqs[r].ballot
    BY <1>4, CommitCasts
  <2>2. later = box \cup {e}
    BY <1>3, <2>1
  <2>3. \A old \in box : old.voter # e.voter /\ old.ballot # e.ballot
    BY <1>2, <2>1 DEF Entry
  <2>4. Box!Cast(e)
    BY <2>2, <2>3 DEF Box!Cast, Entry
  <2>5. QED
    BY <1>1, <2>4 DEF Box!Next
<1>5. CASE IsUpdate(r)
  <2>1. PICK h \in heads : /\ h.ballot = reqs[r].ballot /\ h.voter = reqs[r].voter
                           /\ h.version # t
    BY <1>5, CommitRewrites
  <2>2. \A b \in heads : b.ballot = reqs[r].ballot => b = h
    BY <2>1 DEF CastInv, BallotTableInv
  <2>3. PICK old \in box : old = Entry(h)
    BY <2>1
  <2>4. old.voter = e.voter /\ old.ballot = e.ballot /\ old.version # e.version
    BY <1>2, <2>1, <2>3 DEF Entry
  <2>5. \A b \in heads : Entry(b) = old <=> b.ballot = reqs[r].ballot
    BY <2>1, <2>2, <2>3 DEF Entry
  <2>6. later = (box \ {old}) \cup {e}
    BY <1>3, <2>5
  <2>7. Box!Rewrite(old, e)
    BY <1>5, <2>4, <2>6, CommitRewrites DEF Box!Rewrite, Entry
  <2>8. QED
    BY <1>1, <2>3, <2>7 DEF Box!Next, Entry
<1>6. QED
  BY <1>4, <1>5

\* Casting implements the ballot box: the counted ballots change only by the
\* first ballot of a voter entering, and by a voter's rewriting their own.
\* Without ballot updates this takes the absence of roll edits, as OneVote.
THEOREM BoxImplemented ==
  ASSUME Editors = {} \/ BallotUpdates
  PROVE  Spec => ImplementsBallotBox
<1>1. Init => Box!Init
  BY DEF Init, Box!Init
<1>2. TypeOK /\ CastInv /\ [Next]_vars =>
        [Box!Next]_({[voter |-> row.voter, ballot |-> row.ballot, version |-> row.version] :
                       row \in {b \in ballots : b.head}})
  <2> SUFFICES ASSUME TypeOK, CastInv, [Next]_vars, ballots' # ballots
               PROVE  Box!Next
    OBVIOUS
  <2>1. PICK r \in Requests, t \in Times : CommitVote(r, t)
    BY OnlyCommitStores DEF vars
  <2>2. QED
    BY <2>1, CommitBox
<1>3. QED
  BY <1>1, <1>2, TypeCorrect, CastInvariant, PTL
  DEF Spec, ImplementsBallotBox, Box!Spec

=============================================================================
