------------------------ MODULE ElectionAdminProofs -------------------------
(* Theorems about ElectionAdmin, for every value of its constants.         *)
EXTENDS ElectionAdmin, TLAPS

\* A step that replaces request r's record.
LEMMA RequestStep ==
  ASSUME TypeOK, NEW r \in Requests, NEW rec \in Request,
         reqs' = [reqs EXCEPT ![r] = rec],
         rec.pc # "done" => /\ rec.op \in Ops /\ rec.row \in Row
                            /\ rec.op \in TabWrites <=> rec.sent \in Row
                            /\ rec.pc = "clear" => rec.op = "finalize",
         head' \in Row, tabs' \in [Tabs -> Row], phase' \in 0..2,
         tests' \subseteq Ballots, stored' \subseteq Ballots,
         accepted' \subseteq Ballots, cast' \subseteq Ballots
  PROVE  TypeOK'
BY DEF TypeOK

LEMMA DoneType == Done \in Request /\ Done.pc = "done"
BY DEF Done, Request

\* A request that ends.
LEMMA DoneStep ==
  ASSUME TypeOK, NEW r \in Requests, reqs' = [reqs EXCEPT ![r] = Done],
         head' \in Row, tabs' \in [Tabs -> Row], phase' \in 0..2,
         tests' \subseteq Ballots, stored' \subseteq Ballots,
         accepted' \subseteq Ballots, cast' \subseteq Ballots
  PROVE  TypeOK'
BY DoneType, RequestStep

\* A request that moves on with a row.
LEMMA MoveStep ==
  ASSUME TypeOK, NEW r \in Requests, reqs[r].pc # "done", NEW row \in Row,
         NEW pc \in {"auth", "reread", "handle"},
         reqs' = [reqs EXCEPT ![r].pc = pc, ![r].row = row],
         head' \in Row, UNCHANGED <<tabs, phase, boxes>>
  PROVE  TypeOK'
<1> DEFINE rec == [reqs[r] EXCEPT !.pc = pc, !.row = row]
<1>1. reqs[r] \in Request
  BY DEF TypeOK
<1>2. /\ rec \in Request /\ rec.op = reqs[r].op /\ rec.pc = pc
      /\ rec.row = row /\ rec.sent = reqs[r].sent
  BY <1>1 DEF Request
<1>3. reqs' = [reqs EXCEPT ![r] = rec]
  OBVIOUS
<1>4. rec.op \in Ops /\ (rec.op \in TabWrites <=> rec.sent \in Row)
  BY <1>2 DEF TypeOK
<1> HIDE DEF rec
<1>5. QED
  BY <1>2, <1>3, <1>4, RequestStep DEF TypeOK, boxes

\* The answer to a write leaves tabs of the right type.
LEMMA AnswerType ==
  ASSUME TypeOK, NEW r \in Requests, NEW v \in Versions, Answer(r, v)
  PROVE  tabs' \in [Tabs -> Row]
<1>1. reqs[r].tab \in Tabs \cup {None} /\ tabs \in [Tabs -> Row]
  BY DEF TypeOK, Request
<1>2. \A t \in Tabs : [tabs[t] EXCEPT !.version = v] \in Row
  BY <1>1 DEF Row
<1>3. QED
  BY <1>1, <1>2 DEF Answer

LEMMA ScheduledType ==
  ASSUME NEW state \in State
  PROVE  Scheduled(state) \in State
BY DEF Scheduled, State

\* What a write stores is a row.
LEMMA NewRowType ==
  ASSUME TypeOK, NEW r \in Requests, Writes(r)
  PROVE  NewRow(r) \in Row
<1>1. reqs[r].row \in Row /\ (reqs[r].op \in TabWrites => reqs[r].sent \in Row)
  BY DEF Writes, TypeOK
<1>2. CASE reqs[r].op = "edit"
  BY <1>1, <1>2 DEF NewRow, TabWrites, Target
<1>3. CASE reqs[r].op \in DOMAIN Target
  <2>1. Target[reqs[r].op] \in State /\ reqs[r].op # "edit"
    BY <1>3 DEF Target, State
  <2>2. QED
    BY <1>1, <1>3, <2>1 DEF NewRow, Row
<1>4. CASE reqs[r].op # "edit" /\ reqs[r].op \notin DOMAIN Target
  <2>1. reqs[r].op \in Fields
    BY <1>4 DEF Writes, TabWrites, ServerWrites, Target, Fields
  <2>2. QED
    BY <1>1, <1>4, <2>1 DEF NewRow, Row, Toggle
<1>5. QED
  BY <1>2, <1>3, <1>4

\* Every reachable state is well typed.
THEOREM AdminTypeCorrect == Spec => []TypeOK
<1> USE OpsAssumption, NoneAssumption
<1>1. Init => TypeOK
  <2> SUFFICES ASSUME Init PROVE TypeOK
    OBVIOUS
  <2>1. head \in Row
    BY DEF Init, Row, State
  <2>2. reqs \in [Requests -> Request] /\ \A r \in Requests : reqs[r].pc = "done"
    BY DoneType DEF Init
  <2>3. tabs \in [Tabs -> Row] /\ phase \in 0..2
    BY <2>1 DEF Init
  <2>4. QED
    BY <2>1, <2>2, <2>3 DEF Init, TypeOK
<1>2. TypeOK /\ [Next]_vars => TypeOK'
  <2> SUFFICES ASSUME TypeOK, [Next]_vars PROVE TypeOK'
    OBVIOUS
  <2>0. /\ head \in Row /\ tabs \in [Tabs -> Row] /\ phase \in 0..2
        /\ tests \subseteq Ballots /\ stored \subseteq Ballots
        /\ accepted \subseteq Ballots /\ cast \subseteq Ballots /\ head.state \in State
        /\ \A r \in Requests : reqs[r].pc # "done" => reqs[r].row \in Row
    BY DEF TypeOK, Row
  <2>1. ASSUME NEW r \in Requests, NEW op \in OtherOps, Arrive(r, op) PROVE TypeOK'
    <3> DEFINE rec == [Done EXCEPT !.pc = "auth", !.op = op, !.row = head]
    <3>1. /\ rec \in Request /\ rec.pc = "auth" /\ rec.op = op
          /\ rec.row = head /\ rec.sent = None
      BY <2>0 DEF Done, Request
    <3>2. op \in Ops /\ op \notin TabWrites
      OBVIOUS
    <3> HIDE DEF rec
    <3>3. reqs' = [reqs EXCEPT ![r] = rec]
      BY <2>1 DEF Arrive, rec
    <3>4. QED
      BY <2>0, <2>1, <3>1, <3>2, <3>3, RequestStep DEF Arrive, boxes
  <2>2. ASSUME NEW r \in Requests, NEW t \in Tabs, NEW op \in TabWrites, Send(r, t, op)
        PROVE  TypeOK'
    <3>1. [tabs[t] EXCEPT !.on = Toggle(@, "setup")] \in Row
      BY <2>0 DEF Row, Toggle, Fields
    <3>2. tabs' \in [Tabs -> Row]
      BY <2>0, <2>2, <3>1 DEF Send
    <3> DEFINE rec == [pc |-> "auth", op |-> op, row |-> head, sent |-> tabs'[t], tab |-> t]
    <3>3. /\ rec \in Request /\ rec.pc = "auth" /\ rec.op = op
          /\ rec.row = head /\ rec.sent \in Row
      BY <2>0, <3>2 DEF Request, Ops
    <3>4. op \in Ops
      BY DEF Ops
    <3> HIDE DEF rec
    <3>5. reqs' = [reqs EXCEPT ![r] = rec]
      BY <2>2 DEF Send, rec
    <3>6. QED
      BY <2>0, <2>2, <3>2, <3>3, <3>4, <3>5, RequestStep DEF Send, boxes
  <2>3. ASSUME NEW t \in Tabs, Refresh(t) PROVE TypeOK'
    BY <2>0, <2>3 DEF Refresh, TypeOK, boxes
  <2>4. ASSUME NEW r \in Requests, Disconnect(r) PROVE TypeOK'
    <3> DEFINE rec == [reqs[r] EXCEPT !.tab = None]
    <3>1. reqs[r] \in Request /\ reqs' = [reqs EXCEPT ![r] = rec]
      BY <2>4 DEF Disconnect, TypeOK
    <3>2. /\ rec \in Request /\ rec.pc = reqs[r].pc /\ rec.op = reqs[r].op
          /\ rec.row = reqs[r].row /\ rec.sent = reqs[r].sent
      BY <3>1 DEF Request
    <3> HIDE DEF rec
    <3>3. rec.pc # "done" => /\ rec.op \in Ops /\ rec.row \in Row
                             /\ rec.op \in TabWrites <=> rec.sent \in Row
                             /\ rec.pc = "clear" => rec.op = "finalize"
      BY <3>2 DEF TypeOK
    <3>4. QED
      BY <2>0, <2>4, <3>1, <3>2, <3>3, RequestStep DEF Disconnect, boxes
  <2>5. ASSUME NEW r \in Requests, KeepState(r) PROVE TypeOK'
    <3>1. AfterAuth(r) \in {"reread", "handle"}
      BY DEF AfterAuth
    <3>2. reqs[r] = [reqs[r] EXCEPT !.row = reqs[r].row]
      BY DEF TypeOK, Request
    <3>3. reqs' = [reqs EXCEPT ![r].pc = AfterAuth(r), ![r].row = reqs[r].row]
      BY <2>5, <3>2 DEF KeepState, TypeOK, Request
    <3>4. QED
      BY <2>0, <2>5, <3>1, <3>3, MoveStep DEF KeepState
  <2>6. ASSUME NEW r \in Requests, NEW v \in Versions \ Held, Transit(r, v) PROVE TypeOK'
    <3>1. reqs[r].row \in Row /\ reqs[r].pc # "done"
      BY <2>0, <2>6 DEF Transit
    <3>2. head' \in Row
      BY <2>6, <3>1, ScheduledType DEF Transit, Row
    <3>3. AfterAuth(r) \in {"reread", "handle"}
      BY DEF AfterAuth
    <3>4. QED
      BY <2>6, <3>1, <3>2, <3>3, MoveStep DEF Transit
  <2>7. ASSUME NEW r \in Requests, LoseTransit(r) PROVE TypeOK'
    <3>1. reqs[r].row \in Row /\ reqs[r].pc # "done"
      BY <2>0, <2>7 DEF LoseTransit
    <3>2. [reqs[r].row EXCEPT !.state = Scheduled(@)] \in Row
      BY <3>1, ScheduledType DEF Row
    <3>3. reqs' = [reqs EXCEPT ![r].pc = "reread",
                               ![r].row = [reqs[r].row EXCEPT !.state = Scheduled(@)]]
      BY <2>7 DEF LoseTransit
    <3>4. QED
      BY <2>0, <2>7, <3>1, <3>2, <3>3, MoveStep DEF LoseTransit
  <2>8. ASSUME NEW r \in Requests, Reread(r) PROVE TypeOK'
    BY <2>0, <2>8, MoveStep DEF Reread
  <2>9. ASSUME NEW r \in Requests, NEW v \in Versions \ Held, Write(r, v) PROVE TypeOK'
    <3>1. NewRow(r) \in Row /\ reqs[r].op \in Ops
      BY <2>9, NewRowType DEF Write, Writes, Ops
    <3>2. head' \in Row
      BY <2>9, <3>1 DEF Write, Row
    <3>3. CASE reqs[r].op = "finalize"
      <4> DEFINE rec == [reqs[r] EXCEPT !.pc = "clear", !.sent.version = v]
      <4>1. reqs[r] \in Request /\ reqs[r].sent \in Row /\ reqs[r].row \in Row
        BY <2>9, <3>3 DEF Write, Writes, TypeOK, TabWrites
      <4>2. [reqs[r].sent EXCEPT !.version = v] \in Row
        BY <4>1 DEF Row
      <4>3. /\ rec \in Request /\ rec.op = reqs[r].op
            /\ rec.row \in Row /\ rec.sent \in Row
        BY <4>1, <4>2 DEF Request
      <4>4. reqs' = [reqs EXCEPT ![r] = rec]
        BY <2>9, <3>3 DEF Write
      <4> HIDE DEF rec
      <4>5. QED
        BY <2>0, <2>9, <3>1, <3>2, <3>3, <4>3, <4>4, RequestStep
        DEF Write, boxes, TabWrites
    <3>4. CASE reqs[r].op # "finalize"
      BY <2>0, <2>9, <3>2, <3>4, AnswerType, DoneStep DEF Write, Answer, boxes
    <3>5. QED
      BY <3>3, <3>4
  <2>10. ASSUME NEW r \in Requests, Conflict(r) \/ Refuse(r) \/ View(r) \/ Fail(r)
         PROVE  TypeOK'
    BY <2>0, <2>10, DoneStep DEF Conflict, Refuse, View, Fail, boxes
  <2>11. ASSUME NEW r \in Requests, ClearAfterFinalize(r) PROVE TypeOK'
    <3>1. reqs[r].sent.version \in Versions
      BY <2>11 DEF ClearAfterFinalize, TypeOK, Row, TabWrites
    <3>2. QED
      BY <2>0, <2>11, <3>1, AnswerType, DoneStep DEF ClearAfterFinalize, Answer
  <2>12. ASSUME NEW r \in Requests, DeleteBallots(r) PROVE TypeOK'
    BY <2>0, <2>12, DoneStep DEF DeleteBallots
  <2>13. ASSUME NEW r \in Requests, NEW b \in Ballots, CastTest(r, b) \/ CastReal(r, b)
         PROVE  TypeOK'
    BY <2>0, <2>13, DoneStep DEF CastTest, CastReal
  <2>14. ASSUME NEW r \in Requests, NEW b \in Ballots, UploadBallot(r, b) PROVE TypeOK'
    BY <2>0, <2>14 DEF UploadBallot, TypeOK
  <2>15. ASSUME NEW r \in Requests, EndUpload(r) PROVE TypeOK'
    BY <2>0, <2>15, DoneStep DEF EndUpload, boxes
  <2>16. CASE Tick
    BY <2>0, <2>16 DEF Tick, TypeOK, boxes
  <2>17. CASE UNCHANGED vars
    BY <2>17 DEF vars, boxes, TypeOK
  <2>18. QED
    BY <2>1, <2>2, <2>3, <2>4, <2>5, <2>6, <2>7, <2>8, <2>9, <2>10, <2>11, <2>12,
       <2>13, <2>14, <2>15, <2>16, <2>17
    DEF Next, Step
<1>3. QED
  BY <1>1, <1>2, PTL DEF Spec

-----------------------------------------------------------------------------
(* The inductive invariant.                                                *)

\* A version that nobody holds differs from all that are compared with it.
LEMMA FreshVersion ==
  ASSUME TypeOK, NEW v \in Versions \ Held
  PROVE  /\ v # head.version
         /\ \A t \in Tabs : v # tabs[t].version
         /\ \A r \in Requests : reqs[r].pc # "done" =>
              /\ v # reqs[r].row.version
              /\ reqs[r].op \in TabWrites => v # reqs[r].sent.version
<1>1. \A r \in Requests : \A row \in {reqs[r].row, reqs[r].sent} \ {None} : row.version # v
  BY DEF Held
<1>2. \A r \in Requests : reqs[r].pc # "done" =>
        /\ reqs[r].row # None
        /\ reqs[r].op \in TabWrites => reqs[r].sent # None
  BY NoneAssumption DEF TypeOK
<1>3. QED
  BY <1>1, <1>2 DEF Held

\* RequestInv of a request that a step leaves alone.
LEMMA RequestKept ==
  ASSUME NEW q \in Requests, RequestInv(q),
         reqs'[q].pc = reqs[q].pc, reqs'[q].op = reqs[q].op,
         reqs'[q].row = reqs[q].row, reqs'[q].sent = reqs[q].sent, head' = head
  PROVE  RequestInv(q)'
BY DEF RequestInv

LEMMA RequestPassed ==
  ASSUME TypeOK, NEW q \in Requests, reqs'[q] = reqs[q],
         NEW v \in Versions \ Held, head'.version = v
  PROVE  RequestInv(q)'
<1>1. reqs[q].pc # "done" =>
        /\ v # reqs[q].row.version
        /\ reqs[q].op \in TabWrites => v # reqs[q].sent.version
  BY FreshVersion
<1>2. QED
  BY <1>1 DEF RequestInv

\* RequestInv when the head stays and only r's record changes.
LEMMA RequestsStep ==
  ASSUME TypeOK, \A q \in Requests : RequestInv(q), NEW r \in Requests,
         \A q \in Requests : q # r => reqs'[q] = reqs[q],
         RequestInv(r)', head' = head
  PROVE  \A q \in Requests : RequestInv(q)'
<1> SUFFICES ASSUME NEW q \in Requests, q # r PROVE RequestInv(q)'
  OBVIOUS
<1>1. QED
  BY RequestKept

\* A request that ends, the tabs and the head staying.
LEMMA EndInv ==
  ASSUME TypeOK, AdminInv, NEW r \in Requests,
         reqs' = [reqs EXCEPT ![r] = Done], UNCHANGED <<head, tabs>>
  PROVE  AdminInv'
<1>0. reqs'[r] = Done /\ \A q \in Requests : q # r => reqs'[q] = reqs[q]
  BY DEF TypeOK
<1>1. \A q \in Requests : RequestInv(q)'
  <2>1. RequestInv(r)'
    BY <1>0 DEF RequestInv, Done
  <2>2. QED
    BY <1>0, <2>1, RequestsStep DEF AdminInv
<1>2. InFlightInv'
  BY <1>0 DEF AdminInv, InFlightInv, Done
<1>3. EditorsOnlyEdit => EditInv'
  BY <1>0 DEF AdminInv, EditInv, Agrees, Done
<1>4. QED
  BY <1>1, <1>2, <1>3 DEF AdminInv, EditorsOnlyEdit

\* A request that goes on with pc and row changed, the tabs and the head
\* staying.
LEMMA GoOnInv ==
  ASSUME TypeOK, AdminInv, NEW r \in Requests, reqs[r].pc # "done",
         \A q \in Requests : q # r => reqs'[q] = reqs[q],
         reqs'[r].pc # "done", reqs'[r].op = reqs[r].op,
         reqs'[r].sent = reqs[r].sent,
         reqs'[r].tab = reqs[r].tab \/ reqs'[r].tab = None,
         RequestInv(r)', UNCHANGED <<head, tabs>>
  PROVE  AdminInv'
<1>1. \A q \in Requests : RequestInv(q)'
  BY RequestsStep DEF AdminInv
<1>2. InFlightInv'
  BY DEF AdminInv, InFlightInv
<1>3. EditorsOnlyEdit => EditInv'
  BY DEF AdminInv, EditInv, Agrees
<1>4. QED
  BY <1>1, <1>2, <1>3 DEF AdminInv, EditorsOnlyEdit

LEMMA ArriveInv ==
  ASSUME TypeOK, AdminInv, NEW r \in Requests, NEW op \in OtherOps, Arrive(r, op)
  PROVE  AdminInv'
<1>0. /\ \A q \in Requests : q # r => reqs'[q] = reqs[q]
      /\ reqs'[r] = [Done EXCEPT !.pc = "auth", !.op = op, !.row = head]
      /\ UNCHANGED <<head, tabs>>
  BY DEF Arrive, TypeOK
<1>1. /\ reqs'[r].row = head /\ reqs'[r].op \notin TabWrites
      /\ reqs'[r].tab = None /\ reqs'[r].op # "edit"
  BY <1>0, OpsAssumption DEF Done, TabWrites
<1>2. \A q \in Requests : RequestInv(q)'
  <2>1. RequestInv(r)'
    BY <1>0, <1>1 DEF RequestInv
  <2>2. QED
    BY <1>0, <2>1, RequestsStep DEF AdminInv
<1>3. InFlightInv'
  <2>1. /\ \A q \in Requests : q # r => reqs'[q] = reqs[q]
        /\ reqs'[r].tab = None /\ tabs' = tabs
    BY <1>0, <1>1
  <2>2. QED
    BY <2>1 DEF AdminInv, InFlightInv
<1>4. EditorsOnlyEdit => EditInv'
  BY <1>0, <1>1 DEF AdminInv, EditInv, Agrees
<1>5. QED
  BY <1>2, <1>3, <1>4 DEF AdminInv, EditorsOnlyEdit

LEMMA SendInv ==
  ASSUME TypeOK, AdminInv, NEW r \in Requests, NEW t \in Tabs, NEW op \in TabWrites,
         Send(r, t, op)
  PROVE  AdminInv'
<1>0. /\ \A q \in Requests : q # r => reqs'[q] = reqs[q]
      /\ reqs'[r] = [pc |-> "auth", op |-> op, row |-> head, sent |-> tabs'[t], tab |-> t]
      /\ head' = head /\ op \in TabOps[t] /\ reqs[r].pc = "done"
      /\ \A q \in Requests : reqs[q].tab # t
  BY DEF Send, TypeOK
<1>1. /\ \A s \in Tabs : s # t => tabs'[s] = tabs[s]
      /\ op # "edit" => tabs' = tabs
      /\ tabs'[t].version = tabs[t].version /\ tabs'[t].state = tabs[t].state
      /\ tabs'[t].on \ {"setup"} = tabs[t].on \ {"setup"}
  BY DEF Send, TypeOK, Row, Toggle
<1>2. \A q \in Requests : RequestInv(q)'
  <2>1. RequestInv(r)'
    BY <1>0 DEF RequestInv
  <2>2. QED
    BY <1>0, <2>1, RequestsStep DEF AdminInv
<1>3. InFlightInv'
  <2>1. \A q \in Requests : q # r /\ reqs[q].tab # None => tabs'[reqs[q].tab] = tabs[reqs[q].tab]
    BY <1>0, <1>1 DEF TypeOK, Request
  <2>2. t # None
    BY NoneAssumption
  <2>3. QED
    BY <1>0, <2>1, <2>2 DEF AdminInv, InFlightInv
<1>4. EditorsOnlyEdit => EditInv'
  BY <1>0, <1>1 DEF AdminInv, EditInv, Agrees
<1>5. QED
  BY <1>2, <1>3, <1>4 DEF AdminInv, EditorsOnlyEdit

LEMMA RefreshInv ==
  ASSUME TypeOK, AdminInv, NEW t \in Tabs, Refresh(t)
  PROVE  AdminInv'
<1>0. /\ UNCHANGED <<head, reqs>> /\ \A q \in Requests : reqs[q].tab # t
      /\ \A s \in Tabs : s # t => tabs'[s] = tabs[s]
      /\ tabs'[t] = head
  BY DEF Refresh, TypeOK
<1>1. \A q \in Requests : RequestInv(q)'
  BY <1>0, RequestKept DEF AdminInv
<1>2. InFlightInv'
  BY <1>0 DEF AdminInv, InFlightInv, TypeOK, Request
<1>3. EditorsOnlyEdit => EditInv'
  BY <1>0 DEF AdminInv, EditInv, Agrees
<1>4. QED
  BY <1>1, <1>2, <1>3 DEF AdminInv, EditorsOnlyEdit

\* A request moves the state along the schedule.
LEMMA TransitInv ==
  ASSUME TypeOK, AdminInv, NEW r \in Requests, NEW v \in Versions \ Held, Transit(r, v)
  PROVE  AdminInv'
<1>0. /\ \A q \in Requests : q # r => reqs'[q] = reqs[q]
      /\ tabs' = tabs /\ reqs[r].pc # "done" /\ reqs'[r].pc # "done"
      /\ reqs'[r].op = reqs[r].op /\ reqs'[r].sent = reqs[r].sent
      /\ reqs'[r].tab = reqs[r].tab /\ reqs'[r].row = head'
  BY DEF Transit, TypeOK, Request, AfterAuth
<1>1. head'.version = v
  BY DEF Transit, TypeOK, Row
<1>2. /\ \A t \in Tabs : tabs'[t].version # head'.version
      /\ \A q \in Requests : reqs[q].pc # "done" /\ reqs[q].op \in TabWrites =>
           reqs'[q].sent.version # head'.version
  BY <1>0, <1>1, FreshVersion
<1>3. \A q \in Requests : RequestInv(q)'
  <2>1. RequestInv(r)'
    BY <1>0, <1>2 DEF RequestInv
  <2>2. QED
    BY <1>0, <1>1, <2>1, RequestPassed
<1>4. InFlightInv'
  BY <1>0 DEF AdminInv, InFlightInv
<1>5. EditInv'
  BY <1>0, <1>2 DEF EditInv, Agrees, TabWrites
<1>6. QED
  BY <1>3, <1>4, <1>5 DEF AdminInv

\* The answer to a write: r ends, and only the tab that waited for it, if
\* there is one, has changed.
LEMMA AnswerFacts ==
  ASSUME TypeOK, AdminInv, NEW r \in Requests, NEW v \in Versions, Answer(r, v)
  PROVE  /\ reqs'[r] = Done
         /\ \A q \in Requests : q # r => reqs'[q] = reqs[q]
         /\ \A t \in Tabs : t # reqs[r].tab => tabs'[t] = tabs[t]
         /\ \A t \in Tabs : t = reqs[r].tab => tabs'[t] = [tabs[t] EXCEPT !.version = v]
         /\ InFlightInv'
<1>1. /\ reqs'[r] = Done /\ reqs'[r].tab = None
      /\ \A q \in Requests : q # r => reqs'[q] = reqs[q]
  BY DEF Answer, TypeOK, Done
<1>2. /\ \A t \in Tabs : t # reqs[r].tab => tabs'[t] = tabs[t]
      /\ \A t \in Tabs : t = reqs[r].tab => tabs'[t] = [tabs[t] EXCEPT !.version = v]
  BY NoneAssumption DEF Answer, TypeOK
<1>3. \A q \in Requests : q # r /\ reqs[q].tab # None =>
        tabs'[reqs[q].tab] = tabs[reqs[q].tab]
  BY <1>2 DEF AdminInv, InFlightInv, TypeOK, Request
<1>4. InFlightInv'
  BY <1>1, <1>3 DEF AdminInv, InFlightInv
<1>5. QED
  BY <1>1, <1>2, <1>4

\* A handler's write.
LEMMA WriteInv ==
  ASSUME TypeOK, AdminInv, NEW r \in Requests, NEW v \in Versions \ Held, Write(r, v)
  PROVE  AdminInv'
<1>0. reqs[r].pc = "handle" /\ reqs[r] \in Request /\ NewRow(r) \in Row
  BY NewRowType DEF Write, Writes, TypeOK
<1>1. head' = [NewRow(r) EXCEPT !.version = v] /\ head'.version = v
  BY <1>0 DEF Write, Row
<1>2. /\ \A t \in Tabs : tabs[t].version # head'.version
      /\ \A q \in Requests : reqs[q].pc # "done" /\ reqs[q].op \in TabWrites =>
           reqs[q].sent.version # head'.version
  BY <1>1, FreshVersion
<1>3. CASE reqs[r].op = "finalize"
  <2>1. /\ \A q \in Requests : q # r => reqs'[q] = reqs[q]
        /\ reqs'[r].pc = "clear" /\ reqs'[r].op = reqs[r].op
        /\ reqs'[r].tab = reqs[r].tab /\ tabs' = tabs
    BY <1>0, <1>3 DEF Write, TypeOK, Request
  <2>2. \A q \in Requests : RequestInv(q)'
    <3>1. RequestInv(r)'
      BY <2>1 DEF RequestInv
    <3>2. QED
      BY <1>1, <2>1, <3>1, RequestPassed
  <2>3. InFlightInv'
    BY <1>0, <1>3, <2>1 DEF AdminInv, InFlightInv
  <2>4. EditInv'
    BY <1>2, <1>3, <2>1 DEF EditInv, Agrees, TabWrites
  <2>5. QED
    BY <2>2, <2>3, <2>4 DEF AdminInv
<1>4. CASE reqs[r].op # "finalize"
  <2>1. Answer(r, v)
    BY <1>4 DEF Write
  <2>2. /\ reqs'[r] = Done
        /\ \A q \in Requests : q # r => reqs'[q] = reqs[q]
        /\ \A t \in Tabs : t # reqs[r].tab => tabs'[t] = tabs[t]
        /\ \A t \in Tabs : t = reqs[r].tab => tabs'[t] = [tabs[t] EXCEPT !.version = v]
        /\ InFlightInv'
    BY <2>1, AnswerFacts
  <2>3. \A q \in Requests : RequestInv(q)'
    <3>1. RequestInv(r)'
      BY <2>2 DEF RequestInv, Done
    <3>2. QED
      BY <1>1, <2>2, <3>1, RequestPassed
  <2>4. ASSUME EditorsOnlyEdit, NEW t \in Tabs, "edit" \in TabOps[t]
        PROVE  Agrees(tabs[t])'
    <3>1. CASE t = reqs[r].tab
      <4>1. reqs[r].op = "edit" /\ reqs[r].sent = tabs[t]
        BY <1>0, <2>4, <3>1, NoneAssumption DEF AdminInv, InFlightInv, EditorsOnlyEdit
      <4>2. head' = [tabs[t] EXCEPT !.version = v]
        BY <1>1, <4>1 DEF NewRow, Target
      <4>3. QED
        BY <2>2, <3>1, <4>2 DEF Agrees
    <3>2. CASE t # reqs[r].tab
      BY <1>2, <2>2, <3>2 DEF Agrees
    <3>3. QED
      BY <3>1, <3>2
  <2>5. \A q \in Requests :
          reqs'[q].pc # "done" /\ reqs'[q].op = "edit" => Agrees(reqs[q].sent)'
    BY <1>2, <2>2 DEF Agrees, Done, TabWrites
  <2>6. QED
    BY <2>2, <2>3, <2>4, <2>5 DEF AdminInv, EditInv, EditorsOnlyEdit
<1>5. QED
  BY <1>3, <1>4

\* finalizeElection answers after the deletion.
LEMMA ClearInv ==
  ASSUME TypeOK, AdminInv, NEW r \in Requests, ClearAfterFinalize(r)
  PROVE  AdminInv'
<1>0. /\ reqs[r].op = "finalize" /\ reqs[r].sent.version \in Versions
      /\ head' = head /\ Answer(r, reqs[r].sent.version)
  BY DEF ClearAfterFinalize, TypeOK, Row, TabWrites
<1>1. /\ reqs'[r] = Done
      /\ \A q \in Requests : q # r => reqs'[q] = reqs[q]
      /\ \A t \in Tabs : t # reqs[r].tab => tabs'[t] = tabs[t]
      /\ InFlightInv'
  BY <1>0, AnswerFacts
<1>2. \A q \in Requests : RequestInv(q)'
  <2>1. RequestInv(r)'
    BY <1>1 DEF RequestInv, Done
  <2>2. QED
    BY <1>0, <1>1, <2>1, RequestsStep DEF AdminInv
<1>3. EditorsOnlyEdit => EditInv'
  <2> SUFFICES ASSUME EditorsOnlyEdit PROVE EditInv'
    OBVIOUS
  <2>1. \A t \in Tabs : "edit" \in TabOps[t] => t # reqs[r].tab
    BY <1>0, NoneAssumption DEF AdminInv, InFlightInv, EditorsOnlyEdit
  <2>2. QED
    BY <1>0, <1>1, <2>1 DEF AdminInv, EditInv, Agrees, Done
<1>4. QED
  BY <1>1, <1>2, <1>3 DEF AdminInv, EditorsOnlyEdit

\* A step of a well typed state keeps the invariant.
LEMMA AdminStep == TypeOK /\ AdminInv /\ [Next]_vars => AdminInv'
<1> SUFFICES ASSUME TypeOK, AdminInv, [Next]_vars PROVE AdminInv'
  OBVIOUS
<1>1. ASSUME NEW r \in Requests, KeepState(r) \/ LoseTransit(r) \/ Reread(r) \/ Disconnect(r)
      PROVE  AdminInv'
  <2>1. /\ \A q \in Requests : q # r => reqs'[q] = reqs[q]
        /\ UNCHANGED <<head, tabs>>
        /\ reqs'[r].pc # "done" \/ Disconnect(r)
        /\ reqs'[r].op = reqs[r].op /\ reqs'[r].sent = reqs[r].sent
        /\ reqs'[r].tab = reqs[r].tab \/ reqs'[r].tab = None
    BY <1>1 DEF KeepState, LoseTransit, Reread, Disconnect, TypeOK, Request, AfterAuth
  <2>2. reqs[r].pc # "done" /\ (Disconnect(r) => reqs'[r].pc = reqs[r].pc)
    BY <1>1 DEF KeepState, LoseTransit, Reread, Disconnect, TypeOK, Request,
                AdminInv, InFlightInv
  <2>3. RequestInv(r)'
    <3>1. CASE KeepState(r) \/ Disconnect(r)
      BY <3>1 DEF KeepState, Disconnect, AfterAuth, AdminInv, RequestInv, TypeOK, Request
    <3>2. CASE LoseTransit(r)
      BY <3>2 DEF LoseTransit, RequestInv, TypeOK, Request
    <3>3. CASE Reread(r)
      BY <3>3 DEF Reread, RequestInv, TypeOK, Request
    <3>4. QED
      BY <1>1, <3>1, <3>2, <3>3
  <2>4. QED
    BY <2>1, <2>2, <2>3, GoOnInv
<1>2. ASSUME NEW r \in Requests,
             \/ Conflict(r) \/ Refuse(r) \/ View(r) \/ Fail(r) \/ DeleteBallots(r)
             \/ EndUpload(r)
      PROVE  AdminInv'
  BY <1>2, EndInv DEF Conflict, Refuse, View, Fail, DeleteBallots, EndUpload
<1>3. ASSUME NEW r \in Requests, NEW b \in Ballots, CastTest(r, b) \/ CastReal(r, b)
      PROVE  AdminInv'
  BY <1>3, EndInv DEF CastTest, CastReal
<1>4. CASE Tick \/ (\E r \in Requests, b \in Ballots : UploadBallot(r, b)) \/ UNCHANGED vars
  BY <1>4, RequestKept DEF Tick, UploadBallot, vars, AdminInv, InFlightInv, EditInv,
                           Agrees, EditorsOnlyEdit
<1>5. QED
  BY <1>1, <1>2, <1>3, <1>4, ArriveInv, SendInv, RefreshInv, TransitInv, WriteInv, ClearInv
  DEF Next, Step

\* Requests and tabs that pass the version check hold what the head row
\* holds.
THEOREM AdminInvariant == Spec => []AdminInv
<1>1. Init => AdminInv
  <2> SUFFICES ASSUME Init PROVE AdminInv
    OBVIOUS
  <2>1. \A r \in Requests : reqs[r].pc = "done" /\ reqs[r].tab = None
    BY DEF Init, Done
  <2>2. QED
    BY <2>1 DEF Init, AdminInv, RequestInv, InFlightInv, EditInv, Agrees
<1>2. QED
  BY <1>1, AdminStep, AdminTypeCorrect, PTL DEF Spec

-----------------------------------------------------------------------------
(* ElectionAdmin implements ElectionLife.                                  *)

\* A request that moves the state holds the head row, and moves the head by
\* the clock.
LEMMA TransitLife ==
  ASSUME TypeOK, AdminInv, NEW r \in Requests, NEW v \in Versions \ Held, Transit(r, v)
  PROVE  Life!Open \/ Life!Close
<1>1. reqs[r].row = head
  BY DEF Transit, AdminInv, RequestInv
<1>2. /\ head'.state = Scheduled(head.state) /\ head'.on = head.on /\ phase' = phase
      /\ Scheduled(head.state) # head.state
  BY <1>1 DEF Transit, TypeOK, Row
<1>3. CASE head.state = "finalized" /\ Started /\ ~Ended
  BY <1>2, <1>3 DEF Scheduled, Started, Ended,
                    Life!Open, Life!Become, Life!Started
<1>4. CASE head.state = "finalized" /\ Started /\ Ended
  BY <1>2, <1>4 DEF Scheduled, Started, Ended,
                    Life!Close, Life!Become, Life!Started, Life!Ended
<1>5. CASE head.state = "open" /\ Ended
  BY <1>2, <1>5 DEF Scheduled, Ended, Life!Close, Life!Become, Life!Ended
<1>6. QED
  BY <1>2, <1>3, <1>4, <1>5 DEF Scheduled

\* A handler's write is the step on the current row that the handler is for.
LEMMA WriteLife ==
  ASSUME EditorsOnlyEdit, TypeOK, AdminInv, NEW r \in Requests,
         NEW v \in Versions \ Held, Write(r, v)
  PROVE  [Life!Next]_(Life!life)
<1>0. /\ reqs[r].pc = "handle" /\ Allowed(r) /\ NewRow(r) \in Row
      /\ reqs[r].op \in TabWrites \cup ServerWrites /\ phase' = phase
  BY NewRowType DEF Write, Writes, boxes
<1>1. head'.state = NewRow(r).state /\ head'.on = NewRow(r).on
  BY <1>0 DEF Write, Row
<1>2. reqs[r].row = head
  BY <1>0 DEF Write, Expected, AdminInv, RequestInv
<1>3. CASE reqs[r].op = "edit"
  <2>1. reqs[r].sent.version = head.version
    BY <1>3 DEF Write, Expected, TabWrites
  <2>2. Agrees(reqs[r].sent)
    BY <1>0, <1>3 DEF AdminInv, EditInv
  <2>3. /\ head'.state = reqs[r].sent.state /\ head'.on = reqs[r].sent.on
        /\ reqs[r].sent.state = "draft"
    BY <1>0, <1>1, <1>3 DEF NewRow, Target, Allowed
  <2>4. head.state = "draft" /\ head'.state = "draft"
        /\ head'.on \ {"setup"} = head.on \ {"setup"}
    BY <2>1, <2>2, <2>3 DEF Agrees
  <2>5. \/ head'.on = head.on
        \/ head'.on = (head.on \ {"setup"}) \cup ({"setup"} \ head.on)
    BY <2>4
  <2>6. CASE head'.on = head.on
    BY <1>0, <2>4, <2>6 DEF Life!life
  <2>7. CASE head'.on = (head.on \ {"setup"}) \cup ({"setup"} \ head.on)
    BY <1>0, <2>4, <2>7 DEF Life!Set, Life!Next, Fields
  <2>8. QED
    BY <2>5, <2>6, <2>7
<1>4. CASE reqs[r].op \in DOMAIN Target
  <2>1. head'.state = Target[reqs[r].op] /\ head'.on = head.on
    <3>1. NewRow(r) = [head EXCEPT !.state = Target[reqs[r].op]]
      BY <1>2, <1>4 DEF NewRow, Target
    <3>2. QED
      BY <1>1, <3>1 DEF TypeOK, Row
  <2>2. CASE reqs[r].op = "finalize"
    BY <1>0, <1>2, <2>1, <2>2 DEF Allowed, Target, Life!Next, Life!Finalize, Life!Become
  <2>3. CASE reqs[r].op = "open"
    BY <1>0, <1>2, <2>1, <2>3 DEF Allowed, Target, Life!Next, Life!ByHand, Life!Become
  <2>4. CASE reqs[r].op = "close"
    BY <1>0, <1>2, <2>1, <2>4 DEF Allowed, Target, Life!Next, Life!ByHand, Life!Become
  <2>5. CASE reqs[r].op = "archive"
    BY <1>0, <1>2, <2>1, <2>5 DEF Allowed, Target, Life!Next, Life!Archive, Life!Become
  <2>6. QED
    BY <1>4, <2>2, <2>3, <2>4, <2>5 DEF Target
<1>5. CASE reqs[r].op # "edit" /\ reqs[r].op \notin DOMAIN Target
  <2>1. reqs[r].op \in Fields /\ reqs[r].op # "setup"
    BY <1>0, <1>5 DEF TabWrites, ServerWrites, Target, Fields
  <2>2. NewRow(r) = [head EXCEPT !.on = Toggle(@, reqs[r].op)]
    BY <1>2, <1>5 DEF NewRow
  <2>3. /\ head'.state = head.state
        /\ head'.on = (head.on \ {reqs[r].op}) \cup ({reqs[r].op} \ head.on)
    BY <1>1, <2>2 DEF TypeOK, Row, Toggle
  <2>4. QED
    BY <1>0, <2>1, <2>3 DEF Life!Set, Life!Next
<1>6. QED
  BY <1>3, <1>4, <1>5

\* Every step is a step of the election's life or leaves it alone.
LEMMA LifeStep ==
  EditorsOnlyEdit /\ TypeOK /\ AdminInv /\ [Next]_vars => [Life!Next]_(Life!life)
<1> SUFFICES ASSUME EditorsOnlyEdit, TypeOK, AdminInv, [Next]_vars
             PROVE  [Life!Next]_(Life!life)
  OBVIOUS
<1>1. CASE head' = head /\ phase' = phase
  BY <1>1 DEF Life!life
<1>2. CASE Tick
  BY <1>2 DEF Tick, Life!Tick, Life!Next
<1>3. ASSUME NEW r \in Requests, NEW v \in Versions \ Held, Transit(r, v)
      PROVE  [Life!Next]_(Life!life)
  BY <1>3, TransitLife DEF Life!Next
<1>4. ASSUME NEW r \in Requests, NEW v \in Versions \ Held, Write(r, v)
      PROVE  [Life!Next]_(Life!life)
  BY <1>4, WriteLife
<1>5. \/ head' = head /\ phase' = phase
      \/ Tick
      \/ \E r \in Requests, v \in Versions \ Held : Transit(r, v) \/ Write(r, v)
  BY DEF Next, Step, vars, Arrive, Send, Refresh, Disconnect, KeepState, LoseTransit,
         Reread, Conflict, Refuse, View, Fail, ClearAfterFinalize, DeleteBallots,
         CastTest, CastReal, UploadBallot, EndUpload
<1>6. QED
  BY <1>1, <1>2, <1>3, <1>4, <1>5

\* Whatever the requests, the tabs that edit nothing but the setup and the
\* clock do, the head row lives the life of one election.
THEOREM LifeImplemented ==
  ASSUME EditorsOnlyEdit
  PROVE  Spec => ImplementsLife
<1>1. Init => Life!Init
  BY DEF Init, Life!Init
<1>2. TypeOK /\ AdminInv /\ [Next]_vars => [Life!Next]_(Life!life)
  BY LifeStep
<1>3. QED
  BY <1>1, <1>2, AdminTypeCorrect, AdminInvariant, PTL
  DEF Spec, ImplementsLife, Life!Spec

\* A finalized election never becomes a draft again, if no tab mixes edits
\* of the setup with other writes.
THEOREM NoReturnToDraft ==
  ASSUME EditorsOnlyEdit
  PROVE  Spec => NeverBackToDraft
<1>1. [Life!Next]_(Life!life) => (head.state # "draft" => head'.state # "draft")
  BY DEF Life!Next, Life!life, Life!Finalize, Life!Open, Life!Close, Life!ByHand,
         Life!Archive, Life!Set, Life!Tick, Life!Become
<1>2. QED
  BY <1>1, LifeImplemented, PTL DEF ImplementsLife, Life!Spec, NeverBackToDraft

-----------------------------------------------------------------------------
(* Votes follow the opening.                                               *)

Opened == {"open", "closed", "archived"}

Fixed == {"finalized", "open", "closed", "archived"}

\* What a request was given of the state still holds: if its row was in one
\* of these states, the head is.
SeenIn(states) ==
  \A r \in Requests :
    reqs[r].pc \in {"auth", "handle"} /\ reqs[r].row.state \in states =>
      head.state \in states

OpenedInv ==
  /\ cast # {} => head.state \in Opened
  /\ accepted # {} => head.state \in Fixed
  /\ SeenIn(Opened) /\ SeenIn(Fixed)

\* Once opened, always opened; once finalized, never a draft.
LEMMA OpenedStays ==
  ASSUME NEW states \in {Opened, Fixed}, [Life!Next]_(Life!life), head.state \in states
  PROVE  head'.state \in states
<1>1. CASE states = Opened
  BY <1>1 DEF Opened, Life!Next, Life!life, Life!Finalize, Life!Open, Life!Close,
              Life!ByHand, Life!Archive, Life!Set, Life!Tick, Life!Become
<1>2. CASE states = Fixed
  BY <1>2 DEF Fixed, Life!Next, Life!life, Life!Finalize, Life!Open, Life!Close,
              Life!ByHand, Life!Archive, Life!Set, Life!Tick, Life!Become
<1>3. QED
  BY <1>1, <1>2

LEMMA OpenedStep ==
  EditorsOnlyEdit /\ TypeOK /\ AdminInv /\ OpenedInv /\ [Next]_vars => OpenedInv'
<1> SUFFICES ASSUME EditorsOnlyEdit, TypeOK, AdminInv, OpenedInv, [Next]_vars
             PROVE  OpenedInv'
  OBVIOUS
<1>0. \A states \in {Opened, Fixed} : head.state \in states => head'.state \in states
  BY LifeStep, OpenedStays
<1>1. ASSUME NEW r \in Requests, NEW b \in Ballots, CastReal(r, b) PROVE OpenedInv'
  <2>1. head.state \in Opened /\ head.state \in Fixed /\ head' = head
    BY <1>1 DEF CastReal, OpenedInv, SeenIn, Opened, Fixed
  <2>2. \A q \in Requests :
          reqs'[q].pc \in {"auth", "handle"} => reqs'[q] = reqs[q]
    BY <1>1 DEF CastReal, Done, TypeOK
  <2>3. QED
    BY <2>1, <2>2 DEF OpenedInv, SeenIn
<1>2. ASSUME accepted' = accepted, cast' = cast,
             \A q \in Requests :
               \/ reqs'[q].pc \notin {"auth", "handle"}
               \/ reqs'[q].row = head' \/ reqs'[q].row = head
               \/ /\ reqs[q].pc \in {"auth", "handle"}
                  /\ reqs'[q].row = reqs[q].row
      PROVE  OpenedInv'
  BY <1>0, <1>2 DEF OpenedInv, SeenIn
<1>3. ASSUME NEW r \in Requests, accepted' = accepted, cast' = cast,
             reqs' = [reqs EXCEPT ![r] = Done]
      PROVE  OpenedInv'
  BY <1>2, <1>3 DEF Done, TypeOK
<1>4. ASSUME NEW r \in Requests, NEW op \in OtherOps, Arrive(r, op) PROVE OpenedInv'
  <2>1. /\ \A q \in Requests : q # r => reqs'[q] = reqs[q]
        /\ reqs'[r].row = head /\ accepted' = accepted /\ cast' = cast
    BY <1>4 DEF Arrive, TypeOK, Done, boxes
  <2>2. QED
    BY <1>2, <2>1
<1>5. ASSUME NEW r \in Requests, NEW t \in Tabs, NEW op \in TabWrites, Send(r, t, op)
      PROVE  OpenedInv'
  <2>1. /\ \A q \in Requests : q # r => reqs'[q] = reqs[q]
        /\ reqs'[r].row = head /\ accepted' = accepted /\ cast' = cast
    BY <1>5 DEF Send, TypeOK, boxes
  <2>2. QED
    BY <1>2, <2>1
<1>6. ASSUME NEW r \in Requests,
             Disconnect(r) \/ KeepState(r) \/ LoseTransit(r) \/ Reread(r)
      PROVE  OpenedInv'
  <2>1. /\ \A q \in Requests : q # r => reqs'[q] = reqs[q]
        /\ \/ reqs'[r].pc = "reread" \/ reqs'[r].row = head
           \/ reqs'[r].row = reqs[r].row
              /\ (reqs'[r].pc = reqs[r].pc \/ reqs[r].pc = "auth")
        /\ accepted' = accepted /\ cast' = cast
    BY <1>6 DEF Disconnect, KeepState, LoseTransit, Reread, AfterAuth, TypeOK, Request, boxes
  <2>2. QED
    BY <1>2, <2>1
<1>7. ASSUME NEW r \in Requests, NEW v \in Versions \ Held, Transit(r, v) PROVE OpenedInv'
  <2>1. /\ \A q \in Requests : q # r => reqs'[q] = reqs[q]
        /\ reqs'[r].row = head' /\ accepted' = accepted /\ cast' = cast
    BY <1>7 DEF Transit, TypeOK, Request, boxes
  <2>2. QED
    BY <1>2, <2>1
<1>8. ASSUME NEW r \in Requests, NEW v \in Versions \ Held, Write(r, v) PROVE OpenedInv'
  <2>1. /\ \A q \in Requests : q # r => reqs'[q] = reqs[q]
        /\ reqs'[r].pc \notin {"auth", "handle"} /\ accepted' = accepted /\ cast' = cast
    BY <1>8 DEF Write, Answer, Done, TypeOK, Request, boxes
  <2>2. QED
    BY <1>2, <2>1
<1>9. ASSUME NEW r \in Requests, NEW b \in Ballots, CastTest(r, b) PROVE OpenedInv'
  BY <1>3, <1>9 DEF CastTest
<1>10. ASSUME NEW r \in Requests,
              \/ Conflict(r) \/ Refuse(r) \/ View(r) \/ Fail(r) \/ ClearAfterFinalize(r)
              \/ DeleteBallots(r) \/ EndUpload(r)
       PROVE  OpenedInv'
  BY <1>3, <1>10 DEF Conflict, Refuse, View, Fail, ClearAfterFinalize, Answer,
                     DeleteBallots, EndUpload, boxes
<1>11. CASE (\E t \in Tabs : Refresh(t)) \/ Tick \/ UNCHANGED vars
  BY <1>2, <1>11 DEF Refresh, Tick, vars, boxes
<1>12. ASSUME NEW r \in Requests, NEW b \in Ballots, UploadBallot(r, b) PROVE OpenedInv'
  <2>1. CASE reqs[r].row.state = "draft"
    BY <1>2, <1>12, <2>1 DEF UploadBallot
  <2>2. CASE reqs[r].row.state # "draft"
    <3>1. reqs[r].row.state \in Fixed
      BY <1>12, <2>2 DEF UploadBallot, TypeOK, Row, State, Fixed
    <3>2. head.state \in Fixed
      BY <1>12, <3>1 DEF UploadBallot, OpenedInv, SeenIn
    <3>3. UNCHANGED <<head, reqs, cast>>
      BY <1>12 DEF UploadBallot
    <3>4. QED
      BY <3>2, <3>3 DEF OpenedInv, SeenIn
  <2>3. QED
    BY <2>1, <2>2
<1>13. QED
  BY <1>1, <1>4, <1>5, <1>6, <1>7, <1>8, <1>9, <1>10, <1>11, <1>12 DEF Next, Step

\* No ballot a voter cast counts before the election has opened, and no
\* uploaded one before the setup is fixed.
THEOREM NoVoteBeforeOpening ==
  ASSUME EditorsOnlyEdit
  PROVE  Spec => []VotesFollowOpening
<1>1. Init => OpenedInv
  BY DEF Init, OpenedInv, SeenIn, Done
<1>2. TypeOK /\ AdminInv /\ OpenedInv /\ [Next]_vars => OpenedInv'
  BY OpenedStep
<1>3. OpenedInv => VotesFollowOpening
  BY DEF OpenedInv, Opened, Fixed, VotesFollowOpening
<1>4. QED
  BY <1>1, <1>2, <1>3, AdminTypeCorrect, AdminInvariant, PTL DEF Spec

=============================================================================
