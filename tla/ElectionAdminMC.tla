-------------------------- MODULE ElectionAdminMC --------------------------
(***************************************************************************)
(* Instances of ElectionAdmin for TLC.  scheduled is chosen once and says  *)
(* whether the election has a start and an end time.                       *)
(***************************************************************************)
EXTENDS ElectionAdmin, TLC

CONSTANTS t1, t2, Modes

VARIABLE mode

\* One administrator edits the setup, another one finalizes.
EditorAndOwner == t1 :> {"edit"} @@ t2 :> {"finalize"}

\* One administrator changes the roles, another one the state.
RolesAndState == t1 :> {"roles"} @@ t2 :> {"finalize", "open", "close", "archive"}

NoTabs == <<>>

FinalizeTab == t1 :> {"finalize"}

\* One administrator does both in the same tab.
EditFinalizeTab == t1 :> {"edit", "finalize"}

\* The unscheduled election: it opens when it is finalized, and by hand.
Manual == INSTANCE ElectionAdmin WITH
  TabOps <- RolesAndState, OtherOps <- {}, HasStart <- FALSE, HasEnd <- FALSE

ModeInit ==
  /\ mode \in Modes
  /\ IF mode = "manual" THEN Manual!Init ELSE Init

ModeNext ==
  /\ UNCHANGED mode
  /\ \/ mode = "manual" /\ Manual!Next
     \/ mode = "scheduled" /\ Next

ModeSpec == ModeInit /\ [][ModeNext]_<<vars, mode>>

FairSpec == ModeSpec /\ Fairness

\* The inductive invariant of the proofs, for the election at hand.
AdminInvInMode == IF mode = "manual" THEN Manual!AdminInv ELSE AdminInv

\* Seen from the head row, every step of either election is one of its
\* abstract life.
StepsImplementLife ==
  [][IF mode = "manual" THEN [Manual!Life!Next]_<<head.state, head.on, phase>>
                        ELSE [Life!Next]_<<head.state, head.on, phase>>]_vars

Interchangeable ==
  Permutations(Versions) \cup Permutations(Requests) \cup Permutations(Ballots)

=============================================================================
