----------------------------- MODULE CastVoteMC -----------------------------
(***************************************************************************)
(* Instances of CastVote for TLC.  mode is chosen once and names the kind  *)
(* of election; a constant cannot depend on it, so each kind is an         *)
(* instance of its own.                                                    *)
(***************************************************************************)
EXTENDS CastVote, TLC

CONSTANT Modes

VARIABLE mode

Device == INSTANCE CastVote WITH Access <- "device"

Anyone == INSTANCE CastVote WITH Access <- "anyone"

Updates == INSTANCE CastVote WITH BallotUpdates <- TRUE

ModeInit ==
  /\ mode \in Modes
  /\ \/ mode = "closed" /\ Init
     \/ mode = "device" /\ Device!Init
     \/ mode = "anyone" /\ Anyone!Init
     \/ mode = "updates" /\ Updates!Init

ModeNext ==
  /\ UNCHANGED mode
  /\ \/ mode = "closed" /\ Next
     \/ mode = "device" /\ Device!Next
     \/ mode = "anyone" /\ Anyone!Next
     \/ mode = "updates" /\ Updates!Next

ModeSpec == ModeInit /\ [][ModeNext]_<<vars, mode>>

\* The inductive invariants of the proofs, for the election at hand.
CastInvInMode ==
  CASE mode = "closed"  -> CastInv /\ RecordInv
    [] mode = "device"  -> Device!CastInv /\ Device!RecordInv
    [] mode = "anyone"  -> Anyone!CastInv /\ Anyone!RecordInv
    [] mode = "updates" -> Updates!CastInv /\ Updates!RecordInv

\* Versions, ballot ids, voters, requests and editors are interchangeable:
\* the code compares them for equality only.
Interchangeable ==
  Permutations(Times) \cup Permutations(BallotIds) \cup Permutations(Voters)
    \cup Permutations(Requests) \cup Permutations(Editors)

=============================================================================
