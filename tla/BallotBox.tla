----------------------------- MODULE BallotBox ------------------------------
(***************************************************************************)
(* What casting promises: a box that holds at most one counted ballot per  *)
(* voter.  A ballot enters for a voter who has none; with ballot updates   *)
(* the voter's own ballot may be rewritten under the same ballot_id, and   *)
(* nothing ever takes a ballot out or gives one ballot to two voters.      *)
(***************************************************************************)
CONSTANTS Voters, BallotIds, Versions, BallotUpdates

VARIABLE box  \* the set of [voter, ballot, version] records that are counted

Counted == [voter: Voters, ballot: BallotIds, version: Versions]

Init == box = {}

Cast(new) ==
  /\ \A old \in box : old.voter # new.voter /\ old.ballot # new.ballot
  /\ box' = box \cup {new}

Rewrite(old, new) ==
  /\ BallotUpdates
  /\ old.voter = new.voter /\ old.ballot = new.ballot
  /\ old.version # new.version
  /\ box' = (box \ {old}) \cup {new}

Next ==
  \E new \in Counted : \/ Cast(new)
                       \/ \E old \in box : Rewrite(old, new)

Spec == Init /\ [][Next]_box

=============================================================================
