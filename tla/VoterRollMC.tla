---------------------------- MODULE VoterRollMC -----------------------------
(***************************************************************************)
(* Two administrators of one election: both fill the list while one also   *)
(* changes the mode, or one fills it while the other inspects voters.      *)
(***************************************************************************)
EXTENDS VoterRoll, TLC

CONSTANTS a1, a2

RoleOf == a1 :> "owner" @@ a2 :> "admin"

DutiesOf ==
  {a1 :> {"list", "settings"} @@ a2 :> {"list"},
   a1 :> {"list"} @@ a2 :> {"inspect"},
   a1 :> {"inspect"} @@ a2 :> {"list"}}

Symmetry == Permutations(VoterIds) \cup Permutations(Keys) \cup Permutations(Visits)

=============================================================================
