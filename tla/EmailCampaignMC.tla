-------------------------- MODULE EmailCampaignMC ---------------------------
(***************************************************************************)
(* Two requests for one voter: reminders beside votes, or campaigns beside *)
(* invitations.  Or for two voters, each request for one of them.          *)
(***************************************************************************)
EXTENDS EmailCampaign, TLC

CONSTANTS v1, v2

ScenesOf ==
  {[list |-> {v1}, kinds |-> {"has_voted", "has_not_voted", "receipt"}],
   [list |-> {v1}, kinds |-> {"all", "invites"}],
   [list |-> {v1, v2}, kinds |-> {"single", "test", "invite"}]}

Symmetry == Permutations(Workers) \cup Permutations(Requests)

=============================================================================
