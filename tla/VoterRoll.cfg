SPECIFICATION Spec
CONSTANTS
  None = None
  a1 = a1
  a2 = a2
  Admins = {a1,a2}
  Role <- RoleOf
  Duties <- DutiesOf
  VoterIds = {v1, v2}
  Keys = {k1, k2}
  Visits = {x1, x2}
  Modes = {"closed_bv_managed_ids", "closed_admin_managed_ids", "open_unique_cookie", "open_unique_keycloak", "open_unique_ip_address", "open_open"}
  Limit = 1
  Rows = 2
  CanFail = TRUE
SYMMETRY Symmetry
CHECK_DEADLOCK FALSE
INVARIANTS ListSoundOrRace OneVoteOrRace RefusalsExplained
