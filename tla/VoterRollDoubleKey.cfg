SPECIFICATION Spec
CONSTANTS
  None = None
  a1 = a1
  a2 = a2
  Admins = {a1,a2}
  Role <- RoleOf
  Duties <- DutiesOf
  VoterIds = {v1, v2}
  Keys = {k1, k2}
  Visits = {x1, x2}
  Modes = {"open_unique_keycloak", "open_unique_ip_address"}
  Limit = 2
  Rows = 2
  CanFail = FALSE
SYMMETRY Symmetry
CHECK_DEADLOCK FALSE
INVARIANT OneVotePerKey
