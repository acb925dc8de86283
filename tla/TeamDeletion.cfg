\* The owner of a team deletes the account while an invitation is open.
SPECIFICATION Spec
CONSTANTS
  u1 = u1
  u2 = u2
  u3 = u3
  o1 = o1
  People = {u1, u2, u3}
  Orgs = {o1}
  Founder <- OneOrg
  Busy = {}
  Invites = {i1, i2, i3}
  Connections = {c1, c2}
  Plans <- SomePlans
  NoPlan <- Nothing
  Subscribers = {u1}
  Leavers = {u1}
  NULL = NULL
INVARIANTS OwnerStays
SYMMETRY Bookkeeping
CHECK_DEADLOCK FALSE
