\* A member of a team works on the projects of an organization of its own.
SPECIFICATION UsageSpec
CONSTANTS
  NULL = NULL
  a1 = a1
  a2 = a2
  t1 = t1
  own = own
  q1 = q1
  q2 = q2
  Accounts = {a1, a2}
  Workplaces = {t1, own}
  Works <- WithAnOrganization
  PoolOf <- OneTeam
  Asks <- Searches
  Movers = {}
  Texts = {x}
  Requests = {q1, q2}
  PlanLimit = 1
  MaxUses = 2
  LastMonth = 1
INVARIANTS PoolPaysForAll
SYMMETRY RequestSymmetry
CHECK_DEADLOCK FALSE
