\* A subscription whose events are handled one at a time; two prospects, two crons, leases that lapse.
SPECIFICATION ProgressSpec
CONSTANTS
  NULL = NULL
  Users = {u1}
  Customers = {x1}
  Subs = {s1}
  Offers = {PRO}
  Manual = {INTERNAL}
  Hosted = {}
  Forgetful = {}
  Calls = {c1}
  Handlers = {h1}
  LastEnd = 2
  MaxVersions = 3
  n1 = n1
  n2 = n2
  m1 = m1
  Prospects = {n1, n2}
  Askers = {m1}
  AskedBy <- OneAsker
  AskerStates = {"ACTIVE", "AWAY"}
  Crons = {v1}
  BatchLimit = 1
  MonitorCap = 2
INVARIANTS ConvergesWhenQuiet
PROPERTIES AccessIsPromised FollowsStripe RunCloses DueIsServed
CHECK_DEADLOCK FALSE
