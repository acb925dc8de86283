\* A team of three accounts, two members and their quotas, five searches, a morning recap, two monitored
\* prospects, a subscription with two checkouts or two webhook requests at a time, two
\* imports of a profile, the signals of two prospects and a search that finds one more,
\* lists of three results to merge.
SPECIFICATION DeskSpec
CONSTANTS
  NULL = NULL
  u1 = u1
  u2 = u2
  u3 = u3
  o1 = o1
  People = {u1, u2, u3}
  Orgs = {o1}
  Founder <- OneOrg
  Busy = {}
  Invites = {i1, i2}
  Connections = {c1, c2}
  Plans <- SomePlans
  NoPlan <- Nothing
  Subscribers = {u1}
  Leavers = {u1}
  a1 = a1
  a2 = a2
  t1 = t1
  own = own
  q1 = q1
  q2 = q2
  Accounts = {a1, a2}
  Workplaces = {t1}
  Works <- InTheTeam
  PoolOf <- OneTeam
  Asks <- Everything
  Movers = {a1}
  Texts = {x}
  Requests = {q1, q2}
  PlanLimit = 1
  MaxUses = 2
  LastMonth = 2
  k1 = k1
  k2 = k2
  g = g
  r1 = r1
  r2 = r2
  r3 = r3
  r4 = r4
  r5 = r5
  Runs = {r1, r2, r3, r4, r5}
  SearchNew = {r1}
  Reuses = {r3, r4}
  Launches <- SomeLaunches
  Companies = {k1, k2}
  Pages = {g}
  Cites <- OnePage
  Queries <- QueriesOf
  SignalQueries = {2}
  Wanted = 2
  Jobs = 1
  LastDay = 2
  Readers = {m1}
  Signals = {s1, s2}
  Mornings = {v1, v2}
  DayLength = 2
  LastTick = 4
  n1 = n1
  n2 = n2
  m1 = m1
  Prospects = {n1, n2}
  Askers = {m1}
  AskedBy <- OneAsker
  AskerStates = {"ACTIVE", "LEFT"}
  Crons = {v1, v2}
  BatchLimit = 1
  MonitorCap = 2
  d2 = d2
  h2 = h2
  Users = {b1}
  Customers = {x1, x2}
  Subs = {s1}
  Offers = {PRO}
  Manual = {INTERNAL}
  Hosted = {b1}
  Forgetful = {b1}
  Calls = {d1, d2}
  Handlers = {h1, h2}
  LastEnd = 2
  MaxVersions = 2
  f1 = f1
  f2 = f2
  g1 = g1
  g2 = g2
  Imports <- TwoImports
  AuthorOf <- Authors
  Visits = {w1, w2}
  HandRules = {}
  Targets = {t}
  EditsOverlap = TRUE
  y1 = y1
  y2 = y2
  l1 = l1
  z1 = z1
  lead1 = lead1
  lead2 = lead2
  Items = {y1, y2}
  EventOf <- Events
  Leads = {lead1, lead2}
  Inquiries = {z1}
  Finds = {l1}
  FinderOf <- FoundOnce
  ItemOf <- Told
  NeedQueries = 2
  shop = shop
  lyon = lyon
  paris = paris
  Cores = {m, n, o}
  Generic = {o}
  Domains = {w1, w2}
  Announced <- OpeningsAndUnsigned
  MaxRead = 3
INVARIANTS SessionsAreLinked OneLinkPerAddress DeskTypes PoolKept DeliveredIsBilled OneCallPerText RequestsBounded LedgerIsExact ReleasedDeliveredNothing ReuseIsFresh OneRecapADay OneInvocationPerRun DraftsKept EventKeptOnce SearchIsToldTruly MergesAgree
PROPERTIES ImportsMoveForward SeatsKept InvitationIsFinal ToldOnce
SYMMETRY RequestSymmetry
CHECK_DEADLOCK FALSE
