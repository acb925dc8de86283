SPECIFICATION BillingSpec
CONSTANTS
  Users = {u1}
  Customers = {x1}
  Subs = {s1}
  Offers = {PRO}
  Manual = {}
  Hosted = {}
  Forgetful = {}
  Calls = {c1}
  Handlers = {h1, h2}
  LastEnd = 2
  MaxVersions = 3
  NULL = NULL
INVARIANTS ConvergesWhenQuiet
CHECK_DEADLOCK FALSE
