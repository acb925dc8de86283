\* Two candidates in two organizations who share an address, initial messages only, a cap of one;
\* the recommendations of a prospect.
SPECIFICATION OfficeSpec
CONSTANTS
  k1 = k1
  k2 = k2
  p1 = p1
  p2 = p2
  e1 = e1
  c1 = c1
  c2 = c2
  o1 = o1
  o2 = o2
  NULL = NULL
  Candidates <- Two
  Contacts = {p1, p2}
  Emails = {e1}
  Campaigns = {c1, c2}
  Orgs = {o1, o2}
  Links = {}
  Workers = {w1, w2}
  ContactOf <- ApartContact
  CampaignOf <- TwoCampaigns
  EmailOf <- SharedEmail
  OrgOf <- TwoOrgs
  DailyCap = 1
  ClaimLimit = 2
  MaxFollowups = 0
  MaxAttempts = 2
  OperatorOrgs = {}
  LastDay = 2
  OutcomeInputs = {}
  Answerable = {}
  Senders = {}
  Criteria = {"fit", "need", "size"}
  Unit = 3
  Weight <- Weights
  Scope <- ARegion
  Registry <- SomeKinds
  Fading <- Halvings
  Starts <- AllMet
  Findings <- OneContradiction
  News <- AnAd
  Posts = {3}
  Recomputes = {x1, x2}
  NbaDays = {0, 7}
  MaxFacts = 4
  MaxActions = 2
SYMMETRY OfficeSymmetry
INVARIANTS OfficeTypes OnceAnAttempt StatusIsTruthful DailyCapHolds OneOpenAction FitNeverLowers DeclarationsNeverContact
 
