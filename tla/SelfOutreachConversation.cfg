\* The same person in two campaigns, a follow-up for each, and the mailbox; mails name the first candidate's message.
SPECIFICATION Spec
CONSTANTS
  k1 = k1
  k2 = k2
  p1 = p1
  p2 = p2
  e1 = e1
  c1 = c1
  c2 = c2
  o1 = o1
  o2 = o2
  NULL = NULL
  Candidates <- Two
  Contacts = {p1}
  Emails = {e1}
  Campaigns = {c1, c2}
  Orgs = {o1}
  Links = {}
  Workers = {w1, w2}
  ContactOf <- SameContact
  CampaignOf <- TwoCampaigns
  EmailOf <- SameEmail
  OrgOf <- OneOrg
  DailyCap = 2
  ClaimLimit = 2
  MaxFollowups = 1
  MaxAttempts = 1
  OperatorOrgs = {o1}
  LastDay = 1
  OutcomeInputs = {"BOUNCE"}
  Answerable <- OneInitial
  Senders = {e1}
SYMMETRY WorkerSymmetry
INVARIANTS OneActivePerContact CandidateFollowsInitial FollowUpsBounded
PROPERTIES BarredIsFinal
