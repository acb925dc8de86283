\* One candidate, from its first email to the booking reply with the campaign link, under the fairness of the cron.
SPECIFICATION FairSpec
CONSTANTS
  k1 = k1
  k2 = k2
  p1 = p1
  p2 = p2
  e1 = e1
  c1 = c1
  c2 = c2
  o1 = o1
  o2 = o2
  NULL = NULL
  Candidates <- One
  Contacts = {p1}
  Emails = {e1}
  Campaigns = {c1}
  Orgs = {o1}
  Links = {l1}
  Workers = {w1}
  ContactOf <- OneContact
  CampaignOf <- OneCampaign
  EmailOf <- SameEmail
  OrgOf <- OneOrgOneCampaign
  DailyCap = 5
  ClaimLimit = 2
  MaxFollowups = 0
  MaxAttempts = 2
  OperatorOrgs = {}
  LastDay = 2
  OutcomeInputs = {"POSITIVE"}
  Answerable <- InitialAndBooking
  Senders = {e1}
PROPERTIES ApprovedIsLocked DeliveryIsPromised LeaseEnds
