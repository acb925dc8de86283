---------------------------- MODULE SelfOutreach ----------------------------
(***************************************************************************)
(* The Self-Outreach send protocol: candidates and their messages in the   *)
(* database (migrations 035 and 037), the members' RPCs that review them,  *)
(* the cron worker that claims, checks, sends and completes, the mailbox   *)
(* reader, and the environment (time, SMTP server, crashes).               *)
(*                                                                         *)
(* Each database function is one transaction that locks the rows it        *)
(* changes, so it is one action; everything the worker does between two    *)
(* transactions (the SMTP call, a crash, a lost answer) is interleaved.    *)
(***************************************************************************)
EXTENDS Commons, Integers, FiniteSets

CONSTANTS
  Candidates,   \* outreach_candidates rows: one (campaign, contact) pair each
  Contacts,     \* outreach_contacts rows
  Emails,       \* the addresses of the contacts
  Campaigns,    \* outreach_campaigns rows; no function ever leaves ACTIVE
  Orgs,         \* organizations
  Links,        \* values of outreach_campaigns.booking_url
  Workers,      \* concurrent invocations of the cron route
  ContactOf, CampaignOf,   \* Candidates -> Contacts, Campaigns
  EmailOf,      \* Contacts -> Emails
  OrgOf,        \* Campaigns -> Orgs
  DailyCap,     \* MAX_NEW_OUTREACH_PER_DAY
  ClaimLimit,   \* p_limit of claim_outreach_sends (5 in the route)
  MaxFollowups, \* outreach_campaigns.max_followups, 0 when disabled
  MaxAttempts,  \* 3 in complete_outreach_send
  OperatorOrgs, \* organizations an operator lists and unlists during a run
  LastDay,      \* bound: the run ends on this day
  OutcomeInputs,\* bound: the outcomes a member records
  Answerable,   \* bound: the messages an answer or a delivery report may name
  Senders       \* bound: the addresses that write to the mailbox

MailTo(k) == EmailOf[ContactOf[k]]
Org(k) == OrgOf[CampaignOf[k]]

\* Message sequence numbers: 0 INITIAL, 1 and 2 FOLLOW_UP, 3 BOOKING.
Msgs == Candidates \X (0 .. 3)
Initial(k) == <<k, 0>>
Booking(k) == <<k, 3>>
IsInitial(m) == m[2] = 0
IsFollowUp(m) == m[2] \in {1, 2}
IsBooking(m) == m[2] = 3

Statuses == {"NONE", "QUALIFIED", "NEEDS_REVIEW", "REJECTED", "READY_TO_SEND",
             "SENDING", "SENT", "REPLIED", "BOUNCED", "SUPPRESSED", "FAILED"}
Active == {"QUALIFIED", "NEEDS_REVIEW", "READY_TO_SEND", "SENDING", "SENT"}
Stoppable == Active \ {"SENDING"}
SendStates == {"NONE", "DRAFT", "READY", "SENDING", "SENT", "FAILED",
               "CANCELLED", "UNCERTAIN"}
Results == {"SENT", "RETRY", "FAILED", "BOUNCED", "UNCERTAIN", "ABORTED"}
Outcomes == {"POSITIVE", "OTHER", "UNSUBSCRIBE", "BOUNCE"}
Days == 1 .. LastDay

ASSUME OutreachAssumption ==
  /\ IsFiniteSet(Candidates)
  /\ ContactOf \in [Candidates -> Contacts]
  /\ CampaignOf \in [Candidates -> Campaigns]
  /\ EmailOf \in [Contacts -> Emails]
  /\ OrgOf \in [Campaigns -> Orgs]
  /\ DailyCap \in Nat
  /\ ClaimLimit \in Nat \ {0}
  /\ MaxFollowups \in 0 .. 2
  /\ MaxAttempts \in Nat \ {0}
  /\ LastDay \in Nat \ {0}
  /\ OperatorOrgs \subseteq Orgs
  /\ OutcomeInputs \subseteq Outcomes
  /\ Answerable \subseteq Msgs
  /\ Senders \subseteq Emails
  /\ NULL \notin Workers
  /\ NULL \notin Links
  /\ NULL \notin Msgs
  /\ NULL \notin Results

VARIABLES
  \* outreach_candidates
  kstatus, reply, outcome,
  \* outreach_messages. holder: the claim whose lease_token the row carries;
  \* expired: lease_until passed; waiting: next_attempt_at still ahead; link:
  \* the booking link in the text; slotDay: 0 for null.
  review, send, attempts, holder, expired, waiting, slotDay, link,
  \* outreach_campaigns.booking_url, outreach_suppressions,
  \* self_outreach_organizations, outreach_daily_counters
  bookingUrl, suppressed, served, sentCount,
  today,
  \* the cron worker: program counter, follow-ups read as due, messages
  \* claimed and not yet handled, the one in hand, its result, summary.stopped
  pc, due, todo, cur, result, stopped,
  \* the SMTP server and the mailbox: copies of a message accepted, those of
  \* them the worker was told to retry, the last SENT message of each address,
  \* and the messages whose reply, whose delivery report is already in
  \* outreach_inbound
  accepted, unheard, lastSent, answered, reported

rows == <<kstatus, reply, outcome>>
messages == <<review, send, attempts, holder, expired, waiting, slotDay, link>>
shared == <<bookingUrl, suppressed, served, sentCount, today>>
worker == <<pc, due, todo, cur, result, stopped>>
outside == <<accepted, unheard, lastSent, answered, reported>>
vars == <<rows, messages, shared, worker, outside>>

TypeOK ==
  /\ kstatus \in [Candidates -> Statuses]
  /\ reply \in [Candidates -> {"NONE", "REPLIED", "NEEDS_REVIEW"}]
  /\ outcome \in [Candidates -> Outcomes \cup {"NONE"}]
  /\ review \in [Msgs -> {"PENDING", "APPROVED", "REJECTED"}]
  /\ send \in [Msgs -> SendStates]
  /\ attempts \in [Msgs -> 0 .. MaxAttempts]
  /\ holder \in [Msgs -> Workers \cup {NULL}]
  /\ expired \subseteq Msgs
  /\ waiting \subseteq Msgs
  /\ slotDay \in [Msgs -> Days \cup {0}]
  /\ link \in [Candidates -> Links \cup {NULL}]
  /\ bookingUrl \in [Campaigns -> Links \cup {NULL}]
  /\ suppressed \subseteq Emails
  /\ served \subseteq Orgs
  /\ sentCount \in [Days -> Nat]
  /\ today \in Days
  /\ pc \in [Workers -> {"idle", "draft", "loop", "smtp", "abort", "report"}]
  /\ due \in [Workers -> SUBSET Candidates]
  /\ todo \in [Workers -> SUBSET Msgs]
  /\ cur \in [Workers -> Msgs \cup {NULL}]
  /\ result \in [Workers -> Results \cup {NULL}]
  /\ stopped \in [Workers -> BOOLEAN]
  /\ accepted \in [Msgs -> Nat]
  /\ unheard \in [Msgs -> Nat]
  /\ lastSent \in [Emails -> Msgs \cup {NULL}]
  /\ answered \subseteq Msgs
  /\ reported \subseteq Msgs

Init ==
  /\ kstatus = [k \in Candidates |-> "NONE"]
  /\ reply = [k \in Candidates |-> "NONE"]
  /\ outcome = [k \in Candidates |-> "NONE"]
  /\ review = [m \in Msgs |-> "PENDING"]
  /\ send = [m \in Msgs |-> "NONE"]
  /\ attempts = [m \in Msgs |-> 0]
  /\ holder = [m \in Msgs |-> NULL]
  /\ expired = {}
  /\ waiting = {}
  /\ slotDay = [m \in Msgs |-> 0]
  /\ link = [k \in Candidates |-> NULL]
  /\ bookingUrl = [c \in Campaigns |-> NULL]
  /\ suppressed = {}
  /\ served = Orgs
  /\ sentCount = [d \in Days |-> 0]
  /\ today = 1
  /\ pc = [w \in Workers |-> "idle"]
  /\ due = [w \in Workers |-> {}]
  /\ todo = [w \in Workers |-> {}]
  /\ cur = [w \in Workers |-> NULL]
  /\ result = [w \in Workers |-> NULL]
  /\ stopped = [w \in Workers |-> FALSE]
  /\ accepted = [m \in Msgs |-> 0]
  /\ unheard = [m \in Msgs |-> 0]
  /\ lastSent = [e \in Emails |-> NULL]
  /\ answered = {}
  /\ reported = {}

-----------------------------------------------------------------------------
(* Helpers shared by the database functions.                               *)

\* outreach_stop_email on the addresses E: what becomes of the messages s and
\* the candidates ks. A SENDING candidate is left to outreach_send_permitted.
StopMessages(s, E) ==
  [m \in Msgs |-> IF MailTo(m[1]) \in E /\ s[m] \in {"DRAFT", "READY"}
                  THEN "CANCELLED" ELSE s[m]]

StopCandidates(ks, E) ==
  [k \in Candidates |-> IF MailTo(k) \in E /\ ks[k] \in Stoppable
                        THEN "SUPPRESSED" ELSE ks[k]]

\* outreach_stop_followups on the candidates K.
StopFollowUps(s, K) ==
  [m \in Msgs |-> IF m[1] \in K /\ IsFollowUp(m) /\ s[m] \in {"DRAFT", "READY"}
                  THEN "CANCELLED" ELSE s[m]]

\* The text of k's booking message carries the campaign's current link.
CarriesLink(k) == link[k] # NULL /\ link[k] = bookingUrl[CampaignOf[k]]

Bookable(k) ==
  /\ kstatus[k] = "REPLIED"
  /\ reply[k] = "REPLIED"
  /\ outcome[k] = "POSITIVE"

Followable(k) == kstatus[k] = "SENT" /\ reply[k] = "NONE"

Rows(k) == {m \in Msgs : m[1] = k /\ send[m] # "NONE"}

-----------------------------------------------------------------------------
(* Members.                                                                *)

\* create_outreach_candidate: refused for a suppressed address and, by the
\* partial unique index, while the contact has another active candidate. A
\* score under the threshold leaves the candidate QUALIFIED.
CreateCandidate(k) ==
  /\ Org(k) \in served
  /\ kstatus[k] = "NONE"
  /\ MailTo(k) \notin suppressed
  /\ \A j \in Candidates \ {k} : ContactOf[j] = ContactOf[k] => kstatus[j] \notin Active
  /\ \E st \in {"QUALIFIED", "NEEDS_REVIEW"} : kstatus' = [kstatus EXCEPT ![k] = st]
  /\ send' = [send EXCEPT ![Initial(k)] = "DRAFT"]
  /\ UNCHANGED <<reply, outcome, review, attempts, holder, expired, waiting,
                 slotDay, link, shared, worker, outside>>

Reviewable(m) ==
  /\ Org(m[1]) \in served
  /\ review[m] = "PENDING"
  /\ send[m] = "DRAFT"
  /\ IsInitial(m) => kstatus[m[1]] = "NEEDS_REVIEW"
  /\ IsFollowUp(m) => Followable(m[1])

\* review_outreach_message(APPROVE)
Approve(m) ==
  /\ Reviewable(m)
  /\ IsBooking(m) => Bookable(m[1]) /\ CarriesLink(m[1])
  /\ MailTo(m[1]) \notin suppressed
  /\ review' = [review EXCEPT ![m] = "APPROVED"]
  /\ send' = [send EXCEPT ![m] = "READY"]
  /\ kstatus' = IF IsInitial(m) THEN [kstatus EXCEPT ![m[1]] = "READY_TO_SEND"]
                                ELSE kstatus
  /\ UNCHANGED <<reply, outcome, attempts, holder, expired, waiting, slotDay,
                 link, shared, worker, outside>>

\* review_outreach_message(REJECT)
Reject(m) ==
  /\ Reviewable(m)
  /\ review' = [review EXCEPT ![m] = "REJECTED"]
  /\ send' = [send EXCEPT ![m] = "CANCELLED"]
  /\ kstatus' = IF IsInitial(m) THEN [kstatus EXCEPT ![m[1]] = "REJECTED"]
                                ELSE kstatus
  /\ UNCHANGED <<reply, outcome, attempts, holder, expired, waiting, slotDay,
                 link, shared, worker, outside>>

\* review_outreach_message(EDIT): only a booking text carries modelled data.
Edit(m) ==
  /\ Reviewable(m)
  /\ IsBooking(m)
  /\ Bookable(m[1])
  /\ bookingUrl[CampaignOf[m[1]]] # NULL
  /\ link' = [link EXCEPT ![m[1]] = bookingUrl[CampaignOf[m[1]]]]
  /\ UNCHANGED <<rows, review, send, attempts, holder, expired, waiting,
                 slotDay, shared, worker, outside>>

\* set_outreach_outcome
SetOutcome(k, o) ==
  /\ Org(k) \in served
  /\ kstatus[k] # "NONE"
  /\ outcome' = [outcome EXCEPT ![k] = o]
  /\ LET s1 == StopFollowUps(send, {k})
         s2 == [m \in Msgs |-> IF o # "POSITIVE" /\ m = Booking(k)
                                   /\ s1[m] \in {"DRAFT", "READY"}
                               THEN "CANCELLED" ELSE s1[m]]
         E == IF o \in {"UNSUBSCRIBE", "BOUNCE"} THEN {MailTo(k)} ELSE {}
     IN /\ send' = StopMessages(s2, E)
        /\ kstatus' = StopCandidates(kstatus, E)
        /\ suppressed' = suppressed \cup E
  /\ UNCHANGED <<reply, review, attempts, holder, expired, waiting, slotDay,
                 link, bookingUrl, served, sentCount, today, worker, outside>>

\* suppress_outreach_email
SuppressEmail(e) ==
  /\ served # {}
  /\ suppressed' = suppressed \cup {e}
  /\ send' = StopMessages(send, {e})
  /\ kstatus' = StopCandidates(kstatus, {e})
  /\ UNCHANGED <<reply, outcome, review, attempts, holder, expired, waiting,
                 slotDay, link, bookingUrl, served, sentCount, today, worker,
                 outside>>

\* set_outreach_campaign_booking
SetBookingUrl(c, l) ==
  /\ OrgOf[c] \in served
  /\ bookingUrl' = [bookingUrl EXCEPT ![c] = l]
  /\ UNCHANGED <<rows, messages, suppressed, served, sentCount, today, worker,
                 outside>>

\* The sequence 3 row may be (re)written: absent, or cancelled unapproved.
Faulty_ReopenCancelled(m) == send[m] \in {"NONE", "CANCELLED"}
Writable(m) ==
  \/ send[m] = "NONE"
  \/ send[m] = "CANCELLED" /\ review[m] # "APPROVED"

\* create_outreach_booking_reply: the sequence 3 row is inserted, or re-opened
\* when it was cancelled and never approved.
CreateBooking(k) ==
  LET m == Booking(k) IN
  /\ Org(k) \in served
  /\ bookingUrl[CampaignOf[k]] # NULL
  /\ Bookable(k)
  /\ MailTo(k) \notin suppressed
  /\ Writable(m)
  /\ send' = [send EXCEPT ![m] = "DRAFT"]
  /\ review' = [review EXCEPT ![m] = "PENDING"]
  /\ attempts' = [attempts EXCEPT ![m] = 0]
  /\ waiting' = waiting \ {m}
  /\ link' = [link EXCEPT ![k] = bookingUrl[CampaignOf[k]]]
  /\ UNCHANGED <<rows, holder, expired, slotDay, shared, worker, outside>>

\* An operator adds or removes an organization (docs/SELF_OUTREACH.md, 8.2).
ListOrg(o) ==
  /\ served' = IF o \in served THEN served \ {o} ELSE served \cup {o}
  /\ UNCHANGED <<rows, messages, bookingUrl, suppressed, sentCount, today,
                 worker, outside>>

-----------------------------------------------------------------------------
(* The cron worker, one invocation of the route at a time per member of    *)
(* Workers: follow-up drafts, then the send queue.                         *)

\* The count of the candidate's rows, its initial message included, against
\* max_followups.
Faulty_FollowUpsOffByOne(k) == Cardinality(Rows(k)) <= MaxFollowups + 1
FollowUpsLeft(k) == Cardinality(Rows(k)) <= MaxFollowups

\* outreach_followups_due. The campaign's delay may or may not have elapsed,
\* so any part of the candidates that qualify may be read.
FollowUpDue(k) ==
  /\ Org(k) \in served
  /\ Followable(k)
  /\ send[Initial(k)] = "SENT"
  /\ FollowUpsLeft(k)
  /\ \A m \in Rows(k) : send[m] \notin {"DRAFT", "READY", "SENDING", "UNCERTAIN"}
  /\ MailTo(k) \notin suppressed

StartRun(w) ==
  /\ pc[w] = "idle"
  /\ pc' = [pc EXCEPT ![w] = "draft"]
  /\ \E K \in SUBSET {k \in Candidates : FollowUpDue(k)} : due' = [due EXCEPT ![w] = K]
  /\ UNCHANGED <<rows, messages, shared, todo, cur, result, stopped, outside>>

\* create_outreach_followup for a candidate read as due: it re-reads the
\* candidate, and counts the rows again to number the message.
CreateFollowUp(w, k) ==
  /\ pc[w] = "draft"
  /\ k \in due[w]
  /\ due' = [due EXCEPT ![w] = @ \ {k}]
  /\ LET seq == Cardinality(Rows(k)) IN
       /\ Org(k) \in served
       /\ Followable(k)
       /\ MailTo(k) \notin suppressed
       /\ FollowUpsLeft(k)
       /\ seq \in {1, 2}
       /\ send[<<k, seq>>] = "NONE"
       /\ send' = [send EXCEPT ![<<k, seq>>] = "DRAFT"]
  /\ UNCHANGED <<rows, review, attempts, holder, expired, waiting, slotDay, link,
                 shared, pc, todo, cur, result, stopped, outside>>

\* The source cannot be loaded, the text is refused, or the function raises.
SkipFollowUp(w, k) ==
  /\ pc[w] = "draft"
  /\ k \in due[w]
  /\ due' = [due EXCEPT ![w] = @ \ {k}]
  /\ UNCHANGED <<rows, messages, shared, pc, todo, cur, result, stopped, outside>>

\* The stale test of claim_outreach_sends on message m, ks being the
\* candidates after the expired leases were swept.
Stale(m, ks) ==
  LET k == m[1] IN
  IF IsBooking(m)
  THEN ~(ks[k] = "REPLIED" /\ reply[k] = "REPLIED" /\ outcome[k] = "POSITIVE"
         /\ CarriesLink(k))
  ELSE \/ reply[k] # "NONE"
       \/ IsInitial(m) /\ ks[k] # "READY_TO_SEND"
       \/ IsFollowUp(m) /\ ks[k] # "SENT"

Faulty_ClaimUncertain ==
  {m \in Msgs : /\ send[m] \in {"READY", "UNCERTAIN"}
                /\ review[m] = "APPROVED"
                /\ m \notin waiting
                /\ Org(m[1]) \in served}
Claimable ==
  {m \in Msgs : /\ send[m] = "READY"
                /\ review[m] = "APPROVED"
                /\ m \notin waiting
                /\ Org(m[1]) \in served}

\* The leases that ran out.
Faulty_NoSweep == {}
Swept == {m \in expired : send[m] = "SENDING"}

\* The candidates once the sweep closed those whose lease expired.
Faulty_SweepMessagesOnly == kstatus
SweptStatus ==
  [k \in Candidates |-> IF kstatus[k] = "SENDING" /\ \E m \in Swept : m[1] = k
                        THEN "FAILED" ELSE kstatus[k]]

\* The messages locked by the claim split into those to a suppressed address,
\* the stale ones, and the fresh ones; all of these but the bookings need a
\* slot of the day.
BarredOf(batch) == {m \in batch : MailTo(m[1]) \in suppressed}
StaleOf(batch) == {m \in batch \ BarredOf(batch) : Stale(m, SweptStatus)}
Fresh(batch) == batch \ (BarredOf(batch) \cup StaleOf(batch))
Capped(batch) == {m \in Fresh(batch) : ~IsBooking(m)}

\* The expired leases are swept; then the fresh bookings of the batch and the
\* messages that took a slot are leased, the stale ones are cancelled and the
\* suppressed addresses stopped again. What found no slot stays READY.
ClaimBatch(w, batch, taken) ==
  LET leased == taken \cup (Fresh(batch) \ Capped(batch))
      E == {MailTo(m[1]) : m \in BarredOf(batch)}
  IN
  /\ send' = [m \in Msgs |-> IF m \in Swept THEN "UNCERTAIN"
                             ELSE IF m \in leased THEN "SENDING"
                             ELSE IF m \in StaleOf(batch) THEN "CANCELLED"
                             ELSE StopMessages(send, E)[m]]
  /\ kstatus' = [k \in Candidates |->
                   IF Initial(k) \in leased THEN "SENDING"
                   ELSE StopCandidates(SweptStatus, E)[k]]
  /\ holder' = [m \in Msgs |-> IF m \in Swept THEN NULL
                               ELSE IF m \in leased THEN w ELSE holder[m]]
  /\ expired' = expired \ Swept
  /\ slotDay' = [m \in Msgs |-> IF m \in taken THEN today
                                ELSE IF m \in leased THEN 0 ELSE slotDay[m]]
  /\ sentCount' = [sentCount EXCEPT ![today] = @ + Cardinality(taken)]
  /\ todo' = [todo EXCEPT ![w] = leased]
  /\ pc' = [pc EXCEPT ![w] = IF leased = {} THEN "idle" ELSE "loop"]
  /\ stopped' = [stopped EXCEPT ![w] = FALSE]

\* claim_outreach_sends: up to ClaimLimit due messages are locked, in an order
\* the model leaves open (rows locked elsewhere are skipped), and as many of
\* them as the day has room for take a slot.
Claim(w) ==
  /\ pc[w] = "draft"
  /\ due[w] = {}
  /\ \E batch \in SUBSET Claimable : \E taken \in SUBSET Capped(batch) :
       /\ Cardinality(batch) <= ClaimLimit
       /\ sentCount[today] + Cardinality(taken) <= DailyCap
       /\ taken # Capped(batch) => sentCount[today] + Cardinality(taken) = DailyCap
       /\ ClaimBatch(w, batch, taken)
  /\ UNCHANGED <<reply, outcome, review, attempts, waiting, link, bookingUrl,
                 suppressed, served, today, due, cur, result, outside>>

\* outreach_send_permitted
Faulty_IgnoreReplies(w, m) ==
  /\ send[m] = "SENDING"
  /\ holder[m] = w
  /\ m \notin expired
  /\ Org(m[1]) \in served
  /\ MailTo(m[1]) \notin suppressed
Permitted(w, m) ==
  /\ send[m] = "SENDING"
  /\ holder[m] = w
  /\ m \notin expired
  /\ Org(m[1]) \in served
  /\ MailTo(m[1]) \notin suppressed
  /\ IF IsBooking(m) THEN Bookable(m[1]) /\ CarriesLink(m[1])
     ELSE /\ reply[m[1]] = "NONE"
          /\ kstatus[m[1]] \notin {"REPLIED", "BOUNCED", "SUPPRESSED", "REJECTED", "FAILED"}

\* The loop of processSendQueue takes the next message: permitted, it goes to
\* SMTP; otherwise (or when the call fails, or after an authorization error)
\* it is to be completed as ABORTED.
Check(w, m) ==
  /\ pc[w] = "loop"
  /\ m \in todo[w]
  /\ todo' = [todo EXCEPT ![w] = @ \ {m}]
  /\ cur' = [cur EXCEPT ![w] = m]
  /\ \/ /\ ~stopped[w]
        /\ Permitted(w, m)
        /\ pc' = [pc EXCEPT ![w] = "smtp"]
        /\ UNCHANGED result
     \/ /\ pc' = [pc EXCEPT ![w] = "abort"]
        /\ result' = [result EXCEPT ![w] = "ABORTED"]
  /\ UNCHANGED <<rows, messages, shared, due, stopped, outside>>

\* transport.send and classifySmtpError: the copies the server may have accepted
\* with each result. FAILED and BOUNCED are its refusals, ABORTED an authorization
\* error. RETRY is a temporary refusal, or a connection that timed out or was lost
\* at a command other than DATA; nodemailer names CONN whenever it is lost, while
\* it awaits the answer to the message too.
Copies(r) ==
  IF r = "SENT" THEN {1} ELSE IF r \in {"RETRY", "UNCERTAIN"} THEN {0, 1} ELSE {0}

Smtp(w) ==
  /\ pc[w] = "smtp"
  /\ pc' = [pc EXCEPT ![w] = "report"]
  /\ \E r \in Results, copy \in {0, 1} :
       /\ copy \in Copies(r)
       /\ result' = [result EXCEPT ![w] = r]
       /\ accepted' = [accepted EXCEPT ![cur[w]] = @ + copy]
       /\ unheard' = IF r = "RETRY" THEN [unheard EXCEPT ![cur[w]] = @ + copy] ELSE unheard
  /\ UNCHANGED <<rows, messages, shared, due, todo, cur, stopped, lastSent, answered, reported>>

-----------------------------------------------------------------------------
(* complete_outreach_send on the message m with the result r.              *)

Faulty_KeepAbortedSlot(r) == r \in {"RETRY", "FAILED", "BOUNCED"}
Returned(r) == r \in {"RETRY", "FAILED", "BOUNCED", "ABORTED"}

\* RETRY is bounded: without an attempt left it is a FAILED.
Faulty_OneRetryMore(m, r) == r = "RETRY" /\ attempts[m] + 1 <= MaxAttempts
Retried(m, r) == r = "RETRY" /\ attempts[m] + 1 < MaxAttempts

Faulty_UncertainIsFailed(m, r) ==
  IF r = "SENT" THEN r
  ELSE IF r = "ABORTED" \/ Retried(m, r) THEN "READY"
  ELSE "FAILED"
SendAfter(m, r) ==
  IF r \in {"SENT", "UNCERTAIN"} THEN r
  ELSE IF r = "ABORTED" \/ Retried(m, r) THEN "READY"
  ELSE "FAILED"

StatusAfter(m, r) ==
  LET old == kstatus[m[1]] IN
  CASE r = "BOUNCED" -> "BOUNCED"
    [] r = "UNCERTAIN" -> IF old = "SENDING" THEN "FAILED" ELSE old
    [] r \notin {"BOUNCED", "UNCERTAIN"} /\ ~IsInitial(m) -> old
    [] r = "SENT" /\ IsInitial(m) -> "SENT"
    [] SendAfter(m, r) = "READY" /\ IsInitial(m) -> "READY_TO_SEND"
    [] OTHER -> "FAILED"

Faulty_CountAborted(m, r) ==
  IF r \in {"RETRY", "FAILED", "ABORTED"} THEN attempts[m] + 1 ELSE attempts[m]
AttemptsAfter(m, r) ==
  IF Retried(m, r) \/ (r \in {"RETRY", "FAILED"} /\ attempts[m] < MaxAttempts)
  THEN attempts[m] + 1 ELSE attempts[m]

Complete(m, r) ==
  LET E == IF r = "BOUNCED" THEN {MailTo(m[1])} ELSE {}
      d == slotDay[m]
  IN
  /\ send' = StopMessages([send EXCEPT ![m] = SendAfter(m, r)], E)
  /\ kstatus' = StopCandidates([kstatus EXCEPT ![m[1]] = StatusAfter(m, r)], E)
  /\ suppressed' = suppressed \cup E
  /\ attempts' = [attempts EXCEPT ![m] = AttemptsAfter(m, r)]
  /\ waiting' = IF Retried(m, r) THEN waiting \cup {m} ELSE waiting
  /\ holder' = [holder EXCEPT ![m] = NULL]
  /\ expired' = expired \ {m}
  /\ sentCount' = IF Returned(r) /\ d # 0 /\ sentCount[d] > 0
                  THEN [sentCount EXCEPT ![d] = @ - 1] ELSE sentCount
  /\ lastSent' = IF r = "SENT" THEN [lastSent EXCEPT ![MailTo(m[1])] = m] ELSE lastSent

\* complete_outreach_send refuses a message that is not SENDING under the
\* caller's lease token (it does not look at lease_until).
Faulty_LeaseUnchecked(w, m) == m \in Msgs
LeaseHeld(w, m) == send[m] = "SENDING" /\ holder[m] = w

\* The worker reports its result. The call may fail without effect (the lease
\* is lost, or the database cannot be reached) or take effect with its answer
\* lost. A failure is swallowed, except while the batch is being aborted after
\* an authorization error: there it ends the run.
Finish(w) ==
  LET m == cur[w]
      auth == pc[w] = "report" /\ result[w] = "ABORTED"
  IN
  /\ pc[w] \in {"abort", "report"}
  /\ \E applied, answer \in BOOLEAN :
       /\ applied => LeaseHeld(w, m)
       /\ answer => applied
       /\ IF applied THEN Complete(m, result[w])
          ELSE UNCHANGED <<send, kstatus, suppressed, attempts, waiting, holder,
                           expired, sentCount, lastSent>>
       /\ LET ends == todo[w] = {} \/ (stopped[w] /\ ~answer) IN
          /\ pc' = [pc EXCEPT ![w] = IF ends THEN "idle" ELSE "loop"]
          /\ todo' = [todo EXCEPT ![w] = IF ends THEN {} ELSE @]
          /\ stopped' = [stopped EXCEPT ![w] = ~ends /\ (@ \/ auth)]
  /\ cur' = [cur EXCEPT ![w] = NULL]
  /\ result' = [result EXCEPT ![w] = NULL]
  /\ UNCHANGED <<reply, outcome, review, slotDay, link, bookingUrl, served,
                 today, due, accepted, unheard, answered, reported>>

\* The invocation dies (maxDuration, a deployment, a lost claim answer): what
\* it claimed stays leased.
Crash(w) ==
  /\ pc[w] # "idle"
  /\ pc' = [pc EXCEPT ![w] = "idle"]
  /\ due' = [due EXCEPT ![w] = {}]
  /\ todo' = [todo EXCEPT ![w] = {}]
  /\ cur' = [cur EXCEPT ![w] = NULL]
  /\ result' = [result EXCEPT ![w] = NULL]
  /\ stopped' = [stopped EXCEPT ![w] = FALSE]
  /\ UNCHANGED <<rows, messages, shared, outside>>

-----------------------------------------------------------------------------
(* The mailbox: record_outreach_inbound, one email a transaction.          *)

SentTo(e) == {k \in Candidates : MailTo(k) = e /\ \E m \in Msgs : m[1] = k /\ send[m] = "SENT"}

\* The effects of one email that is not a delivery report: K the candidates it
\* may answer, human that one of our SENT messages is named by its headers and
\* it is not auto-submitted, optOut that it proposes UNSUBSCRIBE.
Inbound(K, human, from, optOut) ==
  LET E == IF optOut THEN {from} ELSE {}
      ks == IF human
            THEN [k \in Candidates |-> IF k \in K /\ kstatus[k] \in {"SENT", "SENDING", "FAILED"}
                                       THEN "REPLIED" ELSE kstatus[k]]
            ELSE kstatus
  IN
  /\ send' = StopMessages(StopFollowUps(send, K), E)
  /\ kstatus' = StopCandidates(ks, E)
  /\ reply' = [k \in Candidates |-> IF k \notin K THEN reply[k]
                                    ELSE IF human THEN "REPLIED"
                                    ELSE IF reply[k] = "NONE" THEN "NEEDS_REVIEW"
                                    ELSE reply[k]]
  /\ suppressed' = suppressed \cup E
  /\ UNCHANGED <<outcome, review, attempts, holder, expired, waiting, slotDay,
                 link, bookingUrl, served, sentCount, today, worker, accepted,
                 unheard, lastSent, reported>>

\* An answer whose headers name the message m, which was delivered. It is read
\* once (mailbox_key). The headers match only a SENT message; otherwise the
\* sender's address is looked up among the contacts of SENT messages. An
\* auto-submitted email never proposes UNSUBSCRIBE.
RecordReply(m, from, auto, optOut) ==
  /\ accepted[m] > 0
  /\ m \notin answered
  /\ answered' = answered \cup {m}
  /\ ~(auto /\ optOut)
  /\ IF send[m] = "SENT" THEN Inbound({m[1]}, ~auto, from, optOut)
                         ELSE Inbound(SentTo(from), FALSE, from, optOut)

\* An email from an address, naming none of our messages.
RecordMail(from, optOut) ==
  /\ Inbound(SentTo(from), FALSE, from, optOut)
  /\ UNCHANGED answered

\* A permanent (5.x.x) delivery report naming the address of the delivered
\* message m: it is matched to the last SENT message to that address.
RecordBounce(m) ==
  /\ accepted[m] > 0
  /\ m \notin reported
  /\ reported' = reported \cup {m}
  /\ LET e == MailTo(m[1])
         hit == lastSent[e]
     IN IF hit = NULL
        THEN UNCHANGED <<send, kstatus, outcome, suppressed>>
        ELSE /\ send' = StopMessages(send, {e})
             /\ kstatus' = StopCandidates([kstatus EXCEPT ![hit[1]] = "BOUNCED"], {e})
             /\ outcome' = [outcome EXCEPT ![hit[1]] = IF @ = "NONE" THEN "BOUNCE" ELSE @]
             /\ suppressed' = suppressed \cup {e}
  /\ UNCHANGED <<reply, review, attempts, holder, expired, waiting, slotDay, link,
                 bookingUrl, served, sentCount, today, worker, accepted, unheard,
                 lastSent, answered>>

-----------------------------------------------------------------------------
(* Time: lease_until, next_attempt_at and the Paris day go by. A lease may  *)
(* expire while its worker still runs.                                     *)

LeaseTimeout(m) ==
  /\ send[m] = "SENDING"
  /\ m \notin expired
  /\ expired' = expired \cup {m}
  /\ UNCHANGED <<rows, review, send, attempts, holder, waiting, slotDay, link,
                 shared, worker, outside>>

RetryDelayOver(m) ==
  /\ m \in waiting
  /\ waiting' = waiting \ {m}
  /\ UNCHANGED <<rows, review, send, attempts, holder, expired, slotDay, link,
                 shared, worker, outside>>

NewDay ==
  /\ today < LastDay
  /\ today' = today + 1
  /\ UNCHANGED <<rows, messages, bookingUrl, suppressed, served, sentCount,
                 worker, outside>>

-----------------------------------------------------------------------------
Member ==
  \/ \E k \in Candidates : CreateCandidate(k) \/ CreateBooking(k)
  \/ \E m \in Msgs : Approve(m) \/ Reject(m) \/ Edit(m)
  \/ \E k \in Candidates, o \in OutcomeInputs : SetOutcome(k, o)
  \/ \E e \in Emails : SuppressEmail(e)
  \/ \E c \in Campaigns, l \in Links \cup {NULL} : SetBookingUrl(c, l)
  \/ \E o \in OperatorOrgs : ListOrg(o)

Run(w) ==
  \/ StartRun(w)
  \/ \E k \in Candidates : CreateFollowUp(w, k) \/ SkipFollowUp(w, k)
  \/ Claim(w)
  \/ \E m \in Msgs : Check(w, m)
  \/ Smtp(w)
  \/ Finish(w)

Mailbox ==
  \/ \E m \in Answerable, from \in Senders, auto, optOut \in BOOLEAN :
       RecordReply(m, from, auto, optOut)
  \/ \E from \in Senders, optOut \in BOOLEAN : RecordMail(from, optOut)
  \/ \E m \in Answerable : RecordBounce(m)

Time ==
  \/ \E m \in Msgs : LeaseTimeout(m) \/ RetryDelayOver(m)
  \/ NewDay

Next ==
  \/ Member
  \/ \E w \in Workers : Run(w) \/ Crash(w)
  \/ Mailbox
  \/ Time

Spec == Init /\ [][Next]_vars

\* vercel.json starts the route every day, an invocation runs to its end, and
\* time passes. An invocation may crash, but not always before its claim.
Fairness ==
  /\ \A w \in Workers : WF_vars(Run(w)) /\ SF_vars(Claim(w))
  /\ \A m \in Msgs : WF_vars(LeaseTimeout(m))

FairSpec == Spec /\ Fairness

-----------------------------------------------------------------------------
(* Safety.                                                                 *)

\* The candidate statuses that go with a send status of its initial message.
StatusesFor(s) ==
  CASE s = "NONE" -> {"NONE"}
    [] s = "DRAFT" -> {"QUALIFIED", "NEEDS_REVIEW"}
    [] s = "READY" -> {"READY_TO_SEND"}
    [] s = "SENDING" -> {"SENDING"}
    [] s = "SENT" -> {"SENT", "REPLIED", "BOUNCED", "SUPPRESSED"}
    [] s = "FAILED" -> {"FAILED", "BOUNCED"}
    [] s = "CANCELLED" -> {"REJECTED", "SUPPRESSED"}
    [] s = "UNCERTAIN" -> {"FAILED"}

\* The candidate's lifecycle and its initial message's never disagree, although
\* seven functions write one or both: in particular a candidate is SENDING only
\* while its initial message is leased, an UNCERTAIN send closes it as FAILED,
\* and completing a send never overwrites a reply, a bounce or a suppression.
CandidateFollowsInitial == \A k \in Candidates : kstatus[k] \in StatusesFor(send[Initial(k)])

\* The attempts of a message: those counted, and the one that is under way or
\* was the last.
Attempted(m) == attempts[m] + (IF send[m] \in {"SENDING", "SENT", "UNCERTAIN"} THEN 1 ELSE 0)

\* What is left of "No double send" and "Retry bounded" (docs/SELF_OUTREACH.md,
\* 3) with a server that may take what is retried: whatever the workers, the
\* crashes and the expired leases do, it accepts a message once, and once more
\* only for each copy a worker was told to retry; never more often than it was
\* attempted, nor than MaxAttempts.
OnceAnAttempt ==
  \A m \in Msgs : /\ accepted[m] <= unheard[m] + 1
                  /\ accepted[m] <= Attempted(m)
                  /\ Attempted(m) <= MaxAttempts

\* What the database says of a message is what happened to it, but for the
\* copies a worker was told to retry: SENT was accepted by the server, and
\* nothing that is closed or may still be sent was.
StatusIsTruthful ==
  \A m \in Msgs :
    /\ send[m] = "SENT" => accepted[m] = unheard[m] + 1
    /\ send[m] \notin {"SENT", "SENDING", "UNCERTAIN"} => accepted[m] = unheard[m]

\* The messages that hold a slot of day d: a send that did not happen gives its
\* slot back, one that may have happened keeps it.
Slots(d) == {m \in Msgs : slotDay[m] = d /\ send[m] \in {"SENDING", "SENT", "UNCERTAIN"}}

\* Daily cap (outreach_daily_counters): the counter is exactly the slots held,
\* through claims, retries on a later day, aborts, bounces and expired leases,
\* and new outreach never goes over the cap.
DailyCapHolds ==
  \A d \in Days : /\ sentCount[d] = Cardinality(Slots(d))
                  /\ sentCount[d] <= DailyCap

\* One ACTIVE outreach per contact across every campaign: only the creation
\* checks it, so no later transition may bring a closed candidate back.
OneActivePerContact ==
  \A j, k \in Candidates :
    j # k /\ ContactOf[j] = ContactOf[k] => ~(kstatus[j] \in Active /\ kstatus[k] \in Active)

\* However many invocations draft follow-ups at once, a candidate gets no more
\* of them than its campaign allows, and none before its initial message is SENT.
FollowUpsBounded ==
  \A k \in Candidates :
    LET drafted == {m \in Rows(k) : IsFollowUp(m)} IN
    /\ Cardinality(drafted) <= MaxFollowups
    /\ drafted # {} => send[Initial(k)] = "SENT"

\* A message a person must not receive any more: the address is suppressed, or
\* it is a follow-up and somebody answered.
Barred(m) ==
  \/ MailTo(m[1]) \in suppressed
  \/ IsFollowUp(m) /\ reply[m[1]] # "NONE"

InSmtp(m) == \E w \in Workers : pc[w] = "smtp" /\ cur[w] = m

\* Suppression and replies win: once a message is barred, and unless a worker
\* had already passed outreach_send_permitted, it is never handed to SMTP,
\* through any sequence of aborts, retries, re-opened drafts and new claims.
BarredIsFinal ==
  [][\A m \in Msgs : Barred(m) /\ ~InSmtp(m) =>
       /\ Barred(m)'
       /\ ~InSmtp(m)'
       /\ accepted'[m] = accepted[m]]_vars

\* What a person approved is what is sent: an approved text is never changed,
\* re-reviewed or re-opened as a draft, whatever happens to its sending.
ApprovedIsLocked ==
  [][\A m \in Msgs : review[m] = "APPROVED" =>
       /\ review'[m] = "APPROVED"
       /\ send'[m] # "DRAFT"
       /\ IsBooking(m) => link'[m[1]] = link[m[1]]]_vars

\* A message that was sent, may have been sent or failed for good is never
\* claimed again (an expired lease is never re-sent automatically).
ClosedIsFinal ==
  [][\A m \in Msgs : send[m] \in {"SENT", "FAILED", "UNCERTAIN"} => send'[m] = send[m]]_vars

\* A message as Delivery sees it: only a booking's text is data of the model.
Approved == {m \in Msgs : review[m] = "APPROVED"}
Text == [m \in Msgs |-> IF IsBooking(m) THEN link[m[1]] ELSE NULL]
Refused == {m \in Msgs : MailTo(m[1]) \in suppressed}

Tries == [m \in Msgs |-> Attempted(m)]

Delivered == INSTANCE Delivery WITH
  Messages <- Msgs, Texts <- Links, NoText <- NULL, MaxTries <- MaxAttempts,
  status <- send, approved <- Approved, text <- Text, refused <- Refused,
  copies <- accepted, tries <- Tries

\* What the documentation promises of a message, as far as a lost connection lets
\* it, is what the candidates, the leases, the overlapping workers, their crashes
\* and lost completions amount to: each message leads the life of Delivery,
\* whatever is done to the others.
DeliveryIsPromised == Delivered!Spec

-----------------------------------------------------------------------------
(* Liveness.                                                               *)

\* No message stays leased for ever: a crashed worker, or one whose completion
\* was lost, is recovered by the expiry of the lease and a later claim.
LeaseEnds == \A m \in Msgs : send[m] = "SENDING" ~> send[m] # "SENDING"

-----------------------------------------------------------------------------
(* Statements of the repository that the code does not keep.               *)

\* "No double send", and "Retry bounded: 3 attempts, only for failures that
\* happened before the message was handed over" (docs/SELF_OUTREACH.md:51, 52).
AtMostOnce == \A m \in Msgs : accepted[m] <= 1

\* "A follow-up is never drafted after a reply" (037:11).
NoFollowUpAfterReply ==
  [][\A m \in Msgs : IsFollowUp(m) /\ send[m] = "NONE" /\ (\E r \in answered : r[1] = m[1])
       => send'[m] = "NONE"]_vars

=============================================================================
