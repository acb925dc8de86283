# ProspectOS — formal models

TLA+ modules for the parts of ProspectOS whose behaviour depends on the order of
steps taken by several actors: people, scheduled workers, external services and
the database. TLC checks them on small instances; TLAPS proves the most important
statements for every value of the constants.

ProspectOS is a B2B prospecting application: Next.js and TypeScript in front of
PostgreSQL (Supabase), deployed on Vercel. Its business rules live in two layers:

* `SECURITY DEFINER` functions in `db/migrations/*.sql`. Each call is one database
  transaction that locks the rows it depends on. The later definition of a function
  replaces the earlier one (`create or replace`), so a model cites the last one.
* TypeScript (`src/`, `app/api/`) that calls these functions over HTTP and does
  what a transaction cannot do: sending an email, calling an AI model, fetching a
  page, receiving a webhook. A process may die between any two calls.

The hazards are therefore between transactions: what was read before an external
call and used after it, a call whose answer is lost, two processes doing the same
thing, events handled out of order, and counters raised before the work they pay for.

## Inventory

| Component | State | Operations | What makes it correct |
|---|---|---|---|
| Self-Outreach sending (`035`, `037`, `src/self-outreach`, cron route) | candidates, messages, suppressions, daily counters, inbound mails | create, review, outcome, suppress, booking; claim, check, send, complete; record inbound | a delivery once an attempt and again only where the server's answer was lost, truthful statuses, exact daily cap, suppression and replies win, one active candidate per contact |
| Billing (`017`, `018`, `023`, `src/server/billing`) | `billing_accounts`, `stripe_webhook_events`, `account_entitlements` | checkout, `link_stripe_customer`, webhook, `apply_stripe_subscription_state`; the other writers of an entitlement: `activate_trial`, `grant_beta_access`, `grant_internal_access`, `delete_own_account` | an event is applied once; access follows Stripe's latest state; only a paid period opens a commercial plan; a session is opened for the customer of its user |
| Quotas (`005`, `016`, `021`, `023`, `src/server/commercial-usage.ts`) | `discovery_quota_usage`, `offer_analyses` | reserve, complete, abandon an analysis; consume, refund a unit | the limit is never exceeded; what was delivered stays billed; one text is analysed once at a time |
| Team (`008`, `018`, `022`, `023`) | `memberships`, `team_invitations`, paid seats | invite, revoke, accept, remove, leave, transfer ownership, delete an account | a team grows within its seats; an invitation is used once or revoked; an address has one link; a team keeps an owner |
| Discovery (`002`, `004`, `014`, `016`, `021`, `022`, `039`, `src/discovery`) | runs, results, their unit, the cost ledger | start, reuse, provider calls, save, finish, refund; accept, ignore | three paid requests at most, within the time budget; the ledger is exact; what is given back delivered nothing; what is reused is fresh |
| Evidence (`001`–`004`, `015`, `027`, `033`, `036`) | observations, evidence, decisions | confirm, reject, correct, revalidate | only confirmed evidence backs a claim; a rejected source is not brought back |
| Signals and monitoring (`024`, `026`, `src/signals`) | signals, monitors, runs | save, review, purge; claim due monitors, complete a run | an event is kept once for a prospect; a run is done by one invocation and closed in the end; a due monitor is served |
| Signal discovery (`030`, `src/signal-discovery`) | runs, candidates, the unit of a run | start, ask, save, close, refund; ignore, add | what the member is told of a search is what the database says; two events never become one candidate |
| Next best action (`031`, `src/nba`) | recommendations, decisions | recompute, decide, snooze, refresh | one open recommendation for a prospect; a decision is not undone; the better the fit, the better the advice |
| ICP import (`041`, `src/icp-import`) | imports, criteria and their last projection | start, complete, retry, validate, discard, erase | a draft is not lost by a retry; nothing closed revives; rules written by hand are kept |
| Morning digest (`040`, `src/digest`) | subscriptions | subscribe, claim, read, send, mark | at most one recap a day; a signal is not told twice |
| AI outreach texts (`027`, `028`, `029`, `src/outreach`) | drafts, generations | reserve, generate, save | a draft cites confirmed facts only; a failed generation is not billed |
| Accounts (`008`, `011`, `012`, `018`, `src/server/account.ts`) | users, trial seats | trial, export, deletion | a seat of the trial is held by one account and given back once |
| Keys and costs (`009`, `010`, `src/server/byok.ts`) | keys, cost reservations | reserve, settle | the reserved budget covers what is spent |
| External: SMTP server, mailbox, Stripe, AI and search providers, browser | — | — | modelled by the outcomes the code distinguishes |
| Interface, wording, SEO pages, prices shown, scripts, tests | — | — | not modelled |

How they interact: the cron routes (`vercel.json`) start the Self-Outreach worker,
the monitor and the digest; they share nothing but the database. Billing writes the
entitlement that the quotas and the team caps read. Discovery consumes a quota and
feeds prospects and evidence, which signals, next best action, AI texts and
Self-Outreach read. Self-Outreach copies what it needs into its own rows when a
candidate is created and reads nothing of the others afterwards but the
organization list, so it can be modelled on its own.

What is hard: concurrent cron invocations over one queue with leases; external
side effects between two transactions; events (mail, webhooks) that arrive late,
twice or out of order; quotas consumed before and refunded after a call that may
die; members acting while a worker runs. `PROJECT.json` lists every hazard with its line.

## Modules

| Module | Contents |
|---|---|
| `SelfOutreach` | the send protocol: state, actions, properties |
| `MCSelfOutreach` | instances for TLC (with the `SelfOutreach*.cfg`) |
| `Delivery` | abstract specification: the life of a message, as the documentation promises it and as far as its SMTP server lets it |
| `SelfOutreachProofs` | proofs: types, lives of a message and of a candidate, deliveries, truthful statuses, cap, contacts, follow-ups, suppression, locked texts; `SelfOutreach` implements `Delivery` |
| `PaidAccess` | abstract specification: when an entitlement may change |
| `Commons` | `NULL`, which all share |
| `Billing` | checkout, Stripe, webhook, entitlement; its mapping to `PaidAccess` |
| `MCBilling` | instances for TLC (`BillingOverlap.cfg`, `Desk.cfg`, `Progress.cfg`) |
| `BillingProofs` | proofs: types, sessions linked to one user; `Billing` implements `PaidAccess`; one request at a time converges |
| `Team` | invitations, seats, members and deletion as transactions under locks |
| `MCTeam` | instances for TLC (`TeamDeletion.cfg`, `Desk.cfg`) |
| `TeamProofs` | proofs: the locks, invitations, links and seats of a team; the quotas of its members |
| `Usage`, `MCUsage` | the plan's quotas: reservations, refunds, the analysis of an offer |
| `Discovery`, `MCDiscovery` | a search for prospects, from its launch to its results |
| `Merging`, `MCMerging` | how the results of a search become one candidate for an organization or an event |
| `Signals`, `MCSignals` | signals of prospects, and the search that finds some |
| `Monitors`, `MCMonitors` | the monitored prospects and their daily cron |
| `Digest` | the morning recap |
| `Advice` | the engine of the next best action, as operators |
| `NextAction`, `MCNextAction` | the life of a recommendation |
| `IcpImport`, `MCIcpImport` | the import of a customer profile |
| `SearchProofs` | proofs: a search for prospects, the merging of its results, signals and their search |
| `AdviceProofs` | proofs: the recommendations of a prospect and the rules that make them |
| `JobProofs` | proofs: the morning recap, the monitored prospects, the import of a profile |
| `OfficeProofs`, `DeskProofs` | proofs: the parts that `MCOffice` and `MCDesk` put side by side |
| `MCOffice`, `MCDesk`, `MCProgress` | several parts in one run of TLC, each alone |

`Billing` and `Team` meet at the entitlement: `Team` takes the plan of an owner as
a value that changes at any time (`SetPlan`), which is all the code of a team knows of it.
`Usage` takes the team of an account the same way (`MovesTeam`). `Discovery` and the search
of `Signals` carry the unit of their own run, and leave what it costs in the plan to `Usage`.
`Signals`, `Monitors`, `Digest` and `NextAction` read the same table of signals, each for the
columns it decides on, and never write those of another: `NextAction` and `Digest` let signals
appear and be reviewed at any time, as any interleaving with `Signals` would.

Since the parts share no state, three modules put several in one run of TLC: `part` is chosen
in the initial state and the other parts do not move. It is the union of their state spaces,
not their product.

### SelfOutreach

State. `kstatus`, `reply`, `outcome` are columns of `outreach_candidates`; a row that
does not exist yet has status `NONE`. A message is `<<candidate, sequence>>`, as the
unique index `(candidate_id, sequence)` has it: 0 the initial message, 1 and 2 the
follow-ups, 3 the booking reply; `review`, `send`, `attempts`, `holder`, `expired`,
`waiting`, `slotDay`, `link` are columns of `outreach_messages`. `suppressed`,
`sentCount`, `bookingUrl` and `served` are the suppression list, the daily counters,
the campaigns' link and the organizations served. `pc`, `due`, `todo`, `cur`,
`result`, `stopped` are the local variables of one invocation of the cron route.
`accepted`, `unheard`, `lastSent`, `answered`, `reported` stand for the SMTP server and the mailbox:
`accepted` is how many copies of a message the server took, `unheard` how many of these a worker
was told to retry.

Actions. One per database function (`CreateCandidate`, `Approve`/`Reject`/`Edit` for
`review_outreach_message`, `SetOutcome`, `SuppressEmail`, `SetBookingUrl`,
`CreateBooking`, `CreateFollowUp`, `Claim`, `RecordReply`/`RecordMail`/`RecordBounce`
for `record_outreach_inbound`), one per step of the worker between them (`StartRun`,
`SkipFollowUp`, `Check`, `Smtp`, `Finish`), and `Crash`, `LeaseTimeout`,
`RetryDelayOver`, `NewDay`, `ListOrg` for the environment. `Finish` includes
`complete_outreach_send` and the ways its call can fail: refused, unreachable, or
applied with the answer lost.

Abstractions:

* A database function is one atomic step. It locks the rows it changes; the
  suppression read of `create_outreach_candidate` is the exception (see the hazards).
* A lease token is the worker that holds it. Tokens are fresh for each claim; a
  worker never compares a token but the one of the message in its hands, which is
  of its last claim.
* The clock appears as three events: a lease runs out, a retry delay runs out, the
  Paris day changes. A lease may run out while its worker still runs.
* The order of the queue is left open, and the delay of a follow-up may have passed
  or not: every order and every delay is a behaviour of the model.
* A campaign is always ACTIVE: no function of the repository writes another status.
* An email is reduced to what `record_outreach_inbound` decides on: the message its
  headers name, its sender, whether it is automatic, whether it asks to stop, whether
  it is a permanent delivery report.
* The text of a message is left out, but for the booking link inside a booking reply.
* An SMTP attempt is its result and the copies the server took with it (`Copies`). SENT is one
  copy, a refusal none. UNCERTAIN is one or none, and so is RETRY: a temporary refusal, or a
  connection that timed out or was lost at a command other than DATA (`transport.ts:25`). nodemailer,
  which is not under `src/`, names the command CONN whenever the connection times out or is lost,
  while the answer to the message is awaited too. A copy is what the server accepted, whether or not
  a mailbox later hides one that bears the Message-ID of another.

`Delivery` says what all this is for, without workers, leases or candidates: a message leaves only
once approved, as approved, its recipient not having opted out; it is taken once at most in each try,
and a second time only after a copy that nobody heard of, in a bounded number of tries; what is said
of it is true of its other copies, and what nobody knows stays UNCERTAIN. A step of it moves any number of
messages, each by a move of its own life, because one function of the code moves several: a reply
cancels the follow-ups and writes the booking, a claim takes a batch. `DeliveryIsPromised` is that
specification with `send` as the status, `review` as the approval, the booking link as the text, the
suppression list as the refusals, what the server accepted as the copies, and as the tries the
attempts of the row with the one under way.

Two statements of the repository fail. "No double send" and "only for failures that happened before the message was handed over" (`docs/SELF_OUTREACH.md:51`,
`:52`) are `AtMostOnce`: run `sent_twice`. "A follow-up is never drafted after a reply" (`037:11`) is
`NoFollowUpAfterReply`: `record_outreach_inbound` matches a mail to SENT messages only and never looks
at a stored mail again, so that a reply which is read before its send is completed is lost. A permanent
delivery report read then is lost the same way, and suppresses nothing, against
`docs/SELF_OUTREACH.md:47`; `ReportOfSentSuppresses` says that no other is.

### Billing and PaidAccess

State. `account` is `billing_accounts` (a customer, its current subscription and the
synchronized status, end and cancellation), `access` is `account_entitlements`, `seen`
the events recorded as applied, `deleted` the accounts closed. `keyed`, `session` and
`log` are Stripe's: the customer kept under an idempotency key, the checkout session a
subscription comes from, and the successive states of a subscription, each of which
emits one event. `call` and `job` are the local variables of a checkout and of a
webhook request.

Actions. A checkout is `BeginCheckout`, `CreateCustomer`, `LinkCustomer`,
`CreateSession`, one for each call it awaits, and `AbortCheckout`. A webhook request is
`Receive` (the event, and the subscription re-read from Stripe) and `Apply` (the
transaction of `apply_stripe_subscription_state`), or `Abandon`. `Subscribe`, `Change`
and `ForgetKey` are Stripe. `ActivateTrial`, `GrantManual`, `GrantBeta`,
`DeleteAccount` are the other writers of an entitlement.

`PaidAccess` says what they promise together: a commercial plan opens for a period
the user paid for, Stripe moves no running period back, and it leaves a plan given by
hand alone. `AccessIsPromised` is that specification with its ledger of paid periods
read from `log`.

Abstractions:

* An offer is a plan with its seats; a price that is not sold, or a TEAM quantity out
  of range, is `NULL`. A period is named by its end.
* The trialing and paused statuses are left out: no price has a trial, nothing pauses.
* The signature of the webhook, the portal, and the one-off release of migration 034
  are left out. The last-owner rule of a deletion is in `Team`; the capacity of the
  trial is left out, so a trial may be taken or not.

### Team

State. `role` is `memberships`, `invite` is `team_invitations` (with the date reduced
to passed or not), `plan` the entitlement of an account as `team_plan_active` and
`team_seat_cap` read it, `stage` where the deletion of an account stands, `tx` the
transaction under way on a connection.

Actions. The functions run at READ COMMITTED, so one that decides and writes in
several statements is several steps. `create_team_invitation` is `BeginInvite` (owner,
plan, the advisory lock of the team, the address), `Reserve` (the rows it replaces,
the count) and `CommitInvite`; `accept_team_invitation` is `BeginAccept` (the row
`for update` and its checks), `CountSeats` (the advisory lock, the capacity, the count)
and `Join`; `delete_own_account` is `BeginDelete`, `FinishDelete` and, from the route,
`Anonymize`. `Rollback` ends a transaction at any point: a refusal, a constraint, a lost
connection, or the victim of the deadlock that `Reserve` and `CountSeats` can form. The
other functions are one statement and one step: `Revoke`, `Remove`, `Leave`, `Transfer`.

Abstractions: an account stands for its confirmed address, and only answers as itself
until it is anonymized; `Capacity` is the seats paid for or the setting of an operator's
plan; of the organizations a user owns, the first is one they founded, and the order of
the rest is left open.

### Usage

State. `uses` is `discovery_quota_usage`, in the order of `used_at`; `offer` is
`offer_analyses`; `pool` is the team that `plan_subject` finds for an account; `request` is a
request with the transaction it is in; `delivered` counts what each user received.

Actions. A reservation is a transaction at READ COMMITTED: `BeginAnalysis`, `BeginDiscovery`
or `BeginOffer` (the user's lock and whose plan pays), `CheckPlan` (the lock of the pool, then
the count) and `Commit`. The work it pays for follows: `CallProvider`, `PrepareFails`,
`Answers`, `Fails`, `CleanUp`, `Release`, `Complete`, and `Dies` at any point. `ReadBack` is an
analysis found already done; `Lapse` the two minutes of a pending analysis and the 24 hours of
a done one; `NewMonth` and `MovesTeam` the plans and the teams.

Abstractions: the hourly limits, the prices and an inactive plan only refuse, so `CheckPlan` may
refuse at any time. An analysis of an offer is one transaction with its own lock.

### Discovery and Merging

State. `run` and `results` are `discovery_runs` and `discovery_results`; `driver` is the request
that drives a run, with its count of calls and its clock; `sent` is what the source received,
`ledger` what was recorded of it.

Actions: the launch with its reuse, the reading of the project, the passes of the search
for new companies or the queries of a plan, the look for cited companies, the meter, the save,
the finish, the failure and its refund. Each call may fail or lose its answer; the request
may die; a day may pass. Durations are in ticks of four seconds.

`Merging` has the two places where results become candidates: `mergeSameEntityCandidates`
and `mergeSameEvents`. A step is the next result of the list, so a behaviour is a list in an
order. A name is its `entityCore`, a site its registrable domain; an event has who, where
(departments, or a town) and when (a prefix of year and month).

### Signals

State. `signalStatus` is `signals.status` by prospect and item (a page with its words, of
which the event key is a function); `find` is `signal_discovery_candidates`; `search` a run with
its unit; `inquiry` the request that drives it and `told` what its member was answered.
`heard` and `revived` are history.

Actions: `SaveSignal` (`save_signals_core`, which scans, monitors, people and candidates all
use), `Judge` (`review_signal`), `PurgeSignal`; `StartSearch`, `Ask`, `Asked`, `SaveFinds`,
`Close`, `ReleaseUnit`, one for each call the search awaits, and `SearchDies`; `Ignore`, `Add`,
`PurgeFind`. The lock of a prospect makes `SaveSignal` one step. A prospect that is added to
may not exist yet.

Known limits the model shows, which no statement of the repository forbids: a search whose
request dies stays `running`, with its unit billed, for ever; a candidate whose own signal was
rejected can never be added (`SIGNAL_NOT_SAVED`), to that prospect; nothing in the repository
calls `purge_signals` or `purge_signal_discovery`; a result without a place or a date joins
two that contradict each other, so `MergesAgree` speaks of precise results only.

### Monitors and Digest

`Monitors`: `monitor`, `dueList` and `keyUsed` are `monitored_prospects` and the keys of its runs,
`takes` and `lapsed` the running runs with their attempts and their leases, `batch` what an
invocation claimed. `ClaimMonitors` is one transaction: lapsed runs first, then due monitors,
up to a limit, with the pauses it writes. `CloseRun` and `Stops` are the invocation. A run is
named by its prospect: the code allows one of today beside a lapsed one of a day before, which
the model does not.

`Digest`: `sub` is the subscription with `last_checked_at` and `claimed_at`, `rows` and `hand` what
an invocation claimed and is doing, `mails` and `settled` what readers received. A signal bears the
time at which its transaction began and is visible when it commits; the claim, the read, the
email and the mark are steps of their own.

### Advice and NextAction

`Advice` is `engine.ts` as operators: the fit of a prospect (verified, estimated, its states), the
places of a signal against those of the target, the freshness of a signal and its timing, the
fourteen rules in their order, the end of a recommendation and its identity. Shares are in
hundredths and freshness in thousandths, rounded as the code rounds them; `Fading` is a table of
powers of one half. Weights are what `validateCriteria` and the schema of the route accept: any positive
fractions, a hundred points together give or take a thousandth. A weight is a number of units, `Unit` of
which make a point, so that the arithmetic is exact where the code's is in floating point. A verified
criterion is worth its weight as it is (`fit-estimate.ts:55`), an estimate is rounded to points
criterion by criterion (`:70`), the verified score once it is added up (`core.ts:43`), the level not at
all. A score is a set of units, so that two of them can be compared without a sum: a row gives its
criterion the units of its worth, and the best row holds those of the others, which is the maximum the
code takes. The words that classify a signal are left out: a signal has its kind.

`NextAction` has what is known of a prospect, which people and providers write (`Learn`), its
`nba_actions` and the requests that recompute them: `ComputeProject` (the refresh of the states and
the reading), `ReadHistory` (for an automatic one), `SaveAction`, `RecomputeDies`; `DecideAction`
and `OpenPage` are people. `EveryAdviceIsStorable` is a statement the code breaks (finding).

`FitNeverLowers` excepts the criteria whose estimate was rounded above their weight (`Overrated`).
With weights of 0.6, 49.2 and 50.2, the first estimated from the official website and the second verified,
the level is 50.2 and the action WAIT; to verify the first takes the level to 49.8 and the action to
DISMISS. What `docs/NEXT_BEST_ACTION.md:157` states of a criterion of which nothing was known holds without
exception, since it is never overrated; `OnlyFractionsAreOverrated` says which ones may be.

### IcpImport

`import` is `icp_imports`, `icp` the criteria in force, their last projection and where they
come from, `visit` the requests under way, `late` the completions sent by requests that died.
Actions are the SQL functions, one step each, and the reads before them: `ReadPrevious`, `Start`,
`CompleteImport`, `DiscardPrevious`, `Review`, `Validate`, `Discard`, `Delete`, `MemberLeaves`,
`SaveCriteria`, and `VisitDies`, `Arrives`, `LockLapses`. Of the criteria the rules of
`target_fit` stand for all. `retries`, `refused` and `byHand` are history.

## What the runs check

| Run | Instance | What it shows |
|---|---|---|
| `office` | send queue: two candidates of two organizations who share an address, two workers, cap 1, two days, two attempts | `OnceAnAttempt`, `StatusIsTruthful`, `DailyCapHolds` under retries, aborts, crashes, expired leases |
| | recommendations: two recomputations, a signal, a conversation, a declaration, two days looked at, two recommendations | `OneOpenAction`, `DecisionsStand` |
| | engine: every reading of a prospect in the bounds, as initial states, with fractional weights | `FitNeverLowers`, `DeclarationsNeverContact` |
| `conversation` | one person in two campaigns, a follow-up each, a mailbox whose mails name the first candidate's message, a bounce, an organization unlisted at any moment | `OneActivePerContact`, `CandidateFollowsInitial`, `FollowUpsBounded`, `BarredIsFinal` |
| `booking` | one candidate, one worker, the booking reply, a campaign link that changes, two attempts, two days, fairness of the cron | `ApprovedIsLocked`, `DeliveryIsPromised` (implements `Delivery`), `LeaseEnds` |
| `desk` | team: three accounts, two invitations, two transactions, seats that change | `SeatsKept`, `InvitationIsFinal`, `OneLinkPerAddress` |
| | quotas: two members of one team, two requests, one unit a period, two periods; analyses, and launches of a search, apart | `PoolKept`, `DeliveredIsBilled`, `OneCallPerText` |
| | searches: five launches, one for new companies, two reuses, two companies and a page that cites one | `RequestsBounded`, `LedgerIsExact`, `ReleasedDeliveredNothing`, `ReuseIsFresh` |
| | recap: a reader, two signals, two invocations, two days of two ticks | `OneRecapADay`, `ToldOnce` |
| | monitors: two prospects of a member who may be away or leave, two invocations, one run a batch | `OneInvocationPerRun` |
| | billing: one subscription, two checkouts, or two webhook requests, at a time | `SessionsAreLinked` |
| | imports: two of a project, two requests | `DraftsKept`, `ImportsMoveForward` |
| | signals: an event told by two items, two prospects of which one is to be added, a search of two queries | `EventKeptOnce`, `SearchIsToldTruly` |
| | merging: lists of three results | `MergesAgree` |
| `progress` | one subscription of three states, events late, repeated, out of order, failing, handled one at a time | `AccessIsPromised` (implements `PaidAccess`), `ConvergesWhenQuiet`, and `FollowsStripe` under Stripe's retries |
| | two monitored prospects of a member who may be away, one invocation at a time | `RunCloses`, `DueIsServed` |
| `follow_up_after_reply` | one candidate, mailbox | `NoFollowUpAfterReply` fails: a reply read before its send is completed is lost |
| `sent_twice` | one candidate, two attempts | `AtMostOnce` fails: a lost connection is retried after the server took the message |
| `billing_overlap` | the subscription of `progress` with two requests at once | `ConvergesWhenQuiet` fails: an older state is applied last |
| `team_deletion` | a team whose owner may delete the account | `OwnerStays` fails: an invitation outlives the owner |
| `team_pool` | a member of a team with an organization of its own | `PoolPaysForAll` fails: uses the team's plan allows and no pool counts |
| `advice_storable` | a conversation as old as its window | `EveryAdviceIsStorable` fails: the table refuses the row |
| `hand_rules` | two imports and rules written by hand | `HandRulesKept` fails: the second import replaces them |

The last seven are findings; each is quoted with its lines in `PROJECT.json`. The type invariant of
each part is checked in `office` (`OfficeTypes`) and `desk` (`DeskTypes`).

Bounds of Self-Outreach. Two workers are enough for one to hold an expired lease while the other
claims; the proofs cover any number. A cap of one and two candidates make the cap
bite, and two days let a slot taken on one day be returned on the next. Two attempts
give one retry, after a copy nobody heard of or not, and one exhaustion. The shared address makes a
suppression in one organization stop the message of the other. `Answerable`, `Senders` and `OutcomeInputs` bound
the mails and the outcomes of a run; each run takes those its properties depend on. `booking` has
one candidate because `Delivery` speaks of each message alone, and one worker at a time, which dies and
starts again: that two overlapping workers implement `Delivery` as well is the theorem
`ImplementsDelivery`, and the invariants of `office` hold with two; `conversation` has one day, since
what it checks does not depend on the cap. Workers are symmetric.

Billing. Two requests and two checkouts are what an overlap takes. Two periods give a
renewal and a late event of the one before it; two states of a subscription in
`desk`, three in `progress`, so that an event may be overtaken by two; one offer is enough there,
since what a period opens does not depend on another.
`Hosted` bounds the accounts an operator gives a trial to: none in the convergence runs,
since such a grant replaces a paid entitlement until the next event. `Forgetful` bounds
the users whose idempotency key is dropped.

Team. Two transactions, three accounts and two seats make two acceptances
compete for the last one; two invitations allow a replacement.
One organization: its locks are its own, and the theorems cover several. `Subscribers` and
`Leavers` bound the accounts whose plan changes and which may be deleted: the owner.

Quotas, searches, recaps, monitors. Two requests make two counts overlap, and a limit of one
unit makes the second one bite. A behaviour of the searches is a search, its reuse and the
reuse of that one, or a search for new companies, or one of three queries (`SomeLaunches`): what
they share is the reuse. Two days of a recap let an invocation of one end in the next. Two prospects and a batch of
one make a lapsed run and a due monitor compete for it; `AskerStates` bounds what may become of
the member who asked: to leave in `desk`, to be away in `progress`.

Recommendations. `Starts` is what may be known first: a fit verified in half or in full; for the
engine, any reading in the bounds. The first day and the last of a window: a jump stands for the days between.
Two requests make a recomputation overlap another, and a decision. The engine takes every set
of seven pieces of evidence on three criteria that weigh 59 2/3, 38 2/3 and 1 2/3 points (`Unit` is 3):
the first, verified, rounds to the threshold of CONTACT, and the last is estimated above its weight, so
that with the first as a directory estimates it the level passes 50. Beside the evidence there is at
most an advertisement, an opening or a launch, and a conversation, reviewed or not, near, far or
nowhere, inside their windows and at the end of them.

Imports, signals, merging. Two imports are a retry and what it replaces; `EditsOverlap` lets a
person write while a validation is under way. Two items of one event, one prospect that exists
and one that does not: what is about a prospect needs no third. Three results are what a
bridge between two that disagree takes.

Fairness (`FairSpec`). An invocation takes its next step (`WF` of `Run(w)`), because a
serverless function either goes on or dies, and dying is `Crash`. `Claim` is strongly
fair: `vercel.json` starts the route every day, and the code gives no reason why every
invocation should die before its claim. A lease runs out (`WF` of `LeaseTimeout`):
`lease_until` is a date. Nothing is assumed of members, mails or SMTP.

Fairness of `Billing` (`BillingFairness`). Stripe delivers an event again until it is
acknowledged (strong fairness of `Receive` for an event not recorded), and the database
does not fail for ever on one event (strong fairness of `Apply` for a request that
handles it); strong, because a request may be abandoned any number of times. Nothing is
assumed of users, operators or the life of a subscription.

Fairness of `Monitors` (`MonitorsFairness`). The cron claims again and again, an invocation goes
on or stops, a lease lapses: the schedule of `vercel.json`, the limit of a serverless function,
a date. An invocation may stop every time it has claimed; the third attempt is the last, and
what closes the run is then the claim itself.

The other parts have no liveness: nothing in the code drives a search, an import or a
recommendation whose request died but the person who asks again.

## What is proved

Of 40 properties the passing runs check, 36 are theorems for every value of the constants; one of
them, `ConvergesWhenQuiet`, under the hypotheses said below, without which it is false. The other
four are liveness. Every invariant that a run checks is a theorem.
The proofs use no bound of the runs: candidates, workers, users, subscriptions, requests,
launches, prospects, signals, organizations, invitations, connections, imports, caps and limits
are arbitrary. What is assumed of the constants is named in the modules:

* functions over the constants have their types, and the sets that are counted are finite:
  `OutreachAssumption`, `AdviceAssumption`, `TeamAssumption`, `UsageAssumption`, `DiscoveryAssumption`,
  `MonitorsAssumption`, `SignalsAssumption`, `MergingAssumption`, `NextActionAssumption`;
* a day and the time that passes are not empty (`DigestAssumption`), there is a period to pay for
  and a plan given by hand is not sold (`BillingAssumption`);
* `NULL` is no row (`NullAssumption`, `BillingNullAssumption`, `IcpImportAssumption` and others);
* of the code: a request has at most three queries (`DiscoveryAssumption`), a run keeps one
  candidate of an event (`SignalsAssumption`, the constraint `unique(run_id, event_key)`), the
  weights of the criteria add up to a hundred points, give or take a thousandth (`WeightsAddUp`, of
  `validateCriteria`; no proof uses it), a kind of signal weighs at most a hundred
  (`RegistryAssumption`, of `registry.ts`);
* of the environment: a power of one half is a share and a signal and a content have identifiers
  of their own (`NewsAssumption`).

### Self-Outreach (`SelfOutreachProofs`)

* `TypeCorrect`. `TypeOK` is not inductive: a completion with nothing in hand could
  write anything. `InHand` (a worker past its choice holds a message, and a worker
  about to complete has a result) makes it so.
* `CandidateInStep`. The status of a candidate and of its initial message are written
  by seven functions. The invariant needs `InitialFirst`: a follow-up, a booking, a
  reply or a last SENT message exists only once the initial message is SENT, so
  whatever these set off finds the candidate on the SENT side of the table.
* `NeverResent`. From the moves of a message (`EditorialMove`, `SendingMove`): SENT,
  FAILED and UNCERTAIN have no way out.
* `NoDoubleSend` (`OnceAnAttempt`) and `TruthfulStatus`. `ClaimsApart`: what a worker has claimed and
  not completed is SENDING or UNCERTAIN, and nobody else's; since a claim only takes READY messages, and
  UNCERTAIN never becomes READY, `KnownCopies` follows: a worker that is about to send holds a message
  all of whose copies were taken of attempts it or another was told to retry. `CopiesCounted` adds that
  such copies were counted as attempts, which the database bounds: a copy above the first needs a RETRY.
* `CapKept`. The counter of a day is the number of messages holding one of its slots;
  only a claim and a completion move a slot, and the statuses that return it are
  exactly those that leave the set.
* `OneActive`, `FollowUpsKeptBounded`, `BarredNeverSent`, `ApprovedStaysLocked`. Each from
  the moves of a message or a candidate it forbids; the first rests on the
  invariant of `CandidateInStep`: no function but the creation of a candidate, which
  looks for another, makes one active.
* `ImplementsDelivery`, the refinement. Each action is, for each message, one move of `Delivery` or
  none; what makes it so is `DeliveryInv`: what an approval opened is no draft (`ApprovedLeftDraft`),
  what is ready or past it was approved (`ReadyIsApproved`), what was taken was approved
  (`TakenWereApproved`), and the copies of a message never exceed its attempts. Only the safety is refined.
  `DeliveredWereApproved` says the same of the code's own columns.
* `ReportOfSentSuppresses` and `NoFollowUpOnceMatched` delimit what is lost of a mailbox: a delivery
  report is lost only if it comes before SENT is written, and a follow-up is drafted after an answer only
  if the answer was not recorded on its candidate.

### Billing (`BillingProofs`)

* `BillingTypes`. An unknown price never becomes a plan: `Opens` requires an offer.
* `SessionsLinkedToOneUser`, through `LinkInv`: a customer is stored for one user, a
  checkout that has its customer and a session hold the one stored for their user, and
  a stored customer never changes; `LinkCustomer` returns the one stored, so two
  checkouts that made two customers go on with the same.
* `ImplementsPaidAccess`, the refinement, through `LogInv`: what a request re-read is a state of
  the subscription's log, and a subscription with a log has a session, so whatever `Apply`
  opens was paid for; every other action maps to a grant, a loss or a stutter.
* `OneAtATimeConverges` and `ConvergesOneAtATime`. `billing_overlap` shows that two requests about
  one subscription may leave an older state applied last; these theorems say that nothing else
  can, but a second subscription of the same user, or an operator's trial. As long as no two
  requests about one subscription are under way together, for any number of users,
  subscriptions and requests, and whatever the order in which events come, repeat and fail, a user
  who has one subscription is in its state once every event is recorded. `LastsInv` holds
  with overlaps too: the current subscription is one of the user's, a paid access never ends
  later than a subscription of its user (so the latest state is never refused as older), and only
  emitted events are recorded. `FreshInv` needs the hypothesis: what a request read is the latest
  state, or the latest event is not recorded; and once it is, the user is in that state.

### Team and quotas (`TeamProofs`)

* `TeamTypes`, with `LockInv`: an acceptance holds a row that is pending, for its team and
  its user, and no two transactions have one row or the seats of one team. The difficult
  case is `CommitInvite`, whose new row must not fall under the lock of another
  invitation for the same address: the seats lock excludes it.
* `InvitationsFinal` and `OneLink` from what a step does to a row (`RowStep`,
  `InvitedRows`, `JoinedRows`): nothing, its date, its insertion or its closing.
* `SeatsNeverExceeded`, through `RoomLeft`: whoever has counted still has room, because only
  `Join` adds an account and its team's lock is held from the count to the commit.
* `PoolsAreKept`. `PoolKept` is the same argument with two locks: `UserApart` and `TeamApart` say
  that two transactions that count the same pool are one, so that `UnitLeft`, the unit a request
  counted, is still there when it commits. It also needs `RowsOfPayers`: a row is counted for the
  plan that paid, not for the plan its user has now.
* `DeliveriesStayBilled`, through `UnitsCovered`: for a user and an action, what was delivered plus
  what is under way never exceeds the billed rows. A refund takes the newest billed row of the
  user, which may be another request's; the count is why it does not matter whose.
* `TextsAreCalledOnce`, through `TextsPending` and `TextsApart`: an analysis that holds its
  reservation finds its row PENDING, and no other request holds or decides on that row.
* `UsageInvariant` collects them, with the types.

### Searches (`SearchProofs`)

* `SearchesAreBounded`, `CostsAreRecordedExactly`, `OnlyEmptyRunsAreReleased`, through `OneRun`,
  what a launch may be at each step: requests are counted before they are sent, a pass is begun
  within the time budget, the cost is recorded once no request is made any more, and what has no
  answer has no result.
* `ReusedResultsAreFresh`. `TraceInv` says that the origin of a reused result is a launch that
  asked the source, whose date it keeps: the reuse of a reuse does not make the results younger.
  The origin is the fixed point of a recursive definition, and the invariant speaks of every such
  function, so that no induction over the chain is needed.
* `MergesAgreeAlways`, with `MergingInv`: a candidate that is several pages has the site of all those
  that have one (`JoinedSites`), and between precise results being the same event is transitive
  (`SameIsTransitive`), so that a result that agrees with one of a group agrees with all.
* `MergingTypes` counts what was read (`ReadCounted`): candidates, groups and what is left to read
  never exceed the bound.

### Recap and monitors (`JobProofs`)

* `ReadersGetOneRecapADay` and `SignalsAreToldOnce`, from one invariant, `DigestInv`. A row that is
  under way was claimed today (`OfToday`) and is in one invocation (`OneUnderWay`), so it was not
  sent (`NotYetSent`); what was settled is dated no later than the last mark (`SettledBefore`), and
  a row reads only what is later than the mark it was claimed with (`NoneTwice`).
* `RunsAreHeldOnce`. `OneInvocationPerRun` needs `Leased`: a run in a batch is in it once, is
  running, and its lease has not lapsed, so that a claim of lapsed runs cannot take it.

### Signals (`SearchProofs`)

* `EventsAreKeptOnce`: with `StatusesOK`, of the items of an event one at most is alive for a
  prospect, but where a person verified again one that was rejected.
* `SearchesAreToldTruly`, through `OneSearch`: what an inquiry will tell at each step of its end is
  already decided by what the database holds and by the number of answers (`Unheard`: before an
  answer there is no candidate), so that what is told of a refund or of a failure is true.
* `SignalsTypes`, from the same invariant.

### Advice (`AdviceProofs`)

* `OneRecommendationIsOpen` and `DecisionsAlwaysStand`, with `NextActionInv`: a save replaces every
  open row by its own, and the refresh closes or keeps open, never reopens.
* `VerifyingNeverLowers`, for weights in any fractions of a point. The fit is a set of units, so that a score is a cardinality and adding a
  verified criterion that is not overrated is an inclusion (`MetGives`): the two scores do not fall, the fit is no more
  UNKNOWN, and it is KNOWN_LOW only if it was (`MetIsBetter`). Then, by cases of the rule that
  applied, the first that applies to a better fit is one of those at least as favourable
  (`BetterIsNotLess`): the hard cases are RELEVANT_CONVERSATION, which a contact must pass, and
  FIT_WITHOUT_TIMING, which an incomplete fit that becomes sufficient must not reach.
* `OnlyFractionsAreOverrated` delimits the exception: a criterion is overrated only if it weighs less
  than five points, and not a whole number of them.
* `DeclaringNeverContacts`: CONTACT depends on the verified score, the signals and the
  conversations only (`ContactIs`), because a verified score of sixty is a level of fifty-nine and a half or more
  (`FitFine`), past every threshold the rules before CONTACT have.
* `ARuleAlwaysApplies`: "NBA: no rule applies" is never thrown, for any criteria and weights.
* `NextActionTypes`. The best of a set of reasons is one of them (`BestIs`) because they are apart by
  their identifiers and dated no later than today: `KnownTyped` keeps both through what people and
  providers write, in any order. So what drives a recommendation is one of the reasons it was read
  from (`WhyIs`), its expiry a day and its references identifiers (`AdviseIs`), whichever of
  the fourteen rules applied; and a row wakes when it was snoozed and only then (`Row`).

### Parts side by side (`OfficeProofs`, `DeskProofs`)

* `EveryDeskIsTyped` and `EveryOfficeIsTyped`: the type invariants of the two large runs, for any
  constants. A part that runs beside others goes through behaviours of its own specification
  (`PartsAlone`, `QueueAlone`), so that what is proved of it alone holds there.
* `OfficeAdvisesFairly`: `FitNeverLowers` and `DeclarationsNeverContact` of the prospect of which
  anything may be known, from where `office` starts the engine, and not only of one that was
  documented step by step.

### ICP import (`JobProofs`)

* `IcpTypes`, `RetriesKeepDrafts`, `ImportsAdvance`, from one inductive invariant, `IcpInv`: one
  import is in progress, a draft is in a row that was recorded, a request drives a row that was
  inserted for the import it retries, and it reaches `DiscardPrevious` only once that retry has
  left a draft. What is sent late finds its row PENDING or changes nothing (`RecordedAs`).

### Only model-checked

`LeaseEnds`, `FollowsStripe`, `RunCloses` and `DueIsServed` are liveness under fairness, which is
out of the prover's reach. The reference definition of a reused result is recursive, and its
theorem speaks of every function that satisfies its equation instead. The seven findings are
counterexamples of TLC.

## Known limits, not stated as properties

* `create_outreach_candidate` reads the suppression list without the address lock: a suppression
  that commits before its insert is not seen. What remains is a draft, which approval, claim and
  the check before SMTP refuse (`BarredIsFinal` starts from any such state).
* A follow-up that is SENDING is left by `outreach_stop_followups`, so that a booking draft may be
  beside it; the check before SMTP cancels it in most orders.
* Two subscriptions may be paid before the first webhook (`checkout.ts:49`); an account keeps one.
* Those of `Signals` above.

## Not modelled

Components that are not listed under Modules, and why, are in `PROJECT.json`. Presentation,
wording, parsing of pages, prompts, encryption and row-level access are left out for good: most
of the lines of the repository are of those, and a state machine has nothing to say of them.
Evidence, AI texts and keys are left to the plan.

## Plan

Done: Self-Outreach with its abstract specification; Billing with its own; Team; quotas; searches
and their merging; signals and their search; monitors and recap; next best action; ICP import; the
safety of each, and both refinements, as theorems.

Left, in this order:

1. Evidence and AI texts: what a draft cites stays confirmed.
2. Keys and costs: the reserved budget covers what is spent.
