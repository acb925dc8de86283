------------------------------ MODULE Billing -------------------------------
(***************************************************************************)
(* Stripe billing: the checkout that links a user to one Stripe customer,  *)
(* the subscriptions as Stripe knows them, the webhook that re-reads a     *)
(* subscription and applies what it read in a later transaction, and the   *)
(* entitlement this transaction opens, extends or ends (migrations 017,    *)
(* 018 and 023, src/server/billing).                                       *)
(*                                                                         *)
(* An offer stands for a plan and its number of seats: a price ProspectOS  *)
(* does not sell, or a TEAM quantity out of range, is NULL. A period is    *)
(* named by its end.                                                       *)
(***************************************************************************)
EXTENDS Commons, Integers, Sequences

CONSTANTS
  Users, Customers, Subs, Offers,
  Manual,       \* the plans given by hand: INTERNAL and ENTERPRISE
  Forgetful,    \* bound: the users whose idempotency key may be forgotten
  Hosted,       \* bound: the users an operator may give a trial, whatever they pay
  Calls,        \* concurrent checkouts
  Handlers,     \* concurrent webhook requests
  LastEnd,      \* bound: the last period
  MaxVersions   \* bound: the states a subscription goes through at Stripe

ASSUME BillingAssumption ==
  /\ LastEnd \in Nat \ {0}
  /\ MaxVersions \in Nat
  /\ NULL \notin Users \cup Customers \cup Subs \cup Offers
  /\ Offers \cap Manual = {}
  /\ {"NONE", "BETA"} \cap (Offers \cup Manual) = {}

StripeStatuses == {"incomplete", "incomplete_expired", "active", "past_due", "unpaid", "canceled"}
Ended == {"canceled", "unpaid", "incomplete_expired"}
Blocking == {"active", "past_due", "unpaid"}
Billed == {"active", "past_due", "unpaid", "incomplete"}

Contract == [offer : Offers \cup {NULL}, status : StripeStatuses, paid : BOOLEAN,
             end : 1..LastEnd, cancelling : BOOLEAN]
Account == [customer : Customers, sub : Subs \cup {NULL}, status : StripeStatuses \cup {NULL},
            end : 0..LastEnd, cancelling : BOOLEAN]
Access == [plan : Offers \cup Manual \cup {"NONE", "BETA"},
           status : {"ACTIVE", "EXPIRED", "REVOKED"}, end : 0..LastEnd]
Session == [user : Users, customer : Customers, offer : Offers]
Call == [user : Users, offer : Offers, created : Customers \cup {NULL},
         customer : Customers \cup {NULL}]
Job == [sub : Subs, event : 1..MaxVersions, contract : Contract]

ASSUME BillingNullAssumption ==
  /\ NULL \notin Account
  /\ NULL \notin Session
  /\ NULL \notin Call
  /\ NULL \notin Job

VARIABLES
  account,   \* billing_accounts: customer, current subscription and its state
  access,    \* account_entitlements
  seen,      \* stripe_webhook_events
  deleted,   \* users who deleted their account
  keyed,     \* Stripe: the customer kept under a user's idempotency key
  session,   \* Stripe: the checkout session a subscription comes from
  log,       \* Stripe: the successive states of a subscription, one event each
  call,      \* a checkout request: what it has obtained so far
  job        \* a webhook request: its event and the state it re-read

database == <<account, access, seen, deleted>>
stripe == <<keyed, session, log>>
billingVars == <<database, stripe, call, job>>

BillingTypeOK ==
  /\ account \in [Users -> Account \cup {NULL}]
  /\ access \in [Users -> Access]
  /\ seen \subseteq Subs \X (1..MaxVersions)
  /\ deleted \subseteq Users
  /\ keyed \in [Users -> Customers \cup {NULL}]
  /\ session \in [Subs -> Session \cup {NULL}]
  /\ log \in [Subs -> Seq(Contract)]
  /\ call \in [Calls -> Call \cup {NULL}]
  /\ job \in [Handlers -> Job \cup {NULL}]

BillingInit ==
  /\ account = [u \in Users |-> NULL]
  /\ access = [u \in Users |-> [plan |-> "NONE", status |-> "EXPIRED", end |-> 0]]
  /\ seen = {}
  /\ deleted = {}
  /\ keyed = [u \in Users |-> NULL]
  /\ session = [s \in Subs |-> NULL]
  /\ log = [s \in Subs |-> <<>>]
  /\ call = [c \in Calls |-> NULL]
  /\ job = [h \in Handlers |-> NULL]

Latest(s) == log[s][Len(log[s])]

-----------------------------------------------------------------------------
(* Checkout (startCheckout), one step for each call it awaits.             *)

BeginCheckout(c, u, o) ==
  /\ call[c] = NULL
  /\ \E s \in Subs : session[s] = NULL    \* bound
  /\ u \notin deleted
  /\ account[u] # NULL => account[u].status \notin Blocking
  /\ call' = [call EXCEPT ![c] =
       [user |-> u, offer |-> o, created |-> NULL,
        customer |-> IF account[u] = NULL THEN NULL ELSE account[u].customer]]
  /\ UNCHANGED <<database, stripe, job>>

\* Stripe answers a repeated idempotency key with the customer it made first.
CreateCustomer(c) ==
  /\ call[c] # NULL
  /\ call[c].customer = NULL
  /\ call[c].created = NULL
  /\ LET u == call[c].user IN
     \E x \in Customers :
       /\ IF keyed[u] # NULL THEN x = keyed[u]
          ELSE /\ \A v \in Users : keyed[v] # x /\ (account[v] # NULL => account[v].customer # x)
               /\ \A d \in Calls : call[d] # NULL => call[d].created # x
               /\ \A t \in Subs : session[t] # NULL => session[t].customer # x
       /\ keyed' = [keyed EXCEPT ![u] = x]
       /\ call' = [call EXCEPT ![c].created = x]
  /\ UNCHANGED <<database, session, log, job>>

\* An idempotency key is kept for a day only.
ForgetKey(u) ==
  /\ keyed[u] # NULL
  /\ keyed' = [keyed EXCEPT ![u] = NULL]
  /\ UNCHANGED <<database, session, log, call, job>>

\* link_stripe_customer: the first customer stored wins, and is the one returned.
Faulty_CreatedCustomer(c) == call[c].created
LinkedCustomer(c) ==
  IF account[call[c].user] = NULL THEN call[c].created ELSE account[call[c].user].customer

LinkCustomer(c) ==
  /\ call[c] # NULL
  /\ call[c].customer = NULL
  /\ call[c].created # NULL
  /\ LET u == call[c].user IN
     /\ account[u] = NULL =>
          \A v \in Users : account[v] # NULL => account[v].customer # call[c].created
     /\ account' = [account EXCEPT ![u] =
          IF @ # NULL THEN @
          ELSE [customer |-> call[c].created, sub |-> NULL, status |-> NULL, end |-> 0,
                cancelling |-> FALSE]]
     /\ call' = [call EXCEPT ![c].customer = LinkedCustomer(c)]
  /\ UNCHANGED <<access, seen, deleted, stripe, job>>

\* Within five minutes the same user and offer get the same session back.
CreateSession(c) ==
  /\ call[c] # NULL
  /\ call[c].customer # NULL
  /\ LET new == [user |-> call[c].user, customer |-> call[c].customer, offer |-> call[c].offer] IN
     \E s \in Subs : /\ session[s] \in {NULL, new}
                     /\ session' = [session EXCEPT ![s] = new]
  /\ call' = [call EXCEPT ![c] = NULL]
  /\ UNCHANGED <<database, keyed, log, job>>

\* Stripe or the database does not answer, or the request dies.
AbortCheckout(c) ==
  /\ call[c] # NULL
  /\ call' = [call EXCEPT ![c] = NULL]
  /\ UNCHANGED <<database, stripe, job>>

-----------------------------------------------------------------------------
(* Stripe (external): a session paid or not, renewals, payments, portal.   *)

Subscribe(s) ==
  /\ session[s] # NULL
  /\ log[s] = <<>>
  /\ \E st \in {"active", "incomplete"}, e \in 1..LastEnd :
       log' = [log EXCEPT ![s] = <<[offer |-> session[s].offer, status |-> st,
                                    paid |-> st = "active", end |-> e, cancelling |-> FALSE]>>]
  /\ UNCHANGED <<database, keyed, session, call, job>>

\* From r to q: renewed, paid, not paid, cancelled, to be cancelled at the end
\* of the period or not any more, moved to another price.
Moves(r, q) ==
  \/ /\ r.status = "active" /\ r.paid /\ ~r.cancelling /\ r.end < LastEnd
     /\ q = [r EXCEPT !.end = @ + 1, !.paid = FALSE]
  \/ /\ r.status \in {"incomplete", "active", "past_due", "unpaid"} /\ ~r.paid
     /\ q = [r EXCEPT !.status = "active", !.paid = TRUE]
  \/ r.status = "incomplete" /\ q = [r EXCEPT !.status = "incomplete_expired"]
  \/ r.status = "active" /\ ~r.paid /\ q = [r EXCEPT !.status = "past_due"]
  \/ r.status = "past_due" /\ q = [r EXCEPT !.status = "unpaid"]
  \/ r.status \in Blocking /\ q = [r EXCEPT !.status = "canceled"]
  \/ r.status = "active" /\ q = [r EXCEPT !.cancelling = ~@]
  \/ r.status = "active" /\ \E o \in Offers \cup {NULL} : q = [r EXCEPT !.offer = o]

Change(s) ==
  /\ log[s] # <<>>
  /\ Len(log[s]) < MaxVersions
  /\ \E q \in Contract :
       /\ q # Latest(s)
       /\ Moves(Latest(s), q)
       /\ log' = [log EXCEPT ![s] = Append(@, q)]
  /\ UNCHANGED <<database, keyed, session, call, job>>

-----------------------------------------------------------------------------
(* The webhook (handleStripeWebhook): the event names a subscription, whose *)
(* state is re-read; a second call applies it.                             *)

Faulty_TrustEvent(s, n) == log[s][n]
Retrieved(s, n) == Latest(s)

\* Stripe delivers each event until it is acknowledged, and perhaps again.
Receive(h, s, n) ==
  /\ job[h] = NULL
  /\ n \in 1..Len(log[s])
  /\ job' = [job EXCEPT ![h] = [sub |-> s, event |-> n, contract |-> Retrieved(s, n)]]
  /\ UNCHANGED <<database, stripe, call>>

\* The closing of another subscription than the current one changes nothing.
StaleState(a, s, r) ==
  /\ a.sub # NULL
  /\ a.sub # s
  /\ a.status \in Blocking
  /\ r.status \in {"canceled", "incomplete_expired", "incomplete"}

Running(a) == a.plan \in Offers /\ a.status = "ACTIVE"

Opens(a, r) == r.offer # NULL /\ ~(Running(a) /\ a.end > r.end)

Faulty_StatusOnly(r) == r.status = "active"
Paying(r) == r.status = "active" /\ r.paid

\* The entitlement after the state r of the user's subscription.
AccessAfter(a, r) ==
  CASE a.plan \notin Manual /\ Paying(r) /\ Opens(a, r) ->
         [plan |-> r.offer, status |-> "ACTIVE", end |-> r.end]
    [] a.plan \notin Manual /\ ~Paying(r) /\ r.status \in Ended /\ Running(a) ->
         [plan |-> a.plan, status |-> "EXPIRED", end |-> a.end]
    [] OTHER -> a

\* apply_stripe_subscription_state, for the user u of the customer (if any).
Synchronize(u, s, r) ==
  IF StaleState(account[u], s, r) THEN UNCHANGED <<account, access>>
  ELSE /\ account' = [account EXCEPT ![u] =
            [customer |-> @.customer, sub |-> s, status |-> r.status, end |-> r.end,
             cancelling |-> r.cancelling]]
       /\ access' = [access EXCEPT ![u] = AccessAfter(@, r)]

Payers(s) == {u \in Users : account[u] # NULL /\ account[u].customer = session[s].customer}

Apply(h) ==
  /\ job[h] # NULL
  /\ LET s == job[h].sub
         event == <<s, job[h].event>> IN
     IF event \in seen THEN UNCHANGED <<account, access, seen>>
     ELSE /\ seen' = seen \cup {event}
          /\ \/ Payers(s) = {} /\ UNCHANGED <<account, access>>
             \/ \E u \in Payers(s) : Synchronize(u, s, job[h].contract)
  /\ job' = [job EXCEPT ![h] = NULL]
  /\ UNCHANGED <<deleted, stripe, call>>

\* Stripe or the database fails, or the request dies: nothing is recorded.
Faulty_AbandonRecorded(h) ==
  /\ job[h] # NULL
  /\ seen' = seen \cup {<<job[h].sub, job[h].event>>}
  /\ job' = [job EXCEPT ![h] = NULL]
  /\ UNCHANGED <<account, access, deleted, stripe, call>>
Abandon(h) ==
  /\ job[h] # NULL
  /\ job' = [job EXCEPT ![h] = NULL]
  /\ UNCHANGED <<database, stripe, call>>

-----------------------------------------------------------------------------
(* The other writers of entitlements.                                      *)

\* activate_trial (its seats are counted elsewhere).
ActivateTrial(u) ==
  /\ u \notin deleted
  /\ access[u].plan = "NONE"
  /\ access' = [access EXCEPT ![u] = [plan |-> "BETA", status |-> "ACTIVE", end |-> 0]]
  /\ UNCHANGED <<account, seen, deleted, stripe, call, job>>

\* grant_internal_access, grant_enterprise_access: an operator, in SQL.
GrantManual(u, p) ==
  /\ u \notin deleted
  /\ access' = [access EXCEPT ![u] = [plan |-> p, status |-> "ACTIVE", end |-> 0]]
  /\ UNCHANGED <<account, seen, deleted, stripe, call, job>>

\* grant_beta_access, by an operator too: it replaces any plan, a paid one included.
GrantBeta(u) ==
  /\ u \notin deleted
  /\ access' = [access EXCEPT ![u] = [plan |-> "BETA", status |-> "ACTIVE", end |-> 0]]
  /\ UNCHANGED <<account, seen, deleted, stripe, call, job>>

\* delete_own_account, refused while the synchronized subscription is billed.
DeleteAccount(u) ==
  /\ u \notin deleted
  /\ account[u] # NULL => account[u].cancelling \/ account[u].status \notin Billed
  /\ deleted' = deleted \cup {u}
  /\ access' = [access EXCEPT ![u] =
       IF @.plan = "BETA" THEN [@ EXCEPT !.status = "REVOKED"] ELSE @]
  /\ UNCHANGED <<account, seen, stripe, call, job>>

-----------------------------------------------------------------------------
Checkout(c) ==
  \/ \E u \in Users, o \in Offers : BeginCheckout(c, u, o)
  \/ CreateCustomer(c) \/ LinkCustomer(c) \/ CreateSession(c) \/ AbortCheckout(c)

Stripe ==
  \/ \E s \in Subs : Subscribe(s) \/ Change(s)
  \/ \E u \in Forgetful : ForgetKey(u)

Webhook(h) ==
  \/ \E s \in Subs, n \in 1..MaxVersions : Receive(h, s, n)
  \/ Apply(h)
  \/ Abandon(h)

Rights(u) ==
  \/ ActivateTrial(u) \/ DeleteAccount(u)
  \/ \E p \in Manual : GrantManual(u, p)
  \/ u \in Hosted /\ GrantBeta(u)

BillingNext ==
  \/ \E c \in Calls : Checkout(c)
  \/ Stripe
  \/ \E h \in Handlers : Webhook(h)
  \/ \E u \in Users : Rights(u)

BillingSpec == BillingInit /\ [][BillingNext]_billingVars

Handles(h, s, n) == job[h] # NULL /\ job[h].sub = s /\ job[h].event = n

\* Stripe delivers an event again until an answer acknowledges it, and Stripe
\* and the database do not fail for ever on one event.
BillingFairness ==
  \A s \in Subs, n \in 1..MaxVersions :
    /\ SF_billingVars(<<s, n>> \notin seen /\ \E h \in Handlers : Receive(h, s, n))
    /\ \A h \in Handlers : SF_billingVars(Handles(h, s, n) /\ Apply(h))

BillingFairSpec == BillingSpec /\ BillingFairness

-----------------------------------------------------------------------------
(* Properties.                                                             *)

\* The period p was paid, Stripe said, by the subscription s of the user u.
PaidBy(u, s, p) ==
  /\ session[s] # NULL
  /\ session[s].user = u
  /\ \E n \in 1..Len(log[s]) : /\ log[s][n].status = "active"
                               /\ log[s][n].paid
                               /\ p = <<log[s][n].offer, log[s][n].end>>

PaidPeriods == [u \in Users |-> {p \in Offers \X (1..LastEnd) : \E s \in Subs : PaidBy(u, s, p)}]

\* Billing implements what it promises about access: nothing but a payment of
\* this user opens a commercial plan, Stripe moves no running period backwards
\* and leaves a plan given by hand alone.
Promise == INSTANCE PaidAccess WITH paid <- PaidPeriods
AccessIsPromised == Promise!Spec

\* A payment always finds its account: whatever the number of checkouts and of
\* customers made, a session is opened for the one customer linked to its user.
SessionsAreLinked ==
  \A s \in Subs : session[s] # NULL => Payers(s) = {session[s].user}

\* Every event emitted has been applied, and no request is under way.
Quiet ==
  /\ \A h \in Handlers : job[h] = NULL
  /\ \A s \in Subs : \A n \in 1..Len(log[s]) : <<s, n>> \in seen

Synced(u) ==
  \A s \in Subs : session[s] # NULL /\ session[s].user = u /\ log[s] # <<>> =>
    LET r == Latest(s) IN
    /\ account[u].sub = s /\ account[u].status = r.status /\ account[u].end = r.end
    /\ access[u].plan \notin Manual =>
         /\ Paying(r) /\ r.offer # NULL =>
              access[u] = [plan |-> r.offer, status |-> "ACTIVE", end |-> r.end]
         /\ r.status \in Ended => ~Running(access[u])

\* "Events arriving late, twice, or out of order all converge to Stripe's
\* current truth" (src/server/billing/webhook.ts:11): once every event has been
\* applied, the account and the entitlement are what Stripe says.
ConvergesWhenQuiet == Quiet => \A u \in Users : Synced(u)

\* Every change at Stripe ends in the entitlement, failures and retries included.
FollowsStripe == <>[](\A u \in Users : Synced(u))
=============================================================================
