--------------------------- MODULE BillingProofs ----------------------------
(***************************************************************************)
(* Proofs about Billing: its types, the link between a session and its     *)
(* user, and that it implements PaidAccess: whatever a webhook read, and   *)
(* whenever it applies it, access is opened for a period its user paid.    *)
(* Then that one request at a time is enough for billing to converge.      *)
(***************************************************************************)
EXTENDS Billing, TLAPS

USE BillingAssumption, BillingNullAssumption

LEMMA AccountTypes ==
  ASSUME NEW a \in Account, NEW s \in Subs, NEW r \in Contract
  PROVE  [customer |-> a.customer, sub |-> s, status |-> r.status, end |-> r.end,
          cancelling |-> r.cancelling] \in Account
BY DEF Account, Contract

LEMMA AccessTypes ==
  ASSUME NEW a \in Access, NEW r \in Contract
  PROVE  AccessAfter(a, r) \in Access
BY DEF AccessAfter, Access, Contract, Opens, Paying, Running

LEMMA Fetched ==
  ASSUME BillingTypeOK, NEW s \in Subs, log[s] # <<>>
  PROVE  Latest(s) \in Contract /\ Len(log[s]) \in 1..Len(log[s])
BY DEF BillingTypeOK, Latest

LEMMA ApplyTypes ==
  ASSUME BillingTypeOK, NEW h \in Handlers, Apply(h)
  PROVE  BillingTypeOK'
<1>1. /\ job[h] \in Job
      /\ job' \in [Handlers -> Job \cup {NULL}]
  BY DEF Apply, BillingTypeOK
<1>2. /\ seen' \subseteq Subs \X (1..MaxVersions)
      /\ UNCHANGED <<deleted, keyed, session, log, call>>
  BY <1>1 DEF Apply, BillingTypeOK, stripe, Job
<1>3. account' \in [Users -> Account \cup {NULL}] /\ access' \in [Users -> Access]
  <2>1. CASE UNCHANGED <<account, access>>
    BY <2>1 DEF BillingTypeOK
  <2>2. ASSUME NEW u \in Payers(job[h].sub), Synchronize(u, job[h].sub, job[h].contract)
        PROVE  account' \in [Users -> Account \cup {NULL}] /\ access' \in [Users -> Access]
    <3>1. u \in Users /\ account[u] \in Account /\ access[u] \in Access
      BY <2>2 DEF Payers, BillingTypeOK
    <3>. DEFINE s == job[h].sub
                r == job[h].contract
                new == [customer |-> account[u].customer, sub |-> s, status |-> r.status,
                        end |-> r.end, cancelling |-> r.cancelling]
    <3>2. s \in Subs /\ r \in Contract
      BY <1>1 DEF Job
    <3>3. new \in Account /\ AccessAfter(access[u], r) \in Access
      BY <3>1, <3>2, AccountTypes, AccessTypes
    <3>4. \/ UNCHANGED <<account, access>>
          \/ /\ account' = [account EXCEPT ![u] = new]
             /\ access' = [access EXCEPT ![u] = AccessAfter(access[u], r)]
      BY <2>2 DEF Synchronize
    <3>5. account \in [Users -> Account \cup {NULL}] /\ access \in [Users -> Access]
      BY DEF BillingTypeOK
    <3>. HIDE DEF s, r, new
    <3>6. account' \in [Users -> Account \cup {NULL}]
      BY <3>1, <3>3, <3>4, <3>5
    <3>7. access' \in [Users -> Access]
      BY <3>1, <3>3, <3>4, <3>5
    <3>. QED
      BY <3>6, <3>7
  <2>3. \/ UNCHANGED <<account, access>>
        \/ \E u \in Payers(job[h].sub) : Synchronize(u, job[h].sub, job[h].contract)
    BY DEF Apply
  <2>. QED
    BY <2>1, <2>2, <2>3
<1>. QED
  BY <1>1, <1>2, <1>3 DEF BillingTypeOK

LEMMA CheckoutTypes ==
  ASSUME BillingTypeOK, NEW c \in Calls, Checkout(c)
  PROVE  BillingTypeOK'
<1>0. call \in [Calls -> Call \cup {NULL}]
  BY DEF BillingTypeOK
<1>1. ASSUME NEW u \in Users, NEW o \in Offers, BeginCheckout(c, u, o) PROVE BillingTypeOK'
  <2>1. (IF account[u] = NULL THEN NULL ELSE account[u].customer) \in Customers \cup {NULL}
    BY DEF BillingTypeOK, Account
  <2>2. call' \in [Calls -> Call \cup {NULL}]
    BY <1>0, <1>1, <2>1 DEF BeginCheckout, Call
  <2>. QED
    BY <1>1, <2>2 DEF BeginCheckout, BillingTypeOK, database, stripe
<1>2. CASE CreateCustomer(c)
  <2>1. PICK x \in Customers : /\ keyed' = [keyed EXCEPT ![call[c].user] = x]
                               /\ call' = [call EXCEPT ![c].created = x]
    BY <1>2 DEF CreateCustomer
  <2>2. call' \in [Calls -> Call \cup {NULL}] /\ keyed' \in [Users -> Customers \cup {NULL}]
    BY <1>0, <1>2, <2>1 DEF CreateCustomer, BillingTypeOK, Call
  <2>. QED
    BY <1>2, <2>2 DEF CreateCustomer, BillingTypeOK, database
<1>3. CASE LinkCustomer(c)
  <2>1. call[c] \in Call /\ call[c].created \in Customers
    BY <1>0, <1>3 DEF LinkCustomer, Call
  <2>2. LinkedCustomer(c) \in Customers
    BY <2>1 DEF LinkedCustomer, BillingTypeOK, Account, Call
  <2>3. call' \in [Calls -> Call \cup {NULL}]
    BY <1>0, <1>3, <2>1, <2>2 DEF LinkCustomer, Call
  <2>4. [customer |-> call[c].created, sub |-> NULL, status |-> NULL, end |-> 0,
         cancelling |-> FALSE] \in Account
    BY <2>1 DEF Account
  <2>5. account' \in [Users -> Account \cup {NULL}]
    BY <1>3, <2>1, <2>4 DEF LinkCustomer, BillingTypeOK
  <2>. QED
    BY <1>3, <2>3, <2>5 DEF LinkCustomer, BillingTypeOK, stripe
<1>4. CASE CreateSession(c)
  <2>1. call[c] \in Call /\ call[c].customer \in Customers
    BY <1>0, <1>4 DEF CreateSession, Call
  <2>2. PICK s \in Subs : session' = [session EXCEPT ![s] =
          [user |-> call[c].user, customer |-> call[c].customer, offer |-> call[c].offer]]
    BY <1>4 DEF CreateSession
  <2>3. session' \in [Subs -> Session \cup {NULL}]
    BY <2>1, <2>2 DEF BillingTypeOK, Session, Call
  <2>4. call' \in [Calls -> Call \cup {NULL}]
    BY <1>0, <1>4 DEF CreateSession
  <2>. QED
    BY <1>4, <2>3, <2>4 DEF CreateSession, BillingTypeOK, database
<1>5. CASE AbortCheckout(c)
  BY <1>5 DEF AbortCheckout, BillingTypeOK, database, stripe
<1>. QED
  BY <1>1, <1>2, <1>3, <1>4, <1>5 DEF Checkout

LEMMA StripeTypes ==
  ASSUME BillingTypeOK, Stripe
  PROVE  BillingTypeOK'
<1>1. ASSUME NEW s \in Subs, Subscribe(s) PROVE BillingTypeOK'
  <2>1. PICK st \in {"active", "incomplete"}, e \in 1..LastEnd :
          log' = [log EXCEPT ![s] = <<[offer |-> session[s].offer, status |-> st,
                    paid |-> st = "active", end |-> e, cancelling |-> FALSE]>>]
    BY <1>1 DEF Subscribe
  <2>2. [offer |-> session[s].offer, status |-> st, paid |-> st = "active", end |-> e,
         cancelling |-> FALSE] \in Contract
    BY <1>1 DEF Subscribe, BillingTypeOK, Contract, StripeStatuses, Session
  <2>3. log' \in [Subs -> Seq(Contract)]
    BY <2>1, <2>2 DEF BillingTypeOK
  <2>. QED
    BY <1>1, <2>3 DEF Subscribe, BillingTypeOK, database
<1>2. ASSUME NEW s \in Subs, Change(s) PROVE BillingTypeOK'
  <2>1. PICK q \in Contract : log' = [log EXCEPT ![s] = Append(@, q)]
    BY <1>2 DEF Change
  <2>2. log' \in [Subs -> Seq(Contract)]
    BY <2>1 DEF BillingTypeOK
  <2>. QED
    BY <1>2, <2>2 DEF Change, BillingTypeOK, database
<1>3. ASSUME NEW u \in Forgetful, ForgetKey(u) PROVE BillingTypeOK'
  BY <1>3 DEF ForgetKey, BillingTypeOK, database
<1>. QED
  BY <1>1, <1>2, <1>3 DEF Stripe

LEMMA NextTypes == BillingTypeOK /\ [BillingNext]_billingVars => BillingTypeOK'
<1>. SUFFICES ASSUME BillingTypeOK, [BillingNext]_billingVars PROVE BillingTypeOK'
  OBVIOUS
<1>1. ASSUME NEW h \in Handlers, Webhook(h) PROVE BillingTypeOK'
  <2>1. ASSUME NEW s \in Subs, NEW n \in 1..MaxVersions, Receive(h, s, n) PROVE BillingTypeOK'
    <3>1. Latest(s) \in Contract
      BY <2>1, Fetched DEF Receive
    <3>2. job' \in [Handlers -> Job \cup {NULL}]
      BY <2>1, <3>1 DEF Receive, Retrieved, BillingTypeOK, Job
    <3>. QED
      BY <2>1, <3>2 DEF Receive, BillingTypeOK, database, stripe
  <2>2. CASE Abandon(h)
    BY <2>2 DEF Abandon, BillingTypeOK, database, stripe
  <2>. QED
    BY <1>1, <2>1, <2>2, ApplyTypes DEF Webhook
<1>2. ASSUME NEW u \in Users, Rights(u) PROVE BillingTypeOK'
  <2>1. ASSUME ActivateTrial(u) PROVE BillingTypeOK'
    BY <2>1 DEF ActivateTrial, BillingTypeOK, Access, stripe
  <2>2. ASSUME NEW p \in Manual, GrantManual(u, p) PROVE BillingTypeOK'
    BY <2>2 DEF GrantManual, BillingTypeOK, Access, stripe
  <2>3. ASSUME GrantBeta(u) PROVE BillingTypeOK'
    BY <2>3 DEF GrantBeta, BillingTypeOK, Access, stripe
  <2>4. ASSUME DeleteAccount(u) PROVE BillingTypeOK'
    <3>1. access[u] \in Access
      BY DEF BillingTypeOK
    <3>2. [access[u] EXCEPT !.status = "REVOKED"] \in Access
      BY <3>1 DEF Access
    <3>3. access' \in [Users -> Access]
      BY <2>4, <3>1, <3>2 DEF DeleteAccount, BillingTypeOK
    <3>. QED
      BY <2>4, <3>3 DEF DeleteAccount, BillingTypeOK, stripe
  <2>. QED
    BY <1>2, <2>1, <2>2, <2>4, <2>3 DEF Rights
<1>3. CASE UNCHANGED billingVars
  BY <1>3 DEF billingVars, database, stripe, BillingTypeOK
<1>. QED
  BY <1>1, <1>2, <1>3, CheckoutTypes, StripeTypes DEF BillingNext

(* Every variable keeps its type: in particular a price ProspectOS does not     *)
(* sell never becomes a plan.                                                   *)
THEOREM BillingTypes == BillingSpec => []BillingTypeOK
<1>1. BillingInit => BillingTypeOK
  BY DEF BillingInit, BillingTypeOK, Access
<1>. QED
  BY <1>1, NextTypes, PTL DEF BillingSpec

-----------------------------------------------------------------------------
(* The link between a session and its user. A customer is linked to one    *)
(* user; a checkout that has its customer, and a session opened for it,    *)
(* hold the customer linked to their user; links are never changed.        *)

OneUser ==
  \A u, v \in Users :
    /\ account[u] # NULL
    /\ account[v] # NULL
    /\ account[u].customer = account[v].customer
    => u = v

Linked(u, x) == account[u] # NULL /\ account[u].customer = x

CallsLinked ==
  \A c \in Calls : call[c] # NULL /\ call[c].customer # NULL =>
    Linked(call[c].user, call[c].customer)

SessionsLinked ==
  \A s \in Subs : session[s] # NULL => Linked(session[s].user, session[s].customer)

LinkInv == OneUser /\ CallsLinked /\ SessionsLinked

\* Accounts keep their customers: then what is linked stays linked.
KeepsLinks == \A u \in Users, x \in Customers : Linked(u, x) <=> Linked(u, x)'

LEMMA LinksKept ==
  ASSUME BillingTypeOK, LinkInv, KeepsLinks,
         BillingTypeOK', UNCHANGED session,
         \A c \in Calls : call'[c] \in {call[c], NULL}
                          \/ (call'[c] # NULL => call'[c].customer = NULL)
                          \/ (call[c] # NULL /\ call'[c].user = call[c].user
                              /\ call'[c].customer = call[c].customer)
  PROVE  LinkInv'
<1>1. OneUser'
  <2>. SUFFICES ASSUME NEW u \in Users, NEW v \in Users,
                       account'[u] # NULL, account'[v] # NULL,
                       account'[u].customer = account'[v].customer
                PROVE  u = v
    BY DEF OneUser
  <2>1. PICK x \in Customers : account'[u].customer = x
    BY DEF BillingTypeOK, Account
  <2>2. Linked(u, x)' /\ Linked(v, x)'
    BY <2>1 DEF Linked
  <2>3. Linked(u, x) /\ Linked(v, x)
    BY <2>2 DEF KeepsLinks
  <2>. QED
    BY <2>3 DEF LinkInv, OneUser, Linked
<1>2. CallsLinked'
  <2>. SUFFICES ASSUME NEW c \in Calls, call'[c] # NULL, call'[c].customer # NULL
                PROVE  Linked(call[c].user, call[c].customer)'
    BY DEF CallsLinked
  <2>1. /\ call[c] # NULL
        /\ call'[c].user = call[c].user
        /\ call'[c].customer = call[c].customer
    OBVIOUS
  <2>2. call[c].user \in Users /\ call[c].customer \in Customers
    BY <2>1 DEF BillingTypeOK, Call
  <2>3. Linked(call[c].user, call[c].customer)
    BY <2>1 DEF LinkInv, CallsLinked
  <2>. QED
    BY <2>1, <2>2, <2>3 DEF KeepsLinks, Linked
<1>3. SessionsLinked'
  <2>. SUFFICES ASSUME NEW s \in Subs, session[s] # NULL
                PROVE  Linked(session[s].user, session[s].customer)'
    BY DEF SessionsLinked
  <2>1. session[s].user \in Users /\ session[s].customer \in Customers
    BY DEF BillingTypeOK, Session
  <2>2. Linked(session[s].user, session[s].customer)
    BY DEF LinkInv, SessionsLinked
  <2>. QED
    BY <2>1, <2>2 DEF KeepsLinks, Linked
<1>. QED
  BY <1>1, <1>2, <1>3 DEF LinkInv

LEMMA LinkCustomerKeeps ==
  ASSUME BillingTypeOK, LinkInv, NEW c \in Calls, LinkCustomer(c), BillingTypeOK'
  PROVE  LinkInv'
<1>. DEFINE u == call[c].user
            x == call[c].created
            new == [customer |-> x, sub |-> NULL, status |-> NULL, end |-> 0,
                    cancelling |-> FALSE]
<1>1. u \in Users /\ x \in Customers /\ call[c] # NULL /\ call[c] \in Call
  BY DEF LinkCustomer, BillingTypeOK, Call
<1>2. new \in Account
  BY <1>1 DEF Account
<1>3. /\ account' = [account EXCEPT ![u] = IF account[u] # NULL THEN account[u] ELSE new]
      /\ call' = [call EXCEPT ![c].customer = LinkedCustomer(c)]
      /\ account[u] = NULL => \A v \in Users : account[v] # NULL => account[v].customer # x
      /\ UNCHANGED session
  BY DEF LinkCustomer, stripe
<1>4. /\ \A v \in Users : v # u => account'[v] = account[v]
      /\ account[u] # NULL => account'[u] = account[u]
      /\ account[u] = NULL => account'[u] = new
  BY <1>1, <1>3 DEF BillingTypeOK
<1>5. new # NULL /\ new.customer = x
  BY <1>2
<1>6. LinkedCustomer(c) = IF account[u] = NULL THEN x ELSE account[u].customer
  BY DEF LinkedCustomer
<1>. HIDE DEF new, x, u
<1>7. OneUser'
  BY <1>1, <1>3, <1>4, <1>5 DEF OneUser, LinkInv
<1>8. \A v \in Users, y \in Customers : Linked(v, y) => Linked(v, y)'
  BY <1>1, <1>4 DEF Linked
<1>9. account'[u] # NULL /\ account'[u].customer = LinkedCustomer(c)
  BY <1>4, <1>5, <1>6
<1>10. CallsLinked'
  <2>. SUFFICES ASSUME NEW d \in Calls, call'[d] # NULL, call'[d].customer # NULL
                PROVE  Linked(call[d].user, call[d].customer)'
    BY DEF CallsLinked
  <2>1. CASE d = c
    <3>1. call'[c].user = u /\ call'[c].customer = LinkedCustomer(c)
      BY <1>1, <1>3 DEF BillingTypeOK, Call, u
    <3>. QED
      BY <2>1, <3>1, <1>9 DEF Linked
  <2>2. CASE d # c
    <3>1. call'[d] = call[d]
      BY <1>3, <2>2 DEF BillingTypeOK
    <3>2. call[d].user \in Users /\ call[d].customer \in Customers
      BY <3>1 DEF BillingTypeOK, Call
    <3>3. Linked(call[d].user, call[d].customer)
      BY <3>1 DEF LinkInv, CallsLinked
    <3>. QED
      BY <1>8, <3>1, <3>2, <3>3 DEF Linked
  <2>. QED
    BY <2>1, <2>2
<1>11. SessionsLinked'
  <2>. SUFFICES ASSUME NEW s \in Subs, session[s] # NULL
                PROVE  Linked(session[s].user, session[s].customer)'
    BY <1>3 DEF SessionsLinked
  <2>1. session[s].user \in Users /\ session[s].customer \in Customers
    BY DEF BillingTypeOK, Session
  <2>2. Linked(session[s].user, session[s].customer)
    BY DEF LinkInv, SessionsLinked
  <2>. QED
    BY <1>3, <1>8, <2>1, <2>2 DEF Linked
<1>. QED
  BY <1>7, <1>10, <1>11 DEF LinkInv

LEMMA CreateSessionKeeps ==
  ASSUME BillingTypeOK, LinkInv, NEW c \in Calls, CreateSession(c)
  PROVE  LinkInv'
<1>. DEFINE new == [user |-> call[c].user, customer |-> call[c].customer, offer |-> call[c].offer]
<1>1. /\ call[c] # NULL /\ call[c].customer # NULL
      /\ call' = [call EXCEPT ![c] = NULL]
      /\ UNCHANGED account
  BY DEF CreateSession, database
<1>2. PICK s \in Subs : session' = [session EXCEPT ![s] = new]
  BY DEF CreateSession
<1>3. Linked(call[c].user, call[c].customer)
  BY <1>1 DEF LinkInv, CallsLinked
<1>4. OneUser'
  BY <1>1 DEF OneUser, LinkInv
<1>5. CallsLinked'
  <2>. SUFFICES ASSUME NEW d \in Calls, call'[d] # NULL, call'[d].customer # NULL
                PROVE  Linked(call[d].user, call[d].customer)'
    BY DEF CallsLinked
  <2>1. call'[d] = call[d]
    BY <1>1 DEF BillingTypeOK
  <2>. QED
    BY <1>1, <2>1 DEF LinkInv, CallsLinked, Linked
<1>6. SessionsLinked'
  <2>. SUFFICES ASSUME NEW t \in Subs, session'[t] # NULL
                PROVE  Linked(session[t].user, session[t].customer)'
    BY DEF SessionsLinked
  <2>1. CASE t = s
    <3>1. session'[t].user = call[c].user /\ session'[t].customer = call[c].customer
      BY <1>2, <2>1 DEF BillingTypeOK
    <3>. QED
      BY <1>1, <1>3, <3>1 DEF Linked
  <2>2. CASE t # s
    <3>1. session'[t] = session[t]
      BY <1>2, <2>2 DEF BillingTypeOK
    <3>. QED
      BY <1>1, <3>1 DEF LinkInv, SessionsLinked, Linked
  <2>. QED
    BY <2>1, <2>2
<1>. QED
  BY <1>4, <1>5, <1>6 DEF LinkInv

LEMMA CheckoutKeeps ==
  ASSUME BillingTypeOK, LinkInv, BillingTypeOK', NEW c \in Calls, Checkout(c)
  PROVE  LinkInv'
<1>1. ASSUME NEW u \in Users, NEW o \in Offers, BeginCheckout(c, u, o) PROVE LinkInv'
  <2>1. call' = [call EXCEPT ![c] = [user |-> u, offer |-> o, created |-> NULL,
          customer |-> IF account[u] = NULL THEN NULL ELSE account[u].customer]]
    BY <1>1 DEF BeginCheckout
  <2>2. UNCHANGED <<account, session>>
    BY <1>1 DEF BeginCheckout, database, stripe
  <2>3. CallsLinked'
    <3>. SUFFICES ASSUME NEW d \in Calls, call'[d] # NULL, call'[d].customer # NULL
                  PROVE  Linked(call[d].user, call[d].customer)'
      BY DEF CallsLinked
    <3>1. CASE d = c
      <4>1. call'[c].user = u
        BY <2>1 DEF BillingTypeOK
      <4>2. call'[c].customer = IF account[u] = NULL THEN NULL ELSE account[u].customer
        BY <2>1 DEF BillingTypeOK
      <4>. QED
        BY <2>2, <3>1, <4>1, <4>2 DEF Linked
    <3>2. CASE d # c
      <4>1. call'[d] = call[d]
        BY <2>1, <3>2 DEF BillingTypeOK
      <4>. QED
        BY <2>2, <4>1 DEF LinkInv, CallsLinked, Linked
    <3>. QED
      BY <3>1, <3>2
  <2>4. OneUser' /\ SessionsLinked'
    BY <2>2 DEF LinkInv, OneUser, SessionsLinked, Linked
  <2>. QED
    BY <2>3, <2>4 DEF LinkInv
<1>2. CASE CreateCustomer(c)
  <2>1. PICK x \in Customers : call' = [call EXCEPT ![c].created = x]
    BY <1>2 DEF CreateCustomer
  <2>2. UNCHANGED <<account, session>> /\ call[c] # NULL
    BY <1>2 DEF CreateCustomer, database
  <2>3. \A d \in Calls : \/ call'[d] = call[d]
                         \/ /\ call[d] # NULL
                            /\ call'[d].user = call[d].user
                            /\ call'[d].customer = call[d].customer
    BY <2>1, <2>2 DEF BillingTypeOK, Call
  <2>4. KeepsLinks
    BY <2>2 DEF KeepsLinks, Linked
  <2>. QED
    BY <2>2, <2>3, <2>4, LinksKept
<1>3. CASE LinkCustomer(c)
  BY <1>3, LinkCustomerKeeps
<1>4. CASE CreateSession(c)
  BY <1>4, CreateSessionKeeps
<1>5. CASE AbortCheckout(c)
  <2>1. \A d \in Calls : call'[d] \in {call[d], NULL}
    BY <1>5 DEF AbortCheckout, BillingTypeOK
  <2>2. UNCHANGED <<account, session>>
    BY <1>5 DEF AbortCheckout, database, stripe
  <2>3. KeepsLinks
    BY <2>2 DEF KeepsLinks, Linked
  <2>. QED
    BY <2>1, <2>2, <2>3, LinksKept
<1>. QED
  BY <1>1, <1>2, <1>3, <1>4, <1>5 DEF Checkout

LEMMA SynchronizeKeepsLinks ==
  ASSUME BillingTypeOK, NEW u \in Users, NEW s \in Subs, NEW r \in Contract, account[u] # NULL,
         Synchronize(u, s, r)
  PROVE  KeepsLinks
<1>. DEFINE new == [customer |-> account[u].customer, sub |-> s, status |-> r.status,
                    end |-> r.end, cancelling |-> r.cancelling]
<1>1. account[u] \in Account
  BY DEF BillingTypeOK
<1>2. new \in Account /\ new.customer = account[u].customer
  BY <1>1, AccountTypes
<1>3. new # NULL
  BY <1>2
<1>4. account' = account \/ account' = [account EXCEPT ![u] = new]
  BY DEF Synchronize
<1>. HIDE DEF new
<1>5. \A v \in Users : \/ account'[v] = account[v]
                       \/ /\ account[v] # NULL /\ account'[v] # NULL
                          /\ account'[v].customer = account[v].customer
  BY <1>2, <1>3, <1>4 DEF BillingTypeOK
<1>. QED
  BY <1>5 DEF KeepsLinks, Linked

LEMMA NextLinks == BillingTypeOK /\ BillingTypeOK' /\ LinkInv /\ [BillingNext]_billingVars => LinkInv'
<1>. SUFFICES ASSUME BillingTypeOK, BillingTypeOK', LinkInv, [BillingNext]_billingVars PROVE LinkInv'
  OBVIOUS
<1>1. ASSUME UNCHANGED <<account, call>>, UNCHANGED session PROVE LinkInv'
  <2>1. KeepsLinks
    BY <1>1 DEF KeepsLinks, Linked
  <2>. QED
    BY <1>1, <2>1, LinksKept
<1>2. ASSUME NEW h \in Handlers, Webhook(h) PROVE LinkInv'
  <2>1. CASE Apply(h)
    <3>1. job[h] \in Job /\ UNCHANGED <<call, session>>
      BY <2>1 DEF Apply, BillingTypeOK, stripe
    <3>2. \/ UNCHANGED account
          \/ \E u \in Payers(job[h].sub) : Synchronize(u, job[h].sub, job[h].contract)
      BY <2>1 DEF Apply
    <3>3. KeepsLinks
      <4>1. CASE UNCHANGED account
        BY <4>1 DEF KeepsLinks, Linked
      <4>2. ASSUME NEW u \in Payers(job[h].sub), Synchronize(u, job[h].sub, job[h].contract)
            PROVE  KeepsLinks
        <5>1. u \in Users /\ account[u] # NULL
          BY DEF Payers
        <5>2. job[h].sub \in Subs /\ job[h].contract \in Contract
          BY <3>1 DEF Job
        <5>. QED
          BY <4>2, <5>1, <5>2, SynchronizeKeepsLinks
      <4>. QED
        BY <3>2, <4>1, <4>2
    <3>. QED
      BY <3>1, <3>3, LinksKept
  <2>2. CASE ~Apply(h)
    <3>1. UNCHANGED <<account, call>> /\ UNCHANGED session
      BY <1>2, <2>2 DEF Webhook, Receive, Abandon, database, stripe
    <3>. QED
      BY <1>1, <3>1
  <2>. QED
    BY <2>1, <2>2
<1>3. ASSUME NEW u \in Users, Rights(u) PROVE LinkInv'
  <2>1. UNCHANGED <<account, call>> /\ UNCHANGED session
    BY <1>3 DEF Rights, ActivateTrial, DeleteAccount, GrantManual, GrantBeta, stripe
  <2>. QED
    BY <1>1, <2>1
<1>4. CASE Stripe
  <2>1. UNCHANGED <<account, call>> /\ UNCHANGED session
    BY <1>4 DEF Stripe, Subscribe, Change, ForgetKey, database
  <2>. QED
    BY <1>1, <2>1
<1>5. CASE UNCHANGED billingVars
  BY <1>1, <1>5 DEF billingVars, database, stripe
<1>. QED
  BY <1>2, <1>3, <1>4, <1>5, CheckoutKeeps DEF BillingNext

LEMMA Links == BillingSpec => []LinkInv
<1>1. BillingInit => LinkInv
  BY DEF BillingInit, LinkInv, OneUser, CallsLinked, SessionsLinked
<1>. QED
  BY <1>1, NextLinks, BillingTypes, PTL DEF BillingSpec

LEMMA PayerIsUser ==
  ASSUME BillingTypeOK, LinkInv, NEW s \in Subs, session[s] # NULL
  PROVE  Payers(s) = {session[s].user}
<1>1. session[s].user \in Users
  BY DEF BillingTypeOK, Session
<1>2. Linked(session[s].user, session[s].customer)
  BY DEF LinkInv, SessionsLinked
<1>. QED
  BY <1>1, <1>2 DEF Payers, Linked, LinkInv, OneUser

(* Whatever the requests under way, the keys forgotten and the customers made   *)
(* twice, a session is opened for the one customer linked to its user, so that  *)
(* a payment reaches the account of who paid (link_stripe_customer).            *)
THEOREM SessionsLinkedToOneUser == BillingSpec => []SessionsAreLinked
<1>1. BillingTypeOK /\ LinkInv => SessionsAreLinked
  BY PayerIsUser DEF SessionsAreLinked
<1>. QED
  BY <1>1, BillingTypes, Links, PTL

-----------------------------------------------------------------------------
(* Billing implements PaidAccess.                                          *)


\* The state in a webhook's hands is one its subscription went through.
JobInv ==
  \A h \in Handlers : job[h] # NULL =>
    /\ session[job[h].sub] # NULL
    /\ \E n \in 1..Len(log[job[h].sub]) : log[job[h].sub][n] = job[h].contract

Unpaid == \A s \in Subs : session[s] = NULL => log[s] = <<>>

LogInv == Unpaid /\ JobInv

\* Sessions stay and logs grow.
Grows ==
  \A s \in Subs :
    /\ session[s] # NULL => session'[s] = session[s]
    /\ Len(log'[s]) >= Len(log[s])
    /\ \A n \in 1..Len(log[s]) : log'[s][n] = log[s][n]

LEMMA LogLength ==
  ASSUME BillingTypeOK, NEW s \in Subs
  PROVE  Len(log[s]) \in Nat /\ (\A n \in 1..Len(log[s]) : log[s][n] \in Contract)
BY DEF BillingTypeOK

LEMMA JobsKept ==
  ASSUME BillingTypeOK, BillingTypeOK', JobInv, Grows, \A h \in Handlers : job'[h] \in {job[h], NULL}
  PROVE  JobInv'
<1>. SUFFICES ASSUME NEW h \in Handlers, job'[h] # NULL
              PROVE  /\ session'[job'[h].sub] # NULL
                     /\ \E n \in 1..Len(log'[job'[h].sub]) :
                          log'[job'[h].sub][n] = job'[h].contract
  BY DEF JobInv
<1>1. job'[h] = job[h] /\ job[h] # NULL
  OBVIOUS
<1>. DEFINE s == job[h].sub
<1>2. s \in Subs
  BY <1>1 DEF BillingTypeOK, Job
<1>3. PICK n \in 1..Len(log[s]) : log[s][n] = job[h].contract
  BY <1>1 DEF JobInv
<1>4. session[s] # NULL
  BY <1>1 DEF JobInv
<1>5. Len(log[s]) \in Nat /\ Len(log'[s]) \in Nat
  BY <1>2, LogLength DEF BillingTypeOK
<1>. HIDE DEF s
<1>6. n \in 1..Len(log'[s]) /\ log'[s][n] = log[s][n] /\ session'[s] # NULL
  BY <1>2, <1>3, <1>4, <1>5 DEF Grows
<1>. QED
  BY <1>1, <1>3, <1>6 DEF s

LEMMA CreateSessionGrows ==
  ASSUME BillingTypeOK, NEW c \in Calls, CreateSession(c)
  PROVE  Grows /\ UNCHANGED <<log, job, access>>
<1>1. PICK s \in Subs :
        LET new == [user |-> call[c].user, customer |-> call[c].customer, offer |-> call[c].offer]
        IN  session[s] \in {NULL, new} /\ session' = [session EXCEPT ![s] = new]
  BY DEF CreateSession
<1>2. UNCHANGED <<log, job, access>>
  BY DEF CreateSession, database
<1>3. \A t \in Subs : session[t] # NULL => session'[t] = session[t]
  BY <1>1 DEF BillingTypeOK
<1>. QED
  BY <1>2, <1>3, LogLength DEF Grows

\* One more state at the end of the log of s, not of an earlier period.
Extends(s, q) ==
  /\ log' = [log EXCEPT ![s] = Append(@, q)]
  /\ session[s] # NULL
  /\ q \in Contract
  /\ log[s] # <<>> => q.end >= Latest(s).end

LEMMA Extended ==
  ASSUME BillingTypeOK, NEW s \in Subs, NEW q, Extends(s, q)
  PROVE  /\ Len(log'[s]) = Len(log[s]) + 1
         /\ log'[s][Len(log[s]) + 1] = q
         /\ \A n \in 1..Len(log[s]) : log'[s][n] = log[s][n]
         /\ \A t \in Subs : t # s => log'[t] = log[t]
<1>1. log[s] \in Seq(Contract) /\ q \in Contract /\ log'[s] = Append(log[s], q)
  BY DEF BillingTypeOK, Extends
<1>2. \A t \in Subs : t # s => log'[t] = log[t]
  BY DEF BillingTypeOK, Extends
<1>. QED
  BY <1>1, <1>2

LEMMA ExtendsGrows ==
  ASSUME BillingTypeOK, NEW s \in Subs, NEW q, Extends(s, q), UNCHANGED session
  PROVE  Grows
BY Extended, LogLength DEF Grows

LEMMA EndMovesOn ==
  ASSUME NEW r \in Contract, NEW q \in Contract, Moves(r, q)
  PROVE  q.end >= r.end
<1>1. r.end \in Nat
  BY DEF Contract
<1>2. ASSUME q = [r EXCEPT !.end = r.end + 1, !.paid = FALSE]
      PROVE  q.end = r.end + 1
  BY <1>1, <1>2 DEF Contract
<1>3. q.end = r.end \/ q = [r EXCEPT !.end = r.end + 1, !.paid = FALSE]
  BY Zenon DEF Moves, Contract
<1>. QED
  BY <1>1, <1>2, <1>3

LEMMA StripeSteps ==
  ASSUME BillingTypeOK, Unpaid, Stripe
  PROVE  /\ UNCHANGED <<session, job, access, account, seen>>
         /\ log' = log \/ (\E s \in Subs, q \in Contract : Extends(s, q))
<1>1. ASSUME NEW s \in Subs, Subscribe(s)
      PROVE  \E q \in Contract : Extends(s, q)
  <2>1. PICK st \in {"active", "incomplete"}, e \in 1..LastEnd :
          log' = [log EXCEPT ![s] = <<[offer |-> session[s].offer, status |-> st,
                    paid |-> st = "active", end |-> e, cancelling |-> FALSE]>>]
    BY <1>1 DEF Subscribe
  <2>. DEFINE q == [offer |-> session[s].offer, status |-> st, paid |-> st = "active",
                    end |-> e, cancelling |-> FALSE]
  <2>2. q \in Contract /\ session[s] # NULL
    BY <1>1 DEF Subscribe, BillingTypeOK, Contract, StripeStatuses, Session
  <2>. HIDE DEF q
  <2>3. log[s] = <<>> /\ Append(log[s], q) = <<q>>
    BY <1>1, <2>2 DEF Subscribe
  <2>4. log' = [log EXCEPT ![s] = Append(log[s], q)]
    BY <2>1, <2>3 DEF q
  <2>. QED
    BY <2>2, <2>3, <2>4 DEF Extends
<1>2. ASSUME NEW s \in Subs, Change(s)
      PROVE  \E q \in Contract : Extends(s, q)
  <2>1. session[s] # NULL /\ log[s] # <<>>
    BY <1>2 DEF Change, Unpaid
  <2>2. PICK q \in Contract : /\ Moves(Latest(s), q)
                              /\ log' = [log EXCEPT ![s] = Append(log[s], q)]
    BY <1>2 DEF Change
  <2>3. Latest(s) \in Contract
    BY <2>1, Fetched
  <2>4. q.end >= Latest(s).end
    BY <2>2, <2>3, EndMovesOn
  <2>. QED
    BY <2>1, <2>2, <2>4 DEF Extends
<1>3. UNCHANGED <<session, job, access, account, seen>>
  BY DEF Stripe, Subscribe, Change, ForgetKey, database
<1>. QED
  BY <1>1, <1>2, <1>3 DEF Stripe, ForgetKey

LEMMA ReceiveKeeps ==
  ASSUME BillingTypeOK, LogInv, NEW h \in Handlers, NEW s \in Subs, NEW m \in 1..MaxVersions,
         Receive(h, s, m)
  PROVE  JobInv'
<1>1. m \in 1..Len(log[s]) /\ Len(log[s]) \in Nat
  BY LogLength DEF Receive
<1>2. session[s] # NULL
  BY <1>1 DEF LogInv, Unpaid
<1>3. Len(log[s]) \in 1..Len(log[s]) /\ log[s][Len(log[s])] = Retrieved(s, m)
  BY <1>1 DEF Retrieved, Latest
<1>4. /\ job' = [job EXCEPT ![h] = [sub |-> s, event |-> m, contract |-> Retrieved(s, m)]]
      /\ UNCHANGED <<session, log>>
  BY DEF Receive, stripe
<1>. SUFFICES ASSUME NEW g \in Handlers, job'[g] # NULL
              PROVE  /\ session[job'[g].sub] # NULL
                     /\ \E n \in 1..Len(log[job'[g].sub]) : log[job'[g].sub][n] = job'[g].contract
  BY <1>4 DEF JobInv
<1>5. CASE g = h
  <2>1. job'[g].sub = s /\ job'[g].contract = Retrieved(s, m)
    BY <1>4, <1>5 DEF BillingTypeOK
  <2>. QED
    BY <1>2, <1>3, <2>1
<1>6. CASE g # h
  <2>1. job'[g] = job[g]
    BY <1>4, <1>6 DEF BillingTypeOK
  <2>. QED
    BY <2>1 DEF LogInv, JobInv
<1>. QED
  BY <1>5, <1>6

LEMMA NextLog == BillingTypeOK /\ BillingTypeOK' /\ LogInv /\ [BillingNext]_billingVars => LogInv' /\ Grows
<1>. SUFFICES ASSUME BillingTypeOK, BillingTypeOK', LogInv, [BillingNext]_billingVars PROVE LogInv' /\ Grows
  OBVIOUS
<1>1. ASSUME UNCHANGED <<session, log>>, \A h \in Handlers : job'[h] \in {job[h], NULL}
      PROVE  LogInv' /\ Grows
  <2>1. Grows
    BY <1>1, LogLength DEF Grows
  <2>2. Unpaid'
    BY <1>1 DEF Unpaid, LogInv
  <2>. QED
    BY <1>1, <2>1, <2>2, JobsKept DEF LogInv
<1>2. ASSUME NEW c \in Calls, Checkout(c) PROVE LogInv' /\ Grows
  <2>1. CASE CreateSession(c)
    <3>1. Grows /\ UNCHANGED <<log, job>>
      BY <2>1, CreateSessionGrows
    <3>2. Unpaid'
      BY <3>1 DEF Unpaid, LogInv, Grows
    <3>. QED
      BY <3>1, <3>2, JobsKept DEF LogInv
  <2>2. CASE ~CreateSession(c)
    <3>1. UNCHANGED <<session, log>> /\ UNCHANGED job
      BY <1>2, <2>2 DEF Checkout, BeginCheckout, CreateCustomer, LinkCustomer, AbortCheckout, stripe
    <3>. QED
      BY <1>1, <3>1
  <2>. QED
    BY <2>1, <2>2
<1>3. ASSUME NEW h \in Handlers, Webhook(h) PROVE LogInv' /\ Grows
  <2>1. ASSUME NEW s \in Subs, NEW n \in 1..MaxVersions, Receive(h, s, n)
        PROVE  LogInv' /\ Grows
    <3>1. UNCHANGED <<session, log>>
      BY <2>1 DEF Receive, stripe
    <3>2. Grows
      BY <3>1, LogLength DEF Grows
    <3>3. Unpaid'
      BY <3>1 DEF Unpaid, LogInv
    <3>. QED
      BY <2>1, <3>2, <3>3, ReceiveKeeps DEF LogInv
  <2>2. CASE Apply(h) \/ Abandon(h)
    <3>1. UNCHANGED <<session, log>> /\ job' = [job EXCEPT ![h] = NULL]
      BY <2>2 DEF Apply, Abandon, stripe
    <3>2. \A g \in Handlers : job'[g] \in {job[g], NULL}
      BY <3>1 DEF BillingTypeOK
    <3>. QED
      BY <1>1, <3>1, <3>2
  <2>. QED
    BY <1>3, <2>1, <2>2 DEF Webhook
<1>4. CASE Stripe
  <2>1. /\ UNCHANGED <<session, job>>
        /\ log' = log \/ (\E s \in Subs, q \in Contract : Extends(s, q))
    BY <1>4, StripeSteps DEF LogInv
  <2>2. CASE log' = log
    BY <1>1, <2>1, <2>2
  <2>3. ASSUME NEW s \in Subs, NEW q \in Contract, Extends(s, q)
        PROVE  LogInv' /\ Grows
    <3>1. Grows
      BY <2>1, <2>3, ExtendsGrows
    <3>2. session[s] # NULL /\ (\A t \in Subs : t # s => log'[t] = log[t])
      BY <2>3, Extended DEF Extends
    <3>3. Unpaid'
      BY <2>1, <3>2 DEF Unpaid, LogInv
    <3>. QED
      BY <2>1, <3>1, <3>3, JobsKept DEF LogInv
  <2>. QED
    BY <2>1, <2>2, <2>3
<1>5. ASSUME NEW u \in Users, Rights(u) PROVE LogInv' /\ Grows
  <2>1. UNCHANGED <<session, log>> /\ UNCHANGED job
    BY <1>5 DEF Rights, ActivateTrial, DeleteAccount, GrantManual, GrantBeta, stripe
  <2>. QED
    BY <1>1, <2>1
<1>6. CASE UNCHANGED billingVars
  BY <1>1, <1>6 DEF billingVars, stripe
<1>. QED
  BY <1>2, <1>3, <1>4, <1>5, <1>6 DEF BillingNext

LEMMA LogKept == BillingSpec => []LogInv
<1>1. BillingInit => LogInv
  BY DEF BillingInit, LogInv, Unpaid, JobInv
<1>. QED
  BY <1>1, NextLog, BillingTypes, PTL DEF BillingSpec

-----------------------------------------------------------------------------
(* What was paid.                                                          *)

LEMMA CreateSessionPays ==
  ASSUME BillingTypeOK, LogInv, NEW c \in Calls, CreateSession(c)
  PROVE  PaidPeriods' = PaidPeriods
<1>1. Grows /\ UNCHANGED log
  BY CreateSessionGrows
<1>2. \A s \in Subs : session[s] = NULL => Len(log[s]) = 0
  BY DEF LogInv, Unpaid
<1>3. ASSUME NEW u \in Users, NEW p \in Offers \X (1..LastEnd), NEW s \in Subs
      PROVE  PaidBy(u, s, p)' <=> PaidBy(u, s, p)
  <2>1. CASE session[s] # NULL
    BY <1>1, <2>1 DEF PaidBy, Grows
  <2>2. CASE session[s] = NULL
    <3>1. 1..Len(log[s]) = {}
      BY <1>2, <2>2
    <3>. QED
      BY <1>1, <2>2, <3>1 DEF PaidBy
  <2>. QED
    BY <2>1, <2>2
<1>. QED
  BY <1>3 DEF PaidPeriods

LEMMA ExtendsPays ==
  ASSUME BillingTypeOK, NEW s \in Subs, NEW q \in Contract, Extends(s, q), UNCHANGED session
  PROVE  \/ PaidPeriods' = PaidPeriods
         \/ \E u \in Users, o \in Offers, e \in 1..LastEnd :
              PaidPeriods' = [PaidPeriods EXCEPT ![u] = @ \cup {<<o, e>>}]
<1>. DEFINE u == session[s].user
            k == Len(log[s])
            pays == q.status = "active" /\ q.paid
<1>1. u \in Users /\ session[s] # NULL
  BY DEF Extends, BillingTypeOK, Session
<1>2. /\ k \in Nat
      /\ Len(log'[s]) = k + 1
      /\ log'[s][k + 1] = q
      /\ \A n \in 1..k : log'[s][n] = log[s][n]
      /\ \A t \in Subs : t # s => log'[t] = log[t]
  BY Extended, LogLength
<1>3. ASSUME NEW v \in Users, NEW p \in Offers \X (1..LastEnd), NEW t \in Subs
      PROVE  PaidBy(v, t, p)' <=>
               PaidBy(v, t, p) \/ (t = s /\ v = u /\ pays /\ p = <<q.offer, q.end>>)
  <2>1. CASE t # s
    BY <1>2, <2>1 DEF PaidBy
  <2>2. CASE t = s
    <3>1. 1..(k + 1) = (1..k) \cup {k + 1}
      BY <1>2
    <3>. QED
      BY <1>1, <1>2, <2>2, <3>1 DEF PaidBy
  <2>. QED
    BY <2>1, <2>2
<1>. HIDE DEF u, pays
<1>4. CASE pays /\ q.offer \in Offers
  <2>1. q.end \in 1..LastEnd
    BY DEF Contract
  <2>2. \A v \in Users : PaidPeriods'[v] =
          IF v = u THEN PaidPeriods[v] \cup {<<q.offer, q.end>>} ELSE PaidPeriods[v]
    BY <1>3, <1>4, <2>1 DEF PaidPeriods
  <2>3. PaidPeriods' = [PaidPeriods EXCEPT ![u] = PaidPeriods[u] \cup {<<q.offer, q.end>>}]
    BY <1>1, <2>2 DEF PaidPeriods
  <2>. QED
    BY <1>1, <1>4, <2>1, <2>3
<1>5. CASE ~(pays /\ q.offer \in Offers)
  <2>1. \A v \in Users, p \in Offers \X (1..LastEnd), t \in Subs :
          PaidBy(v, t, p)' <=> PaidBy(v, t, p)
    BY <1>3, <1>5
  <2>. QED
    BY <2>1 DEF PaidPeriods
<1>. QED
  BY <1>4, <1>5

-----------------------------------------------------------------------------
(* Every step is a step of PaidAccess, or changes nothing it can see.      *)

LEMMA AppliedIsPaid ==
  ASSUME BillingTypeOK, LinkInv, LogInv, NEW h \in Handlers, job[h] # NULL, Paying(job[h].contract),
         job[h].contract.offer # NULL, NEW u \in Payers(job[h].sub)
  PROVE  u \in Users /\ <<job[h].contract.offer, job[h].contract.end>> \in PaidPeriods[u]
<1>. DEFINE s == job[h].sub
            r == job[h].contract
            p == <<r.offer, r.end>>
<1>1. s \in Subs /\ r \in Contract
  BY DEF BillingTypeOK, Job
<1>2. session[s] # NULL /\ (\E n \in 1..Len(log[s]) : log[s][n] = r)
  BY DEF LogInv, JobInv
<1>3. u \in Users /\ u = session[s].user
  BY <1>1, <1>2, PayerIsUser DEF Payers
<1>4. p \in Offers \X (1..LastEnd)
  BY <1>1 DEF Contract
<1>5. r.status = "active" /\ r.paid
  BY DEF Paying
<1>6. PaidBy(u, s, p)
  BY <1>2, <1>3, <1>5 DEF PaidBy
<1>. QED
  BY <1>1, <1>3, <1>4, <1>6 DEF PaidPeriods

LEMMA SynchronizeRefines ==
  ASSUME BillingTypeOK, NEW u \in Users, NEW s \in Subs, NEW r \in Contract,
         Paying(r) /\ r.offer # NULL => <<r.offer, r.end>> \in PaidPeriods[u],
         Synchronize(u, s, r), UNCHANGED PaidPeriods
  PROVE  Promise!Open(u) \/ Promise!Close(u) \/ UNCHANGED access
<1>. DEFINE a == access[u]
<1>1. a \in Access /\ access \in [Users -> Access]
  BY DEF BillingTypeOK
<1>2. UNCHANGED access \/ access' = [access EXCEPT ![u] = AccessAfter(a, r)]
  BY DEF Synchronize
<1>3. CASE AccessAfter(a, r) = a
  BY <1>1, <1>2, <1>3
<1>4. CASE a.plan \notin Manual /\ Paying(r) /\ Opens(a, r)
  <2>1. AccessAfter(a, r) = [plan |-> r.offer, status |-> "ACTIVE", end |-> r.end]
    BY <1>4 DEF AccessAfter
  <2>2. r.end \in Int /\ a.end \in Int
    BY <1>1 DEF Access, Contract
  <2>3. <<r.offer, r.end>> \in PaidPeriods[u] /\ (Running(a) => a.end <= r.end)
    BY <1>4, <2>2 DEF Opens
  <2>. QED
    BY <1>2, <1>4, <2>1, <2>3 DEF Promise!Open, Promise!Give, Promise!Running, Running
<1>5. CASE a.plan \notin Manual /\ ~Paying(r) /\ r.status \in Ended /\ Running(a)
  <2>1. AccessAfter(a, r) = [plan |-> a.plan, status |-> "EXPIRED", end |-> a.end]
    BY <1>5 DEF AccessAfter
  <2>. QED
    BY <1>2, <1>5, <2>1 DEF Promise!Close, Promise!Give, Promise!Running, Running
<1>6. \/ AccessAfter(a, r) = a
      \/ a.plan \notin Manual /\ Paying(r) /\ Opens(a, r)
      \/ a.plan \notin Manual /\ ~Paying(r) /\ r.status \in Ended /\ Running(a)
  BY DEF AccessAfter
<1>. QED
  BY <1>3, <1>4, <1>5, <1>6

LEMMA ApplyRefines ==
  ASSUME BillingTypeOK, LinkInv, LogInv, NEW h \in Handlers, Apply(h)
  PROVE  [Promise!Next]_<<access, PaidPeriods>>
<1>1. job[h] # NULL /\ job[h] \in Job
  BY DEF Apply, BillingTypeOK
<1>2. UNCHANGED PaidPeriods
  BY DEF Apply, stripe, PaidPeriods, PaidBy
<1>3. \/ UNCHANGED access
      \/ \E u \in Payers(job[h].sub) : Synchronize(u, job[h].sub, job[h].contract)
  BY DEF Apply
<1>4. ASSUME NEW u \in Payers(job[h].sub), Synchronize(u, job[h].sub, job[h].contract)
      PROVE  [Promise!Next]_<<access, PaidPeriods>>
  <2>1. u \in Users
    BY DEF Payers
  <2>2. job[h].sub \in Subs /\ job[h].contract \in Contract
    BY <1>1 DEF Job
  <2>3. Promise!Open(u) \/ Promise!Close(u) \/ UNCHANGED access
    BY <1>1, <1>2, <1>4, <2>1, <2>2, AppliedIsPaid, SynchronizeRefines
  <2>. QED
    BY <1>2, <2>1, <2>3 DEF Promise!Next
<1>. QED
  BY <1>2, <1>3, <1>4

LEMMA RightsRefine ==
  ASSUME BillingTypeOK, NEW u \in Users, Rights(u)
  PROVE  [Promise!Next]_<<access, PaidPeriods>>
<1>1. UNCHANGED PaidPeriods
  BY DEF Rights, ActivateTrial, DeleteAccount, GrantManual, GrantBeta, stripe, PaidPeriods, PaidBy
<1>2. access[u] \in Access /\ access \in [Users -> Access]
  BY DEF BillingTypeOK
<1>3. ASSUME ActivateTrial(u) PROVE Promise!Try(u)
  BY <1>1, <1>3 DEF ActivateTrial, Promise!Try, Promise!Give
<1>4. ASSUME NEW p \in Manual, GrantManual(u, p) PROVE Promise!Appoint(u)
  BY <1>1, <1>4 DEF GrantManual, Promise!Appoint, Promise!Give
<1>5. ASSUME GrantBeta(u) PROVE Promise!Appoint(u)
  BY <1>1, <1>5 DEF GrantBeta, Promise!Appoint, Promise!Give
<1>6. ASSUME DeleteAccount(u) PROVE Promise!Leave(u) \/ UNCHANGED access
  <2>1. CASE access[u].plan = "BETA"
    <3>1. access' = [access EXCEPT ![u] = [access[u] EXCEPT !.status = "REVOKED"]]
      BY <1>6, <2>1 DEF DeleteAccount
    <3>2. [access[u] EXCEPT !.status = "REVOKED"]
            = [plan |-> "BETA", status |-> "REVOKED", end |-> access[u].end]
      BY <1>2, <2>1 DEF Access
    <3>. QED
      BY <1>1, <2>1, <3>1, <3>2 DEF Promise!Leave, Promise!Give
  <2>2. CASE access[u].plan # "BETA"
    BY <1>2, <1>6, <2>2 DEF DeleteAccount
  <2>. QED
    BY <2>1, <2>2
<1>. QED
  BY <1>1, <1>3, <1>4, <1>5, <1>6 DEF Rights, Promise!Next

LEMMA StepRefines ==
  BillingTypeOK /\ LinkInv /\ LogInv /\ [BillingNext]_billingVars => [Promise!Next]_<<access, PaidPeriods>>
<1>. SUFFICES ASSUME BillingTypeOK, LinkInv, LogInv, [BillingNext]_billingVars
              PROVE  [Promise!Next]_<<access, PaidPeriods>>
  OBVIOUS
<1>1. ASSUME UNCHANGED <<access, session, log>> PROVE UNCHANGED <<access, PaidPeriods>>
  BY <1>1 DEF PaidPeriods, PaidBy
<1>2. ASSUME NEW c \in Calls, Checkout(c) PROVE UNCHANGED <<access, PaidPeriods>>
  <2>1. CASE CreateSession(c)
    BY <2>1, CreateSessionPays, CreateSessionGrows
  <2>2. CASE ~CreateSession(c)
    <3>1. UNCHANGED <<access, session, log>>
      BY <1>2, <2>2 DEF Checkout, BeginCheckout, CreateCustomer, LinkCustomer, AbortCheckout,
           stripe, database
    <3>. QED
      BY <1>1, <3>1
  <2>. QED
    BY <2>1, <2>2
<1>3. ASSUME NEW h \in Handlers, Webhook(h) PROVE [Promise!Next]_<<access, PaidPeriods>>
  <2>1. CASE Apply(h)
    BY <2>1, ApplyRefines
  <2>2. CASE ~Apply(h)
    <3>1. UNCHANGED <<access, session, log>>
      BY <1>3, <2>2 DEF Webhook, Receive, Abandon, stripe, database
    <3>. QED
      BY <1>1, <3>1
  <2>. QED
    BY <2>1, <2>2
<1>4. CASE Stripe
  <2>1. /\ UNCHANGED <<session, access>>
        /\ log' = log \/ (\E s \in Subs, q \in Contract : Extends(s, q))
    BY <1>4, StripeSteps DEF LogInv
  <2>2. CASE log' = log
    BY <1>1, <2>1, <2>2
  <2>3. ASSUME NEW s \in Subs, NEW q \in Contract, Extends(s, q)
        PROVE  [Promise!Next]_<<access, PaidPeriods>>
    <3>1. \/ PaidPeriods' = PaidPeriods
          \/ \E u \in Users, o \in Offers, e \in 1..LastEnd :
               PaidPeriods' = [PaidPeriods EXCEPT ![u] = @ \cup {<<o, e>>}]
      BY <2>1, <2>3, ExtendsPays
    <3>2. CASE \E u \in Users, o \in Offers, e \in 1..LastEnd :
                 PaidPeriods' = [PaidPeriods EXCEPT ![u] = @ \cup {<<o, e>>}]
      <4>1. PICK u \in Users, o \in Offers, e \in 1..LastEnd :
              PaidPeriods' = [PaidPeriods EXCEPT ![u] = @ \cup {<<o, e>>}]
        BY <3>2
      <4>2. PaidPeriods' = PaidPeriods \/ Promise!Pay(u)
        <5>. SUFFICES ASSUME PaidPeriods' # PaidPeriods PROVE Promise!Pay(u)
          OBVIOUS
        <5>1. PaidPeriods = [v \in Users |-> PaidPeriods[v]]
          BY DEF PaidPeriods
        <5>2. <<o, e>> \notin PaidPeriods[u]
          BY <4>1, <5>1
        <5>3. <<o, e>> \in PaidPeriods'[u] \ PaidPeriods[u]
          BY <4>1, <5>1, <5>2
        <5>. QED
          BY <2>1, <4>1, <5>3 DEF Promise!Pay
      <4>. QED
        BY <2>1, <4>2 DEF Promise!Next
    <3>. QED
      BY <2>1, <3>1, <3>2
  <2>. QED
    BY <2>1, <2>2, <2>3
<1>5. ASSUME NEW u \in Users, Rights(u) PROVE [Promise!Next]_<<access, PaidPeriods>>
  BY <1>5, RightsRefine
<1>6. CASE UNCHANGED billingVars
  BY <1>1, <1>6 DEF billingVars, stripe, database
<1>. QED
  BY <1>2, <1>3, <1>4, <1>5, <1>6 DEF BillingNext

(* Billing implements PaidAccess, for any number of users, subscriptions,       *)
(* checkouts and webhooks: no forged, late, repeated or overtaken event opens a *)
(* plan nobody paid, or takes a running period back; only an operator does      *)
(* (apply_stripe_subscription_state).                                           *)
THEOREM ImplementsPaidAccess == BillingSpec => AccessIsPromised
<1>1. BillingInit => Promise!Init
  <2>. SUFFICES ASSUME BillingInit PROVE Promise!Init
    OBVIOUS
  <2>1. \A u \in Users, s \in Subs, p \in Offers \X (1..LastEnd) : ~PaidBy(u, s, p)
    BY DEF BillingInit, PaidBy
  <2>. QED
    BY <2>1 DEF BillingInit, Promise!Init, PaidPeriods
<1>. QED
  BY <1>1, StepRefines, BillingTypes, Links, LogKept, PTL
     DEF BillingSpec, AccessIsPromised, Promise!Spec, Promise!vars
-----------------------------------------------------------------------------
(* What every event applied amounts to, when requests do not overlap.      *)

\* No two requests about the same subscription are under way together.
OneAtATime ==
  \A g, h \in Handlers :
    job[g] # NULL /\ job[h] # NULL /\ job[g].sub = job[h].sub => g = h

\* The user u pays for one subscription, or for none.
OneSubscription(u) ==
  \A s, t \in Subs :
    /\ log[s] # <<>> /\ session[s].user = u
    /\ log[t] # <<>> /\ session[t].user = u
    => s = t

Numbered(s, n) == n \in 1..Len(log[s])

\* Only events Stripe emitted are handled, or recorded.
Emitted ==
  /\ \A s \in Subs, n \in 1..MaxVersions : <<s, n>> \in seen => Numbered(s, n)
  /\ \A h \in Handlers : job[h] # NULL => Numbered(job[h].sub, job[h].event)

\* A subscription never goes back to an earlier period.
EndsGrow == \A s \in Subs : \A n \in 1..Len(log[s]) : log[s][n].end <= Latest(s).end

Owns(u, s) == log[s] # <<>> /\ session[s].user = u

\* The current subscription of an account is one of its user's.
Current ==
  \A u \in Users : account[u] # NULL /\ account[u].sub # NULL => Owns(u, account[u].sub)

\* No paid access lasts longer than a subscription of its user.
PaidEnd ==
  \A u \in Users : access[u].plan \in Offers =>
    \E s \in Subs : Owns(u, s) /\ access[u].end <= Latest(s).end

LatestRecorded(s) == log[s] # <<>> /\ <<s, Len(log[s])>> \in seen

\* What a request read is the latest state, or the latest event is still to come.
UpToDate ==
  \A h \in Handlers : job[h] # NULL =>
    LET s == job[h].sub IN
    \/ job[h].contract = Latest(s)
    \/ ~LatestRecorded(s) /\ job[h].event # Len(log[s])

\* The account and the entitlement of u are in the state r of the subscription s.
FollowsOf(u, s, r) ==
  /\ account[u] # NULL
  /\ account[u].sub = s /\ account[u].status = r.status /\ account[u].end = r.end
  /\ access[u].plan \notin Manual =>
       /\ Paying(r) /\ r.offer # NULL =>
            access[u] = [plan |-> r.offer, status |-> "ACTIVE", end |-> r.end]
       /\ r.status \in Ended => ~Running(access[u])

\* Once the latest event of the only subscription of u is recorded, u is in its state.
Applied ==
  \A u \in Users \ Hosted : OneSubscription(u) =>
    \A s \in Subs : Owns(u, s) /\ LatestRecorded(s) => FollowsOf(u, s, Latest(s))

LastsInv == Emitted /\ EndsGrow /\ Current /\ PaidEnd
FreshInv == UpToDate /\ Applied

-----------------------------------------------------------------------------
(* Steps by what they leave alone.                                         *)

\* Nothing is emitted, recorded, read or granted: requests end, an account is linked.
Keeps ==
  /\ UNCHANGED <<access, seen, log>>
  /\ \A s \in Subs : session[s] # NULL => session'[s] = session[s]
  /\ \A h \in Handlers : job'[h] \in {job[h], NULL}
  /\ \A u \in Users :
       \/ account'[u] = account[u]
       \/ account[u] = NULL /\ account'[u] # NULL /\ account'[u].sub = NULL

\* A later state q of the subscription s.
Renews(s, q) ==
  /\ Extends(s, q)
  /\ UNCHANGED <<session, job, access, account, seen>>

\* Other writers of entitlements open no commercial plan.
Given ==
  /\ UNCHANGED <<account, seen, session, log, job>>
  /\ \A v \in Users :
       \/ access'[v] = access[v]
       \/ access'[v].plan \in Manual
       \/ access[v].plan \in {"NONE", "BETA"} /\ access'[v].plan = "BETA"
       \/ v \in Hosted /\ access'[v].plan = "BETA"

LEMMA LinkKeeps ==
  ASSUME BillingTypeOK, NEW c \in Calls, LinkCustomer(c)
  PROVE  Keeps
<1>1. call[c] \in Call /\ UNCHANGED <<access, seen, log, session, job>>
  BY DEF LinkCustomer, BillingTypeOK, stripe
<1>. DEFINE u == call[c].user
            new == [customer |-> call[c].created, sub |-> NULL, status |-> NULL, end |-> 0,
                    cancelling |-> FALSE]
<1>2. new \in Account /\ new.sub = NULL
  BY <1>1 DEF Account, Call, LinkCustomer
<1>3. account' = [account EXCEPT ![u] = IF account[u] # NULL THEN account[u] ELSE new]
  BY DEF LinkCustomer
<1>4. new # NULL
  BY <1>2
<1>. HIDE DEF u, new
<1>5. \A v \in Users : \/ account'[v] = account[v]
                       \/ account[v] = NULL /\ account'[v] # NULL /\ account'[v].sub = NULL
  BY <1>2, <1>3, <1>4 DEF BillingTypeOK
<1>. QED
  BY <1>1, <1>5 DEF Keeps

LEMMA CheckoutKeepsAll ==
  ASSUME BillingTypeOK, NEW c \in Calls, Checkout(c)
  PROVE  Keeps
<1>1. CASE LinkCustomer(c)
  BY <1>1, LinkKeeps
<1>2. CASE CreateSession(c)
  <2>1. Grows /\ UNCHANGED <<log, job, access, account, seen>>
    BY <1>2, CreateSessionGrows DEF CreateSession, database
  <2>. QED
    BY <2>1 DEF Keeps, Grows
<1>3. CASE ~LinkCustomer(c) /\ ~CreateSession(c)
  <2>1. UNCHANGED <<log, job, access, account, seen, session>>
    BY <1>3 DEF Checkout, BeginCheckout, CreateCustomer, AbortCheckout, database, stripe
  <2>. QED
    BY <2>1 DEF Keeps
<1>. QED
  BY <1>1, <1>2, <1>3

LEMMA StripeRenews ==
  ASSUME BillingTypeOK, Unpaid, Stripe
  PROVE  Keeps \/ (\E s \in Subs, q \in Contract : Renews(s, q))
BY StripeSteps DEF Keeps, Renews

LEMMA RightsGive ==
  ASSUME BillingTypeOK, NEW u \in Users, Rights(u)
  PROVE  Given
<1>1. UNCHANGED <<account, seen, session, log, job>>
  BY DEF Rights, ActivateTrial, DeleteAccount, GrantManual, GrantBeta, stripe
<1>2. access \in [Users -> Access]
  BY DEF BillingTypeOK
<1>3. \A v \in Users : v # u => access'[v] = access[v]
  BY <1>2 DEF Rights, ActivateTrial, DeleteAccount, GrantManual, GrantBeta
<1>4. \/ access'[u] = access[u]
      \/ access'[u].plan \in Manual
      \/ access[u].plan \in {"NONE", "BETA"} /\ access'[u].plan = "BETA"
      \/ u \in Hosted /\ access'[u].plan = "BETA"
  <2>1. CASE ActivateTrial(u)
    BY <1>2, <2>1 DEF ActivateTrial
  <2>2. CASE \E p \in Manual : GrantManual(u, p)
    BY <1>2, <2>2 DEF GrantManual
  <2>3. CASE u \in Hosted /\ GrantBeta(u)
    BY <1>2, <2>3 DEF GrantBeta
  <2>4. CASE DeleteAccount(u)
    <3>. DEFINE a == access[u]
                new == IF a.plan = "BETA" THEN [a EXCEPT !.status = "REVOKED"] ELSE a
    <3>1. a \in Access
      BY <1>2
    <3>2. new = a \/ (a.plan = "BETA" /\ new.plan = "BETA")
      BY <3>1 DEF Access
    <3>3. access'[u] = new
      BY <1>2, <2>4 DEF DeleteAccount
    <3>. HIDE DEF new
    <3>. QED
      BY <3>2, <3>3
  <2>. QED
    BY <2>1, <2>2, <2>3, <2>4 DEF Rights
<1>. QED
  BY <1>1, <1>3, <1>4 DEF Given

LEMMA StepKinds ==
  ASSUME BillingTypeOK, LogInv, [BillingNext]_billingVars
  PROVE  \/ Keeps
         \/ Given
         \/ \E s \in Subs, q \in Contract : Renews(s, q)
         \/ \E h \in Handlers, s \in Subs, n \in 1..MaxVersions : Receive(h, s, n)
         \/ \E h \in Handlers : Apply(h)
<1>1. ASSUME NEW h \in Handlers, Abandon(h) PROVE Keeps
  BY <1>1 DEF Abandon, database, stripe, BillingTypeOK, Keeps
<1>2. CASE UNCHANGED billingVars
  BY <1>2 DEF billingVars, database, stripe, Keeps
<1>3. CASE Stripe
  BY <1>3, StripeRenews DEF LogInv
<1>. QED
  BY <1>1, <1>2, <1>3, CheckoutKeepsAll, RightsGive DEF BillingNext, Webhook

-----------------------------------------------------------------------------
(* What holds however requests overlap.                                    *)

LEMMA OwnsSession ==
  ASSUME LogInv, NEW u, NEW s \in Subs, Owns(u, s)
  PROVE  session[s] # NULL
BY DEF LogInv, Unpaid, Owns

LEMMA ReadFacts ==
  ASSUME BillingTypeOK, LogInv, EndsGrow, NEW h \in Handlers, job[h] # NULL
  PROVE  /\ job[h].sub \in Subs /\ job[h].contract \in Contract
         /\ job[h].event \in 1..MaxVersions
         /\ session[job[h].sub].user \in Users
         /\ Owns(session[job[h].sub].user, job[h].sub)
         /\ job[h].contract.end <= Latest(job[h].sub).end
<1>. DEFINE s == job[h].sub
<1>1. s \in Subs /\ job[h].contract \in Contract /\ job[h].event \in 1..MaxVersions
  BY DEF BillingTypeOK, Job
<1>2. session[s] # NULL
  BY DEF LogInv, JobInv
<1>3. PICK n \in 1..Len(log[s]) : log[s][n] = job[h].contract
  BY DEF LogInv, JobInv
<1>4. log[s] # <<>> /\ session[s].user \in Users
  BY <1>1, <1>2, <1>3, LogLength DEF BillingTypeOK, Session
<1>5. log[s][n].end <= Latest(s).end
  BY <1>1 DEF EndsGrow
<1>. QED
  BY <1>1, <1>3, <1>4, <1>5 DEF Owns

\* Apply, for the one user the subscription is linked to.
LEMMA ApplySteps ==
  ASSUME BillingTypeOK, LinkInv, LogInv, NEW h \in Handlers, Apply(h)
  PROVE  LET s == job[h].sub
             u == session[s].user
             r == job[h].contract
             e == <<s, job[h].event>>
             new == [customer |-> account[u].customer, sub |-> s, status |-> r.status,
                     end |-> r.end, cancelling |-> r.cancelling] IN
         /\ job[h] # NULL /\ account[u] # NULL
         /\ UNCHANGED <<session, log>> /\ job' = [job EXCEPT ![h] = NULL]
         /\ \/ e \in seen /\ UNCHANGED <<account, access, seen>>
            \/ /\ e \notin seen /\ seen' = seen \cup {e}
               /\ \/ StaleState(account[u], s, r) /\ UNCHANGED <<account, access>>
                  \/ /\ ~StaleState(account[u], s, r) /\ new \in Account
                     /\ account' = [account EXCEPT ![u] = new]
                     /\ access' = [access EXCEPT ![u] = AccessAfter(access[u], r)]
<1>. DEFINE s == job[h].sub
            u == session[s].user
            r == job[h].contract
            e == <<s, job[h].event>>
            new == [customer |-> account[u].customer, sub |-> s, status |-> r.status,
                    end |-> r.end, cancelling |-> r.cancelling]
<1>1. job[h] # NULL /\ UNCHANGED <<session, log>> /\ job' = [job EXCEPT ![h] = NULL]
  BY DEF Apply, stripe
<1>2. s \in Subs /\ r \in Contract /\ session[s] # NULL
  BY <1>1 DEF BillingTypeOK, Job, LogInv, JobInv
<1>3. Payers(s) = {u}
  BY <1>2, PayerIsUser
<1>4. account[u] # NULL /\ account[u] \in Account
  BY <1>3 DEF Payers, BillingTypeOK
<1>5. new \in Account
  BY <1>2, <1>4, AccountTypes
<1>6. CASE e \in seen
  <2>1. UNCHANGED <<account, access, seen>>
    BY <1>6 DEF Apply
  <2>. QED
    BY <1>1, <1>4, <1>6, <2>1
<1>7. CASE e \notin seen
  <2>1. seen' = seen \cup {e} /\ Synchronize(u, s, r)
    BY <1>3, <1>7 DEF Apply
  <2>. QED
    BY <1>1, <1>4, <1>5, <1>7, <2>1 DEF Synchronize
<1>. QED
  BY <1>6, <1>7

LEMMA KeepsLasts ==
  ASSUME BillingTypeOK, LogInv, LastsInv, Keeps
  PROVE  LastsInv'
<1>1. \A s \in Subs, u \in Users : Owns(u, s) => Owns(u, s)'
  BY DEF Keeps, Owns, LogInv, Unpaid
<1>2. Emitted'
  BY DEF Keeps, LastsInv, Emitted, Numbered
<1>3. EndsGrow'
  BY DEF Keeps, LastsInv, EndsGrow, Latest
<1>4. Current'
  <2>1. ASSUME NEW u \in Users, account'[u] # NULL, account'[u].sub # NULL
        PROVE  log'[account'[u].sub] # <<>> /\ session'[account'[u].sub].user = u
    <3>1. account'[u] = account[u]
      BY <2>1 DEF Keeps
    <3>2. account[u].sub \in Subs /\ Owns(u, account[u].sub)
      BY <2>1, <3>1 DEF BillingTypeOK, Account, LastsInv, Current
    <3>. QED
      BY <1>1, <3>1, <3>2 DEF Owns
  <2>. QED
    BY <2>1 DEF Current, Owns
<1>5. PaidEnd'
  BY <1>1 DEF Keeps, LastsInv, PaidEnd, Latest
<1>. QED
  BY <1>2, <1>3, <1>4, <1>5 DEF LastsInv

LEMMA GivenLasts ==
  ASSUME LastsInv, Given
  PROVE  LastsInv'
<1>1. Emitted' /\ EndsGrow' /\ Current'
  BY DEF Given, LastsInv, Emitted, Numbered, EndsGrow, Latest, Current, Owns
<1>2. ASSUME NEW u \in Users, access'[u].plan \in Offers PROVE access'[u] = access[u]
  BY <1>2 DEF Given
<1>3. PaidEnd'
  BY <1>2 DEF Given, LastsInv, PaidEnd, Owns, Latest
<1>. QED
  BY <1>1, <1>3 DEF LastsInv

LEMMA Renewed ==
  ASSUME BillingTypeOK, NEW s \in Subs, NEW q \in Contract, Renews(s, q)
  PROVE  /\ Len(log[s]) \in Nat /\ Len(log'[s]) = Len(log[s]) + 1
         /\ \A n \in 1..Len(log[s]) : log'[s][n] = log[s][n]
         /\ Latest(s)' = q
         /\ log'[s] # <<>>
         /\ \A t \in Subs : t # s => log'[t] = log[t]
<1>1. /\ Len(log'[s]) = Len(log[s]) + 1
      /\ log'[s][Len(log[s]) + 1] = q
      /\ \A n \in 1..Len(log[s]) : log'[s][n] = log[s][n]
      /\ \A t \in Subs : t # s => log'[t] = log[t]
  BY Extended DEF Renews
<1>2. Len(log[s]) \in Nat
  BY LogLength
<1>. QED
  BY <1>1, <1>2 DEF Latest

LEMMA RenewsLasts ==
  ASSUME BillingTypeOK, LastsInv, NEW s \in Subs, NEW q \in Contract, Renews(s, q)
  PROVE  LastsInv'
<1>. DEFINE k == Len(log[s])
<1>1. /\ k \in Nat /\ Len(log'[s]) = k + 1 /\ Latest(s)' = q /\ log'[s] # <<>>
      /\ \A n \in 1..k : log'[s][n] = log[s][n]
      /\ \A t \in Subs : t # s => log'[t] = log[t]
  BY Renewed
<1>2. UNCHANGED <<session, job, access, account, seen>>
  BY DEF Renews
<1>3. \A u \in Users, t \in Subs : Owns(u, t) => Owns(u, t)'
  BY <1>1, <1>2 DEF Owns
<1>4. \A t \in Subs : 1..Len(log[t]) \subseteq 1..Len(log'[t])
  BY <1>1
<1>5. \A t \in Subs : log[t] # <<>> => Latest(t) \in Contract
  BY Fetched
<1>6. \A t \in Subs : log[t] # <<>> => Latest(t)'.end >= Latest(t).end
  BY <1>1, <1>5 DEF Renews, Extends, Latest, Contract
<1>7. Emitted'
  <2>1. \A h \in Handlers : job[h] # NULL => job[h].sub \in Subs
    BY DEF BillingTypeOK, Job
  <2>. QED
    BY <1>2, <1>4, <2>1 DEF LastsInv, Emitted, Numbered
<1>8. EndsGrow'
  <2>. SUFFICES ASSUME NEW t \in Subs, NEW n \in 1..Len(log'[t])
                PROVE  log'[t][n].end <= Latest(t)'.end
    BY DEF EndsGrow
  <2>1. CASE t # s
    BY <1>1, <2>1 DEF LastsInv, EndsGrow, Latest
  <2>2. CASE t = s /\ n \in 1..k
    <3>1. log[s] # <<>> /\ log[s][n].end <= Latest(s).end
      BY <1>1, <2>2 DEF LastsInv, EndsGrow
    <3>2. log[s][n].end \in Nat /\ Latest(s).end \in Nat /\ q.end \in Nat
      BY <1>5, <2>2, <3>1, LogLength DEF Contract
    <3>. QED
      BY <1>1, <1>6, <2>2, <3>1, <3>2
  <2>3. CASE t = s /\ n \notin 1..k
    <3>1. n = k + 1 /\ q.end \in Nat
      BY <1>1, <2>3 DEF Contract
    <3>. QED
      BY <1>1, <2>3, <3>1 DEF Latest
  <2>. QED
    BY <2>1, <2>2, <2>3
<1>9. Current'
  <2>1. \A u \in Users : account[u] # NULL /\ account[u].sub # NULL => account[u].sub \in Subs
    BY DEF BillingTypeOK, Account
  <2>. QED
    BY <1>2, <1>3, <2>1 DEF LastsInv, Current
<1>10. PaidEnd'
  <2>. SUFFICES ASSUME NEW u \in Users, access'[u].plan \in Offers
                PROVE  \E t \in Subs : Owns(u, t)' /\ access'[u].end <= Latest(t)'.end
    BY DEF PaidEnd
  <2>1. PICK t \in Subs : Owns(u, t) /\ access[u].end <= Latest(t).end
    BY <1>2 DEF LastsInv, PaidEnd
  <2>2. log[t] # <<>> /\ Latest(t).end \in Nat /\ access[u].end \in Nat
    BY <1>5, <2>1 DEF Owns, Contract, BillingTypeOK, Access
  <2>3. Latest(t)'.end \in Nat
    BY <1>1, <2>2 DEF Latest, Contract
  <2>. QED
    BY <1>2, <1>3, <1>6, <2>1, <2>2, <2>3
<1>. QED
  BY <1>7, <1>8, <1>9, <1>10 DEF LastsInv

LEMMA ReceiveJob ==
  ASSUME BillingTypeOK, NEW h \in Handlers, NEW s \in Subs, NEW n \in 1..MaxVersions,
         Receive(h, s, n)
  PROVE  /\ UNCHANGED <<account, access, seen, session, log>>
         /\ Numbered(s, n)
         /\ job'[h] = [sub |-> s, event |-> n, contract |-> Latest(s)]
         /\ \A g \in Handlers : g # h => job'[g] = job[g]
BY DEF Receive, database, stripe, Numbered, Retrieved, BillingTypeOK

LEMMA ReceiveLasts ==
  ASSUME BillingTypeOK, LastsInv, NEW h \in Handlers, NEW s \in Subs, NEW n \in 1..MaxVersions,
         Receive(h, s, n)
  PROVE  LastsInv'
<1>1. /\ UNCHANGED <<account, access, seen, session, log>>
      /\ Numbered(s, n)
      /\ job'[h] = [sub |-> s, event |-> n, contract |-> Latest(s)]
      /\ \A g \in Handlers : g # h => job'[g] = job[g]
  BY ReceiveJob
<1>2. EndsGrow' /\ Current' /\ PaidEnd'
  BY <1>1 DEF LastsInv, EndsGrow, Current, PaidEnd, Owns, Latest
<1>3. ASSUME NEW g \in Handlers, job'[g] # NULL PROVE Numbered(job'[g].sub, job'[g].event)
  <2>1. CASE g = h
    BY <1>1, <2>1
  <2>2. CASE g # h
    BY <1>1, <1>3, <2>2 DEF LastsInv, Emitted
  <2>. QED
    BY <2>1, <2>2
<1>4. Emitted'
  BY <1>1, <1>3 DEF LastsInv, Emitted, Numbered
<1>. QED
  BY <1>2, <1>4 DEF LastsInv

LEMMA ApplyLasts ==
  ASSUME BillingTypeOK, LinkInv, LogInv, LastsInv, NEW h \in Handlers, Apply(h)
  PROVE  LastsInv'
<1>. DEFINE s == job[h].sub
            u == session[s].user
            r == job[h].contract
            e == <<s, job[h].event>>
            new == [customer |-> account[u].customer, sub |-> s, status |-> r.status,
                    end |-> r.end, cancelling |-> r.cancelling]
<1>1. /\ job[h] # NULL /\ account[u] # NULL
      /\ UNCHANGED <<session, log>> /\ job' = [job EXCEPT ![h] = NULL]
      /\ \/ e \in seen /\ UNCHANGED <<account, access, seen>>
         \/ /\ e \notin seen /\ seen' = seen \cup {e}
            /\ \/ StaleState(account[u], s, r) /\ UNCHANGED <<account, access>>
               \/ /\ ~StaleState(account[u], s, r) /\ new \in Account
                  /\ account' = [account EXCEPT ![u] = new]
                  /\ access' = [access EXCEPT ![u] = AccessAfter(access[u], r)]
  BY ApplySteps
<1>2. /\ s \in Subs /\ r \in Contract /\ u \in Users /\ job[h].event \in 1..MaxVersions
      /\ Owns(u, s) /\ r.end <= Latest(s).end
  BY <1>1, ReadFacts DEF LastsInv
<1>3. new.sub = s
  OBVIOUS
<1>4. Numbered(s, job[h].event)
  BY <1>1 DEF LastsInv, Emitted
<1>5. /\ account' = account \/ (account' = [account EXCEPT ![u] = new])
      /\ access' = access \/ (access' = [access EXCEPT ![u] = AccessAfter(access[u], r)])
      /\ seen' = seen \/ (seen' = seen \cup {e})
  BY <1>1
<1>6. Emitted'
  <2>1. ASSUME NEW t \in Subs, NEW n \in 1..MaxVersions, <<t, n>> \in seen' PROVE Numbered(t, n)
    <3>1. <<t, n>> \in seen \/ <<t, n>> = e
      BY <1>5, <2>1
    <3>. QED
      BY <1>4, <3>1 DEF LastsInv, Emitted
  <2>2. ASSUME NEW g \in Handlers, job'[g] # NULL PROVE Numbered(job'[g].sub, job'[g].event)
    <3>1. job'[g] = job[g]
      BY <1>1, <2>2 DEF BillingTypeOK
    <3>. QED
      BY <2>2, <3>1 DEF LastsInv, Emitted
  <2>. QED
    BY <1>1, <2>1, <2>2 DEF Emitted, Numbered
<1>7. EndsGrow'
  BY <1>1 DEF LastsInv, EndsGrow, Latest
<1>. HIDE DEF s, u, r, e, new
<1>8. Current'
  <2>1. ASSUME NEW v \in Users, account'[v] # NULL, account'[v].sub # NULL
        PROVE  log[account'[v].sub] # <<>> /\ session[account'[v].sub].user = v
    <3>1. account'[v] = account[v] \/ (v = u /\ account'[v] = new)
      BY <1>5 DEF BillingTypeOK
    <3>2. CASE account'[v] = account[v]
      BY <2>1, <3>2 DEF LastsInv, Current, Owns
    <3>3. CASE v = u /\ account'[v] = new
      BY <1>2, <1>3, <3>3 DEF Owns
    <3>. QED
      BY <3>1, <3>2, <3>3
  <2>. QED
    BY <1>1, <2>1 DEF Current, Owns
<1>9. PaidEnd'
  <2>1. ASSUME NEW v \in Users, access'[v].plan \in Offers
        PROVE  \E t \in Subs : Owns(v, t) /\ access'[v].end <= Latest(t).end
    <3>1. access'[v] = access[v] \/ (v = u /\ access'[v] = AccessAfter(access[u], r))
      BY <1>5 DEF BillingTypeOK
    <3>2. CASE access'[v] = access[v]
      BY <2>1, <3>2 DEF LastsInv, PaidEnd
    <3>3. CASE v = u /\ access'[v] = AccessAfter(access[u], r)
      <4>1. \/ access'[v] = [plan |-> r.offer, status |-> "ACTIVE", end |-> r.end]
            \/ access'[v].plan = access[u].plan /\ access'[v].end = access[u].end
        BY <3>3 DEF AccessAfter
      <4>2. CASE access'[v] = [plan |-> r.offer, status |-> "ACTIVE", end |-> r.end]
        BY <1>2, <3>3, <4>2
      <4>3. CASE access'[v].plan = access[u].plan /\ access'[v].end = access[u].end
        BY <1>2, <2>1, <3>3, <4>3 DEF LastsInv, PaidEnd
      <4>. QED
        BY <4>1, <4>2, <4>3
    <3>. QED
      BY <3>1, <3>2, <3>3
  <2>. QED
    BY <1>1, <2>1 DEF PaidEnd, Owns, Latest
<1>. QED
  BY <1>6, <1>7, <1>8, <1>9 DEF LastsInv

LEMMA NextLasts ==
  BillingTypeOK /\ LinkInv /\ LogInv /\ LastsInv /\ [BillingNext]_billingVars => LastsInv'
BY StepKinds, KeepsLasts, GivenLasts, RenewsLasts, ReceiveLasts, ApplyLasts

LEMMA Lasts == BillingSpec => []LastsInv
<1>1. BillingInit => LastsInv
  BY DEF BillingInit, LastsInv, Emitted, Numbered, EndsGrow, Current, PaidEnd
<1>. QED
  BY <1>1, NextLasts, BillingTypes, Links, LogKept, PTL DEF BillingSpec

-----------------------------------------------------------------------------
(* Requests about a subscription one at a time: nothing is applied stale.  *)

\* What FollowsOf and Applied look at stays for the users who keep one subscription.
LEMMA KeepsFresh ==
  ASSUME BillingTypeOK, LogInv, LastsInv, FreshInv, Keeps
  PROVE  FreshInv'
<1>1. \A s \in Subs : log[s] # <<>> => session[s] # NULL
  BY DEF LogInv, Unpaid
<1>2. UNCHANGED <<access, seen, log>>
  BY DEF Keeps
<1>3. \A s \in Subs : log[s] # <<>> => session'[s] = session[s]
  BY <1>1 DEF Keeps
<1>4. UpToDate'
  BY <1>2 DEF Keeps, FreshInv, UpToDate, LatestRecorded, Latest
<1>5. Applied'
  <2>. SUFFICES ASSUME NEW u \in Users \ Hosted, OneSubscription(u)', NEW s \in Subs,
                       Owns(u, s)', LatestRecorded(s)'
                PROVE  FollowsOf(u, s, Latest(s))'
    BY DEF Applied
  <2>1. OneSubscription(u) /\ Owns(u, s) /\ LatestRecorded(s)
    BY <1>2, <1>3 DEF OneSubscription, Owns, LatestRecorded
  <2>2. FollowsOf(u, s, Latest(s))
    BY <2>1 DEF FreshInv, Applied
  <2>3. account'[u] = account[u]
    BY <2>2 DEF Keeps, FollowsOf
  <2>. QED
    BY <1>2, <2>2, <2>3 DEF FollowsOf, Latest, Paying, Running
<1>. QED
  BY <1>4, <1>5 DEF FreshInv

LEMMA GivenFresh ==
  ASSUME BillingTypeOK, FreshInv, Given
  PROVE  FreshInv'
<1>1. UNCHANGED <<account, seen, session, log, job>>
  BY DEF Given
<1>2. UpToDate'
  BY <1>1 DEF FreshInv, UpToDate, LatestRecorded, Latest
<1>3. Applied'
  <2>. SUFFICES ASSUME NEW u \in Users \ Hosted, OneSubscription(u)', NEW s \in Subs,
                       Owns(u, s)', LatestRecorded(s)'
                PROVE  FollowsOf(u, s, Latest(s))'
    BY DEF Applied
  <2>. DEFINE r == Latest(s)
  <2>1. FollowsOf(u, s, r)
    BY <1>1 DEF FreshInv, Applied, OneSubscription, Owns, LatestRecorded
  <2>2. r \in Contract /\ Latest(s)' = r
    BY <1>1, Fetched DEF Owns, Latest
  <2>3. \/ access'[u] = access[u]
        \/ access'[u].plan \in Manual
        \/ access[u].plan \in {"NONE", "BETA"} /\ access'[u].plan = "BETA"
    BY DEF Given
  <2>. HIDE DEF r
  <2>4. CASE access[u].plan \in {"NONE", "BETA"} /\ access'[u].plan = "BETA"
    <3>1. access[u].plan \notin Offers \cup Manual /\ access'[u].plan \notin Offers
      BY <2>4
    <3>2. ~(Paying(r) /\ r.offer # NULL)
      BY <2>1, <2>2, <3>1 DEF FollowsOf, Contract
    <3>3. ~Running(access'[u])
      BY <3>1 DEF Running
    <3>. QED
      BY <1>1, <2>1, <2>2, <3>2, <3>3 DEF FollowsOf, Paying, Running
  <2>5. CASE access'[u] = access[u] \/ access'[u].plan \in Manual
    BY <1>1, <2>1, <2>2, <2>5 DEF FollowsOf, Paying, Running
  <2>. QED
    BY <2>3, <2>4, <2>5
<1>. QED
  BY <1>2, <1>3 DEF FreshInv

LEMMA RenewsFresh ==
  ASSUME BillingTypeOK, LastsInv, FreshInv, NEW s \in Subs, NEW q \in Contract, Renews(s, q)
  PROVE  FreshInv'
<1>. DEFINE k == Len(log[s])
<1>1. /\ k \in Nat /\ Len(log'[s]) = k + 1 /\ log'[s] # <<>>
      /\ \A t \in Subs : t # s => log'[t] = log[t]
  BY Renewed
<1>2. UNCHANGED <<session, job, access, account, seen>>
  BY DEF Renews
<1>3. <<s, k + 1>> \notin seen
  <2>1. ~Numbered(s, k + 1)
    BY <1>1 DEF Numbered
  <2>2. <<s, k + 1>> \in seen => k + 1 \in 1..MaxVersions
    BY DEF BillingTypeOK
  <2>. QED
    BY <2>1, <2>2 DEF LastsInv, Emitted
<1>4. ~LatestRecorded(s)' /\ (\A t \in Subs : t # s => (LatestRecorded(t)' <=> LatestRecorded(t)) /\ Latest(t)' = Latest(t))
  BY <1>1, <1>2, <1>3 DEF LatestRecorded, Latest
<1>5. UpToDate'
  <2>0. \A h \in Handlers : job[h] # NULL => job[h].sub \in Subs
    BY DEF BillingTypeOK, Job
  <2>. SUFFICES ASSUME NEW h \in Handlers, job[h] # NULL, NEW t \in Subs, job[h].sub = t
                PROVE  \/ job[h].contract = Latest(t)'
                       \/ ~LatestRecorded(t)' /\ job[h].event # Len(log'[t])
    BY <1>2, <2>0 DEF UpToDate, LatestRecorded, Latest
  <2>1. Numbered(t, job[h].event)
    BY DEF LastsInv, Emitted
  <2>2. CASE t = s
    <3>1. job[h].event # k + 1
      BY <1>1, <2>1, <2>2 DEF Numbered
    <3>. QED
      BY <1>1, <1>4, <2>2, <3>1
  <2>3. CASE t # s
    BY <1>1, <1>4, <2>1, <2>3 DEF FreshInv, UpToDate
  <2>. QED
    BY <2>2, <2>3
<1>6. Applied'
  <2>. SUFFICES ASSUME NEW u \in Users \ Hosted, OneSubscription(u)', NEW t \in Subs,
                       Owns(u, t)', LatestRecorded(t)'
                PROVE  FollowsOf(u, t, Latest(t))'
    BY DEF Applied
  <2>1. t # s
    BY <1>4
  <2>2. OneSubscription(u)
    BY <1>1, <1>2 DEF OneSubscription
  <2>3. FollowsOf(u, t, Latest(t))
    BY <1>1, <1>2, <1>4, <2>1, <2>2 DEF FreshInv, Applied, Owns
  <2>. QED
    BY <1>2, <1>4, <2>1, <2>3 DEF FollowsOf, Paying, Running
<1>. QED
  BY <1>5, <1>6 DEF FreshInv

LEMMA ReceiveFresh ==
  ASSUME BillingTypeOK, FreshInv, NEW h \in Handlers, NEW s \in Subs, NEW n \in 1..MaxVersions,
         Receive(h, s, n)
  PROVE  FreshInv'
<1>1. /\ UNCHANGED <<account, access, seen, session, log>>
      /\ job'[h] = [sub |-> s, event |-> n, contract |-> Latest(s)]
      /\ \A g \in Handlers : g # h => job'[g] = job[g]
  BY ReceiveJob
<1>2. Applied'
  BY <1>1 DEF FreshInv, Applied, OneSubscription, Owns, LatestRecorded, FollowsOf, Latest, Paying, Running
<1>3. UpToDate'
  <2>1. ASSUME NEW g \in Handlers, job'[g] # NULL
        PROVE  \/ job'[g].contract = Latest(job'[g].sub)
               \/ ~LatestRecorded(job'[g].sub) /\ job'[g].event # Len(log[job'[g].sub])
    <3>1. CASE g = h
      BY <1>1, <3>1
    <3>2. CASE g # h
      BY <1>1, <2>1, <3>2 DEF FreshInv, UpToDate
    <3>. QED
      BY <3>1, <3>2
  <2>. QED
    BY <1>1, <2>1 DEF UpToDate, LatestRecorded, Latest
<1>. QED
  BY <1>2, <1>3 DEF FreshInv

\* Applying the latest state r brings the account and the entitlement to it.
LEMMA Brought ==
  ASSUME NEW a \in Access, NEW r \in Contract, Running(a) => a.end <= r.end
  PROVE  LET b == AccessAfter(a, r) IN
         b.plan \notin Manual =>
           /\ Paying(r) /\ r.offer # NULL =>
                b = [plan |-> r.offer, status |-> "ACTIVE", end |-> r.end]
           /\ r.status \in Ended => ~Running(b)
<1>. DEFINE b == AccessAfter(a, r)
<1>0. a.end \in Int /\ r.end \in Int
  BY DEF Access, Contract
<1>1. CASE a.plan \in Manual
  BY <1>1 DEF AccessAfter
<1>2. CASE a.plan \notin Manual /\ Paying(r) /\ Opens(a, r)
  <2>1. b = [plan |-> r.offer, status |-> "ACTIVE", end |-> r.end]
    BY <1>2 DEF AccessAfter
  <2>2. r.status \notin Ended
    BY <1>2 DEF Paying, Ended
  <2>. QED
    BY <2>1, <2>2
<1>3. CASE a.plan \notin Manual /\ Paying(r) /\ ~Opens(a, r)
  <2>1. r.offer = NULL
    BY <1>0, <1>3 DEF Opens
  <2>2. r.status \notin Ended
    BY <1>3 DEF Paying, Ended
  <2>. QED
    BY <2>1, <2>2
<1>4. CASE a.plan \notin Manual /\ ~Paying(r) /\ r.status \in Ended /\ Running(a)
  <2>1. b = [plan |-> a.plan, status |-> "EXPIRED", end |-> a.end]
    BY <1>4 DEF AccessAfter
  <2>2. ~Running(b)
    BY <2>1 DEF Running
  <2>. QED
    BY <1>4, <2>2
<1>5. CASE a.plan \notin Manual /\ ~Paying(r) /\ ~(r.status \in Ended /\ Running(a))
  <2>1. b = a
    BY <1>5 DEF AccessAfter
  <2>. QED
    BY <1>5, <2>1
<1>. QED
  BY <1>1, <1>2, <1>3, <1>4, <1>5

LEMMA ApplyFresh ==
  ASSUME BillingTypeOK, LinkInv, LogInv, LastsInv, FreshInv, OneAtATime,
         NEW h \in Handlers, Apply(h)
  PROVE  FreshInv'
<1>. DEFINE s == job[h].sub
            u == session[s].user
            r == job[h].contract
            e == <<s, job[h].event>>
            new == [customer |-> account[u].customer, sub |-> s, status |-> r.status,
                    end |-> r.end, cancelling |-> r.cancelling]
<1>1. /\ job[h] # NULL /\ account[u] # NULL
      /\ UNCHANGED <<session, log>> /\ job' = [job EXCEPT ![h] = NULL]
      /\ \/ e \in seen /\ UNCHANGED <<account, access, seen>>
         \/ /\ e \notin seen /\ seen' = seen \cup {e}
            /\ \/ StaleState(account[u], s, r) /\ UNCHANGED <<account, access>>
               \/ /\ ~StaleState(account[u], s, r) /\ new \in Account
                  /\ account' = [account EXCEPT ![u] = new]
                  /\ access' = [access EXCEPT ![u] = AccessAfter(access[u], r)]
  BY ApplySteps
<1>2. /\ s \in Subs /\ r \in Contract /\ u \in Users /\ Owns(u, s)
  BY <1>1, ReadFacts DEF LastsInv
<1>3. r = Latest(s) \/ (~LatestRecorded(s) /\ job[h].event # Len(log[s]))
  BY <1>1 DEF FreshInv, UpToDate
<1>4. new.sub = s /\ new.status = r.status /\ new.end = r.end
  OBVIOUS
<1>5. \A g \in Handlers : job[g] # NULL /\ job[g].sub = s => g = h
  BY <1>1 DEF OneAtATime
<1>6. \A t \in Subs : t # s => (<<t, Len(log[t])>> \in seen' <=> <<t, Len(log[t])>> \in seen)
  BY <1>1
<1>7. <<s, Len(log[s])>> \in seen' => r = Latest(s)
  BY <1>1, <1>2, <1>3 DEF LatestRecorded, Owns
<1>. HIDE DEF s, u, r, e, new
<1>8. UpToDate'
  <2>1. ASSUME NEW g \in Handlers, job'[g] # NULL
        PROVE  LET t == job[g].sub IN
               /\ job'[g] = job[g]
               /\ \/ job[g].contract = Latest(t)
                  \/ /\ ~(log[t] # <<>> /\ <<t, Len(log[t])>> \in seen')
                     /\ job[g].event # Len(log[t])
    <3>1. job'[g] = job[g] /\ g # h
      BY <1>1, <2>1 DEF BillingTypeOK
    <3>2. job[g].sub \in Subs /\ job[g].sub # s
      BY <1>5, <2>1, <3>1 DEF BillingTypeOK, Job
    <3>. QED
      BY <1>6, <2>1, <3>1, <3>2 DEF FreshInv, UpToDate, LatestRecorded
  <2>. QED
    BY <1>1, <2>1 DEF UpToDate, LatestRecorded, Latest
<1>9. Applied'
  <2>. SUFFICES ASSUME NEW v \in Users \ Hosted, OneSubscription(v)', NEW t \in Subs,
                       Owns(v, t)', LatestRecorded(t)'
                PROVE  FollowsOf(v, t, Latest(t))'
    BY DEF Applied
  <2>1. OneSubscription(v) /\ Owns(v, t) /\ Latest(t)' = Latest(t)
    BY <1>1 DEF OneSubscription, Owns, Latest
  <2>2. <<t, Len(log[t])>> \in seen'
    BY <1>1 DEF LatestRecorded
  <2>3. ASSUME LatestRecorded(t), UNCHANGED <<account[v], access[v]>>
        PROVE  FollowsOf(v, t, Latest(t))'
    BY <2>1, <2>3 DEF FreshInv, Applied, FollowsOf, Paying, Running
  <2>4. CASE v # u
    <3>1. t # s
      BY <1>2, <2>1, <2>4 DEF Owns
    <3>2. LatestRecorded(t)
      BY <1>6, <2>1, <2>2, <3>1 DEF LatestRecorded, Owns
    <3>3. account'[v] = account[v] /\ access'[v] = access[v]
      BY <1>1, <2>4 DEF BillingTypeOK
    <3>. QED
      BY <2>3, <3>2, <3>3
  <2>5. CASE v = u
    <3>1. t = s
      BY <1>2, <2>1, <2>5 DEF OneSubscription, Owns
    <3>2. r = Latest(s)
      BY <1>7, <2>2, <3>1
    <3>3. CASE UNCHANGED <<account, access, seen>>
      BY <2>1, <2>2, <2>3, <3>3 DEF LatestRecorded, Owns
    <3>4. ~StaleState(account[u], s, r)
      <4>1. account[u].sub # NULL => account[u].sub \in Subs /\ Owns(u, account[u].sub)
        BY <1>1, <1>2 DEF LastsInv, Current, BillingTypeOK, Account
      <4>. QED
        BY <1>2, <2>1, <2>5, <4>1 DEF StaleState, OneSubscription, Owns
    <3>5. CASE /\ new \in Account
               /\ account' = [account EXCEPT ![u] = new]
               /\ access' = [access EXCEPT ![u] = AccessAfter(access[u], r)]
      <4>1. access[u] \in Access /\ new # NULL
        BY <1>2, <3>5 DEF BillingTypeOK
      <4>2. Running(access[u]) => access[u].end <= r.end
        <5>. SUFFICES ASSUME Running(access[u]) PROVE access[u].end <= r.end
          OBVIOUS
        <5>1. PICK z \in Subs : Owns(u, z) /\ access[u].end <= Latest(z).end
          BY <1>2 DEF LastsInv, PaidEnd, Running
        <5>2. z = s
          BY <1>2, <2>1, <2>5, <5>1 DEF OneSubscription, Owns
        <5>. QED
          BY <3>2, <5>1, <5>2
      <4>3. account'[u] = new /\ access'[u] = AccessAfter(access[u], r)
        BY <1>2, <3>5 DEF BillingTypeOK
      <4>. QED
        BY <1>2, <1>4, <2>1, <2>5, <3>1, <3>2, <4>1, <4>2, <4>3, Brought
           DEF FollowsOf, Paying, Running
    <3>. QED
      BY <1>1, <3>3, <3>4, <3>5
  <2>. QED
    BY <2>4, <2>5
<1>. QED
  BY <1>8, <1>9 DEF FreshInv

LEMMA NextFresh ==
  /\ BillingTypeOK /\ LinkInv /\ LogInv /\ LastsInv /\ OneAtATime
  /\ FreshInv /\ [BillingNext]_billingVars
  => FreshInv'
BY StepKinds, KeepsFresh, GivenFresh, RenewsFresh, ReceiveFresh, ApplyFresh

LEMMA QuietIsSynced ==
  ASSUME BillingTypeOK, LogInv, FreshInv, Quiet, NEW u \in Users \ Hosted, OneSubscription(u)
  PROVE  Synced(u)
<1>. SUFFICES ASSUME NEW s \in Subs, session[s] # NULL, session[s].user = u, log[s] # <<>>
              PROVE  FollowsOf(u, s, Latest(s))
  BY DEF Synced, FollowsOf
<1>1. LatestRecorded(s)
  BY Fetched DEF Quiet, LatestRecorded
<1>. QED
  BY <1>1 DEF FreshInv, Applied, Owns

(* The events of a subscription may be late, repeated, lost for a while or out  *)
(* of order, and the other subscriptions' too: when they are handled one at a   *)
(* time, the account and the entitlement of every user who pays for one         *)
(* subscription are, once all of them are applied, what Stripe says             *)
(* (handleStripeWebhook re-reads the state, and applies it later).              *)
THEOREM OneAtATimeConverges ==
  BillingSpec /\ []OneAtATime
    => [](Quiet => \A u \in Users \ Hosted : OneSubscription(u) => Synced(u))
<1>1. BillingInit => FreshInv
  BY DEF BillingInit, FreshInv, UpToDate, Applied, Owns
<1>2. /\ BillingTypeOK /\ LogInv /\ FreshInv
      => (Quiet => \A u \in Users \ Hosted : OneSubscription(u) => Synced(u))
  BY QuietIsSynced
<1>. QED
  BY <1>1, <1>2, NextFresh, BillingTypes, Links, LogKept, Lasts, PTL DEF BillingSpec

(* So what billing promises in webhook.ts:11 fails only by an overlap of two    *)
(* requests, or by a second subscription of the same user: without them, and    *)
(* when no operator gives a payer a trial, it always holds.                     *)
THEOREM ConvergesOneAtATime ==
  ASSUME Hosted = {}
  PROVE  BillingSpec /\ [](OneAtATime /\ \A u \in Users : OneSubscription(u))
           => []ConvergesWhenQuiet
<1>1. (\A u \in Users : OneSubscription(u))
        /\ (Quiet => \A u \in Users \ Hosted : OneSubscription(u) => Synced(u))
        => ConvergesWhenQuiet
  BY DEF ConvergesWhenQuiet
<1>. QED
  BY <1>1, OneAtATimeConverges, PTL
=============================================================================
