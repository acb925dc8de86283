------------------------------- MODULE Usage -------------------------------
(***************************************************************************)
(* The plan's quotas of ProspectOS: a unit is taken before the paid work   *)
(* and given back when the work was not done                               *)
(* (db/migrations/016_beta_commercial_quotas.sql, 021, 023,                *)
(* app/api/v1/[...path]/route.ts, src/server/commercial-usage.ts,          *)
(* src/discovery/api.ts).                                                  *)
(*                                                                         *)
(* A reservation is a transaction of several statements at READ COMMITTED: *)
(* the user's advisory lock and whose plan pays, then the locks of the     *)
(* team and of the organization with the counts, then the insert and the   *)
(* commit. The work it pays for follows in the request, which may die at   *)
(* any moment (maxDuration is 60 s). The hourly limits and an inactive     *)
(* plan only refuse: they are a refusal that may happen at the count.      *)
(***************************************************************************)
EXTENDS Commons, Integers, Sequences, FiniteSets

CONSTANTS
  Accounts,    \* users
  Workplaces,  \* organizations, of which a team is one
  Works,       \* Works[u]: the organizations in whose projects u works
  PoolOf,      \* PoolOf[u]: the team plan_subject finds for u at first, or NULL
  Asks,        \* Asks[u]: the actions u asks for (a bound)
  Movers,      \* accounts whose team changes (a bound)
  Texts,       \* texts of an offer
  Requests,    \* requests under way at a time (a bound)
  PlanLimit,   \* units of an action in a period
  MaxUses,     \* rows of discovery_quota_usage (a bound)
  LastMonth    \* periods of a plan (a bound)

ASSUME UsageAssumption ==
  /\ Works \in [Accounts -> SUBSET Workplaces]
  /\ PoolOf \in [Accounts -> Workplaces \cup {NULL}]
  /\ PlanLimit \in Nat
  /\ NULL \notin Workplaces \cup Texts
  /\ IsFiniteSet(Requests)

QuotaActions == {"analysis", "ai_offer", "discovery"}

\* Who pays, and so where a use counts: a team, or an account on its own.
PoolPayers == [team : Workplaces \cup {NULL}, user : Accounts]

VARIABLES
  uses,       \* discovery_quota_usage, in the order of used_at
  pool,       \* the team an account belongs to, as plan_subject finds it
  month,      \* the period of the plans
  offer,      \* offer_analyses, by user, project (of an organization) and text
  request,    \* a request and its transaction
  delivered   \* results handed to a user by an action

usageVars == <<uses, pool, month, offer, request, delivered>>

Use == [user : Accounts, org : Workplaces, action : QuotaActions, billable : BOOLEAN,
        month : Nat, payer : PoolPayers]

\* IDLE; LOCKED and CHECKED inside the reservation; then the work: RESERVED before
\* the paid call, WORKING in it, and what remains to be written after it.
RequestSteps == {"IDLE", "LOCKED", "CHECKED", "RESERVED", "WORKING", "FAILED", "RELEASING", "ANSWERED"}
Request == [step : RequestSteps, action : QuotaActions, user : Accounts, org : Workplaces,
         text : Texts \cup {NULL}, team : Workplaces \cup {NULL}, month : Nat, unit : Nat,
         called : BOOLEAN]
NoRequest == [step |-> "IDLE"]

Keys == Accounts \X Workplaces \X Texts

UsageInit ==
  /\ uses = <<>>
  /\ pool = PoolOf
  /\ month = 1
  /\ offer = [k \in Keys |-> "NONE"]
  /\ request = [c \in Requests |-> NoRequest]
  /\ delivered = [u \in Accounts |-> [a \in QuotaActions |-> 0]]

-----------------------------------------------------------------------------
(* Counts and locks.                                                       *)

Faulty_PayerUnset(c) == [team |-> request[c].team]
Payer(c) == [team |-> request[c].team, user |-> request[c].user]

\* Two payers share a pool when they are in one team, or are one account.
SamePool(p, q) == IF p.team = NULL THEN p = q ELSE p.team = q.team

\* What enforce_plan_limit counts: by organization for a team, by user otherwise.
Faulty_CountedByUser(i, p, a) ==
  uses[i].action = a /\ uses[i].billable /\ uses[i].month = month /\ uses[i].user = p.user
CountedFor(i, p, a) ==
  /\ uses[i].action = a /\ uses[i].billable /\ uses[i].month = month
  /\ IF p.team # NULL THEN uses[i].org = p.team ELSE uses[i].user = p.user
Used(p, a) == {i \in DOMAIN uses : CountedFor(i, p, a)}

InTransaction(c) == request[c].step \in {"LOCKED", "CHECKED"}
Ready(c, s, a) == request[c].step = s /\ request[c].action = a
KeyOf(c) == <<request[c].user, request[c].org, request[c].text>>

UserFree(c, u, a) ==
  \A d \in Requests \ {c} : ~(InTransaction(d) /\ request[d].user = u /\ request[d].action = a)
OfferFree(c, k) ==
  \A d \in Requests \ {c} : ~(InTransaction(d) /\ request[d].action = "ai_offer" /\ KeyOf(d) = k)
TeamFree(c) ==
  \A d \in Requests \ {c} : ~(/\ Ready(d, "CHECKED", request[c].action)
                           /\ request[c].team # NULL /\ request[d].team = request[c].team)
OrgFree(c) ==
  \A d \in Requests \ {c} : ~(Ready(d, "CHECKED", request[c].action) /\ request[d].org = request[c].org)

\* A text is being analysed: its row is PENDING and not yet two minutes old.
Faulty_NeverInProgress(k) == FALSE
InProgress(k) == offer[k] = "PENDING"

-----------------------------------------------------------------------------
(* The reservation.                                                        *)

Goes(c, s) == request' = [request EXCEPT ![c].step = s]
Ends(c) == request' = [request EXCEPT ![c] = NoRequest]

Begin(c, a, u, o, t) ==
  /\ request[c] = NoRequest
  /\ o \in Works[u] /\ a \in Asks[u]
  /\ UserFree(c, u, a)
  /\ request' = [request EXCEPT ![c] = [step |-> "LOCKED", action |-> a, user |-> u, org |-> o,
                text |-> t, team |-> pool[u], month |-> month, unit |-> 0, called |-> FALSE]]
  /\ UNCHANGED <<uses, pool, month, offer, delivered>>

\* reserve_offer_analysis on a text that is neither finished nor in progress.
BeginOffer(c, u, o, t) ==
  /\ OfferFree(c, <<u, o, t>>)
  /\ offer[<<u, o, t>>] # "DONE" /\ ~InProgress(<<u, o, t>>)
  /\ Begin(c, "ai_offer", u, o, t)

\* A finished analysis is read back: no unit and no AI call.
ReadBack(c, u, o, t) ==
  /\ request[c] = NoRequest /\ o \in Works[u] /\ "ai_offer" \in Asks[u]
  /\ OfferFree(c, <<u, o, t>>)
  /\ offer[<<u, o, t>>] = "DONE"
  /\ UNCHANGED usageVars

BeginAnalysis(c, u, o) == Begin(c, "analysis", u, o, NULL)
BeginDiscovery(c, u, o) == Begin(c, "discovery", u, o, NULL)

\* enforce_plan_limit under the lock of the team, then the lock of the organization.
CheckPlan(c) ==
  /\ request[c].step = "LOCKED"
  /\ TeamFree(c) /\ OrgFree(c)
  /\ Cardinality(Used(Payer(c), request[c].action)) < PlanLimit
  /\ Goes(c, "CHECKED")
  /\ UNCHANGED <<uses, pool, month, offer, delivered>>

Refused(c) ==
  /\ InTransaction(c)
  /\ Ends(c)
  /\ UNCHANGED <<uses, pool, month, offer, delivered>>

\* The unit is recorded with the time the transaction began; the answer may be lost,
\* and the route, which has not entered its try block, then gives nothing back.
Commit(c) ==
  /\ request[c].step = "CHECKED" /\ Len(uses) < MaxUses
  /\ uses' = Append(uses, [user |-> request[c].user, org |-> request[c].org, action |-> request[c].action,
                           billable |-> TRUE, month |-> request[c].month, payer |-> Payer(c)])
  /\ offer' = IF request[c].action = "ai_offer" THEN [offer EXCEPT ![KeyOf(c)] = "PENDING"] ELSE offer
  /\ \/ request' = [request EXCEPT ![c].step = "RESERVED", ![c].unit = Len(uses) + 1]
     \/ Ends(c)
  /\ UNCHANGED <<pool, month, delivered>>

-----------------------------------------------------------------------------
(* The work it pays for.                                                   *)

\* The AI model, the site or the search source is called; before that an offer
\* needs the project and the key of its organization, which may fail.
CallProvider(c) ==
  /\ request[c].step = "RESERVED"
  /\ request' = [request EXCEPT ![c].step = "WORKING", ![c].called = TRUE]
  /\ UNCHANGED <<uses, pool, month, offer, delivered>>
PrepareFails(c) ==
  /\ Ready(c, "RESERVED", "ai_offer")
  /\ Goes(c, "FAILED")
  /\ UNCHANGED <<uses, pool, month, offer, delivered>>

Answers(c) ==
  /\ request[c].step = "WORKING"
  /\ Goes(c, "ANSWERED")
  /\ delivered' = [delivered EXCEPT ![request[c].user][request[c].action] = @ + 1]
  /\ UNCHANGED <<uses, pool, month, offer>>
\* notCalled: the model answered AI_NOT_CONFIGURED, so nothing was paid.
Fails(c, notCalled) ==
  /\ request[c].step = "WORKING"
  /\ notCalled => request[c].action = "ai_offer"
  /\ request' = [request EXCEPT ![c].step = "FAILED", ![c].called = ~notCalled]
  /\ UNCHANGED <<uses, pool, month, offer, delivered>>

\* A failed offer gives its unit back when the AI was not called; a failed analysis of a
\* site always; a failed search when the source answered nothing (empty).
Refundable(c, empty) ==
  CASE request[c].action = "ai_offer"  -> ~request[c].called
    [] request[c].action = "analysis"  -> TRUE
    [] request[c].action = "discovery" -> empty

\* abandon_offer_analysis, best effort: the PENDING row goes, or stays.
CleanUp(c, empty) ==
  /\ request[c].step = "FAILED"
  /\ \/ offer' = offer
     \/ /\ request[c].action = "ai_offer" /\ offer[KeyOf(c)] = "PENDING"
        /\ offer' = [offer EXCEPT ![KeyOf(c)] = "NONE"]
  /\ IF Refundable(c, empty) THEN Goes(c, "RELEASING") ELSE Ends(c)
  /\ UNCHANGED <<uses, pool, month, delivered>>

\* release_commercial_use takes the newest unit of the user for the action, whichever
\* request it paid; release_failed_discovery the unit of its own run.
Faulty_AnyUser(c) == {i \in DOMAIN uses : uses[i].action = request[c].action /\ uses[i].billable}
Releasable(c) ==
  {i \in DOMAIN uses :
     /\ uses[i].user = request[c].user /\ uses[i].action = request[c].action /\ uses[i].billable
     /\ request[c].action = "discovery" => i = request[c].unit}
Newest(S) == {i \in S : \A j \in S : j <= i}
\* Best effort: a release that fails is forgotten.
Release(c) ==
  /\ request[c].step = "RELEASING"
  /\ \/ uses' = uses
     \/ \E i \in Newest(Releasable(c)) : uses' = [uses EXCEPT ![i].billable = FALSE]
  /\ Ends(c)
  /\ UNCHANGED <<pool, month, offer, delivered>>

\* complete_offer_analysis, best effort, on a PENDING row only.
Complete(c) ==
  /\ request[c].step = "ANSWERED"
  /\ \/ offer' = offer
     \/ /\ request[c].action = "ai_offer" /\ offer[KeyOf(c)] = "PENDING"
        /\ offer' = [offer EXCEPT ![KeyOf(c)] = "DONE"]
  /\ Ends(c)
  /\ UNCHANGED <<uses, pool, month, delivered>>

\* The process dies with whatever it had under way; a transaction is rolled back.
Dies(c) ==
  /\ request[c] # NoRequest
  /\ Ends(c)
  /\ UNCHANGED <<uses, pool, month, offer, delivered>>

-----------------------------------------------------------------------------
(* Time and membership.                                                    *)

Working(k) == \E c \in Requests : /\ request[c] # NoRequest /\ ~InTransaction(c)
                               /\ request[c].action = "ai_offer" /\ KeyOf(c) = k

\* Two minutes for a PENDING row, twice what a request lives; a day for a DONE one.
Lapse(k) ==
  /\ \/ offer[k] = "PENDING" /\ ~Working(k)
     \/ offer[k] = "DONE"
  /\ offer' = [offer EXCEPT ![k] = "NONE"]
  /\ UNCHANGED <<uses, pool, month, request, delivered>>

NewMonth ==
  /\ month < LastMonth
  /\ month' = month + 1
  /\ UNCHANGED <<uses, pool, offer, request, delivered>>

MovesTeam(u) ==
  /\ pool' = [pool EXCEPT ![u] = IF @ = NULL THEN PoolOf[u] ELSE NULL]
  /\ UNCHANGED <<uses, month, offer, request, delivered>>

Step(c) ==
  \/ CheckPlan(c) \/ Refused(c) \/ Commit(c)
  \/ CallProvider(c) \/ PrepareFails(c) \/ Answers(c)
  \/ \E b \in BOOLEAN : Fails(c, b) \/ CleanUp(c, b)
  \/ Release(c) \/ Complete(c) \/ Dies(c)

UsageNext ==
  \/ \E c \in Requests, u \in Accounts, o \in Workplaces :
       \/ \E t \in Texts : BeginOffer(c, u, o, t) \/ ReadBack(c, u, o, t)
       \/ BeginAnalysis(c, u, o)
       \/ BeginDiscovery(c, u, o)
  \/ \E c \in Requests : Step(c)
  \/ \E k \in Keys : Lapse(k)
  \/ NewMonth
  \/ \E u \in Movers : MovesTeam(u)

UsageSpec == UsageInit /\ [][UsageNext]_usageVars

-----------------------------------------------------------------------------
(* Properties.                                                             *)

\* Type invariant: rows and requests are well formed, nothing is dated after the period.
UsageTypeOK ==
  /\ uses \in Seq(Use) /\ \A i \in DOMAIN uses : uses[i].month <= month
  /\ pool \in [Accounts -> Workplaces \cup {NULL}]
  /\ month \in Nat
  /\ offer \in [Keys -> {"NONE", "PENDING", "DONE"}]
  /\ request \in [Requests -> Request \cup {NoRequest}] /\ \A c \in Requests : request[c] # NoRequest => request[c].month <= month
  /\ delivered \in [Accounts -> [QuotaActions -> Nat]]

\* Concurrent requests of the members of a team, and those of a user on its own, never take
\* together more units of an action than the plan that pays for them has in a period: the
\* count of enforce_plan_limit and the insert are one step for that pool. (A team counts what
\* is done in its own organization; PoolPaysForAll below is about the rest.)
PaidUnder(p, a) ==
  {i \in DOMAIN uses : /\ uses[i].action = a /\ uses[i].billable /\ uses[i].month = month
                       /\ SamePool(uses[i].payer, p)
                       /\ p.team # NULL => uses[i].org = p.team}
PoolKept == \A p \in PoolPayers, a \in QuotaActions : Cardinality(PaidUnder(p, a)) <= PlanLimit

\* A release takes the newest unit of the user, which may be the one of another request:
\* even so every result handed out keeps a billable unit (commercial-usage.ts: work that
\* did produce a result is never refunded).
BilledUses(u, a) == {i \in DOMAIN uses : uses[i].user = u /\ uses[i].action = a /\ uses[i].billable}
DeliveredIsBilled ==
  \A u \in Accounts, a \in QuotaActions : delivered[u][a] <= Cardinality(BilledUses(u, a))

\* A double click, or a retry after a lost answer, never pays the AI model twice at the same
\* time for one text of one project (offer_analysis_in_progress).
OneCallPerText ==
  \A c, d \in Requests :
    /\ Ready(c, "WORKING", "ai_offer") /\ Ready(d, "WORKING", "ai_offer")
    /\ KeyOf(c) = KeyOf(d)
    => c = d

\* What the code says of a team's plan: whatever a member does is counted on the team's pool
\* (022_team_pro.sql: "team member -> the team owner, pooled on that organization").
PoolPaysForAll ==
  \A t \in Workplaces, a \in QuotaActions :
    Cardinality({i \in DOMAIN uses : /\ uses[i].action = a /\ uses[i].billable
                                     /\ uses[i].month = month /\ uses[i].payer.team = t}) <= PlanLimit
=============================================================================
