----------------------------- MODULE NextAction -----------------------------
(***************************************************************************)
(* The recommendations of one prospect of ProspectOS: computed, replaced,  *)
(* decided upon, snoozed and expired (src/nba/api.ts, engine.ts,           *)
(* ux/zero-friction.ts, db/migrations/031_next_best_action.sql).           *)
(*                                                                         *)
(* A recomputation is a request of several transactions: the refresh of    *)
(* the states, the reading of the project, for an automatic one the        *)
(* reading of the history, and the saving, each of which may find what     *)
(* people and other requests changed since. It may die between two.        *)
(***************************************************************************)
EXTENDS Advice

CONSTANTS
  Starts,      \* the rows of evidence a prospect may have at first (a bound)
  Findings,    \* rows of evidence people write (a bound)
  News,        \* signals to be found: [id, kind, places] (a bound)
  Posts,       \* public contents to be stored, by id (a bound)
  Recomputes,  \* requests under way at a time (a bound)
  NbaDays,        \* the days looked at; a jump stands for the days between (a bound)
  MaxFacts,    \* what is known at a time (a bound)
  MaxActions   \* recommendations (a bound)

ASSUME NextActionAssumption == Starts \subseteq SUBSET Fact /\ Findings \subseteq Fact /\ NbaDays \subseteq Nat
\* Identifiers are the table's; what the days looked at make fresh is a share.
Ages == {d - e : d, e \in NbaDays \cup {0}}
Fades(half, max) == \A age \in Ages : Freshness(age, half, max) \in Thousandths
ASSUME NewsAssumption ==
  /\ NULL \notin NbaDays /\ Posts \subseteq Nat
  /\ \A n \in News : n.id \in Nat \ Posts /\ n.kind \in DOMAIN Registry
  /\ \A k \in DOMAIN Registry : Fades(Registry[k].half, Registry[k].max)
  /\ Fades(ConversationHalf, ConversationMax)

VARIABLES
  known,      \* what the engine reads of the prospect
  nbaActions, \* nba_actions, in the order of created_at
  recompute,  \* requests
  nbaDay

nbaVars == <<known, nbaActions, recompute, nbaDay>>

Reviews == {"PENDING_REVIEW", "VERIFIED", "REJECTED"}
OpenStates == {"PENDING", "SNOOZED", "APPROVED"}
NbaStates == OpenStates \cup {"DONE", "REJECTED", "EXPIRED"}

RuleId ==
  {"CLOSED_PROSPECT", "OFF_TARGET", "EXPLICIT_RECENT_NEED", "RELEVANT_CONVERSATION", "CONTACT_SIGNAL", "SIGNAL_TO_VERIFY",
   "SOME_TIMING", "FIT_FRESH_SIGNAL", "FIT_WITHOUT_TIMING", "UNKNOWN_FIT_FRESH_SIGNAL", "INCOMPLETE_FIT_FRESH_SIGNAL",
   "FIT_UNKNOWN_NO_TIMING", "FIT_INCOMPLETE_NO_TIMING", "LOW_FIT_NO_TIMING"}
Opportunity == [action : DOMAIN ActionPriority, rule : RuleId, computed : Nat, expires : Nat,
                refs : SUBSET Nat, fingerprint : (DOMAIN ActionPriority) \X Nat \X SUBSET (Criteria \X BOOLEAN)]

NextActionTypeOK ==
  /\ known.closed \in BOOLEAN /\ known.evidence \subseteq Fact
  /\ \A s \in known.sightings : s.status \in Reviews /\ s.kind \in DOMAIN Registry /\ s.day \in Nat
  /\ \A p \in known.posts : p.status \in Reviews /\ p.day \in Nat
  /\ \A i \in DOMAIN nbaActions :
       /\ nbaActions[i].advice \in Opportunity
       /\ nbaActions[i].state \in NbaStates
       /\ nbaActions[i].state = "SNOOZED" <=> nbaActions[i].wakes # NULL
  /\ \A x \in Recomputes :
       /\ recompute[x].step \in {"IDLE", "LOADED", "READY"}
       /\ recompute[x].step # "IDLE" => recompute[x].advice \in Opportunity
  /\ nbaDay \in Nat

NotComputing == [step |-> "IDLE", advice |-> NULL]

NextActionInit ==
  /\ \E e \in Starts : known = [closed |-> FALSE, evidence |-> e, sightings |-> {}, posts |-> {}]
  /\ nbaActions = <<>>
  /\ recompute = [x \in Recomputes |-> NotComputing]
  /\ nbaDay = 0

(***************************************************************************)
(* What changes around the engine.                                         *)
(***************************************************************************)
TimePasses ==
  /\ nbaDay' \in {d \in NbaDays : d > nbaDay /\ ~\E e \in NbaDays : nbaDay < e /\ e < d}
  /\ UNCHANGED <<known, nbaActions, recompute>>

FindSignal(n, day) ==
  /\ ~\E s \in known.sightings : s.id = n.id
  /\ known' = [known EXCEPT !.sightings =
                 @ \cup {[id |-> n.id, kind |-> n.kind, places |-> n.places, day |-> day, status |-> "PENDING_REVIEW"]}]
StorePost(p, day) ==
  /\ ~\E q \in known.posts : q.id = p
  /\ known' = [known EXCEPT !.posts = @ \cup {[id |-> p, day |-> day, status |-> "PENDING_REVIEW"]}]
ReviewSignal(s, verdict) ==
  known' = [known EXCEPT !.sightings = (@ \ {s}) \cup {[s EXCEPT !.status = verdict]}]
ReviewPost(p, verdict) ==
  known' = [known EXCEPT !.posts = (@ \ {p}) \cup {[p EXCEPT !.status = verdict]}]
Document(row) == known' = [known EXCEPT !.evidence = @ \cup {row}]
CloseProspect == known' = [known EXCEPT !.closed = TRUE]

Facts(k) == Cardinality(k.evidence) + Cardinality(k.sightings) + Cardinality(k.posts) + (IF k.closed THEN 1 ELSE 0)

Learn ==
  /\ \/ \E n \in News : FindSignal(n, nbaDay)
     \/ \E p \in Posts : StorePost(p, nbaDay)
     \/ \E s \in known.sightings, v \in Reviews : ReviewSignal(s, v)
     \/ \E p \in known.posts, v \in Reviews : ReviewPost(p, v)
     \/ \E row \in Findings : Document(row)
     \/ CloseProspect
  /\ Facts(known') <= MaxFacts
  /\ UNCHANGED <<nbaActions, recompute, nbaDay>>

(***************************************************************************)
(* States by themselves: an open recommendation whose reason stopped       *)
(* counting is EXPIRED, a snooze that ended is PENDING again.              *)
(***************************************************************************)
Refreshed(a) ==
  IF a.state \in OpenStates /\ a.advice.expires <= nbaDay
  THEN [a EXCEPT !.state = "EXPIRED", !.wakes = NULL]
  ELSE IF a.state = "SNOOZED" /\ a.wakes <= nbaDay
       THEN [a EXCEPT !.state = "PENDING", !.wakes = NULL]
       ELSE a
RefreshStates == nbaActions' = [i \in DOMAIN nbaActions |-> Refreshed(nbaActions[i])]

\* A page that lists recommendations.
OpenPage == RefreshStates /\ UNCHANGED <<known, recompute, nbaDay>>

(***************************************************************************)
(* Recomputing.                                                            *)
(***************************************************************************)
\* Opening the page recomputes after six hours, a change of the user's at once.
ShouldRecompute(reason) ==
  (reason = "open" /\ nbaActions # <<>>) => nbaActions[Len(nbaActions)].advice.computed < nbaDay

VerifiedPosts == {p \in known.posts : p.status = "VERIFIED"}
Why == WhyNow(known.sightings, VerifiedPosts, nbaDay)
Advise == BuildOpportunity(Reading(known.closed, known.evidence, Why), nbaDay)

\* The refresh, then the reading of the project: what changes between the two might as well have before.
ComputeProject(x) ==
  /\ recompute[x].step = "IDLE"
  /\ \E reason \in {"manual", "open", "data_changed"} :
       /\ ShouldRecompute(reason)
       /\ recompute' = [recompute EXCEPT
            ![x] = [step |-> IF reason = "manual" THEN "READY" ELSE "LOADED", advice |-> Advise]]
  /\ RefreshStates
  /\ UNCHANGED <<known, nbaDay>>

\* Identical to the latest one, which a person closed: not proposed again.
ClosedUnchanged(advice) ==
  /\ nbaActions # <<>>
  /\ nbaActions[Len(nbaActions)].state \in {"REJECTED", "DONE"}
  /\ nbaActions[Len(nbaActions)].advice.fingerprint = advice.fingerprint

ReadHistory(x) ==
  /\ recompute[x].step = "LOADED"
  /\ recompute' = [recompute EXCEPT
       ![x] = IF ClosedUnchanged(@.advice) THEN NotComputing ELSE [@ EXCEPT !.step = "READY"]]
  /\ UNCHANGED <<known, nbaActions, nbaDay>>

\* A proof must not be rejected, a content must be verified, the computation less than a day old
\* and, by a constraint of the table, the recommendation must end after it was computed.
Sound(advice) ==
  /\ \A s \in known.sightings : s.id \in advice.refs => s.status # "REJECTED"
  /\ \A p \in known.posts : p.id \in advice.refs => p.status = "VERIFIED"
  /\ advice.computed = nbaDay
Storable(advice) == advice.expires > advice.computed

OpenOnes == {i \in DOMAIN nbaActions : nbaActions[i].state \in OpenStates}
\* An open one is kept when it says the same or was approved, and otherwise replaced.
Faulty_ApprovedReplaced(advice) == {i \in OpenOnes : nbaActions[i].advice.fingerprint = advice.fingerprint}
Kept(advice) == {i \in OpenOnes : nbaActions[i].advice.fingerprint = advice.fingerprint
                                  \/ nbaActions[i].state = "APPROVED"}
Faulty_NotSuperseded == nbaActions
Superseded ==
  [i \in DOMAIN nbaActions |->
     IF i \in OpenOnes THEN [nbaActions[i] EXCEPT !.state = "EXPIRED", !.wakes = NULL] ELSE nbaActions[i]]

SaveAction(x) ==
  /\ recompute[x].step = "READY"
  /\ LET advice == recompute[x].advice
     IN IF ~Sound(advice) \/ Kept(advice) # {} \/ ~Storable(advice)
        THEN UNCHANGED nbaActions
        ELSE /\ Len(nbaActions) < MaxActions
             /\ nbaActions' = Append(Superseded,
                  [advice |-> advice, state |-> "PENDING", wakes |-> NULL])
  /\ recompute' = [recompute EXCEPT ![x] = NotComputing]
  /\ UNCHANGED <<known, nbaDay>>

RecomputeDies(x) ==
  /\ recompute[x].step # "IDLE"
  /\ recompute' = [recompute EXCEPT ![x] = NotComputing]
  /\ UNCHANGED <<known, nbaActions, nbaDay>>

(***************************************************************************)
(* What people decide.                                                     *)
(***************************************************************************)
Transitions ==
  [PENDING  |-> {"APPROVED", "DONE", "SNOOZED", "REJECTED", "EXPIRED"},
   APPROVED |-> {"DONE", "REJECTED", "EXPIRED"},
   SNOOZED  |-> {"PENDING", "REJECTED", "EXPIRED"},
   DONE     |-> {}, REJECTED |-> {}, EXPIRED |-> {}]

DecideAction(i, decision) ==
  /\ decision \in Transitions[nbaActions[i].state] \ {"EXPIRED"}
  /\ nbaActions[i].advice.expires > nbaDay \/ decision = "REJECTED"
  /\ \E until \in IF decision = "SNOOZED" THEN {d \in NbaDays : nbaDay < d /\ d <= nbaDay + 90} ELSE {NULL} :
       nbaActions' = [nbaActions EXCEPT ![i].state = decision, ![i].wakes = until]
  /\ UNCHANGED <<known, recompute, nbaDay>>

NextActionNext ==
  \/ TimePasses \/ Learn \/ OpenPage
  \/ \E x \in Recomputes :
       ComputeProject(x) \/ ReadHistory(x) \/ SaveAction(x) \/ RecomputeDies(x)
  \/ \E i \in DOMAIN nbaActions :
       \E d \in NbaStates : DecideAction(i, d)

NextActionSpec == NextActionInit /\ [][NextActionNext]_nbaVars

(***************************************************************************)
(* Properties.                                                             *)
(***************************************************************************)
\* A criterion that turns out to be met, and is verified, never makes the action less favourable
\* (tests/next-best-action-v13.test.ts: "monotonicity"), whatever the signals, the places and the
\* conversations: fourteen ordered rules read the fit, each at its own threshold. But for a criterion
\* whose estimate was rounded above its weight: to verify it takes points away, and may lower the
\* action. One of which nothing is known never is.
Overrated(c) ==
  /\ Estimated(c, known.evidence)
  /\ \E r \in Loose(c, known.evidence) : Worth(r) > Weight[c]
Proven(c) == (known.evidence \ {r \in Fact : r.criterion = c}) \cup {[criterion |-> c, value |-> TRUE, trust |-> "VERIFIED"]}
ActionWith(evidence, why) == Decide(Reading(known.closed, evidence, why)).action
FitNeverLowers ==
  LET why == Why
      now == ActionWith(known.evidence, why)
  IN \A c \in {k \in Criteria : Proved(k, known.evidence) # {TRUE} /\ ~Overrated(k)} :
       ActionPriority[ActionWith(Proven(c), why)] <= ActionPriority[now]

\* What the user declares without a source never makes an account one to contact, nor one that is
\* not: the estimate it feeds is read by the rules around those of CONTACT.
DeclarationsNeverContact ==
  (\E r \in known.evidence : r.trust = "DECLARED") =>
    LET why == Why
        sourced == {r \in known.evidence : r.trust # "DECLARED"}
    IN (ActionWith(known.evidence, why) = "CONTACT") = (ActionWith(sourced, why) = "CONTACT")

\* A prospect has one open recommendation, whatever is decided and recomputed meanwhile: the index
\* nba_actions_one_open would otherwise fail the whole save.
OneOpenAction == Cardinality(OpenOnes) <= 1

\* What a person decided stands: a state moves as the table of the engine says, a recomputation
\* replaces nothing that was approved before its time, and what was computed never changes.
DecisionsStand ==
  [][\A i \in DOMAIN nbaActions :
       LET old == nbaActions[i]  new == nbaActions'[i]
       IN /\ new.advice = old.advice
          /\ new.state # old.state => new.state \in Transitions[old.state]
          /\ old.state = "APPROVED" /\ new.state = "EXPIRED" => old.advice.expires <= nbaDay]_nbaVars

\* Every recommendation that was computed can be stored (031_next_best_action.sql:71,
\* "check(expires_at>computed_at)"): one that cannot fails the recomputation of its project.
EveryAdviceIsStorable == \A x \in Recomputes : recompute[x].step = "READY" => Storable(recompute[x].advice)
=============================================================================
