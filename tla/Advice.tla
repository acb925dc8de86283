------------------------------- MODULE Advice -------------------------------
(***************************************************************************)
(* The engine of the next best action of ProspectOS: from what is known of *)
(* one prospect, one action, its reason and the day it stops being worth   *)
(* doing (src/nba/engine.ts, registry.ts, domain/fit-estimate.ts,          *)
(* domain/core.ts, geo/model.ts). Pure operators, without a state.         *)
(*                                                                         *)
(* Weights and the estimated fit are numbers of a unit, a fraction of a    *)
(* point that divides every weight; their sums and products are exact.     *)
(* Confidences are in hundredths, freshness and timing in thousandths,     *)
(* days are whole. The words of a signal, which give its kind, the texts   *)
(* of an explanation and the scores that only rank are left out; evidence  *)
(* is within its ninety days.                                              *)
(***************************************************************************)
EXTENDS Commons, Integers, Sequences, FiniteSets
LOCAL INSTANCE FiniteSetsExt

CONSTANTS
  Criteria,  \* criteria of the project's ICP
  Unit,      \* units in a point
  Weight,    \* Weight[c], in units
  Scope,     \* places of its target_fit criterion
  Registry,  \* Registry[kind]: [weight, half, max, explicit, contact]
  Fading     \* Fading[half][age]: thousandths of 0.5 ^ (age / half)

Hundredths == 0..100
Thousandths == 0..1000

ASSUME AdviceAssumption ==
  IsFiniteSet(Criteria) /\ Unit \in Nat \ {0} /\ Weight \in [Criteria -> Nat \ {0}]
ASSUME RegistryAssumption ==
  \A k \in DOMAIN Registry : Registry[k].weight \in Hundredths /\ Registry[k].half \in Nat /\ Registry[k].max \in Nat
\* To a hundred points, give or take a thousandth of one.
ASSUME WeightsAddUp ==
  LET total == MapThenSumSet(LAMBDA c : Weight[c], Criteria)
  IN 1000 * (total - 100 * Unit) \in (0 - Unit)..Unit

Share(n, d) == (2 * n + d) \div (2 * d)   \* Math.round(n / d)

(***************************************************************************)
(* FIT. Evidence is a set of rows: a criterion, a value and what the value *)
(* rests on. A person's verdict decides a criterion; failing one, what was *)
(* found and not verified, or declared, counts by its best source, unless  *)
(* it contradicts itself.                                                  *)
(***************************************************************************)
Confidence == [VERIFIED |-> 100, WEBSITE |-> 90, DIRECTORY |-> 80, DECLARED |-> 70,
               TYPED |-> 70, SEARCH |-> 60, INFERRED |-> 30]
Fact == [criterion : Criteria, value : BOOLEAN, trust : DOMAIN Confidence]

Proved(c, evidence) == {r.value : r \in {e \in evidence : e.criterion = c /\ e.trust = "VERIFIED"}}
Loose(c, evidence) == {e \in evidence : e.criterion = c /\ e.trust # "VERIFIED"}
Estimated(c, evidence) ==
  Proved(c, evidence) = {} /\ {r.value : r \in Loose(c, evidence)} = {TRUE}

\* The rows that give points: those a person verified, where they agree, and those of an estimate.
Verified(evidence) == {r \in evidence : r.trust = "VERIFIED" /\ Proved(r.criterion, evidence) = {TRUE}}
Counting(evidence) ==
  Verified(evidence) \cup {r \in evidence : r.trust # "VERIFIED" /\ Estimated(r.criterion, evidence)}

\* A verified row is worth its criterion's weight as it is, an estimate that weight times its
\* confidence, rounded to points. A unit is an element, so that the best row of a criterion holds
\* the units of the others and a score is a number of units.
Estimate(c, trust) == Unit * Share(Weight[c] * Confidence[trust], 100 * Unit)
Worth(r) == IF r.trust = "VERIFIED" THEN Weight[r.criterion] ELSE Estimate(r.criterion, r.trust)
Units(rows) == UNION {{r.criterion} \X (1..Worth(r)) : r \in rows}

\* The verified score is rounded to points, the level is not.
VerifiedScore(evidence) == Share(Cardinality(Units(Verified(evidence))), Unit)
Level(evidence) ==
  LET score == Cardinality(Units(Counting(evidence))) IN IF score > 100 * Unit THEN 100 * Unit ELSE score
FitState(level, evidence) ==
  IF level >= 50 * Unit THEN "SUFFICIENT"
  ELSE IF \E c \in Criteria : Proved(c, evidence) = {FALSE} THEN "KNOWN_LOW"
  ELSE IF \E c \in Criteria : Proved(c, evidence) = {TRUE} \/ Estimated(c, evidence) THEN "INCOMPLETE"
  ELSE "UNKNOWN"

\* What the user declared, as far as the estimate reads it.
Declared(evidence) ==
  {<<e.criterion, e.value>> : e \in {r \in evidence : r.trust = "DECLARED" /\ Proved(r.criterion, evidence) = {}}}

(***************************************************************************)
(* Places: country, region, department, town, and a postal code, which a   *)
(* scope may give at any precision. A level the scope needs and the place  *)
(* lacks says nothing.                                                     *)
(***************************************************************************)
Containment(zone, place) ==
  LET named == {l \in 1..4 : \A k \in 1..l : zone[k] # NULL} \cup {l \in {5} : zone[l] # NULL}
      off   == {l \in named : place[l] # zone[l]}
  IN IF off = {} THEN "in" ELSE IF place[Min(off)] = NULL THEN "unknown" ELSE "out"

Relevance(places) ==
  LET against(p) == {Containment(z, p) : z \in Scope}
      each == {IF "in" \in against(p) THEN "in" ELSE IF against(p) = {"out"} THEN "out" ELSE "unknown"
               : p \in places}
  IN IF Scope = {} \/ places = {} THEN "UNKNOWN"
     ELSE IF each = {"in"} THEN "MATCH" ELSE IF each = {"out"} THEN "MISMATCH" ELSE "UNKNOWN"

(***************************************************************************)
(* Reasons to act now: signals, then public conversations.                 *)
(***************************************************************************)
Freshness(age, half, max) == IF age \in 0..max THEN Fading[half][age] ELSE 0

\* A signal as the rules read it; one that was rejected is never a reason.
Classified(s, today) ==
  LET entry == Registry[s.kind]
      fresh == Freshness(today - s.day, entry.half, entry.max)
      relevance == Relevance(s.places)
  IN [id |-> s.id, kind |-> s.kind, verified |-> s.status = "VERIFIED", age |-> today - s.day,
      freshness |-> fresh, relevance |-> relevance, explicit |-> entry.explicit,
      contact |-> entry.contact, max |-> entry.max,
      timing |-> IF relevance = "MISMATCH" THEN 0
                 ELSE Share(entry.weight * fresh * (IF s.status = "VERIFIED" THEN 2 ELSE 1), 200)]
ReasonsOf(sightings, today) == {Classified(s, today) : s \in {x \in sightings : x.status # "REJECTED"}}

ConversationHalf == 3
ConversationMax  == 14
\* Verified contents, dated by their author, about a topic of the registry or of the project.
Conversations(posts, today) ==
  {c \in {[id |-> p.id, kind |-> "conversation", age |-> today - p.day, max |-> ConversationMax,
           freshness |-> Freshness(today - p.day, ConversationHalf, ConversationMax),
           timing |-> Share(70 * Freshness(today - p.day, ConversationHalf, ConversationMax), 100)] : p \in posts}
   : c.freshness > 0}

Precedes(a, b) == a.timing > b.timing \/ (a.timing = b.timing /\ a.id < b.id)
Best(reasons) == IF reasons = {} THEN NULL ELSE CHOOSE r \in reasons : \A q \in reasons \ {r} : Precedes(r, q)

\* One signal of each kind, the best, and the conversation; the second counts for half, the third for a quarter.
Drivers(signals, conversation) ==
  {s \in signals : s.timing > 0 /\ ~\E q \in signals : q.kind = s.kind /\ Precedes(q, s)}
  \cup {c \in {conversation} : c # NULL /\ c.timing > 0}
Timing(signals, conversation) ==
  LET drivers == Drivers(signals, conversation)
      rank(d) == Cardinality({q \in drivers : Precedes(q, d)})
      line(d) == IF rank(d) > 2 THEN 0 ELSE Share(d.timing, 2 ^ rank(d))
  IN Min({100, Share(MapThenSumSet(line, drivers), 10)})

FreshSignal(signals) == Best({s \in signals : s.freshness >= 500 /\ s.relevance # "MISMATCH"})
ContactEligible(s) == Scope = {} \/ s.relevance = "MATCH"
ContactTiming(signals, conversation) == Timing({s \in signals : ContactEligible(s)}, conversation)
BestContact(signals, verified) ==
  Best({s \in signals : s.contact /\ s.verified = verified /\ s.timing > 0 /\ (verified => ContactEligible(s))})

(***************************************************************************)
(* The decision: ordered rules, the first that applies.                    *)
(***************************************************************************)
\* What the rules read of a prospect: how far it fits, and why to act now.
FitOf(evidence) ==
  LET level == Level(evidence)
  IN [level |-> level, verified |-> VerifiedScore(evidence), state |-> FitState(level, evidence),
      declared |-> Declared(evidence)]
WhyNow(sightings, posts, today) ==
  LET signals == ReasonsOf(sightings, today)
      conversation == Best(Conversations(posts, today))
  IN [signals |-> signals, conversation |-> conversation, primary |-> Best(Drivers(signals, conversation)),
      timing |-> Timing(signals, conversation), contactTiming |-> ContactTiming(signals, conversation),
      contact |-> BestContact(signals, TRUE), unverified |-> BestContact(signals, FALSE),
      fresh |-> FreshSignal(signals)]
Reading(closed, evidence, why) == [closed |-> closed, fit |-> FitOf(evidence), why |-> why]

FitAtLeast(r, min) == r.fit.level >= min * Unit
Faulty_EstimateCounts(r, min) == r.fit.level >= min * Unit
VerifiedFitAtLeast(r, min) == r.fit.verified >= min

ContactFresh(r, min) == r.why.contact # NULL /\ r.why.contact.freshness >= min
ExplicitRecentNeed(r) == ContactFresh(r, 700) /\ r.why.contact.explicit /\ VerifiedFitAtLeast(r, 60)
RelevantConversation(r) == r.why.conversation # NULL /\ r.why.conversation.age <= 7 /\ FitAtLeast(r, 50)
ContactSignal(r) == ContactFresh(r, 500) /\ VerifiedFitAtLeast(r, 60) /\ r.why.contactTiming >= 50
SignalToVerify(r) == r.why.unverified # NULL /\ r.why.unverified.freshness >= 500 /\ FitAtLeast(r, 50)
Faulty_NoFreshFit(r, state) == r.fit.state = state /\ state # "SUFFICIENT" /\ r.why.fresh # NULL
Awaits(r, state) == r.fit.state = state /\ r.why.fresh # NULL

Rules(r) == <<
  [id |-> "CLOSED_PROSPECT",             action |-> "DISMISS", holds |-> r.closed],
  [id |-> "OFF_TARGET",                  action |-> "DISMISS", holds |-> r.fit.state = "KNOWN_LOW" /\ ~FitAtLeast(r, 30)],
  [id |-> "EXPLICIT_RECENT_NEED",        action |-> "CONTACT", holds |-> ExplicitRecentNeed(r)],
  [id |-> "RELEVANT_CONVERSATION",       action |-> "ENGAGE",  holds |-> RelevantConversation(r)],
  [id |-> "CONTACT_SIGNAL",              action |-> "CONTACT", holds |-> ContactSignal(r)],
  [id |-> "SIGNAL_TO_VERIFY",            action |-> "WATCH",   holds |-> SignalToVerify(r)],
  [id |-> "SOME_TIMING",                 action |-> "WATCH",   holds |-> r.why.timing >= 15 /\ FitAtLeast(r, 50)],
  [id |-> "FIT_FRESH_SIGNAL",            action |-> "WATCH",   holds |-> Awaits(r, "SUFFICIENT")],
  [id |-> "FIT_WITHOUT_TIMING",          action |-> "WAIT",    holds |-> FitAtLeast(r, 50)],
  [id |-> "UNKNOWN_FIT_FRESH_SIGNAL",    action |-> "WATCH",   holds |-> Awaits(r, "UNKNOWN")],
  [id |-> "INCOMPLETE_FIT_FRESH_SIGNAL", action |-> "WATCH",   holds |-> Awaits(r, "INCOMPLETE")],
  [id |-> "FIT_UNKNOWN_NO_TIMING",       action |-> "DISMISS", holds |-> r.fit.state = "UNKNOWN"],
  [id |-> "FIT_INCOMPLETE_NO_TIMING",    action |-> "DISMISS", holds |-> r.fit.state = "INCOMPLETE"],
  [id |-> "LOW_FIT_NO_TIMING",           action |-> "DISMISS", holds |-> r.fit.state = "KNOWN_LOW"]>>
FirstRule(rules) == CHOOSE i \in DOMAIN rules : rules[i].holds /\ \A j \in 1..(i - 1) : ~rules[j].holds
Decide(r) == LET rules == Rules(r) IN rules[FirstRule(rules)]

ActionPriority == [CONTACT |-> 0, ENGAGE |-> 1, WATCH |-> 2, WAIT |-> 3, DISMISS |-> 4]

(***************************************************************************)
(* The recommendation: what drives it, until when, and what makes it the   *)
(* same one as another.                                                    *)
(***************************************************************************)
DefaultHorizon == 30
Driver(why, rule) ==
  LET else(s) == IF s # NULL THEN s ELSE why.primary
  IN IF rule.action = "ENGAGE" THEN why.conversation
     ELSE IF rule.action = "CONTACT" THEN else(why.contact)
     ELSE IF rule.id = "SIGNAL_TO_VERIFY" THEN else(why.unverified)
     ELSE IF rule.id = "UNKNOWN_FIT_FRESH_SIGNAL" THEN else(why.fresh)
     ELSE why.primary

\* Days left: of the driver's life, or of the seven of a conversation to join.
Lasts(driver, action) ==
  IF driver = NULL THEN DefaultHorizon
  ELSE LET left == (IF action = "ENGAGE" THEN 7 ELSE driver.max) - driver.age
       IN  IF left > 0 THEN left ELSE 0

BuildOpportunity(r, today) ==
  LET rule == Decide(r)  driver == Driver(r.why, rule)
  IN [action |-> rule.action, rule |-> rule.id, computed |-> today,
      expires |-> today + Lasts(driver, rule.action),
      refs |-> {x.id : x \in {s \in r.why.signals : s.timing > 0 \/ s = driver} \cup ({r.why.conversation} \ {NULL})},
      fingerprint |-> <<rule.action, IF driver = NULL THEN 0 ELSE driver.id, r.fit.declared>>]
=============================================================================
