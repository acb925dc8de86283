---------------------------- MODULE OfficeProofs ----------------------------
(***************************************************************************)
(* The parts that MCOffice puts side by side, for any constants: the queue *)
(* of outreach and the recommendations go through behaviours of their own  *)
(* specifications, and a prospect of which anything may be known stays as  *)
(* it was given.                                                           *)
(***************************************************************************)
EXTENDS MCOffice, SelfOutreachProofs, AdviceProofs

officeVars == <<part, vars, nbaVars>>

LEMMA QueueAlone == OfficeSpec => Spec
<1>1. OfficeInit => Init
  BY DEF OfficeInit
<1>2. [OfficeNext]_officeVars => [Next]_vars
  BY DEF OfficeNext, officeVars
<1>. QED
  BY <1>1, <1>2, PTL DEF OfficeSpec, Spec, officeVars

\* Where recommendations are made they are as NextAction has them; where anything may be known,
\* nothing is recommended.
OfficeInv ==
  /\ KnownInv
  /\ part # "advice" => AdviceInv
  /\ part = "advice" => NextActionTypeOK /\ nbaActions = <<>>

LEMMA FactsAre == SomeFacts \subseteq Fact
<1>1. ASSUME NEW c \in {"fit", "need", "size"}, NEW v \in BOOLEAN,
             NEW t \in {"VERIFIED", "WEBSITE", "DIRECTORY", "DECLARED"}
      PROVE  Says(c, v, t) \in Fact
  <2>1. c \in Criteria
    BY InstanceAssumption
  <2>2. t \in DOMAIN Confidence
    BY DEF Confidence
  <2>. QED
    BY <2>1, <2>2 DEF Says, Fact
<1>. QED
  BY <1>1 DEF SomeFacts

LEMMA AnythingIs == AdviceInit => NextActionTypeOK /\ nbaActions = <<>>
<1>. SUFFICES ASSUME AdviceInit
              PROVE  NextActionTypeOK /\ nbaActions = <<>>
  OBVIOUS
<1>1. PICK e \in SUBSET SomeFacts, s \in AnyAd, o \in AnyOpening, p \in AnyPost :
        known = [closed |-> FALSE, evidence |-> e, sightings |-> s \cup o, posts |-> p]
  BY DEF AdviceInit
<1>2. known.closed \in BOOLEAN /\ known.evidence \subseteq Fact
  BY <1>1, FactsAre
<1>3. \A x \in s : x.status \in Reviews /\ x.kind \in DOMAIN Registry /\ x.day \in Nat
  BY InstanceAssumption DEF AnyAd, Ad, Reviews
<1>4. \A x \in o : x.status \in Reviews /\ x.kind \in DOMAIN Registry /\ x.day \in Nat
  BY InstanceAssumption DEF AnyOpening, Elsewhere, Reviews
<1>5. \A x \in known.sightings : x.status \in Reviews /\ x.kind \in DOMAIN Registry /\ x.day \in Nat
  BY <1>1, <1>3, <1>4
<1>6. \A x \in known.posts : x.status \in Reviews /\ x.day \in Nat
  BY <1>1 DEF AnyPost, Reviews
<1>7. nbaActions = <<>> /\ nbaDay \in Nat /\ recompute = [x \in Recomputes |-> NotComputing]
  BY DEF AdviceInit
<1>8. DOMAIN nbaActions = {}
  BY <1>7
<1>9. \A x \in Recomputes :
        /\ recompute[x].step \in {"IDLE", "LOADED", "READY"}
        /\ recompute[x].step # "IDLE" => recompute[x].advice \in Opportunity
  BY <1>7 DEF NotComputing
<1>10. \A i \in DOMAIN nbaActions :
         /\ nbaActions[i].advice \in Opportunity
         /\ nbaActions[i].state \in NbaStates
         /\ nbaActions[i].state = "SNOOZED" <=> nbaActions[i].wakes # NULL
  BY <1>8, Zenon
<1>. QED
  BY <1>2, <1>5, <1>6, <1>7, <1>9, <1>10, Zenon DEF NextActionTypeOK

LEMMA OfficeStarts == OfficeInit => OfficeInv
<1>1. NextActionInit => AdviceInv /\ KnownInv
  BY AdviceStarts DEF AdviceInv, KnownTyped, KnownInv
<1>2. AdviceInit => KnownInv
  BY FactsAre DEF AdviceInit, KnownInv
<1>. QED
  BY <1>1, <1>2, AnythingIs DEF OfficeInit, OfficeInv

LEMMA OfficeStays == OfficeInv /\ [OfficeNext]_officeVars => OfficeInv'
<1>. SUFFICES ASSUME OfficeInv, [OfficeNext]_officeVars
              PROVE  OfficeInv'
  OBVIOUS
<1>1. part' = part
  BY DEF OfficeNext, officeVars
<1>2. CASE part # "advice"
  <2>1. [NextActionNext]_nbaVars
    BY <1>2 DEF OfficeNext, officeVars
  <2>. QED
    BY <1>1, <1>2, <2>1, AdviceInvStays, KnownStays DEF OfficeInv
<1>3. CASE part = "advice"
  <2>1. NextActionTypeOK /\ nbaActions = <<>>
    BY <1>3 DEF OfficeInv
  <2>2. nbaActions' = nbaActions /\ UNCHANGED <<known, recompute, nbaDay>>
    <3>1. CASE OpenPage
      <4>1. nbaActions' = [i \in {} |-> Refreshed(nbaActions[i])]
        BY <2>1, <3>1 DEF OpenPage, RefreshStates
      <4>2. nbaActions' = <<>>
        BY <4>1
      <4>. QED
        BY <2>1, <3>1, <4>2 DEF OpenPage
    <3>2. CASE UNCHANGED nbaVars
      BY <3>2 DEF nbaVars
    <3>. QED
      BY <1>3, <3>1, <3>2 DEF OfficeNext, officeVars
  <2>3. NextActionTypeOK'
    BY <2>1, <2>2 DEF NextActionTypeOK
  <2>. QED
    BY <1>1, <1>3, <2>1, <2>2, <2>3 DEF OfficeInv, KnownInv
<1>. QED
  BY <1>2, <1>3

\* Type correctness of the queue of outreach and of the recommendations of a prospect, whatever is
\* decided, reviewed, computed and sent.
THEOREM EveryOfficeIsTyped == OfficeSpec => []OfficeTypes
<1>1. OfficeSpec => []OfficeInv
  BY OfficeStarts, OfficeStays, PTL DEF OfficeSpec, officeVars
<1>2. OfficeInv => NextActionTypeOK
  BY AdviceInvTypes DEF OfficeInv
<1>3. TypeOK /\ NextActionTypeOK => OfficeTypes
  BY DEF OfficeTypes
<1>. QED
  BY <1>1, <1>2, <1>3, QueueAlone, TypeCorrect, PTL

\* The two that hold of any evidence hold of the prospect of which anything may be known.
THEOREM OfficeAdvisesFairly == OfficeSpec => [](FitNeverLowers /\ DeclarationsNeverContact)
<1>1. OfficeSpec => []OfficeInv
  BY OfficeStarts, OfficeStays, PTL DEF OfficeSpec, officeVars
<1>2. OfficeInv => FitNeverLowers /\ DeclarationsNeverContact
  BY MetNeverLowers, DeclaredNeverContacts DEF OfficeInv
<1>. QED
  BY <1>1, <1>2, PTL
=============================================================================
