---------------------------- MODULE AdviceProofs ----------------------------
(***************************************************************************)
(* Proofs about the recommendations that people decide upon (NextAction)   *)
(* and the rules that make them (Advice).                                  *)
(***************************************************************************)
EXTENDS NextAction, FiniteSetTheorems, SequenceTheorems, WellFoundedInduction, TLAPS

(* The recommendations of a prospect (NextAction).                         *)

Recommendation(A) == [advice : A, state : NbaStates, wakes : NbaDays \cup {NULL}]
NbaRows == \E A : nbaActions \in Seq(Recommendation(A))

OneOpen(S) == \A i, j \in S : i = j
NextActionInv == NbaRows /\ OneOpen(OpenOnes)

\* What became of a recommendation is what the table of the engine allows.
StandsBy(old, new) ==
  /\ new.advice = old.advice
  /\ new.state # old.state => new.state \in Transitions[old.state]
  /\ old.state = "APPROVED" /\ new.state = "EXPIRED" => old.advice.expires <= nbaDay

LEMMA TransitionsAre ==
  /\ Transitions["PENDING"] = {"APPROVED", "DONE", "SNOOZED", "REJECTED", "EXPIRED"}
  /\ Transitions["APPROVED"] = {"DONE", "REJECTED", "EXPIRED"}
  /\ Transitions["SNOOZED"] = {"PENDING", "REJECTED", "EXPIRED"}
  /\ Transitions["DONE"] = {} /\ Transitions["REJECTED"] = {} /\ Transitions["EXPIRED"] = {}
BY DEF Transitions

LEMMA RefreshedIs ==
  ASSUME NEW A, NEW a \in Recommendation(A)
  PROVE  /\ Refreshed(a) \in Recommendation(A) /\ StandsBy(a, Refreshed(a))
         /\ Refreshed(a).state \in OpenStates => a.state \in OpenStates
<1>. DEFINE expired == [a EXCEPT !.state = "EXPIRED", !.wakes = NULL]
            pending == [a EXCEPT !.state = "PENDING", !.wakes = NULL]
<1>1. /\ expired \in Recommendation(A) /\ expired.advice = a.advice /\ expired.state = "EXPIRED"
      /\ pending \in Recommendation(A) /\ pending.advice = a.advice /\ pending.state = "PENDING"
  BY DEF Recommendation, NbaStates, OpenStates
<1>2. Refreshed(a) = IF a.state \in OpenStates /\ a.advice.expires <= nbaDay THEN expired
                     ELSE IF a.state = "SNOOZED" /\ a.wakes <= nbaDay THEN pending ELSE a
  BY DEF Refreshed
<1>. HIDE DEF expired, pending
<1>3. CASE a.state \in OpenStates /\ a.advice.expires <= nbaDay
  BY <1>1, <1>2, <1>3, TransitionsAre DEF StandsBy, OpenStates
<1>4. CASE ~(a.state \in OpenStates /\ a.advice.expires <= nbaDay) /\ a.state = "SNOOZED" /\ a.wakes <= nbaDay
  BY <1>1, <1>2, <1>4, TransitionsAre DEF StandsBy, OpenStates
<1>5. CASE ~(a.state \in OpenStates /\ a.advice.expires <= nbaDay) /\ ~(a.state = "SNOOZED" /\ a.wakes <= nbaDay)
  <2>1. Refreshed(a) = a
    BY <1>2, <1>5
  <2>2. StandsBy(a, a)
    BY <1>5 DEF StandsBy, OpenStates
  <2>. QED
    BY <2>1, <2>2
<1>. QED
  BY <1>3, <1>4, <1>5

\* Each row stays in its place and none becomes open.
Follow(next) ==
  /\ Len(next) = Len(nbaActions)
  /\ \A i \in 1..Len(nbaActions) :
       /\ StandsBy(nbaActions[i], next[i])
       /\ next[i].state \in OpenStates => nbaActions[i].state \in OpenStates
Stood == \A i \in DOMAIN nbaActions : StandsBy(nbaActions[i], nbaActions'[i])

LEMMA FollowKeeps ==
  ASSUME NextActionInv, NEW A, nbaActions \in Seq(Recommendation(A)), nbaActions' \in Seq(Recommendation(A)),
         Follow(nbaActions')
  PROVE  NextActionInv' /\ Stood
<1>1. DOMAIN nbaActions = 1..Len(nbaActions) /\ DOMAIN nbaActions' = 1..Len(nbaActions')
  BY LenProperties
<1>2. OpenOnes' \subseteq OpenOnes
  BY <1>1 DEF OpenOnes, Follow
<1>. QED
  BY <1>1, <1>2 DEF NextActionInv, NbaRows, OneOpen, Stood, Follow

LEMMA RefreshKeeps ==
  ASSUME NextActionInv, RefreshStates
  PROVE  NextActionInv' /\ Stood
<1>1. PICK A : nbaActions \in Seq(Recommendation(A))
  BY DEF NextActionInv, NbaRows
<1>2. /\ DOMAIN nbaActions = 1..Len(nbaActions) /\ Len(nbaActions) \in Nat
      /\ \A i \in 1..Len(nbaActions) : nbaActions[i] \in Recommendation(A)
  BY <1>1, LenProperties, ElementOfSeq
<1>3. nbaActions' = [i \in 1..Len(nbaActions) |-> Refreshed(nbaActions[i])]
  BY <1>2 DEF RefreshStates
<1>4. \A i \in 1..Len(nbaActions) : nbaActions'[i] = Refreshed(nbaActions[i])
  BY <1>3
<1>5. nbaActions' \in [1..Len(nbaActions) -> Recommendation(A)]
  BY <1>2, <1>3, RefreshedIs
<1>6. nbaActions' \in Seq(Recommendation(A)) /\ Len(nbaActions') = Len(nbaActions)
  BY <1>2, <1>5
<1>7. Follow(nbaActions')
  BY <1>2, <1>4, <1>6, RefreshedIs DEF Follow
<1>. QED
  BY <1>1, <1>6, <1>7, FollowKeeps

LEMMA MoreAdvice ==
  ASSUME NEW A, NEW B, A \subseteq B, NEW list \in Seq(Recommendation(A))
  PROVE  list \in Seq(Recommendation(B))
<1>1. \A a \in Recommendation(A) : a \in Recommendation(B)
  BY DEF Recommendation
<1>2. \A i \in 1..Len(list) : list[i] \in Recommendation(A)
  BY ElementOfSeq
<1>3. Len(list) \in Nat /\ list \in [1..Len(list) -> Recommendation(A)]
  BY LenProperties
<1>4. list \in [1..Len(list) -> Recommendation(B)]
  BY <1>1, <1>3
<1>. QED
  BY <1>3, <1>4

LEMMA SupersededIs ==
  ASSUME NEW A, nbaActions \in Seq(Recommendation(A)), \A i \in OpenOnes : nbaActions[i].state # "APPROVED"
  PROVE  /\ Superseded \in Seq(Recommendation(A)) /\ Len(Superseded) = Len(nbaActions)
         /\ \A i \in 1..Len(nbaActions) :
              StandsBy(nbaActions[i], Superseded[i]) /\ Superseded[i].state \notin OpenStates
<1>1. /\ DOMAIN nbaActions = 1..Len(nbaActions) /\ Len(nbaActions) \in Nat
      /\ \A i \in 1..Len(nbaActions) : nbaActions[i] \in Recommendation(A)
  BY LenProperties, ElementOfSeq
<1>2. ASSUME NEW i \in 1..Len(nbaActions)
      PROVE  /\ Superseded[i] \in Recommendation(A) /\ StandsBy(nbaActions[i], Superseded[i])
             /\ Superseded[i].state \notin OpenStates
  <2>. DEFINE a == nbaActions[i]
              expired == [a EXCEPT !.state = "EXPIRED", !.wakes = NULL]
  <2>1. a \in Recommendation(A) /\ (i \in OpenOnes <=> a.state \in OpenStates)
    BY <1>1 DEF OpenOnes
  <2>2. expired \in Recommendation(A) /\ expired.advice = a.advice /\ expired.state = "EXPIRED"
    BY <2>1 DEF Recommendation, NbaStates, OpenStates
  <2>3. Superseded[i] = IF i \in OpenOnes THEN expired ELSE a
    BY <1>1 DEF Superseded
  <2>4. i \in OpenOnes => a.state # "APPROVED"
    OBVIOUS
  <2>. HIDE DEF a, expired
  <2>5. CASE i \in OpenOnes
    <3>1. StandsBy(a, expired)
      BY <2>1, <2>2, <2>4, <2>5, TransitionsAre DEF StandsBy, OpenStates
    <3>. QED
      BY <2>2, <2>3, <2>5, <3>1 DEF OpenStates, a
  <2>6. CASE i \notin OpenOnes
    BY <2>1, <2>3, <2>6 DEF StandsBy, OpenStates, a
  <2>. QED
    BY <2>5, <2>6
<1>3. Superseded \in [1..Len(nbaActions) -> Recommendation(A)]
  <2>1. Superseded = [i \in 1..Len(nbaActions) |-> Superseded[i]]
    BY <1>1 DEF Superseded
  <2>. QED
    BY <1>2, <2>1
<1>4. Superseded \in Seq(Recommendation(A)) /\ Len(Superseded) = Len(nbaActions)
  BY <1>1, <1>3
<1>. QED
  BY <1>2, <1>4

LEMMA UnchangedActions ==
  ASSUME NextActionInv, nbaActions' = nbaActions
  PROVE  NextActionInv' /\ Stood
<1>1. PICK A : nbaActions \in Seq(Recommendation(A))
  BY DEF NextActionInv, NbaRows
<1>2. Follow(nbaActions')
  BY DEF Follow, StandsBy
<1>. QED
  BY <1>1, <1>2, FollowKeeps

LEMMA SaveActionKeeps ==
  ASSUME NextActionInv, NEW x \in Recomputes, SaveAction(x)
  PROVE  NextActionInv' /\ Stood
<1>. DEFINE advice == recompute[x].advice
            new == [advice |-> advice, state |-> "PENDING", wakes |-> NULL]
<1>1. CASE nbaActions' = nbaActions
  BY <1>1, UnchangedActions
<1>2. CASE Kept(advice) = {} /\ nbaActions' = Append(Superseded, new)
  <2>1. PICK A : nbaActions \in Seq(Recommendation(A))
    BY DEF NextActionInv, NbaRows
  <2>. DEFINE B == A \cup {advice}
  <2>2. nbaActions \in Seq(Recommendation(B))
    BY <2>1, MoreAdvice
  <2>3. new \in Recommendation(B) /\ new.state = "PENDING"
    BY DEF Recommendation, NbaStates, OpenStates
  <2>4. \A i \in OpenOnes : nbaActions[i].state # "APPROVED"
    BY <1>2 DEF Kept
  <2>. HIDE DEF new, B
  <2>5. /\ Superseded \in Seq(Recommendation(B)) /\ Len(Superseded) = Len(nbaActions)
        /\ \A i \in 1..Len(nbaActions) :
             StandsBy(nbaActions[i], Superseded[i]) /\ Superseded[i].state \notin OpenStates
    BY <2>2, <2>4, SupersededIs
  <2>. DEFINE n == Len(nbaActions)
  <2>6. /\ nbaActions' \in Seq(Recommendation(B)) /\ n \in Nat /\ Len(nbaActions') = n + 1
        /\ nbaActions'[n + 1] = new /\ \A i \in 1..n : nbaActions'[i] = Superseded[i]
    BY <1>2, <2>3, <2>5, AppendProperties, LenProperties
  <2>7. DOMAIN nbaActions = 1..n /\ DOMAIN nbaActions' = 1..Len(nbaActions')
    BY <2>2, <2>6, LenProperties
  <2>. HIDE DEF n
  <2>8. OpenOnes' \subseteq {n + 1}
    <3>1. ASSUME NEW i \in DOMAIN nbaActions', nbaActions'[i].state \in OpenStates
          PROVE  i = n + 1
      <4>1. i \in 1..n \/ i = n + 1
        BY <2>6, <2>7
      <4>. QED
        BY <2>5, <2>6, <3>1, <4>1 DEF n
    <3>. QED
      BY <3>1 DEF OpenOnes
  <2>9. Stood
    BY <2>5, <2>6, <2>7 DEF Stood, n
  <2>. QED
    BY <2>6, <2>8, <2>9 DEF NextActionInv, NbaRows, OneOpen
<1>. QED
  BY <1>1, <1>2 DEF SaveAction

LEMMA DecideActionKeeps ==
  ASSUME NextActionInv, NEW i \in DOMAIN nbaActions, NEW decision \in NbaStates, DecideAction(i, decision)
  PROVE  NextActionInv' /\ Stood
<1>1. PICK A : nbaActions \in Seq(Recommendation(A))
  BY DEF NextActionInv, NbaRows
<1>2. PICK until \in NbaDays \cup {NULL} :
        nbaActions' = [nbaActions EXCEPT ![i].state = decision, ![i].wakes = until]
  BY DEF DecideAction
<1>. DEFINE a == nbaActions[i]
            b == [a EXCEPT !.state = decision, !.wakes = until]
<1>3. /\ DOMAIN nbaActions = 1..Len(nbaActions) /\ i \in 1..Len(nbaActions)
      /\ a \in Recommendation(A)
  BY <1>1, LenProperties, ElementOfSeq
<1>4. b \in Recommendation(A) /\ b.advice = a.advice /\ b.state = decision /\ a.state \in NbaStates
  BY <1>3 DEF Recommendation
<1>5. nbaActions' = [nbaActions EXCEPT ![i] = b]
  BY <1>2
<1>6. decision \in Transitions[a.state] /\ decision # "EXPIRED"
  BY DEF DecideAction
<1>. HIDE DEF a, b
<1>7. StandsBy(a, b)
  BY <1>4, <1>6 DEF StandsBy
<1>8. a.state \in OpenStates
  BY <1>4, <1>6, TransitionsAre DEF NbaStates, OpenStates
<1>9. /\ nbaActions' \in Seq(Recommendation(A)) /\ Len(nbaActions') = Len(nbaActions) /\ nbaActions'[i] = b
      /\ \A j \in 1..Len(nbaActions) : j # i => nbaActions'[j] = nbaActions[j]
  BY <1>1, <1>4, <1>5, ExceptSeq, LenProperties
<1>10. Follow(nbaActions')
  <2>1. ASSUME NEW j \in 1..Len(nbaActions), j # i
        PROVE  nbaActions'[j] = nbaActions[j] /\ StandsBy(nbaActions[j], nbaActions'[j])
    BY <1>9, <2>1 DEF StandsBy
  <2>2. nbaActions[i].state \in OpenStates /\ StandsBy(nbaActions[i], nbaActions'[i])
    BY <1>7, <1>8, <1>9 DEF a
  <2>. QED
    BY <1>9, <2>1, <2>2 DEF Follow
<1>. QED
  BY <1>1, <1>9, <1>10, FollowKeeps

LEMMA NextActionAdvances ==
  ASSUME NextActionInv, [NextActionNext]_nbaVars
  PROVE  NextActionInv' /\ Stood
<1>1. CASE UNCHANGED nbaVars
  BY <1>1, UnchangedActions DEF nbaVars
<1>2. CASE TimePasses \/ Learn
  BY <1>2, UnchangedActions DEF TimePasses, Learn
<1>3. CASE OpenPage
  BY <1>3, RefreshKeeps DEF OpenPage
<1>4. ASSUME NEW x \in Recomputes, ComputeProject(x)
      PROVE  NextActionInv' /\ Stood
  BY <1>4, RefreshKeeps DEF ComputeProject
<1>5. ASSUME NEW x \in Recomputes, ReadHistory(x) \/ RecomputeDies(x)
      PROVE  NextActionInv' /\ Stood
  BY <1>5, UnchangedActions DEF ReadHistory, RecomputeDies
<1>. QED
  BY <1>1, <1>2, <1>3, <1>4, <1>5, SaveActionKeeps, DecideActionKeeps DEF NextActionNext

\* Rows are what the table holds and one of them at most is open, whoever writes.
THEOREM NextActionInvariant == NextActionSpec => []NextActionInv
<1>1. NextActionInit => NextActionInv
  <2>1. ASSUME NextActionInit
        PROVE  NextActionInv
    <3>1. nbaActions = <<>> /\ nbaActions \in Seq(Recommendation({}))
      BY <2>1 DEF NextActionInit
    <3>2. OpenOnes = {}
      BY <3>1 DEF OpenOnes
    <3>. QED
      BY <3>1, <3>2 DEF NextActionInv, NbaRows, OneOpen
  <2>. QED
    BY <2>1
<1>2. NextActionInv /\ [NextActionNext]_nbaVars => NextActionInv'
  BY NextActionAdvances
<1>. QED
  BY <1>1, <1>2, PTL DEF NextActionSpec

\* A prospect never has two open recommendations, however many recomputations, decisions and
\* snoozes that end meet: the unique index of the table never fails a save.
THEOREM OneRecommendationIsOpen == NextActionSpec => []OneOpenAction
<1>1. ASSUME NextActionInv
      PROVE  OneOpenAction
  <2>1. \A i, j \in OpenOnes : i = j
    BY <1>1 DEF NextActionInv, OneOpen
  <2>2. CASE OpenOnes = {}
    BY <2>2, FS_EmptySet DEF OneOpenAction
  <2>3. CASE OpenOnes # {}
    <3>1. PICK i : OpenOnes = {i}
      BY <2>1, <2>3
    <3>2. Cardinality(OpenOnes) = 1
      BY <3>1, FS_Singleton
    <3>. QED
      BY <3>2 DEF OneOpenAction
  <2>. QED
    BY <2>2, <2>3
<1>2. NextActionInv => OneOpenAction
  BY <1>1
<1>. QED
  BY <1>2, NextActionInvariant, PTL

\* A decision stands in every step: what was computed never changes, states move by the table
\* of the engine, and nothing approved is replaced before its time.
THEOREM DecisionsAlwaysStand == NextActionSpec => DecisionsStand
<1>1. NextActionInv /\ [NextActionNext]_nbaVars =>
        [\A i \in DOMAIN nbaActions :
           LET old == nbaActions[i]  new == nbaActions'[i]
           IN /\ new.advice = old.advice
              /\ new.state # old.state => new.state \in Transitions[old.state]
              /\ old.state = "APPROVED" /\ new.state = "EXPIRED" => old.advice.expires <= nbaDay]_nbaVars
  BY NextActionAdvances DEF Stood, StandsBy
<1>. QED
  BY <1>1, NextActionInvariant, PTL DEF NextActionSpec, DecisionsStand

-----------------------------------------------------------------------------
(* The fit of a prospect, and the rules that read it (Advice).             *)

LEMMA Quotient ==
  ASSUME NEW a \in Nat, NEW b \in Nat \ {0}
  PROVE  a \div b \in Nat /\ b * (a \div b) <= a /\ a < b * (a \div b + 1)
OBVIOUS

LEMMA Cancels ==
  ASSUME NEW a \in Int, NEW b \in Int, NEW d \in Nat \ {0}, d * a < d * b
  PROVE  a < b
<1>1. CASE b <= a
  <2>1. PICK k \in Nat : a = b + k
    <3>1. a - b \in Nat /\ a = b + (a - b)
      BY <1>1
    <3>. QED
      BY <3>1
  <2>2. d * a = d * b + d * k /\ d * k >= 0
    BY <2>1
  <2>3. d * a \in Int /\ d * b \in Int /\ d * k \in Int
    BY <2>1
  <2>. QED
    BY <2>2, <2>3
<1>. QED
  BY <1>1

\* Math.round: the whole number next to n / d.
LEMMA ShareIs ==
  ASSUME NEW n \in Nat, NEW d \in Nat \ {0}
  PROVE  /\ Share(n, d) \in Nat
         /\ (2 * d) * Share(n, d) <= 2 * n + d
         /\ 2 * n + d < (2 * d) * (Share(n, d) + 1)
<1>. DEFINE a == 2 * n + d
            b == 2 * d
<1>1. a \in Nat /\ b \in Nat \ {0}
  OBVIOUS
<1>2. Share(n, d) = a \div b
  BY DEF Share
<1>. HIDE DEF a, b
<1>3. a \div b \in Nat /\ b * (a \div b) <= a /\ a < b * (a \div b + 1)
  BY <1>1, Quotient
<1>4. Share(n, d) \in Nat /\ b * Share(n, d) <= a /\ a < b * (Share(n, d) + 1)
  BY <1>2, <1>3
<1>. QED
  BY <1>4 DEF a, b

LEMMA ShareGrows ==
  ASSUME NEW n \in Nat, NEW m \in Nat, n <= m, NEW d \in Nat \ {0}
  PROVE  Share(n, d) <= Share(m, d)
<1>. DEFINE b == 2 * d
            p == Share(n, d)
            q == Share(m, d)
            x == b * p
            y == b * (q + 1)
<1>1. p \in Nat /\ x <= 2 * n + d
  BY ShareIs
<1>2. q \in Nat /\ 2 * m + d < y
  BY ShareIs
<1>3. b \in Nat \ {0}
  OBVIOUS
<1>. HIDE DEF b, p, q
<1>4. x \in Int /\ y \in Int
  BY <1>1, <1>2, <1>3
<1>. HIDE DEF x, y
<1>5. x < y
  BY <1>1, <1>2, <1>4
<1>6. p < q + 1
  <2>1. b * p < b * (q + 1)
    BY <1>5 DEF x, y
  <2>. QED
    BY <1>1, <1>2, <1>3, <2>1, Cancels
<1>. QED
  BY <1>1, <1>2, <1>6 DEF p, q

\* An estimate is a number of points, and at most half a point above what is confident of the weight.
LEMMA EstimateIs ==
  ASSUME NEW c \in Criteria, NEW trust \in DOMAIN Confidence
  PROVE  /\ Weight[c] \in Nat \ {0} /\ Unit \in Nat \ {0}
         /\ Estimate(c, trust) \in Nat
         /\ Estimate(c, trust) <= Weight[c] + Unit
         /\ trust # "VERIFIED" => 200 * Estimate(c, trust) <= 180 * Weight[c] + 100 * Unit
<1>. DEFINE w == Weight[c]
            b == Confidence[trust]
            q == Share(w * b, 100 * Unit)
<1>1. w \in Nat \ {0} /\ Unit \in Nat \ {0}
  BY AdviceAssumption
<1>2. b \in {100, 90, 80, 70, 60, 30} /\ (trust # "VERIFIED" => b # 100)
  BY DEF Confidence
<1>3. Estimate(c, trust) = Unit * q
  BY DEF Estimate
<1>4. w * b \in Nat /\ 100 * Unit \in Nat \ {0}
  BY <1>1, <1>2
<1>5. q \in Nat /\ (2 * (100 * Unit)) * q <= 2 * (w * b) + 100 * Unit
  BY <1>4, ShareIs
<1>. HIDE DEF q
<1>. DEFINE e == Unit * q
<1>6. e \in Nat /\ (2 * (100 * Unit)) * q = 200 * e
  BY <1>1, <1>5
<1>. HIDE DEF e
<1>7. 200 * e <= 2 * (w * b) + 100 * Unit
  BY <1>5, <1>6
<1>. HIDE DEF w, b
<1>8. w * b <= 100 * w /\ (trust # "VERIFIED" => w * b <= 90 * w)
  <2>1. \A k \in {100, 90, 80, 70, 60, 30} : w * k <= 100 * w /\ (k # 100 => w * k <= 90 * w)
    BY <1>1
  <2>. QED
    BY <1>2, <2>1
<1>. DEFINE x == w * b
<1>9. x \in Nat /\ x <= 100 * w /\ (trust # "VERIFIED" => x <= 90 * w) /\ 200 * e <= 2 * x + 100 * Unit
  BY <1>4, <1>7, <1>8
<1>. HIDE DEF x
<1>10. /\ e <= w + Unit
       /\ trust # "VERIFIED" => 200 * e <= 180 * w + 100 * Unit
  BY <1>1, <1>6, <1>9
<1>. QED
  BY <1>1, <1>3, <1>6, <1>10 DEF w, e

LEMMA WorthIs ==
  ASSUME NEW r \in Fact
  PROVE  /\ Worth(r) \in Nat /\ Weight[r.criterion] \in Nat \ {0} /\ Unit \in Nat \ {0}
         /\ Worth(r) <= Weight[r.criterion] + Unit
         /\ r.trust = "VERIFIED" => Worth(r) = Weight[r.criterion]
<1>. DEFINE c == r.criterion
<1>1. c \in Criteria /\ r.trust \in DOMAIN Confidence
  BY DEF Fact
<1>. HIDE DEF c
<1>2. /\ Weight[c] \in Nat \ {0} /\ Unit \in Nat \ {0}
      /\ Estimate(c, r.trust) \in Nat /\ Estimate(c, r.trust) <= Weight[c] + Unit
  BY <1>1, EstimateIs
<1>3. Worth(r) = IF r.trust = "VERIFIED" THEN Weight[c] ELSE Estimate(c, r.trust)
  BY DEF Worth, c
<1>. QED
  BY <1>2, <1>3 DEF c

\* What the code's rounding can do: only the estimate of a criterion of less than five points, and
\* of a fraction of a point, is ever above what the criterion gives once it is verified.
THEOREM OnlyFractionsAreOverrated ==
  ASSUME NEW r \in Fact, Worth(r) > Weight[r.criterion]
  PROVE  /\ Weight[r.criterion] < 5 * Unit
         /\ \A points \in Nat : Weight[r.criterion] # points * Unit
<1>. DEFINE c == r.criterion
            w == Weight[c]
            e == Estimate(c, r.trust)
            q == Share(w * Confidence[r.trust], 100 * Unit)
<1>1. c \in Criteria /\ r.trust \in DOMAIN Confidence
  BY DEF Fact
<1>2. r.trust # "VERIFIED" /\ Worth(r) = e
  BY WorthIs DEF Worth
<1>3. /\ w \in Nat \ {0} /\ Unit \in Nat \ {0} /\ e \in Nat
      /\ 200 * e <= 180 * w + 100 * Unit
  BY <1>1, <1>2, EstimateIs
<1>4. e = Unit * q /\ q \in Nat
  <2>1. Confidence[r.trust] \in Nat
    BY <1>1 DEF Confidence
  <2>2. w * Confidence[r.trust] \in Nat /\ 100 * Unit \in Nat \ {0}
    BY <1>3, <2>1
  <2>. QED
    BY <2>2, ShareIs DEF Estimate
<1>5. w < e
  BY <1>2
<1>. HIDE DEF c, w, e, q
<1>6. w < 5 * Unit
  BY <1>3, <1>5
<1>7. ASSUME NEW points \in Nat, w = points * Unit
      PROVE  FALSE
  <2>1. Unit * points < Unit * q
    BY <1>3, <1>4, <1>5, <1>7
  <2>2. points < q
    BY <1>3, <1>4, <2>1, Cancels
  <2>3. PICK k \in Nat : q = points + 1 + k
    <3>1. q - points - 1 \in Nat /\ q = points + 1 + (q - points - 1)
      BY <1>4, <2>2
    <3>. QED
      BY <3>1
  <2>. DEFINE x == Unit * points
              y == Unit * k
  <2>4. e = x + Unit + y /\ w = x /\ x \in Nat /\ y \in Nat
    BY <1>3, <1>4, <1>7, <2>3
  <2>. HIDE DEF x, y
  <2>. QED
    BY <1>3, <2>4
<1>. QED
  BY <1>6, <1>7 DEF c, w

LEMMA UnitsAreFinite ==
  ASSUME NEW rows \in SUBSET Fact
  PROVE  IsFiniteSet(Units(rows))
<1>. DEFINE most(c) == {c} \X (1..(Weight[c] + Unit))
            f == [c \in Criteria |-> most(c)]
            T == {f[c] : c \in Criteria}
<1>1. \A c \in Criteria : IsFiniteSet(f[c])
  <2>. SUFFICES ASSUME NEW c \in Criteria
                PROVE  IsFiniteSet(most(c))
    OBVIOUS
  <2>1. Weight[c] + Unit \in Int /\ 1 \in Int
    BY AdviceAssumption
  <2>2. IsFiniteSet(1..(Weight[c] + Unit))
    BY <2>1, FS_Interval
  <2>. QED
    BY <2>2, FS_Singleton, FS_Product
<1>2. IsFiniteSet(T)
  <2>1. f \in Surjection(Criteria, T)
    BY DEF Surjection
  <2>. QED
    BY <2>1, AdviceAssumption, FS_Surjection
<1>3. IsFiniteSet(UNION T)
  BY <1>1, <1>2, FS_UNION
<1>4. Units(rows) \subseteq UNION T
  <2>1. ASSUME NEW r \in rows
        PROVE  {r.criterion} \X (1..Worth(r)) \subseteq f[r.criterion] /\ r.criterion \in Criteria
    <3>1. r \in Fact /\ r.criterion \in Criteria
      BY DEF Fact
    <3>. QED
      BY <3>1, WorthIs
  <2>. HIDE DEF f
  <2>. QED
    BY <2>1 DEF Units
<1>. QED
  BY <1>3, <1>4, FS_Subset

LEMMA MoreUnits ==
  ASSUME NEW rows \in SUBSET Fact, NEW more \in SUBSET Fact, Units(rows) \subseteq Units(more)
  PROVE  /\ Cardinality(Units(rows)) \in Nat /\ Cardinality(Units(more)) \in Nat
         /\ Cardinality(Units(rows)) <= Cardinality(Units(more))
<1>1. IsFiniteSet(Units(rows)) /\ IsFiniteSet(Units(more))
  BY UnitsAreFinite
<1>. QED
  BY <1>1, FS_Subset, FS_CardinalityType


\* What the rules rely on: the four states of the fit, and that an estimate holds what was verified.
Fits == {"SUFFICIENT", "KNOWN_LOW", "INCOMPLETE", "UNKNOWN"}
FitFine(fit) ==
  /\ fit.level \in Nat /\ fit.verified \in Nat /\ fit.state \in Fits
  /\ fit.state = "SUFFICIENT" <=> fit.level >= 50 * Unit
  /\ fit.verified >= 60 => fit.level >= 50 * Unit

LEMMA ScoresAre ==
  ASSUME NEW evidence \in SUBSET Fact
  PROVE  /\ Verified(evidence) \in SUBSET Fact /\ Counting(evidence) \in SUBSET Fact
         /\ FitFine(FitOf(evidence))
<1>1. Verified(evidence) \in SUBSET Fact /\ Counting(evidence) \in SUBSET Fact
      /\ Verified(evidence) \subseteq Counting(evidence)
  BY DEF Verified, Counting
<1>2. Units(Verified(evidence)) \subseteq Units(Counting(evidence))
  BY <1>1 DEF Units
<1>. DEFINE n == Cardinality(Units(Verified(evidence)))
            m == Cardinality(Units(Counting(evidence)))
            v == VerifiedScore(evidence)
            level == Level(evidence)
<1>3. n \in Nat /\ m \in Nat /\ n <= m /\ Unit \in Nat \ {0}
  BY <1>1, <1>2, MoreUnits, AdviceAssumption
<1>4. level \in Nat /\ v \in Nat /\ (v >= 60 => level >= 50 * Unit)
  <2>1. level = IF m > 100 * Unit THEN 100 * Unit ELSE m
    BY DEF Level
  <2>2. v = Share(n, Unit)
    BY DEF VerifiedScore
  <2>. HIDE DEF n, m, v, level
  <2>3. v \in Nat /\ (2 * Unit) * v <= 2 * n + Unit
    BY <1>3, <2>2, ShareIs
  <2>4. ASSUME v >= 60
        PROVE  level >= 50 * Unit
    <3>1. PICK k \in Nat : v = 60 + k
      <4>1. v - 60 \in Nat /\ v = 60 + (v - 60)
        BY <2>3, <2>4
      <4>. QED
        BY <4>1
    <3>. DEFINE y == Unit * k
    <3>2. (2 * Unit) * v = 120 * Unit + 2 * y /\ y \in Nat
      BY <1>3, <3>1
    <3>. HIDE DEF y
    <3>3. 120 * Unit <= 2 * n + Unit
      BY <1>3, <2>3, <3>2
    <3>. QED
      BY <1>3, <2>1, <3>3
  <2>. QED
    BY <1>3, <2>1, <2>3, <2>4
<1>5. FitState(level, evidence) \in Fits /\ (FitState(level, evidence) = "SUFFICIENT" <=> level >= 50 * Unit)
  BY <1>3, <1>4 DEF FitState, Fits
<1>6. /\ FitOf(evidence).level = level /\ FitOf(evidence).verified = VerifiedScore(evidence)
      /\ FitOf(evidence).state = FitState(level, evidence)
  BY DEF FitOf
<1>. QED
  BY <1>1, <1>4, <1>5, <1>6 DEF FitFine

-----------------------------------------------------------------------------
(* The fourteen rules: which one is the first that holds.                  *)
LEMMA RulesAre ==
  ASSUME NEW r
  PROVE  /\ DOMAIN Rules(r) = 1..14
         /\ \A i \in {1, 2, 12, 13, 14} : Rules(r)[i].action = "DISMISS"
         /\ \A i \in {3, 5} : Rules(r)[i].action = "CONTACT"
         /\ Rules(r)[4].action = "ENGAGE"
         /\ \A i \in {6, 7, 8, 10, 11} : Rules(r)[i].action = "WATCH"
         /\ Rules(r)[9].action = "WAIT"
BY DEF Rules

LEMMA RulesHold ==
  ASSUME NEW r
  PROVE  /\ Rules(r)[1].holds = r.closed
         /\ Rules(r)[2].holds = (r.fit.state = "KNOWN_LOW" /\ ~FitAtLeast(r, 30))
         /\ Rules(r)[3].holds = ExplicitRecentNeed(r)
         /\ Rules(r)[4].holds = RelevantConversation(r)
         /\ Rules(r)[5].holds = ContactSignal(r)
         /\ Rules(r)[6].holds = SignalToVerify(r)
         /\ Rules(r)[7].holds = (r.why.timing >= 15 /\ FitAtLeast(r, 50))
         /\ Rules(r)[8].holds = Awaits(r, "SUFFICIENT")
         /\ Rules(r)[9].holds = FitAtLeast(r, 50)
         /\ Rules(r)[10].holds = Awaits(r, "UNKNOWN")
         /\ Rules(r)[11].holds = Awaits(r, "INCOMPLETE")
         /\ Rules(r)[12].holds = (r.fit.state = "UNKNOWN")
         /\ Rules(r)[13].holds = (r.fit.state = "INCOMPLETE")
         /\ Rules(r)[14].holds = (r.fit.state = "KNOWN_LOW")
BY DEF Rules

LEMMA LeastOf ==
  ASSUME NEW S \in SUBSET Nat, S # {}
  PROVE  \E i \in S : \A j \in S : ~(j < i)
<1>. DEFINE R == {ss \in Nat \X Nat : ss[1] < ss[2]}
<1>1. IsWellFoundedOn(R, Nat)
  BY NatLessThanWellFounded, Zenon DEF OpToRel
<1>2. \A x, y \in Nat : <<x, y>> \in R <=> x < y
  OBVIOUS
<1>. HIDE DEF R
<1>3. \E i \in S : \A j \in S : ~(<<j, i>> \in R)
  BY <1>1, WFMin
<1>. QED
  BY <1>2, <1>3

\* Some rule always holds, and the first that does decides.
LEMMA DecideIs ==
  ASSUME NEW r, FitFine(r.fit)
  PROVE  \E i \in 1..14 : /\ Rules(r)[i].holds /\ \A j \in 1..(i - 1) : ~Rules(r)[j].holds
                          /\ FirstRule(Rules(r)) = i /\ Decide(r) = Rules(r)[i]
<1>. DEFINE rules == Rules(r)
            S == {i \in 1..14 : rules[i].holds}
<1>1. S # {}
  <2>1. rules[9].holds \/ rules[12].holds \/ rules[13].holds \/ rules[14].holds
    BY RulesHold DEF FitFine, Fits, FitAtLeast
  <2>. HIDE DEF rules
  <2>. QED
    BY <2>1
<1>2. DOMAIN rules = 1..14
  BY RulesAre
<1>3. FirstRule(rules) = CHOOSE i \in DOMAIN rules : rules[i].holds /\ \A j \in 1..(i - 1) : ~rules[j].holds
  BY DEF FirstRule
<1>4. Decide(r) = rules[FirstRule(rules)]
  BY DEF Decide
<1>. HIDE DEF rules
<1>5. PICK i \in S : \A j \in S : ~(j < i)
  BY <1>1, LeastOf
<1>6. i \in DOMAIN rules /\ rules[i].holds /\ \A j \in 1..(i - 1) : ~rules[j].holds
  BY <1>2, <1>5
<1>7. /\ FirstRule(rules) \in DOMAIN rules /\ rules[FirstRule(rules)].holds
      /\ \A j \in 1..(FirstRule(rules) - 1) : ~rules[j].holds
  BY <1>3, <1>6
<1>. QED
  BY <1>2, <1>4, <1>7 DEF rules

\* The i-th rule is the first that holds.
First(i, k, holds) == (i = k => holds) /\ (holds => i <= k)
Chosen(r, i) ==
  /\ First(i, 1, r.closed)
  /\ First(i, 2, r.fit.state = "KNOWN_LOW" /\ ~FitAtLeast(r, 30))
  /\ First(i, 3, ExplicitRecentNeed(r))
  /\ First(i, 4, RelevantConversation(r))
  /\ First(i, 5, ContactSignal(r))
  /\ First(i, 6, SignalToVerify(r))
  /\ First(i, 7, r.why.timing >= 15 /\ FitAtLeast(r, 50))
  /\ First(i, 8, Awaits(r, "SUFFICIENT"))
  /\ First(i, 9, FitAtLeast(r, 50))
  /\ First(i, 10, Awaits(r, "UNKNOWN"))
  /\ First(i, 11, Awaits(r, "INCOMPLETE"))
  /\ First(i, 12, r.fit.state = "UNKNOWN")
  /\ First(i, 13, r.fit.state = "INCOMPLETE")
  /\ First(i, 14, r.fit.state = "KNOWN_LOW")

LEMMA DecideChooses ==
  ASSUME NEW r, FitFine(r.fit)
  PROVE  \E i \in 1..14 : Chosen(r, i) /\ Decide(r) = Rules(r)[i]
<1>1. PICK i \in 1..14 : /\ Rules(r)[i].holds /\ \A k \in 1..(i - 1) : ~Rules(r)[k].holds
                         /\ Decide(r) = Rules(r)[i]
  BY DecideIs
<1>2. ASSUME NEW k \in 1..14
      PROVE  First(i, k, Rules(r)[k].holds)
  BY <1>1 DEF First
<1>0. \A k \in {1, 2, 3, 4, 5, 6, 7, 8, 9, 10, 11, 12, 13, 14} : k \in 1..14
  OBVIOUS
<1>3. First(i, 1, r.closed)
  BY <1>0, <1>2, RulesHold, Zenon
<1>4. First(i, 2, r.fit.state = "KNOWN_LOW" /\ ~FitAtLeast(r, 30))
  BY <1>0, <1>2, RulesHold, Zenon
<1>5. First(i, 3, ExplicitRecentNeed(r))
  BY <1>0, <1>2, RulesHold, Zenon
<1>6. First(i, 4, RelevantConversation(r))
  BY <1>0, <1>2, RulesHold, Zenon
<1>7. First(i, 5, ContactSignal(r))
  BY <1>0, <1>2, RulesHold, Zenon
<1>8. First(i, 6, SignalToVerify(r))
  BY <1>0, <1>2, RulesHold, Zenon
<1>9. First(i, 7, r.why.timing >= 15 /\ FitAtLeast(r, 50))
  BY <1>0, <1>2, RulesHold, Zenon
<1>10. First(i, 8, Awaits(r, "SUFFICIENT"))
  BY <1>0, <1>2, RulesHold, Zenon
<1>11. First(i, 9, FitAtLeast(r, 50))
  BY <1>0, <1>2, RulesHold, Zenon
<1>12. First(i, 10, Awaits(r, "UNKNOWN"))
  BY <1>0, <1>2, RulesHold, Zenon
<1>13. First(i, 11, Awaits(r, "INCOMPLETE"))
  BY <1>0, <1>2, RulesHold, Zenon
<1>14. First(i, 12, r.fit.state = "UNKNOWN")
  BY <1>0, <1>2, RulesHold, Zenon
<1>15. First(i, 13, r.fit.state = "INCOMPLETE")
  BY <1>0, <1>2, RulesHold, Zenon
<1>16. First(i, 14, r.fit.state = "KNOWN_LOW")
  BY <1>0, <1>2, RulesHold, Zenon
<1>. QED
  BY <1>1, <1>3, <1>4, <1>5, <1>6, <1>7, <1>8, <1>9, <1>10, <1>11, <1>12, <1>13, <1>14, <1>15, <1>16, Zenon DEF Chosen

LEMMA Graded ==
  ASSUME NEW r, NEW i \in 1..14
  PROVE  /\ ActionPriority[Rules(r)[i].action] <= 4
         /\ i \in {3, 5} => ActionPriority[Rules(r)[i].action] = 0
         /\ i = 4 => ActionPriority[Rules(r)[i].action] = 1
         /\ i \in {6, 7, 8, 10, 11} => ActionPriority[Rules(r)[i].action] = 2
         /\ i = 9 => ActionPriority[Rules(r)[i].action] = 3
         /\ i \in {1, 2, 12, 13, 14} => ActionPriority[Rules(r)[i].action] = 4
BY RulesAre DEF ActionPriority

-----------------------------------------------------------------------------
(* A criterion that is met and verified gives points and takes none.       *)
Met(c, evidence) ==
  (evidence \ {r \in Fact : r.criterion = c}) \cup {[criterion |-> c, value |-> TRUE, trust |-> "VERIFIED"]}

LEMMA MetIs ==
  ASSUME NEW evidence \in SUBSET Fact, NEW c \in Criteria
  PROVE  /\ Met(c, evidence) \in SUBSET Fact /\ Proved(c, Met(c, evidence)) = {TRUE}
         /\ \A d \in Criteria \ {c} : /\ Proved(d, Met(c, evidence)) = Proved(d, evidence)
                                      /\ Estimated(d, Met(c, evidence)) <=> Estimated(d, evidence)
<1>. DEFINE row == [criterion |-> c, value |-> TRUE, trust |-> "VERIFIED"]
            more == Met(c, evidence)
<1>1. row \in Fact
  BY DEF Fact, Confidence
<1>2. more \in SUBSET Fact /\ row \in more /\ \A e \in more : e.criterion = c => e = row
  BY <1>1 DEF Met
<1>3. \A d \in Criteria \ {c} : \A e : (e \in more /\ e.criterion = d) <=> (e \in evidence /\ e.criterion = d)
  <2>1. \A e : e \in more <=> (e \in evidence /\ e \notin {r \in Fact : r.criterion = c}) \/ e = row
    BY DEF Met
  <2>2. row.criterion = c
    OBVIOUS
  <2>. HIDE DEF more, row
  <2>. SUFFICES ASSUME NEW d \in Criteria \ {c}, NEW e
                PROVE  (e \in more /\ e.criterion = d) <=> (e \in evidence /\ e.criterion = d)
    OBVIOUS
  <2>3. e \in more /\ e.criterion = d => e \in evidence
    BY <2>1, <2>2
  <2>4. e \in evidence /\ e.criterion = d => e \in more
    BY <2>1
  <2>. QED
    BY <2>3, <2>4
<1>. HIDE DEF more
<1>4. Proved(c, more) = {TRUE}
  <2>2. row.value = TRUE /\ row.criterion = c /\ row.trust = "VERIFIED"
    OBVIOUS
  <2>1. {e \in more : e.criterion = c /\ e.trust = "VERIFIED"} = {row}
    <3>. HIDE DEF row
    <3>. QED
      BY <1>2, <2>2
  <2>. HIDE DEF row
  <2>3. {r.value : r \in {row}} = {TRUE}
    BY <2>2
  <2>. QED
    BY <2>1, <2>3 DEF Proved
<1>5. ASSUME NEW d \in Criteria \ {c}
      PROVE  Proved(d, more) = Proved(d, evidence) /\ (Estimated(d, more) <=> Estimated(d, evidence))
  <2>1. {e \in more : e.criterion = d /\ e.trust = "VERIFIED"}
        = {e \in evidence : e.criterion = d /\ e.trust = "VERIFIED"}
    BY <1>3
  <2>2. Loose(d, more) = Loose(d, evidence)
    BY <1>3 DEF Loose
  <2>. QED
    BY <2>1, <2>2 DEF Proved, Estimated
<1>. QED
  BY <1>2, <1>4, <1>5 DEF more

\* A criterion whose estimate gives more than it is worth once it is verified.
Overrates(c, evidence) == Estimated(c, evidence) /\ \E r \in Loose(c, evidence) : Worth(r) > Weight[c]

LEMMA MetGives ==
  ASSUME NEW evidence \in SUBSET Fact, NEW c \in Criteria, ~Overrates(c, evidence)
  PROVE  /\ Units(Verified(evidence)) \subseteq Units(Verified(Met(c, evidence)))
         /\ Units(Counting(evidence)) \subseteq Units(Counting(Met(c, evidence)))
<1>. DEFINE row == [criterion |-> c, value |-> TRUE, trust |-> "VERIFIED"]
            more == Met(c, evidence)
<1>1. /\ more \in SUBSET Fact /\ Proved(c, more) = {TRUE}
      /\ \A d \in Criteria \ {c} : /\ Proved(d, more) = Proved(d, evidence)
                                   /\ Estimated(d, more) <=> Estimated(d, evidence)
  BY MetIs
<1>2. row \in Fact /\ row \in more /\ \A e \in evidence : e.criterion # c => e \in more
  BY DEF Fact, Confidence, Met
<1>. HIDE DEF more
<1>3. row \in Verified(more)
  BY <1>1, <1>2 DEF Verified
<1>4. \A e \in Verified(evidence) : e.criterion # c => e \in Verified(more)
  BY <1>1, <1>2 DEF Verified, Fact
<1>5. \A e \in Counting(evidence) : e.criterion # c => e \in Counting(more)
  BY <1>1, <1>2, <1>4 DEF Counting, Fact
<1>6. ASSUME NEW e \in Counting(evidence), e.criterion = c
      PROVE  {e.criterion} \X (1..Worth(e)) \subseteq {row.criterion} \X (1..Worth(row))
  <2>1. /\ e \in Fact /\ Worth(e) \in Nat /\ Weight[c] \in Nat
        /\ e.trust = "VERIFIED" => Worth(e) = Weight[c]
    BY <1>6, WorthIs DEF Counting, Verified
  <2>2. Worth(row) = Weight[c] /\ Worth(row) \in Nat
    BY <1>2, WorthIs
  <2>3. Worth(e) <= Weight[c]
    <3>1. CASE e.trust # "VERIFIED"
      <4>1. Estimated(c, evidence) /\ e \in Loose(c, evidence)
        BY <1>6, <3>1 DEF Counting, Verified, Loose
      <4>2. ~(Worth(e) > Weight[c])
        BY <4>1, Zenon DEF Overrates
      <4>. QED
        BY <2>1, <4>2
    <3>. QED
      BY <2>1, <3>1
  <2>. QED
    BY <1>6, <2>1, <2>2, <2>3
<1>7. ASSUME NEW R \in SUBSET Counting(evidence), NEW S \in SUBSET Fact, row \in S,
             \A e \in R : e.criterion # c => e \in S
      PROVE  Units(R) \subseteq Units(S)
  <2>. SUFFICES ASSUME NEW e \in R
                PROVE  {e.criterion} \X (1..Worth(e)) \subseteq Units(S)
    BY DEF Units
  <2>1. CASE e.criterion = c
    BY <1>6, <1>7, <2>1 DEF Units
  <2>2. CASE e.criterion # c
    BY <1>7, <2>2 DEF Units
  <2>. QED
    BY <2>1, <2>2
<1>8. /\ Verified(evidence) \in SUBSET Counting(evidence)
      /\ Verified(more) \in SUBSET Fact /\ Counting(more) \in SUBSET Fact /\ row \in Counting(more)
  BY <1>1, <1>3 DEF Verified, Counting
<1>9. Units(Verified(evidence)) \subseteq Units(Verified(more))
  BY <1>3, <1>4, <1>7, <1>8
<1>10. Units(Counting(evidence)) \subseteq Units(Counting(more))
  BY <1>5, <1>7, <1>8
<1>. QED
  BY <1>9, <1>10 DEF more

\* Low is a level of less than half with a criterion that is verified not to be met.
Denied(evidence) == \E c \in Criteria : Proved(c, evidence) = {FALSE}

LEMMA LowIs ==
  ASSUME NEW level \in Nat, NEW evidence
  PROVE  FitState(level, evidence) = "KNOWN_LOW" <=> level < 50 * Unit /\ Denied(evidence)
<1>. DEFINE something == \E c \in Criteria : Proved(c, evidence) = {TRUE} \/ Estimated(c, evidence)
            denied == Denied(evidence)
<1>1. FitState(level, evidence) =
        IF level >= 50 * Unit THEN "SUFFICIENT"
        ELSE IF denied THEN "KNOWN_LOW" ELSE IF something THEN "INCOMPLETE" ELSE "UNKNOWN"
  BY Zenon DEF FitState, Denied
<1>. HIDE DEF something, denied
<1>2. FitState(level, evidence) = "KNOWN_LOW" <=> level < 50 * Unit /\ denied
  BY <1>1, AdviceAssumption
<1>. QED
  BY <1>2, Zenon DEF denied

\* A fit with more: its scores are not less, and it is known, and low only if it was.
Better(fit, more) ==
  /\ more.level >= fit.level /\ more.verified >= fit.verified
  /\ more.state # "UNKNOWN" /\ (more.state = "KNOWN_LOW" => fit.state = "KNOWN_LOW")

LEMMA MetIsBetter ==
  ASSUME NEW evidence \in SUBSET Fact, NEW c \in Criteria, Proved(c, evidence) # {TRUE}, ~Overrates(c, evidence)
  PROVE  FitFine(FitOf(evidence)) /\ FitFine(FitOf(Met(c, evidence)))
         /\ Better(FitOf(evidence), FitOf(Met(c, evidence)))
<1>. DEFINE more == Met(c, evidence)
            fit == FitOf(evidence)
            best == FitOf(more)
<1>1. /\ more \in SUBSET Fact /\ Proved(c, more) = {TRUE}
      /\ \A d \in Criteria \ {c} : Proved(d, more) = Proved(d, evidence)
  BY MetIs
<1>2. /\ Units(Verified(evidence)) \subseteq Units(Verified(more))
      /\ Units(Counting(evidence)) \subseteq Units(Counting(more))
  BY MetGives
<1>. HIDE DEF more
<1>3. /\ Verified(evidence) \in SUBSET Fact /\ Counting(evidence) \in SUBSET Fact /\ FitFine(fit)
      /\ Verified(more) \in SUBSET Fact /\ Counting(more) \in SUBSET Fact /\ FitFine(best)
  BY <1>1, ScoresAre
<1>4. /\ fit.level = Level(evidence) /\ fit.verified = VerifiedScore(evidence)
      /\ fit.state = FitState(Level(evidence), evidence)
      /\ best.level = Level(more) /\ best.verified = VerifiedScore(more)
      /\ best.state = FitState(Level(more), more)
  BY DEF FitOf
<1>. HIDE DEF fit, best
<1>5. best.verified >= fit.verified
  <2>. DEFINE m == Cardinality(Units(Verified(evidence)))
              n == Cardinality(Units(Verified(more)))
  <2>1. m \in Nat /\ n \in Nat /\ m <= n /\ Unit \in Nat \ {0}
    BY <1>2, <1>3, MoreUnits, AdviceAssumption
  <2>2. fit.verified = Share(m, Unit) /\ best.verified = Share(n, Unit)
    BY <1>4 DEF VerifiedScore
  <2>. HIDE DEF m, n
  <2>3. Share(m, Unit) <= Share(n, Unit)
    BY <2>1, ShareGrows
  <2>. QED
    BY <2>2, <2>3
<1>6. best.level >= fit.level
  <2>. DEFINE m == Cardinality(Units(Counting(evidence)))
              n == Cardinality(Units(Counting(more)))
  <2>1. m \in Nat /\ n \in Nat /\ m <= n /\ Unit \in Nat \ {0}
    BY <1>2, <1>3, MoreUnits, AdviceAssumption
  <2>2. /\ fit.level = IF m > 100 * Unit THEN 100 * Unit ELSE m
        /\ best.level = IF n > 100 * Unit THEN 100 * Unit ELSE n
    BY <1>4 DEF Level
  <2>. HIDE DEF m, n
  <2>. QED
    BY <2>1, <2>2
<1>7. fit.level \in Nat /\ best.level \in Nat
  BY <1>3 DEF FitFine
<1>8. best.state # "UNKNOWN"
  BY <1>1, <1>4 DEF FitState
<1>9. best.state = "KNOWN_LOW" => fit.state = "KNOWN_LOW"
  <2>1. SUFFICES ASSUME best.state = "KNOWN_LOW"
                 PROVE  fit.state = "KNOWN_LOW"
    OBVIOUS
  <2>2. best.level < 50 * Unit /\ Denied(more)
    BY <1>4, <1>7, <2>1, LowIs
  <2>3. PICK d \in Criteria : Proved(d, more) = {FALSE}
    BY <2>2 DEF Denied
  <2>4. d # c
    <3>1. {TRUE} # {FALSE}
      OBVIOUS
    <3>. QED
      BY <1>1, <2>3, <3>1
  <2>5. Denied(evidence)
    <3>1. Proved(d, evidence) = {FALSE}
      BY <1>1, <2>3, <2>4
    <3>. QED
      BY <3>1, Zenon DEF Denied
  <2>6. fit.level < 50 * Unit
    BY <1>6, <1>7, <2>2, AdviceAssumption
  <2>. QED
    BY <1>4, <1>7, <2>5, <2>6, LowIs
<1>. QED
  BY <1>3, <1>5, <1>6, <1>8, <1>9 DEF Better, more, fit, best

\* The first rule that holds of a better fit is at least as favourable.
LEMMA BetterIsNotLess ==
  ASSUME NEW r, NEW q, FitFine(r.fit), FitFine(q.fit), Better(r.fit, q.fit),
         q.closed = r.closed, q.why = r.why
  PROVE  ActionPriority[Decide(q).action] <= ActionPriority[Decide(r).action]
<1>1. PICK i \in 1..14 : Chosen(r, i) /\ Decide(r) = Rules(r)[i]
  BY DecideChooses
<1>2. PICK j \in 1..14 : Chosen(q, j) /\ Decide(q) = Rules(q)[j]
  BY DecideChooses
<1>3. /\ r.fit.level \in Nat /\ r.fit.verified \in Nat /\ q.fit.level \in Nat /\ q.fit.verified \in Nat
      /\ r.fit.state \in Fits /\ q.fit.state \in Fits
      /\ r.fit.state = "SUFFICIENT" <=> r.fit.level >= 50 * Unit
      /\ q.fit.state = "SUFFICIENT" <=> q.fit.level >= 50 * Unit
      /\ q.fit.level >= r.fit.level /\ q.fit.verified >= r.fit.verified
      /\ r.fit.verified >= 60 => r.fit.level >= 50 * Unit
      /\ q.fit.state # "UNKNOWN" /\ (q.fit.state = "KNOWN_LOW" => r.fit.state = "KNOWN_LOW")
      /\ Unit \in Nat \ {0}
  BY AdviceAssumption DEF FitFine, Better
<1>4. CASE i \in {1, 2, 12, 13, 14}
  BY <1>1, <1>2, <1>4, Graded
<1>5. CASE i \in 3..11
  <2>1. j # 1
    BY <1>1, <1>2, <1>5 DEF Chosen, First
  <2>2. CASE i = 3
    <3>1. r.fit.verified >= 60 /\ ExplicitRecentNeed(q)
      <4>1. ExplicitRecentNeed(r)
        BY <1>1, <2>2 DEF Chosen, First
      <4>. QED
        BY <1>3, <4>1 DEF ExplicitRecentNeed, ContactFresh, VerifiedFitAtLeast
    <3>2. j <= 3 /\ j # 2
      BY <1>2, <1>3, <3>1 DEF Chosen, First, FitAtLeast
    <3>. QED
      BY <1>1, <1>2, <2>1, <2>2, <3>2, Graded
  <2>3. CASE i = 5
    <3>1. ContactSignal(r) /\ ~RelevantConversation(r)
      BY <1>1, <2>3 DEF Chosen, First
    <3>2. r.fit.verified >= 60 /\ ContactSignal(q) /\ ~RelevantConversation(q)
      BY <1>3, <3>1 DEF ContactSignal, ContactFresh, VerifiedFitAtLeast, RelevantConversation, FitAtLeast
    <3>3. j <= 5 /\ j # 2 /\ j # 4
      BY <1>2, <1>3, <3>2 DEF Chosen, First, FitAtLeast
    <3>. QED
      BY <1>1, <1>2, <2>1, <2>3, <3>3, Graded
  <2>4. CASE i \in {4, 6, 7, 8, 9}
    <3>1. /\ i = 4 => RelevantConversation(r)
          /\ i = 6 => SignalToVerify(r)
          /\ i = 7 => r.why.timing >= 15 /\ FitAtLeast(r, 50)
          /\ i = 8 => Awaits(r, "SUFFICIENT")
          /\ i = 9 => FitAtLeast(r, 50)
      BY <1>1 DEF Chosen, First
    <3>2. r.fit.level >= 50 * Unit
      BY <1>3, <2>4, <3>1 DEF RelevantConversation, SignalToVerify, Awaits, FitAtLeast
    <3>3. /\ i = 4 => RelevantConversation(q)
          /\ i = 6 => SignalToVerify(q)
          /\ i = 7 => q.why.timing >= 15 /\ FitAtLeast(q, 50)
          /\ i = 8 => Awaits(q, "SUFFICIENT")
          /\ i = 9 => FitAtLeast(q, 50)
      BY <1>3, <3>1, <3>2 DEF RelevantConversation, SignalToVerify, Awaits, FitAtLeast
    <3>4. j <= i
      BY <1>2, <2>4, <3>3 DEF Chosen, First
    <3>5. j # 2
      BY <1>2, <1>3, <3>2 DEF Chosen, First, FitAtLeast
    <3>. QED
      BY <1>1, <1>2, <2>1, <2>4, <3>4, <3>5, Graded
  <2>5. CASE i \in {10, 11}
    <3>1. r.why.fresh # NULL /\ r.fit.state \in {"UNKNOWN", "INCOMPLETE"}
      BY <1>1, <2>5 DEF Chosen, First, Awaits
    <3>2. q.fit.state \in {"SUFFICIENT", "INCOMPLETE"}
      BY <1>3, <3>1 DEF Fits
    <3>3. j # 2
      BY <1>2, <3>2 DEF Chosen, First
    <3>4. CASE q.fit.state = "SUFFICIENT"
      <4>1. j <= 8
        BY <1>2, <3>1, <3>4 DEF Chosen, First, Awaits
      <4>. QED
        BY <1>1, <1>2, <2>1, <2>5, <3>3, <4>1, Graded
    <3>5. CASE q.fit.state = "INCOMPLETE"
      <4>1. j <= 11 /\ j # 9
        BY <1>2, <1>3, <3>1, <3>5 DEF Chosen, First, Awaits, FitAtLeast
      <4>. QED
        BY <1>1, <1>2, <2>1, <2>5, <3>3, <4>1, Graded
    <3>. QED
      BY <3>2, <3>4, <3>5
  <2>. QED
    BY <1>5, <2>2, <2>3, <2>4, <2>5
<1>. QED
  BY <1>4, <1>5

\* CONTACT is decided by what was verified, the signals and the conversations alone.
MayContact(r) ==
  /\ ~r.closed
  /\ \/ ExplicitRecentNeed(r)
     \/ ContactSignal(r) /\ ~(r.why.conversation # NULL /\ r.why.conversation.age <= 7)

LEMMA ContactIs ==
  ASSUME NEW r, FitFine(r.fit)
  PROVE  Decide(r).action = "CONTACT" <=> MayContact(r)
<1>1. PICK i \in 1..14 : Chosen(r, i) /\ Decide(r) = Rules(r)[i]
  BY DecideChooses
<1>2. /\ r.fit.level \in Nat /\ r.fit.verified \in Nat
      /\ r.fit.verified >= 60 => r.fit.level >= 50 * Unit
      /\ Unit \in Nat \ {0}
  BY AdviceAssumption DEF FitFine
<1>3. Rules(r)[i].action = "CONTACT" <=> i \in {3, 5}
  BY RulesAre
<1>4. ASSUME i = 3
      PROVE  MayContact(r)
  BY <1>1, <1>4 DEF Chosen, First, MayContact
<1>5. ASSUME i = 5
      PROVE  MayContact(r)
  <2>1. ~r.closed /\ ~RelevantConversation(r) /\ ContactSignal(r)
    BY <1>1, <1>5 DEF Chosen, First
  <2>2. FitAtLeast(r, 50)
    BY <1>2, <2>1 DEF ContactSignal, VerifiedFitAtLeast, FitAtLeast
  <2>. QED
    BY <2>1, <2>2 DEF MayContact, RelevantConversation
<1>6. ASSUME MayContact(r)
      PROVE  i \in {3, 5}
  <2>1. r.fit.level >= 50 * Unit /\ ~r.closed
    BY <1>2, <1>6 DEF MayContact, ExplicitRecentNeed, ContactSignal, VerifiedFitAtLeast
  <2>2. i # 1 /\ i # 2
    BY <1>1, <1>2, <2>1 DEF Chosen, First, FitAtLeast
  <2>3. CASE ExplicitRecentNeed(r)
    BY <1>1, <2>2, <2>3 DEF Chosen, First
  <2>4. CASE ~ExplicitRecentNeed(r)
    <3>1. i <= 5 /\ i # 4
      BY <1>1, <1>6, <2>4 DEF MayContact, Chosen, First, RelevantConversation
    <3>. QED
      BY <2>2, <3>1
  <2>. QED
    BY <2>3, <2>4
<1>. QED
  BY <1>1, <1>3, <1>4, <1>5, <1>6

-----------------------------------------------------------------------------
(* What is known of a prospect is always rows of evidence.                 *)
KnownInv == DOMAIN known = {"closed", "evidence", "sightings", "posts"} /\ known.evidence \in SUBSET Fact

LEMMA KnownStays == KnownInv /\ [NextActionNext]_nbaVars => KnownInv'
<1>. SUFFICES ASSUME KnownInv, [NextActionNext]_nbaVars
              PROVE  KnownInv'
  OBVIOUS
<1>1. CASE known' = known
  BY <1>1 DEF KnownInv
<1>2. CASE Learn
  <2>1. ASSUME NEW n \in News, FindSignal(n, nbaDay)
        PROVE  KnownInv'
    BY <2>1 DEF FindSignal, KnownInv
  <2>2. ASSUME NEW p \in Posts, StorePost(p, nbaDay)
        PROVE  KnownInv'
    BY <2>2 DEF StorePost, KnownInv
  <2>3. ASSUME NEW s, NEW v, ReviewSignal(s, v)
        PROVE  KnownInv'
    BY <2>3 DEF ReviewSignal, KnownInv
  <2>4. ASSUME NEW p, NEW v, ReviewPost(p, v)
        PROVE  KnownInv'
    BY <2>4 DEF ReviewPost, KnownInv
  <2>5. ASSUME NEW row \in Findings, Document(row)
        PROVE  KnownInv'
    <3>1. row \in Fact
      BY NextActionAssumption
    <3>. QED
      BY <2>5, <3>1 DEF Document, KnownInv
  <2>6. CASE CloseProspect
    BY <2>6 DEF CloseProspect, KnownInv
  <2>. QED
    BY <1>2, <2>1, <2>2, <2>3, <2>4, <2>5, <2>6 DEF Learn
<1>3. CASE NextActionNext /\ ~Learn
  <2>1. known' = known
    BY <1>3 DEF NextActionNext, TimePasses, OpenPage, ComputeProject, ReadHistory, SaveAction, RecomputeDies, DecideAction
  <2>. QED
    BY <1>1, <2>1
<1>. QED
  BY <1>1, <1>2, <1>3 DEF nbaVars

LEMMA KnownAlways == NextActionSpec => []KnownInv
<1>1. NextActionInit => KnownInv
  <2>. SUFFICES ASSUME NextActionInit
                PROVE  KnownInv
    OBVIOUS
  <2>1. PICK e \in Starts : known = [closed |-> FALSE, evidence |-> e, sightings |-> {}, posts |-> {}]
    BY DEF NextActionInit
  <2>2. e \in SUBSET Fact
    BY NextActionAssumption
  <2>. QED
    BY <2>1, <2>2 DEF KnownInv
<1>. QED
  BY <1>1, KnownStays, PTL DEF NextActionSpec

\* These hold of any rows of evidence, however they came to be known.
LEMMA MetNeverLowers ==
  ASSUME KnownInv
  PROVE  FitNeverLowers
<1>. DEFINE why == Why
            now == Reading(known.closed, known.evidence, why)
<1>1. ASSUME NEW c \in Criteria, Proved(c, known.evidence) # {TRUE}, ~Overrated(c)
      PROVE  ActionPriority[ActionWith(Proven(c), why)] <= ActionPriority[ActionWith(known.evidence, why)]
  <2>. DEFINE then == Reading(known.closed, Proven(c), why)
  <2>1. /\ now.closed = known.closed /\ now.fit = FitOf(known.evidence) /\ now.why = why
        /\ then.closed = known.closed /\ then.fit = FitOf(Proven(c)) /\ then.why = why
    BY DEF Reading
  <2>2. Proven(c) = Met(c, known.evidence)
    BY DEF Proven, Met
  <2>3. ~Overrates(c, known.evidence)
    BY <1>1, Zenon DEF Overrated, Overrates
  <2>4. FitFine(now.fit) /\ FitFine(then.fit) /\ Better(now.fit, then.fit)
    BY <1>1, <2>1, <2>2, <2>3, MetIsBetter DEF KnownInv
  <2>5. ActionPriority[Decide(then).action] <= ActionPriority[Decide(now).action]
    <3>. HIDE DEF now, then, why
    <3>. QED
      BY <2>1, <2>4, BetterIsNotLess
  <2>. QED
    BY <2>5 DEF ActionWith
<1>. HIDE DEF why
<1>2. \A c \in {k \in Criteria : Proved(k, known.evidence) # {TRUE} /\ ~Overrated(k)} :
        ActionPriority[ActionWith(Proven(c), why)] <= ActionPriority[ActionWith(known.evidence, why)]
  BY <1>1
<1>. QED
  BY <1>2, Zenon DEF FitNeverLowers, why

\* A criterion that is met and verified never makes the action less favourable, whatever is known
\* of the prospect, its signals, its places and the conversations, and whatever fractions of a point
\* the criteria weigh: but for a criterion whose estimate was rounded above its weight, and
\* OnlyFractionsAreOverrated says which those are.
THEOREM VerifyingNeverLowers == NextActionSpec => []FitNeverLowers
BY MetNeverLowers, KnownAlways, PTL

LEMMA DeclaredNeverContacts ==
  ASSUME KnownInv
  PROVE  DeclarationsNeverContact
<1>. DEFINE why == Why
            sourced == {r \in known.evidence : r.trust # "DECLARED"}
            now == Reading(known.closed, known.evidence, why)
            then == Reading(known.closed, sourced, why)
<1>1. /\ now.closed = known.closed /\ now.fit = FitOf(known.evidence) /\ now.why = why
      /\ then.closed = known.closed /\ then.fit = FitOf(sourced) /\ then.why = why
  BY DEF Reading
<1>2. FitFine(now.fit) /\ FitFine(then.fit)
  BY <1>1, ScoresAre DEF KnownInv
<1>3. now.fit.verified = then.fit.verified
  <2>1. ASSUME NEW c
        PROVE  Proved(c, sourced) = Proved(c, known.evidence)
    <3>1. {e \in sourced : e.criterion = c /\ e.trust = "VERIFIED"}
          = {e \in known.evidence : e.criterion = c /\ e.trust = "VERIFIED"}
      OBVIOUS
    <3>. QED
      BY <3>1 DEF Proved
  <2>2. Verified(sourced) = Verified(known.evidence)
    <3>. DEFINE agreed(r) == Proved(r.criterion, known.evidence) = {TRUE}
    <3>1. Verified(known.evidence) = {r \in known.evidence : r.trust = "VERIFIED" /\ agreed(r)}
      BY Zenon DEF Verified
    <3>2. Verified(sourced) = {r \in sourced : r.trust = "VERIFIED" /\ agreed(r)}
      BY <2>1, Zenon DEF Verified
    <3>. HIDE DEF agreed
    <3>. QED
      BY <3>1, <3>2
  <2>3. VerifiedScore(sourced) = VerifiedScore(known.evidence)
    BY <2>2, Zenon DEF VerifiedScore
  <2>4. \A e : FitOf(e).verified = VerifiedScore(e)
    BY DEF FitOf
  <2>. HIDE DEF now, then
  <2>. QED
    BY <1>1, <2>3, <2>4, Zenon
<1>. HIDE DEF now, then, why, sourced
<1>4. MayContact(now) <=> MayContact(then)
  BY <1>1, <1>3 DEF MayContact, ExplicitRecentNeed, ContactSignal, ContactFresh, VerifiedFitAtLeast
<1>5. Decide(now).action = "CONTACT" <=> Decide(then).action = "CONTACT"
  BY <1>2, <1>4, ContactIs
<1>6. (ActionWith(known.evidence, why) = "CONTACT") = (ActionWith(sourced, why) = "CONTACT")
  BY <1>5 DEF ActionWith, now, then
<1>. QED
  BY <1>6, Zenon DEF DeclarationsNeverContact, why, sourced

\* What is declared without a source never makes a prospect one to contact, nor one that is not.
THEOREM DeclaringNeverContacts == NextActionSpec => []DeclarationsNeverContact
BY DeclaredNeverContacts, KnownAlways, PTL

\* Some rule applies, whatever is known: "NBA: no rule applies" is never thrown (engine.ts:497).
RuleApplies ==
  LET r == Reading(known.closed, known.evidence, Why)
  IN \E i \in DOMAIN Rules(r) : Rules(r)[i].holds

LEMMA SomeRuleApplies ==
  ASSUME KnownInv
  PROVE  RuleApplies
<1>. DEFINE now == Reading(known.closed, known.evidence, Why)
<1>1. now.fit = FitOf(known.evidence)
  BY DEF Reading
<1>2. FitFine(now.fit)
  BY <1>1, ScoresAre DEF KnownInv
<1>. HIDE DEF now
<1>3. PICK i \in 1..14 : Rules(now)[i].holds
  BY <1>2, DecideIs
<1>4. DOMAIN Rules(now) = 1..14
  BY RulesAre
<1>5. \E k \in DOMAIN Rules(now) : Rules(now)[k].holds
  BY <1>3, <1>4, Zenon
<1>. QED
  BY <1>5, Zenon DEF RuleApplies, now

\* The engine never throws for want of a rule: fourteen rules cover every fit with every reason to act.
THEOREM ARuleAlwaysApplies == NextActionSpec => []RuleApplies
BY SomeRuleApplies, KnownAlways, PTL

-----------------------------------------------------------------------------
(* Types. What a recommendation rests on is one of the reasons that were   *)
(* read: reasons are apart by their identifiers, so that one is the best.  *)

\* A reason that the rules may put first: when it began, until when, what it is worth.
Reason(x) ==
  /\ x.id \in Nat /\ x.age \in Nat /\ x.max \in Nat
  /\ x.timing \in Nat /\ x.timing <= 1000 /\ x.freshness \in Nat
Reasons(S) == (\A x \in S : Reason(x)) /\ (\A x, y \in S : x.id = y.id => x = y)

LEMMA BestIs ==
  ASSUME NEW S, Reasons(S)
  PROVE  Best(S) \in S \cup {NULL}
<1>1. CASE S = {}
  BY <1>1 DEF Best
<1>2. CASE S # {}
  <2>. DEFINE left == {1000 - x.timing : x \in S}
  <2>1. left \in SUBSET Nat /\ left # {}
    <3>1. \A x \in S : 1000 - x.timing \in Nat
      BY DEF Reasons, Reason
    <3>. QED
      BY <1>2, <3>1
  <2>2. PICK l \in left : \A j \in left : ~(j < l)
    BY <2>1, LeastOf
  <2>. DEFINE first == {x \in S : x.timing = 1000 - l}
              ids == {x.id : x \in first}
  <2>3. ids \in SUBSET Nat /\ ids # {}
    BY <2>2 DEF Reasons, Reason
  <2>4. PICK i \in ids : \A j \in ids : ~(j < i)
    BY <2>3, LeastOf
  <2>5. PICK r \in first : r.id = i
    BY <2>4
  <2>6. ASSUME NEW q \in S \ {r}
        PROVE  Precedes(r, q)
    <3>1. /\ q.timing \in Nat /\ q.timing <= 1000 /\ r.timing \in Nat /\ q.id \in Nat /\ r.id \in Nat
          /\ q.id # r.id /\ r.timing = 1000 - l
      BY <2>5, <2>6 DEF Reasons, Reason
    <3>2. ~(1000 - q.timing < l) /\ l \in Nat
      BY <2>1, <2>2, <2>6
    <3>3. q.timing = r.timing => ~(q.id < i)
      <4>1. q.timing = r.timing => q \in first
        BY <2>6, <3>1
      <4>. QED
        BY <2>4, <4>1
    <3>4. r.id = i
      BY <2>5
    <3>. HIDE DEF left, first, ids
    <3>. QED
      BY <3>1, <3>2, <3>3, <3>4 DEF Precedes
  <2>7. \E x \in S : \A q \in S \ {x} : Precedes(x, q)
    BY <2>5, <2>6
  <2>8. Best(S) = CHOOSE x \in S : \A q \in S \ {x} : Precedes(x, q)
    BY <1>2, Zenon DEF Best
  <2>. QED
    BY <2>7, <2>8, Zenon
<1>. QED
  BY <1>1, <1>2

LEMMA FewerReasons ==
  ASSUME NEW S, Reasons(S), NEW T, T \subseteq S
  PROVE  Reasons(T)
BY DEF Reasons

Worthy(w, f, b) == Share(w * f * b, 200)
LEMMA WorthyIs ==
  ASSUME NEW w \in Hundredths, NEW f \in Thousandths, NEW b \in {1, 2}
  PROVE  Worthy(w, f, b) \in Nat /\ Worthy(w, f, b) <= 1000
<1>. DEFINE p == w * f
<1>0. w \in 0..100 /\ f \in 0..1000
  BY DEF Hundredths, Thousandths
<1>1. p \in Nat
  BY <1>0
<1>2. p <= 100 * f
  BY <1>0
<1>3. p <= 100000
  BY <1>0, <1>1, <1>2
<1>4. Worthy(w, f, b) = (2 * (p * b) + 200) \div 400
  BY DEF Share, Worthy
<1>. HIDE DEF p
<1>5. CASE b = 1
  <2>1. Worthy(w, f, b) = (2 * p + 200) \div 400
    BY <1>1, <1>4, <1>5
  <2>. QED
    BY <1>1, <1>3, <2>1
<1>6. CASE b = 2
  <2>1. Worthy(w, f, b) = (4 * p + 200) \div 400
    BY <1>1, <1>4, <1>6
  <2>. QED
    BY <1>1, <1>3, <2>1
<1>. QED
  BY <1>5, <1>6

\* What is found of a prospect is dated by a day that was looked at, and has an identifier of its own.
Dated(d) == d \in NbaDays \cup {0} /\ d <= nbaDay
Sighting(s) ==
  /\ s = [id |-> s.id, kind |-> s.kind, places |-> s.places, day |-> s.day, status |-> s.status]
  /\ s.id \in Nat \ Posts /\ s.kind \in DOMAIN Registry /\ Dated(s.day) /\ s.status \in Reviews
Post(p) ==
  /\ p = [id |-> p.id, day |-> p.day, status |-> p.status]
  /\ p.id \in Posts /\ Dated(p.day) /\ p.status \in Reviews
Apart(S) == \A x, y \in S : x.id = y.id => x = y
KnownTyped ==
  /\ DOMAIN known = {"closed", "evidence", "sightings", "posts"}
  /\ known.closed \in BOOLEAN /\ known.evidence \in SUBSET Fact
  /\ nbaDay \in NbaDays \cup {0}
  /\ \A s \in known.sightings : Sighting(s)
  /\ \A p \in known.posts : Post(p)
  /\ Apart(known.sightings) /\ Apart(known.posts)

LEMMA DaysAre ==
  ASSUME NEW d \in NbaDays \cup {0}
  PROVE  d \in Nat
BY NextActionAssumption

LEMMA AgesAre ==
  ASSUME KnownTyped, NEW e, Dated(e)
  PROVE  nbaDay - e \in Ages /\ nbaDay - e \in Nat
<1>1. nbaDay \in NbaDays \cup {0} /\ e \in NbaDays \cup {0} /\ e <= nbaDay
  BY DEF KnownTyped, Dated
<1>2. nbaDay \in Nat /\ e \in Nat
  BY <1>1, DaysAre
<1>. QED
  BY <1>1, <1>2 DEF Ages

LEMMA FreshnessIs ==
  ASSUME NEW age \in Ages, NEW h, NEW m, Fades(h, m)
  PROVE  Freshness(age, h, m) \in Thousandths /\ Freshness(age, h, m) \in Nat
<1>1. Freshness(age, h, m) \in Thousandths
  BY Zenon DEF Fades
<1>2. \A f \in Thousandths : f \in Nat
  BY DEF Thousandths
<1>. QED
  BY <1>1, <1>2, Zenon

LEMMA ClassifiedIs ==
  ASSUME KnownTyped, NEW s \in known.sightings
  PROVE  Reason(Classified(s, nbaDay)) /\ Classified(s, nbaDay).id = s.id
<1>. DEFINE w == Registry[s.kind].weight
            h == Registry[s.kind].half
            m == Registry[s.kind].max
            age == nbaDay - s.day
            fresh == Freshness(age, h, m)
            boost == IF s.status = "VERIFIED" THEN 2 ELSE 1
            worth == Worthy(w, fresh, boost)
            c == Classified(s, nbaDay)
<1>1. s.kind \in DOMAIN Registry /\ Dated(s.day) /\ s.id \in Nat
  BY DEF KnownTyped, Sighting
<1>2. w \in Hundredths /\ m \in Nat
  BY <1>1, RegistryAssumption
<1>3. Fades(h, m)
  BY <1>1, NewsAssumption, Zenon
<1>4. boost \in {1, 2}
  OBVIOUS
<1>5. age \in Ages /\ age \in Nat
  BY <1>1, AgesAre
<1>6. /\ c.id = s.id /\ c.age = age /\ c.freshness = fresh /\ c.max = m
      /\ c.timing = IF Relevance(s.places) = "MISMATCH" THEN 0 ELSE worth
  BY DEF Classified, Worthy
<1>. HIDE DEF w, h, m, age, boost, c
<1>7. fresh \in Thousandths /\ fresh \in Nat
  BY <1>3, <1>5, FreshnessIs
<1>. HIDE DEF fresh
<1>8. worth \in Nat /\ worth <= 1000
  BY <1>2, <1>4, <1>7, WorthyIs
<1>. HIDE DEF worth
<1>9. c.timing \in Nat /\ c.timing <= 1000
  BY <1>6, <1>8
<1>10. Reason(c)
  BY <1>1, <1>2, <1>5, <1>6, <1>7, <1>9 DEF Reason
<1>. QED
  BY <1>6, <1>10 DEF c

LEMMA SignalsAre ==
  ASSUME KnownTyped
  PROVE  /\ Reasons(ReasonsOf(known.sightings, nbaDay))
         /\ \A x \in ReasonsOf(known.sightings, nbaDay) : x.id \notin Posts
<1>. DEFINE live == {x \in known.sightings : x.status # "REJECTED"}
<1>1. ReasonsOf(known.sightings, nbaDay) = {Classified(s, nbaDay) : s \in live}
  BY DEF ReasonsOf
<1>2. \A s \in live :
        /\ s \in known.sightings /\ Reason(Classified(s, nbaDay))
        /\ Classified(s, nbaDay).id = s.id /\ s.id \notin Posts
  BY ClassifiedIs DEF KnownTyped, Sighting
<1>3. \A s, t \in live : s.id = t.id => s = t
  BY DEF KnownTyped, Apart
<1>. HIDE DEF live
<1>. QED
  BY <1>1, <1>2, <1>3 DEF Reasons

LEMMA ConversationsAre ==
  ASSUME KnownTyped
  PROVE  /\ Reasons(Conversations(VerifiedPosts, nbaDay))
         /\ \A x \in Conversations(VerifiedPosts, nbaDay) : x.id \in Posts
<1>. DEFINE old(p) == nbaDay - p.day
            fresh(p) == Freshness(old(p), ConversationHalf, ConversationMax)
            talk(p) == [id |-> p.id, kind |-> "conversation", age |-> old(p), max |-> ConversationMax,
                        freshness |-> fresh(p), timing |-> Share(70 * fresh(p), 100)]
<1>1. ASSUME NEW p \in VerifiedPosts
      PROVE  Reason(talk(p)) /\ talk(p).id = p.id /\ p.id \in Posts
  <2>1. p.id \in Posts /\ Dated(p.day)
    BY DEF VerifiedPosts, KnownTyped, Post
  <2>2. p.id \in Nat
    BY <2>1, NewsAssumption
  <2>3. Fades(ConversationHalf, ConversationMax)
    BY NewsAssumption, Zenon
  <2>4. ConversationMax \in Nat
    BY DEF ConversationMax
  <2>. DEFINE age == old(p)
              f == fresh(p)
              worth == Share(70 * f, 100)
  <2>5. age \in Ages /\ age \in Nat
    BY <2>1, AgesAre
  <2>6. /\ talk(p).id = p.id /\ talk(p).age = age /\ talk(p).max = ConversationMax
        /\ talk(p).freshness = f /\ talk(p).timing = worth
    OBVIOUS
  <2>7. f = Freshness(age, ConversationHalf, ConversationMax)
    OBVIOUS
  <2>. HIDE DEF old, fresh, talk, age, f
  <2>8. f \in Thousandths /\ f \in Nat
    BY <2>3, <2>5, <2>7, FreshnessIs
  <2>9. worth \in Nat /\ worth <= 1000
    <3>1. worth = (140 * f + 100) \div 200
      BY <2>8 DEF Share
    <3>2. f <= 1000
      BY <2>8 DEF Thousandths
    <3>. QED
      BY <2>8, <3>1, <3>2
  <2>. HIDE DEF worth
  <2>10. Reason(talk(p))
    BY <2>2, <2>4, <2>5, <2>6, <2>8, <2>9 DEF Reason
  <2>. QED
    BY <2>1, <2>6, <2>10
<1>2. Conversations(VerifiedPosts, nbaDay) = {c \in {talk(p) : p \in VerifiedPosts} : c.freshness > 0}
  BY Zenon DEF Conversations
<1>3. \A p, q \in VerifiedPosts : p.id = q.id => p = q
  BY DEF VerifiedPosts, KnownTyped, Apart
<1>. HIDE DEF talk
<1>. QED
  BY <1>1, <1>2, <1>3 DEF Reasons

\* What there is to choose from, and that each of the choices is one of it or nothing.
Given == ReasonsOf(known.sightings, nbaDay) \cup Conversations(VerifiedPosts, nbaDay)

LEMMA WhyIs ==
  ASSUME KnownTyped
  PROVE  /\ \A x \in Given : Reason(x)
         /\ Why.signals \subseteq Given /\ Why.conversation \in Given \cup {NULL}
         /\ Why.primary \in Given \cup {NULL} /\ Why.contact \in Given \cup {NULL}
         /\ Why.unverified \in Given \cup {NULL} /\ Why.fresh \in Given \cup {NULL}
<1>. DEFINE signals == ReasonsOf(known.sightings, nbaDay)
            talks == Conversations(VerifiedPosts, nbaDay)
            talk == Best(talks)
            drivers == Drivers(signals, talk)
            fresh == {s \in signals : s.freshness >= 500 /\ s.relevance # "MISMATCH"}
            contacts(verified) ==
              {s \in signals : s.contact /\ s.verified = verified /\ s.timing > 0 /\ (verified => ContactEligible(s))}
<1>1. Why.signals = signals /\ Why.conversation = talk
  BY DEF Why, WhyNow
<1>2. Why.primary = Best(drivers)
  BY DEF Why, WhyNow
<1>3. Why.contact = Best(contacts(TRUE)) /\ Why.unverified = Best(contacts(FALSE))
  BY DEF Why, WhyNow, BestContact
<1>4. Why.fresh = Best(fresh)
  BY DEF Why, WhyNow, FreshSignal
<1>5. Reasons(signals) /\ Reasons(talks) /\ Given = signals \cup talks
  BY SignalsAre, ConversationsAre DEF Given
<1>6. \A x \in signals, y \in talks : x.id # y.id
  BY SignalsAre, ConversationsAre
<1>7. drivers \subseteq signals \cup {c \in {talk} : c # NULL}
  BY DEF Drivers
<1>8. fresh \subseteq signals /\ contacts(TRUE) \subseteq signals /\ contacts(FALSE) \subseteq signals
  OBVIOUS
<1>. HIDE DEF signals, talks, drivers, fresh, contacts
<1>9. Reasons(Given)
  BY <1>5, <1>6 DEF Reasons
<1>10. talk \in Given \cup {NULL}
  BY <1>5, BestIs
<1>11. drivers \subseteq Given
  BY <1>5, <1>7, <1>10
<1>12. \A T : T \subseteq Given => Best(T) \in Given \cup {NULL}
  <2>1. ASSUME NEW T, T \subseteq Given
        PROVE  Best(T) \in T \cup {NULL}
    BY <1>9, <2>1, FewerReasons, BestIs
  <2>. QED
    BY <2>1
<1>13. \A x \in Given : Reason(x)
  BY <1>9 DEF Reasons
<1>. QED
  BY <1>1, <1>2, <1>3, <1>4, <1>5, <1>8, <1>10, <1>11, <1>12, <1>13

LEMMA RulesAreNamed ==
  ASSUME NEW r, NEW i \in 1..14
  PROVE  Rules(r)[i].id \in RuleId /\ Rules(r)[i].action \in DOMAIN ActionPriority
<1>1. /\ Rules(r)[1].id = "CLOSED_PROSPECT" /\ Rules(r)[2].id = "OFF_TARGET"
      /\ Rules(r)[3].id = "EXPLICIT_RECENT_NEED" /\ Rules(r)[4].id = "RELEVANT_CONVERSATION"
      /\ Rules(r)[5].id = "CONTACT_SIGNAL" /\ Rules(r)[6].id = "SIGNAL_TO_VERIFY"
      /\ Rules(r)[7].id = "SOME_TIMING" /\ Rules(r)[8].id = "FIT_FRESH_SIGNAL"
      /\ Rules(r)[9].id = "FIT_WITHOUT_TIMING" /\ Rules(r)[10].id = "UNKNOWN_FIT_FRESH_SIGNAL"
      /\ Rules(r)[11].id = "INCOMPLETE_FIT_FRESH_SIGNAL" /\ Rules(r)[12].id = "FIT_UNKNOWN_NO_TIMING"
      /\ Rules(r)[13].id = "FIT_INCOMPLETE_NO_TIMING" /\ Rules(r)[14].id = "LOW_FIT_NO_TIMING"
  BY DEF Rules
<1>2. DOMAIN ActionPriority = {"CONTACT", "ENGAGE", "WATCH", "WAIT", "DISMISS"}
  BY DEF ActionPriority
<1>3. Rules(r)[i].action \in {"CONTACT", "ENGAGE", "WATCH", "WAIT", "DISMISS"}
  BY RulesAre
<1>4. i \in {1, 2, 3, 4, 5, 6, 7, 8, 9, 10, 11, 12, 13, 14}
  OBVIOUS
<1>5. Rules(r)[i].id \in RuleId
  BY <1>1, <1>4 DEF RuleId
<1>. QED
  BY <1>2, <1>3, <1>5, Zenon

LEMMA DriverIs ==
  ASSUME KnownTyped, NEW rule
  PROVE  Driver(Why, rule) \in Given \cup {NULL}
BY WhyIs DEF Driver

LEMMA LastsIs ==
  ASSUME NEW d, d = NULL \/ Reason(d), NEW action
  PROVE  Lasts(d, action) \in Nat
<1>1. CASE d = NULL
  BY <1>1 DEF Lasts, DefaultHorizon
<1>2. CASE d # NULL
  <2>. DEFINE left == (IF action = "ENGAGE" THEN 7 ELSE d.max) - d.age
  <2>1. left \in Int
    BY <1>2 DEF Reason
  <2>2. Lasts(d, action) = IF left > 0 THEN left ELSE 0
    BY <1>2 DEF Lasts
  <2>. HIDE DEF left
  <2>. QED
    BY <2>1, <2>2
<1>. QED
  BY <1>1, <1>2

LEMMA DeclaredIs ==
  ASSUME NEW evidence \in SUBSET Fact
  PROVE  Declared(evidence) \in SUBSET (Criteria \X BOOLEAN)
BY DEF Declared, Fact

LEMMA AdviseIs ==
  ASSUME KnownTyped
  PROVE  Advise \in Opportunity
<1>. DEFINE r == Reading(known.closed, known.evidence, Why)
            rule == Decide(r)
            driver == Driver(Why, rule)
            refs == {x.id : x \in {s \in Why.signals : s.timing > 0 \/ s = driver} \cup ({Why.conversation} \ {NULL})}
            print == <<rule.action, IF driver = NULL THEN 0 ELSE driver.id, r.fit.declared>>
<1>1. r.fit = FitOf(known.evidence) /\ r.why = Why
  BY DEF Reading
<1>2. known.evidence \in SUBSET Fact /\ nbaDay \in Nat
  BY DaysAre DEF KnownTyped
<1>3. r.fit.declared \in SUBSET (Criteria \X BOOLEAN)
  BY <1>1, <1>2, DeclaredIs DEF FitOf
<1>4. FitFine(r.fit)
  BY <1>1, <1>2, ScoresAre
<1>5. PICK i \in 1..14 : Decide(r) = Rules(r)[i]
  BY <1>4, DecideIs
<1>6. rule.id \in RuleId /\ rule.action \in DOMAIN ActionPriority
  BY <1>5, RulesAreNamed
<1>7. driver \in Given \cup {NULL} /\ \A x \in Given : Reason(x) /\ x.id \in Nat
  BY DriverIs, WhyIs DEF Reason
<1>8. Advise = [action |-> rule.action, rule |-> rule.id, computed |-> nbaDay,
                expires |-> nbaDay + Lasts(driver, rule.action), refs |-> refs, fingerprint |-> print]
  BY <1>1 DEF Advise, BuildOpportunity
<1>9. refs \in SUBSET Nat
  <2>1. Why.signals \subseteq Given /\ {Why.conversation} \ {NULL} \subseteq Given
    BY WhyIs
  <2>. QED
    BY <1>7, <2>1
<1>. HIDE DEF r, rule, refs, driver
<1>10. Lasts(driver, rule.action) \in Nat
  BY <1>7, LastsIs
<1>11. nbaDay + Lasts(driver, rule.action) \in Nat
  BY <1>2, <1>10
<1>12. print \in (DOMAIN ActionPriority) \X Nat \X SUBSET (Criteria \X BOOLEAN)
  <2>1. (IF driver = NULL THEN 0 ELSE driver.id) \in Nat
    BY <1>7
  <2>. QED
    BY <1>3, <1>6, <2>1
<1>. HIDE DEF print
<1>. QED
  BY <1>2, <1>6, <1>8, <1>9, <1>11, <1>12 DEF Opportunity

-----------------------------------------------------------------------------
(* What is known stays dated and apart, a computation under way holds a    *)
(* recommendation, and a row wakes when it was snoozed and only then.      *)
Computing == [step : {"LOADED", "READY"}, advice : Opportunity]
Row == {a \in Recommendation(Opportunity) : a.state = "SNOOZED" <=> a.wakes # NULL}
AdviceInv ==
  KnownTyped /\ nbaActions \in Seq(Row) /\ recompute \in [Recomputes -> {NotComputing} \cup Computing]

LEMMA KnownTypedStays ==
  ASSUME KnownTyped, known' = known, nbaDay' \in NbaDays \cup {0}, nbaDay <= nbaDay'
  PROVE  KnownTyped'
<1>1. \A d : Dated(d) => Dated(d)'
  <2>1. ASSUME NEW d, Dated(d)
        PROVE  d \in NbaDays \cup {0} /\ d <= nbaDay'
    <3>1. d \in NbaDays \cup {0} /\ d <= nbaDay /\ nbaDay \in NbaDays \cup {0}
      BY <2>1 DEF Dated, KnownTyped
    <3>. QED
      BY <3>1, DaysAre
  <2>. QED
    BY <2>1 DEF Dated
<1>2. (\A s \in known.sightings : Sighting(s)') /\ (\A p \in known.posts : Post(p)')
  BY <1>1 DEF KnownTyped, Sighting, Post
<1>. QED
  BY <1>2 DEF KnownTyped

LEMMA LearnTyped ==
  ASSUME KnownTyped, Learn
  PROVE  KnownTyped'
<1>1. nbaDay' = nbaDay
  BY DEF Learn
<1>2. \A s : Sighting(s)' <=> Sighting(s)
  BY <1>1 DEF Sighting, Dated
<1>3. \A p : Post(p)' <=> Post(p)
  BY <1>1 DEF Post, Dated
<1>4. Dated(nbaDay)
  <2>1. nbaDay \in NbaDays \cup {0}
    BY DEF KnownTyped
  <2>. QED
    BY <2>1, DaysAre DEF Dated
<1>5. ASSUME NEW n \in News, FindSignal(n, nbaDay)
      PROVE  KnownTyped'
  <2>. DEFINE s == [id |-> n.id, kind |-> n.kind, places |-> n.places, day |-> nbaDay, status |-> "PENDING_REVIEW"]
  <2>1. known' = [known EXCEPT !.sightings = @ \cup {s}] /\ \A x \in known.sightings : x.id # n.id
    BY <1>5 DEF FindSignal
  <2>2. Sighting(s) /\ s.id = n.id
    BY <1>4, NewsAssumption DEF Sighting, Reviews
  <2>. HIDE DEF s
  <2>3. known'.sightings = known.sightings \cup {s} /\ Apart(known'.sightings)
    BY <2>1, <2>2 DEF KnownTyped, Apart
  <2>. QED
    BY <1>1, <1>2, <1>3, <2>1, <2>2, <2>3 DEF KnownTyped
<1>6. ASSUME NEW p \in Posts, StorePost(p, nbaDay)
      PROVE  KnownTyped'
  <2>. DEFINE s == [id |-> p, day |-> nbaDay, status |-> "PENDING_REVIEW"]
  <2>1. known' = [known EXCEPT !.posts = @ \cup {s}] /\ \A x \in known.posts : x.id # p
    BY <1>6 DEF StorePost
  <2>2. Post(s) /\ s.id = p
    BY <1>4 DEF Post, Reviews
  <2>. HIDE DEF s
  <2>3. known'.posts = known.posts \cup {s} /\ Apart(known'.posts)
    BY <2>1, <2>2 DEF KnownTyped, Apart
  <2>. QED
    BY <1>1, <1>2, <1>3, <2>1, <2>2, <2>3 DEF KnownTyped
<1>7. ASSUME NEW s \in known.sightings, NEW v \in Reviews, ReviewSignal(s, v)
      PROVE  KnownTyped'
  <2>. DEFINE new == [s EXCEPT !.status = v]
  <2>1. known' = [known EXCEPT !.sightings = (@ \ {s}) \cup {new}]
    BY <1>7 DEF ReviewSignal
  <2>2. Sighting(s)
    BY DEF KnownTyped
  <2>3. Sighting(new) /\ new.id = s.id
    BY <2>2 DEF Sighting
  <2>. HIDE DEF new
  <2>4. known'.sightings = (known.sightings \ {s}) \cup {new}
    BY <2>1 DEF KnownTyped
  <2>5. Apart(known'.sightings)
    BY <2>3, <2>4 DEF KnownTyped, Apart
  <2>. QED
    BY <1>1, <1>2, <1>3, <2>1, <2>3, <2>4, <2>5 DEF KnownTyped
<1>8. ASSUME NEW p \in known.posts, NEW v \in Reviews, ReviewPost(p, v)
      PROVE  KnownTyped'
  <2>. DEFINE new == [p EXCEPT !.status = v]
  <2>1. known' = [known EXCEPT !.posts = (@ \ {p}) \cup {new}]
    BY <1>8 DEF ReviewPost
  <2>2. Post(p)
    BY DEF KnownTyped
  <2>3. Post(new) /\ new.id = p.id
    BY <2>2 DEF Post
  <2>. HIDE DEF new
  <2>4. known'.posts = (known.posts \ {p}) \cup {new}
    BY <2>1 DEF KnownTyped
  <2>5. Apart(known'.posts)
    BY <2>3, <2>4 DEF KnownTyped, Apart
  <2>. QED
    BY <1>1, <1>2, <1>3, <2>1, <2>3, <2>4, <2>5 DEF KnownTyped
<1>9. ASSUME NEW row \in Findings, Document(row)
      PROVE  KnownTyped'
  <2>1. row \in Fact
    BY NextActionAssumption
  <2>2. known' = [known EXCEPT !.evidence = @ \cup {row}]
    BY <1>9 DEF Document
  <2>. QED
    BY <1>1, <1>2, <1>3, <2>1, <2>2 DEF KnownTyped
<1>10. CASE CloseProspect
  <2>1. known' = [known EXCEPT !.closed = TRUE]
    BY <1>10 DEF CloseProspect
  <2>. QED
    BY <1>1, <1>2, <1>3, <2>1 DEF KnownTyped
<1>. QED
  BY <1>5, <1>6, <1>7, <1>8, <1>9, <1>10 DEF Learn

LEMMA ClosedRow ==
  ASSUME NEW a \in Row, NEW state \in NbaStates \ {"SNOOZED"}
  PROVE  [a EXCEPT !.state = state, !.wakes = NULL] \in Row
BY DEF Row, Recommendation

LEMMA RefreshTyped ==
  ASSUME nbaActions \in Seq(Row), RefreshStates
  PROVE  nbaActions' \in Seq(Row)
<1>1. /\ DOMAIN nbaActions = 1..Len(nbaActions) /\ Len(nbaActions) \in Nat
      /\ \A i \in 1..Len(nbaActions) : nbaActions[i] \in Row
  BY LenProperties, ElementOfSeq
<1>2. ASSUME NEW a \in Row
      PROVE  Refreshed(a) \in Row
  <2>1. "EXPIRED" \in NbaStates \ {"SNOOZED"} /\ "PENDING" \in NbaStates \ {"SNOOZED"}
    BY DEF NbaStates, OpenStates
  <2>. QED
    BY <2>1, ClosedRow DEF Refreshed
<1>3. nbaActions' = [i \in 1..Len(nbaActions) |-> Refreshed(nbaActions[i])]
  BY <1>1 DEF RefreshStates
<1>4. nbaActions' \in [1..Len(nbaActions) -> Row]
  BY <1>1, <1>2, <1>3
<1>. QED
  BY <1>1, <1>4

LEMMA SaveTyped ==
  ASSUME AdviceInv, NEW x \in Recomputes, SaveAction(x)
  PROVE  nbaActions' \in Seq(Row)
<1>. DEFINE advice == recompute[x].advice
            new == [advice |-> advice, state |-> "PENDING", wakes |-> NULL]
            expired(a) == [a EXCEPT !.state = "EXPIRED", !.wakes = NULL]
<1>1. /\ DOMAIN nbaActions = 1..Len(nbaActions) /\ Len(nbaActions) \in Nat
      /\ \A i \in 1..Len(nbaActions) : nbaActions[i] \in Row
  BY LenProperties, ElementOfSeq DEF AdviceInv
<1>2. advice \in Opportunity
  <2>1. recompute[x] \in {NotComputing} \cup Computing /\ recompute[x].step = "READY"
    BY DEF AdviceInv, SaveAction
  <2>. QED
    BY <2>1 DEF NotComputing, Computing
<1>3. new \in Row
  BY <1>2 DEF Row, Recommendation, NbaStates, OpenStates
<1>4. ASSUME NEW i \in 1..Len(nbaActions)
      PROVE  Superseded[i] \in Row
  <2>1. "EXPIRED" \in NbaStates \ {"SNOOZED"}
    BY DEF NbaStates
  <2>2. expired(nbaActions[i]) \in Row /\ nbaActions[i] \in Row
    BY <1>1, <2>1, ClosedRow
  <2>3. Superseded[i] = IF i \in OpenOnes THEN expired(nbaActions[i]) ELSE nbaActions[i]
    BY <1>1 DEF Superseded
  <2>. QED
    BY <2>2, <2>3
<1>5. Superseded \in Seq(Row)
  <2>1. Superseded = [i \in 1..Len(nbaActions) |-> Superseded[i]]
    BY <1>1 DEF Superseded
  <2>2. Superseded \in [1..Len(nbaActions) -> Row]
    BY <1>4, <2>1
  <2>. QED
    BY <1>1, <2>2
<1>6. nbaActions' = nbaActions \/ nbaActions' = Append(Superseded, new)
  BY DEF SaveAction
<1>. HIDE DEF new
<1>7. Append(Superseded, new) \in Seq(Row)
  BY <1>3, <1>5, AppendProperties, Zenon
<1>. QED
  BY <1>6, <1>7, Zenon DEF AdviceInv

LEMMA DecideTyped ==
  ASSUME nbaActions \in Seq(Row), NEW i \in DOMAIN nbaActions, NEW decision \in NbaStates, DecideAction(i, decision)
  PROVE  nbaActions' \in Seq(Row)
<1>1. PICK until \in IF decision = "SNOOZED" THEN {d \in NbaDays : nbaDay < d /\ d <= nbaDay + 90} ELSE {NULL} :
        nbaActions' = [nbaActions EXCEPT ![i].state = decision, ![i].wakes = until]
  BY DEF DecideAction
<1>2. until \in NbaDays \cup {NULL} /\ (decision = "SNOOZED" <=> until # NULL)
  BY NewsAssumption
<1>. DEFINE a == nbaActions[i]
            b == [a EXCEPT !.state = decision, !.wakes = until]
<1>3. /\ DOMAIN nbaActions = 1..Len(nbaActions) /\ i \in 1..Len(nbaActions) /\ a \in Row
  BY LenProperties, ElementOfSeq
<1>4. b \in Row
  BY <1>2, <1>3 DEF Row, Recommendation
<1>5. nbaActions' = [nbaActions EXCEPT ![i] = b]
  BY <1>1
<1>. HIDE DEF a, b
<1>. QED
  BY <1>3, <1>4, <1>5, ExceptSeq

LEMMA AdviceInvStays == AdviceInv /\ [NextActionNext]_nbaVars => AdviceInv'
<1>. SUFFICES ASSUME AdviceInv, [NextActionNext]_nbaVars
              PROVE  AdviceInv'
  OBVIOUS
<1>1. nbaDay \in NbaDays \cup {0} /\ nbaDay <= nbaDay
  BY DaysAre DEF AdviceInv, KnownTyped
<1>2. ASSUME known' = known, nbaDay' = nbaDay
      PROVE  KnownTyped'
  BY <1>1, <1>2, KnownTypedStays DEF AdviceInv
<1>3. CASE UNCHANGED nbaVars
  BY <1>2, <1>3 DEF nbaVars, AdviceInv
<1>4. CASE TimePasses
  <2>1. nbaDay' \in NbaDays /\ nbaDay' > nbaDay
    BY <1>4 DEF TimePasses
  <2>2. nbaDay <= nbaDay'
    BY <1>1, <2>1, DaysAre
  <2>3. KnownTyped'
    BY <1>4, <2>1, <2>2, KnownTypedStays DEF AdviceInv, TimePasses
  <2>. QED
    BY <1>4, <2>3 DEF AdviceInv, TimePasses
<1>5. CASE Learn
  <2>1. KnownTyped'
    BY <1>5, LearnTyped DEF AdviceInv
  <2>. QED
    BY <1>5, <2>1 DEF AdviceInv, Learn
<1>6. CASE OpenPage
  BY <1>2, <1>6, RefreshTyped DEF OpenPage, AdviceInv
<1>7. ASSUME NEW x \in Recomputes, ComputeProject(x)
      PROVE  AdviceInv'
  <2>1. PICK step \in {"LOADED", "READY"} :
          recompute' = [recompute EXCEPT ![x] = [step |-> step, advice |-> Advise]]
    BY <1>7 DEF ComputeProject
  <2>2. [step |-> step, advice |-> Advise] \in Computing
    BY AdviseIs DEF AdviceInv, Computing
  <2>3. recompute' \in [Recomputes -> {NotComputing} \cup Computing]
    BY <2>1, <2>2 DEF AdviceInv
  <2>. QED
    BY <1>2, <1>7, <2>3, RefreshTyped DEF ComputeProject, AdviceInv
<1>8. ASSUME NEW x \in Recomputes, ReadHistory(x)
      PROVE  AdviceInv'
  <2>1. recompute[x] \in Computing
    <3>1. recompute[x] \in {NotComputing} \cup Computing /\ recompute[x].step = "LOADED"
      BY <1>8 DEF ReadHistory, AdviceInv
    <3>. QED
      BY <3>1 DEF NotComputing
  <2>2. [recompute[x] EXCEPT !.step = "READY"] \in Computing
    BY <2>1 DEF Computing
  <2>3. recompute' = [recompute EXCEPT ![x] = IF ClosedUnchanged(recompute[x].advice) THEN NotComputing
                                              ELSE [recompute[x] EXCEPT !.step = "READY"]]
    BY <1>8 DEF ReadHistory
  <2>4. recompute' \in [Recomputes -> {NotComputing} \cup Computing]
    BY <2>2, <2>3 DEF AdviceInv
  <2>. QED
    BY <1>2, <1>8, <2>4 DEF ReadHistory, AdviceInv
<1>9. ASSUME NEW x \in Recomputes, SaveAction(x)
      PROVE  AdviceInv'
  BY <1>2, <1>9, SaveTyped DEF SaveAction, AdviceInv
<1>10. ASSUME NEW x \in Recomputes, RecomputeDies(x)
       PROVE  AdviceInv'
  BY <1>2, <1>10 DEF RecomputeDies, AdviceInv
<1>11. ASSUME NEW i \in DOMAIN nbaActions, NEW d \in NbaStates, DecideAction(i, d)
       PROVE  AdviceInv'
  BY <1>2, <1>11, DecideTyped DEF DecideAction, AdviceInv
<1>. QED
  BY <1>3, <1>4, <1>5, <1>6, <1>7, <1>8, <1>9, <1>10, <1>11 DEF NextActionNext

LEMMA AdviceInvTypes == AdviceInv => NextActionTypeOK
<1>. SUFFICES ASSUME AdviceInv
              PROVE  NextActionTypeOK
  OBVIOUS
<1>1. known.closed \in BOOLEAN /\ known.evidence \subseteq Fact /\ nbaDay \in Nat
  BY DaysAre DEF AdviceInv, KnownTyped
<1>2. \A s \in known.sightings : s.status \in Reviews /\ s.kind \in DOMAIN Registry /\ s.day \in Nat
  BY DaysAre DEF AdviceInv, KnownTyped, Sighting, Dated
<1>3. \A p \in known.posts : p.status \in Reviews /\ p.day \in Nat
  BY DaysAre DEF AdviceInv, KnownTyped, Post, Dated
<1>4. \A i \in DOMAIN nbaActions : nbaActions[i] \in Row
  BY LenProperties, ElementOfSeq DEF AdviceInv
<1>5. \A x \in Recomputes :
        /\ recompute[x].step \in {"IDLE", "LOADED", "READY"}
        /\ recompute[x].step # "IDLE" => recompute[x].advice \in Opportunity
  <2>1. ASSUME NEW x \in Recomputes
        PROVE  /\ recompute[x].step \in {"IDLE", "LOADED", "READY"}
               /\ recompute[x].step # "IDLE" => recompute[x].advice \in Opportunity
    <3>1. recompute[x] \in {NotComputing} \cup Computing
      BY DEF AdviceInv
    <3>. QED
      BY <3>1 DEF NotComputing, Computing
  <2>. QED
    BY <2>1
<1>6. ASSUME NEW i \in DOMAIN nbaActions
      PROVE  /\ nbaActions[i].advice \in Opportunity /\ nbaActions[i].state \in NbaStates
             /\ nbaActions[i].state = "SNOOZED" <=> nbaActions[i].wakes # NULL
  <2>1. nbaActions[i] \in Row
    BY <1>4
  <2>. QED
    BY <2>1 DEF Row, Recommendation
<1>7. \A i \in DOMAIN nbaActions :
        /\ nbaActions[i].advice \in Opportunity
        /\ nbaActions[i].state \in NbaStates
        /\ nbaActions[i].state = "SNOOZED" <=> nbaActions[i].wakes # NULL
  BY <1>6
<1>. QED
  BY <1>1, <1>2, <1>3, <1>5, <1>7, Zenon DEF NextActionTypeOK

LEMMA AdviceStarts == NextActionInit => AdviceInv
<1>. SUFFICES ASSUME NextActionInit
              PROVE  AdviceInv
  OBVIOUS
<1>1. PICK e \in Starts : known = [closed |-> FALSE, evidence |-> e, sightings |-> {}, posts |-> {}]
  BY DEF NextActionInit
<1>2. e \in SUBSET Fact
  BY NextActionAssumption
<1>3. KnownTyped
  BY <1>1, <1>2 DEF NextActionInit, KnownTyped, Apart
<1>4. recompute \in [Recomputes -> {NotComputing} \cup Computing]
  BY DEF NextActionInit
<1>5. nbaActions \in Seq(Row)
  BY DEF NextActionInit
<1>. QED
  BY <1>3, <1>4, <1>5 DEF AdviceInv

\* Whatever is found, reviewed, computed and decided, in any order, a recommendation names an action
\* and its rule, ends on a day, and is dated to wake when it is snoozed and only then
\* (nba_actions, 031_next_best_action.sql).
THEOREM NextActionTypes == NextActionSpec => []NextActionTypeOK
BY AdviceStarts, AdviceInvStays, AdviceInvTypes, PTL DEF NextActionSpec
=============================================================================
