---------------------------- MODULE MCNextAction ----------------------------
(* Instances of NextAction for TLC: three criteria, a region, three kinds. *)
(* A unit is a third of a point. The criteria weigh 59 2/3, 38 2/3 and     *)
(* 1 2/3: the verified score of the first is 60, and an estimate of the    *)
(* last is worth 2, with which the first as a directory estimates it       *)
(* reaches 50 and, once the last is verified, no longer does.              *)
EXTENDS NextAction, TLC

Weights == "fit" :> 179 @@ "need" :> 116 @@ "size" :> 5
ARegion == {<<"FR", "Occitanie", NULL, NULL, NULL>>}
Toulouse == {<<"FR", "Occitanie", "31", "Toulouse", NULL>>}
Vannes == {<<"FR", "Bretagne", "56", "Vannes", NULL>>}
Somewhere == {<<"FR", NULL, NULL, NULL, NULL>>}
SomeKinds ==
  "HIRING_SDR"     :> [weight |-> 95, half |-> 14, max |-> 60, explicit |-> TRUE, contact |-> TRUE] @@
  "NEW_LOCATION"   :> [weight |-> 60, half |-> 45, max |-> 180, explicit |-> FALSE, contact |-> TRUE] @@
  "PRODUCT_LAUNCH" :> [weight |-> 55, half |-> 30, max |-> 120, explicit |-> FALSE, contact |-> FALSE]
\* The ages the instances reach.
Halvings ==
  3  :> (0 :> 1000 @@ 7 :> 198 @@ 14 :> 39) @@
  14 :> (0 :> 1000 @@ 7 :> 707 @@ 14 :> 500) @@
  30 :> (0 :> 1000 @@ 7 :> 851 @@ 14 :> 724 @@ 30 :> 500) @@
  45 :> (0 :> 1000 @@ 7 :> 898 @@ 14 :> 806)

Says(c, v, t) == [criterion |-> c, value |-> v, trust |-> t]
Full == {Says(c, TRUE, "VERIFIED") : c \in {"fit", "need", "size"}}
OneContradiction == {Says("need", FALSE, "VERIFIED")}
AnAd == {[id |-> 1, kind |-> "HIRING_SDR", places |-> Toulouse]}

AllMet == {Full}

\* The criteria and the kinds that what follows names.
ASSUME InstanceAssumption ==
  /\ {"fit", "need", "size"} \subseteq Criteria
  /\ {"HIRING_SDR", "NEW_LOCATION", "PRODUCT_LAUNCH"} \subseteq DOMAIN Registry

\* A prospect of which anything may be known, on the day it is looked at.
SomeFacts == {Says("fit", TRUE, "VERIFIED"), Says("fit", FALSE, "VERIFIED"), Says("fit", TRUE, "DIRECTORY"), Says("fit", FALSE, "DECLARED"),
              Says("need", TRUE, "VERIFIED"), Says("need", TRUE, "DECLARED"), Says("size", TRUE, "WEBSITE")}
Ad(v, p, d) == [id |-> 1, kind |-> "HIRING_SDR", places |-> p, day |-> d, status |-> v]
AnyAd ==
  {{}} \cup {{Ad("VERIFIED", p, d)} : p \in {Toulouse, Vannes, Somewhere}, d \in {16, 30}}
       \cup {{Ad("PENDING_REVIEW", Toulouse, d)} : d \in {16, 30}}
Elsewhere(k, p, d, v) == {[id |-> 2, kind |-> k, places |-> p, day |-> d, status |-> v]}
AnyOpening ==
  {{}} \cup {Elsewhere("NEW_LOCATION", p, 23, "VERIFIED") : p \in {Toulouse, Somewhere}}
       \cup {Elsewhere("PRODUCT_LAUNCH", Toulouse, 0, v) : v \in {"PENDING_REVIEW", "VERIFIED"}}
AnyPost == {{}} \cup {{[id |-> 3, day |-> d, status |-> "VERIFIED"]} : d \in {16, 23}}
AdviceInit ==
  /\ known \in {[closed |-> FALSE, evidence |-> e, sightings |-> s \cup o, posts |-> p] :
                  e \in SUBSET SomeFacts, s \in AnyAd, o \in AnyOpening, p \in AnyPost}
  /\ nbaActions = <<>>
  /\ recompute = [x \in Recomputes |-> NotComputing]
  /\ nbaDay = 30
=============================================================================
