--------------------------- MODULE MCSelfOutreach ---------------------------
(***************************************************************************)
(* Instances of SelfOutreach for TLC. Two candidates k1, k2 and the ways   *)
(* they may be related: two people, or one person in two campaigns.        *)
(***************************************************************************)
EXTENDS SelfOutreach, TLC

CONSTANTS k1, k2, p1, p2, e1, c1, c2, o1, o2

Two == {k1, k2}
One == {k1}

ApartContact == k1 :> p1 @@ k2 :> p2
SameContact == k1 :> p1 @@ k2 :> p1
OneContact == k1 :> p1

TwoCampaigns == k1 :> c1 @@ k2 :> c2
OneCampaign == k1 :> c1

SharedEmail == p1 :> e1 @@ p2 :> e1
SameEmail == p1 :> e1
TwoOrgs == c1 :> o1 @@ c2 :> o2
OneOrg == c1 :> o1 @@ c2 :> o1
OneOrgOneCampaign == c1 :> o1

AllMessages == Msgs
FirstTwo == {<<k1, 0>>, <<k1, 1>>}
InitialAndBooking == {<<k1, 0>>, <<k1, 3>>}
BothInitial == {<<k1, 0>>, <<k2, 0>>}
OneInitial == {<<k1, 0>>}

WorkerSymmetry == Permutations(Workers)
=============================================================================
