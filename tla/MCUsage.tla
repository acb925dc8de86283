------------------------------ MODULE MCUsage ------------------------------
(* Instances of Usage for TLC: two members of a team.                      *)
EXTENDS Usage, TLC

CONSTANTS a1, a2, t1, own, q1, q2

InTheTeam == a1 :> {t1} @@ a2 :> {t1}
WithAnOrganization == a1 :> {t1} @@ a2 :> {t1, own}
OneTeam == a1 :> t1 @@ a2 :> t1
Everything == a1 :> {"analysis", "discovery"} @@ a2 :> QuotaActions
Searches == a1 :> {"discovery"} @@ a2 :> {"discovery"}
RequestSymmetry == Permutations(Requests)
=============================================================================
