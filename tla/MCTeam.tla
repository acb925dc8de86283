------------------------------- MODULE MCTeam -------------------------------
(* Instances of Team for TLC.                                              *)
EXTENDS Team, TLC

CONSTANTS u1, u2, u3, o1

OneOrg == o1 :> u1
Nothing == [seats |-> 3, active |-> FALSE]
SomePlans == {[seats |-> 2, active |-> TRUE], [seats |-> 3, active |-> TRUE], Nothing}
Bookkeeping == Permutations(Invites) \cup Permutations(Connections)
=============================================================================
