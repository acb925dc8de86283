----------------------------- MODULE MCMerging -----------------------------
(* Instances of Merging for TLC: an opening, told in several ways.         *)
EXTENDS Merging, TLC

CONSTANTS shop, lyon, paris

Near(d) == [departments |-> {d}, town |-> d]
Opening(place, date) == [who |-> shop, excerpt |-> NULL, where |-> place, when |-> date]
Openings ==
  {Opening(place, date) : place \in {NULL, Near(lyon), Near(paris)}, date \in {<<>>, <<2027, 3>>, <<2027, 4>>}}
Unsigned == {[who |-> NULL, excerpt |-> e, where |-> NULL, when |-> <<>>] : e \in {lyon, paris}}
OpeningsAndUnsigned == Openings \cup Unsigned
=============================================================================
