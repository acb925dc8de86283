---------------------------- MODULE MCDiscovery ----------------------------
(* Instances of Discovery for TLC: a search for new companies, a search    *)
(* used again twice over, a search of three queries.                       *)
EXTENDS Discovery, TLC

CONSTANTS k1, k2, g, r1, r2, r3, r4, r5

OnePage == g :> {k2}
QueriesOf == r1 :> 3 @@ r2 :> 1 @@ r3 :> 1 @@ r4 :> 1 @@ r5 :> 3
SomeLaunches == {{}, {r1}, {r5}, {r2, r3, r4}}
=============================================================================
