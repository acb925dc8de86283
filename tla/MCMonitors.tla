----------------------------- MODULE MCMonitors -----------------------------
(* Instances of Monitors for TLC: two prospects, two invocations.          *)
EXTENDS Monitors, TLC

CONSTANTS n1, n2, m1

OneAsker == n1 :> m1 @@ n2 :> m1
=============================================================================
