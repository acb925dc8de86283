----------------------------- MODULE MCSignals ------------------------------
(* Instances of Signals for TLC: an event told twice, a candidate of it. *)
EXTENDS Signals, TLC

CONSTANTS y1, y2, l1, z1, lead1, lead2

Events == y1 :> "opening" @@ y2 :> "opening"
FoundOnce == l1 :> z1
Told == l1 :> y1
=============================================================================
