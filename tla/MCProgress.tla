----------------------------- MODULE MCProgress -----------------------------
(***************************************************************************)
(* The parts with liveness, for TLC: each alone, the choice being made at  *)
(* the start, under the fairness of both (in its first state, where a part *)
(* that is not chosen stays, none of its fair actions is enabled).         *)
(***************************************************************************)
EXTENDS MCBilling, MCMonitors

VARIABLE part

ProgressInit == part \in {"billing", "monitors"} /\ BillingInit /\ MonitorsInit
ProgressNext ==
  /\ UNCHANGED part
  /\ \/ part = "billing"  /\ BillingNext  /\ UNCHANGED monitorVars
     \/ part = "monitors" /\ MonitorsNext /\ UNCHANGED billingVars
ProgressSpec ==
  ProgressInit /\ [][ProgressNext]_<<part, billingVars, monitorVars>>
               /\ BillingFairness /\ MonitorsFairness
=============================================================================
