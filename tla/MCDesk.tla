------------------------------- MODULE MCDesk -------------------------------
(***************************************************************************)
(* The parts without liveness, for TLC: each alone, the choice being made  *)
(* at the start, so that one run goes through the states of all of them.   *)
(* Billing is two of them: checkouts overlap, or webhook requests do; and  *)
(* so are the quotas: each action is locked and counted apart.             *)
(***************************************************************************)
EXTENDS MCTeam, MCUsage, MCDiscovery, Digest, MCMonitors, MCBilling, MCIcpImport,
        MCSignals, MCMerging

CONSTANTS d2, h2    \* the second checkout and the second webhook request

VARIABLE part

DeskInit ==
  /\ part \in {"team", "analyses", "launches", "search", "digest", "monitors", "checkouts", "webhooks", "imports",
              "signals", "merging"}
  /\ Init /\ UsageInit /\ DiscoveryInit /\ DigestInit /\ MonitorsInit /\ BillingInit /\ IcpInit
  /\ SignalsInit /\ MergingInit
  /\ part # "search" => run = Waiting({})
  /\ opened = {lead1}
Others(p) ==
  /\ part = p
  /\ p # "team"     => UNCHANGED vars
  /\ p \notin {"analyses", "launches"} => UNCHANGED usageVars
  /\ p # "search"   => UNCHANGED discoveryVars
  /\ p # "digest"   => UNCHANGED digestVars
  /\ p # "monitors" => UNCHANGED monitorVars
  /\ p \notin {"checkouts", "webhooks"} => UNCHANGED billingVars
  /\ p # "imports"  => UNCHANGED icpVars
  /\ p # "signals"  => UNCHANGED signalVars
  /\ p # "merging"  => UNCHANGED mergingVars
Launching(c) == request[c] # NoRequest /\ request[c].action = "discovery"
DeskNext ==
  /\ UNCHANGED part
  /\ \/ Others("team")      /\ Next
     \/ Others("analyses")  /\ UsageNext /\ \A c \in Requests : ~Launching(c)'
     \/ Others("launches")  /\ UsageNext /\ \A c \in Requests : request'[c] = NoRequest \/ Launching(c)'
     \/ Others("search")    /\ DiscoveryNext
     \/ Others("digest")    /\ DigestNext
     \/ Others("monitors")  /\ MonitorsNext
     \/ Others("checkouts") /\ BillingNext /\ job'[h2] = NULL
     \/ Others("webhooks")  /\ BillingNext /\ call'[d2] = NULL
     \/ Others("imports")   /\ IcpNext
     \/ Others("signals")   /\ SignalsNext
     \/ Others("merging")   /\ MergingNext
DeskSpec ==
  DeskInit /\ [][DeskNext]_<<part, vars, usageVars, discoveryVars, digestVars, monitorVars, billingVars,
                     icpVars, signalVars, mergingVars>>

\* Type invariant of the part that moves; the others are as DeskInit leaves them.
DeskTypes ==
  /\ part = "team"     => TypeOK
  /\ part \in {"analyses", "launches"} => UsageTypeOK
  /\ part = "search"   => DiscoveryTypeOK
  /\ part = "digest"   => DigestTypeOK
  /\ part = "monitors" => MonitorsTypeOK
  /\ part \in {"checkouts", "webhooks"} => BillingTypeOK
  /\ part = "imports"  => IcpTypeOK
  /\ part = "signals"  => SignalsTypeOK
  /\ part = "merging"  => MergingTypeOK
=============================================================================
