----------------------------- MODULE DeskProofs -----------------------------
(***************************************************************************)
(* The parts that MCDesk puts side by side, for any constants: each goes   *)
(* through behaviours of its own specification and no others, so that what *)
(* is proved of it alone holds there.                                      *)
(***************************************************************************)
EXTENDS MCDesk, TeamProofs, SearchProofs, JobProofs, BillingProofs

deskVars == <<part, vars, usageVars, discoveryVars, digestVars, monitorVars, billingVars, icpVars,
              signalVars, mergingVars>>

LEMMA PartsAlone ==
  /\ DeskSpec => Spec
  /\ DeskSpec => UsageSpec
  /\ DeskSpec => DiscoverySpec
  /\ DeskSpec => DigestSpec
  /\ DeskSpec => MonitorsSpec
  /\ DeskSpec => BillingSpec
  /\ DeskSpec => IcpSpec
  /\ DeskSpec => SignalsSpec
  /\ DeskSpec => MergingSpec
<1>1. DeskInit => /\ Init /\ UsageInit /\ DiscoveryInit /\ DigestInit /\ MonitorsInit /\ BillingInit
                  /\ IcpInit /\ SignalsInit /\ MergingInit
  BY DEF DeskInit
<1>2. [DeskNext]_deskVars =>
        /\ [Next]_vars /\ [UsageNext]_usageVars /\ [DiscoveryNext]_discoveryVars
        /\ [DigestNext]_digestVars /\ [MonitorsNext]_monitorVars /\ [BillingNext]_billingVars
        /\ [IcpNext]_icpVars /\ [SignalsNext]_signalVars /\ [MergingNext]_mergingVars
  <2>1. CASE UNCHANGED deskVars
    BY <2>1 DEF deskVars
  <2>2. CASE Others("team") /\ Next
    BY <2>2 DEF Others
  <2>3. CASE (Others("analyses") \/ Others("launches")) /\ UsageNext
    BY <2>3 DEF Others
  <2>4. CASE Others("search") /\ DiscoveryNext
    BY <2>4 DEF Others
  <2>5. CASE Others("digest") /\ DigestNext
    BY <2>5 DEF Others
  <2>6. CASE Others("monitors") /\ MonitorsNext
    BY <2>6 DEF Others
  <2>7. CASE (Others("checkouts") \/ Others("webhooks")) /\ BillingNext
    BY <2>7 DEF Others
  <2>8. CASE Others("imports") /\ IcpNext
    BY <2>8 DEF Others
  <2>9. CASE Others("signals") /\ SignalsNext
    BY <2>9 DEF Others
  <2>10. CASE Others("merging") /\ MergingNext
    BY <2>10 DEF Others
  <2>. QED
    BY <2>1, <2>2, <2>3, <2>4, <2>5, <2>6, <2>7, <2>8, <2>9, <2>10 DEF DeskNext
<1>3. DeskSpec <=> (DeskInit /\ [][DeskNext]_deskVars)
  BY DEF DeskSpec, deskVars
<1>. QED
  BY <1>1, <1>2, <1>3, PTL
     DEF Spec, UsageSpec, DiscoverySpec, DigestSpec, MonitorsSpec, BillingSpec, IcpSpec, SignalsSpec,
         MergingSpec

\* Whatever the part that moves, its variables have their types.
THEOREM EveryDeskIsTyped == DeskSpec => []DeskTypes
<1>1. UsageInv => UsageTypeOK
  BY DEF UsageInv
<1>2. DiscoveryInv => DiscoveryTypeOK
  BY DEF DiscoveryInv
<1>3. DigestInv => DigestTypeOK
  BY DEF DigestInv
<1>4. MonitorsInv => MonitorsTypeOK
  BY DEF MonitorsInv
<1>5. /\ TypeOK /\ UsageTypeOK /\ DiscoveryTypeOK /\ DigestTypeOK /\ MonitorsTypeOK
      /\ BillingTypeOK /\ IcpTypeOK /\ SignalsTypeOK /\ MergingTypeOK
      => DeskTypes
  BY DEF DeskTypes
<1>. QED
  BY <1>1, <1>2, <1>3, <1>4, <1>5, PartsAlone, TeamTypes, UsageInvariant, DiscoveryInvariant,
     DigestInvariant, MonitorsInvariant, BillingTypes, IcpTypes, SignalsTypes, MergingTypes, PTL
=============================================================================
