------------------------------ MODULE Merging -------------------------------
(***************************************************************************)
(* How the results of one search become one candidate per organization     *)
(* (mergeSameEntityCandidates, src/discovery/admissibility.ts) and one per *)
(* event (mergeSameEvents, src/signal-discovery/rank.ts).                  *)
(*                                                                         *)
(* Both go through a list once, in its order: a step is its next result,   *)
(* so that what was read is itself a list. A name is entityCore of it, a   *)
(* site a registrable domain; legal identifiers, which either all pages of *)
(* a search have or none, are left out. The events are of one type: those  *)
(* of two types never meet.                                                *)
(***************************************************************************)
EXTENDS Commons, Naturals, Sequences

CONSTANTS
  Cores,      \* names
  Generic,    \* those without a distinctive word
  Domains,    \* websites
  Announced,  \* results that announce an event
  MaxRead     \* results of a search (a bound)

ASSUME MergingAssumption == NULL \notin Cores \cup Domains /\ Generic \subseteq Cores /\ MaxRead \in Nat

VARIABLES
  kept,     \* candidates: organizations, each with the pages it stands for
  groups,   \* candidates: events, each with its results
  unread    \* results that may follow

mergingVars == <<kept, groups, unread>>

Page == [name : Cores, site : Domains \cup {NULL}, admissible : BOOLEAN]

MergingInit == kept = <<>> /\ groups = <<>> /\ unread = MaxRead
\* What comes first in the list.
First(k, S) == \A j \in S : k <= j
ReadNext == unread > 0 /\ unread' = unread - 1

-----------------------------------------------------------------------------
(* Organizations.                                                          *)

\* sameEntity: the websites decide when both are known.
SameEntity(a, b) ==
  IF NULL \notin {a.site, b.site} THEN a.site = b.site ELSE a.name = b.name /\ a.name \notin Generic

\* The page with the organization's own website comes first.
Faulty_FirstCome(t, c) == t
Primary(t, c) == IF t.site = NULL /\ c.site # NULL THEN c ELSE t
Joined(t, c) ==
  [name |-> Primary(t, c).name, site |-> Primary(t, c).site, admissible |-> TRUE, pages |-> t.pages \cup {c}]

ReadPage(c) ==
  /\ groups = <<>> /\ ReadNext
  /\ LET same == {k \in DOMAIN kept : kept[k].admissible /\ c.admissible /\ SameEntity(kept[k], c)}
         alone == [name |-> c.name, site |-> c.site, admissible |-> c.admissible, pages |-> {c}]
     IN  \/ same = {} /\ kept' = Append(kept, alone)
         \/ \E k \in same : First(k, same) /\ kept' = [kept EXCEPT ![k] = Joined(kept[k], c)]
  /\ UNCHANGED groups

-----------------------------------------------------------------------------
(* Events: who (NULL when not resolved), where (NULL, or the departments   *)
(* and the town written), when (<<>>, <<year>> or <<year, month>>).        *)

SamePlace(a, b) ==
  \/ NULL \in {a.where, b.where}
  \/ a.where.departments \cap b.where.departments # {}
  \/ a.where.departments = {} /\ b.where.departments = {} /\ a.where.town = b.where.town
Begins(s, t) == Len(s) <= Len(t) /\ \A i \in 1..Len(s) : s[i] = t[i]
SamePeriod(a, b) == Begins(a.when, b.when) \/ Begins(b.when, a.when)

\* sameEvent: an event of nobody known is only the same when written in the same words.
SameEvent(a, b) ==
  IF NULL \in {a.who, b.who} THEN a.excerpt = b.excerpt ELSE a.who = b.who /\ SamePlace(a, b) /\ SamePeriod(a, b)

ReadResult(c) ==
  /\ kept = <<>> /\ ReadNext
  /\ LET same == {k \in DOMAIN groups : \E x \in groups[k] : SameEvent(x, c)}
     IN  \/ same = {} /\ groups' = Append(groups, {c})
         \/ \E k \in same : First(k, same) /\ groups' = [groups EXCEPT ![k] = groups[k] \cup {c}]
  /\ UNCHANGED kept

MergingNext == (\E c \in Page : ReadPage(c)) \/ (\E c \in Announced : ReadResult(c))
MergingSpec == MergingInit /\ [][MergingNext]_mergingVars

-----------------------------------------------------------------------------
(* Properties.                                                             *)

\* Type invariant.
MergingTypeOK ==
  /\ unread \in 0..MaxRead /\ Len(kept) + Len(groups) <= MaxRead
  /\ \A k \in 1..Len(kept) : kept[k].name \in Cores /\ kept[k].pages \in (SUBSET Page) \ {{}}
  /\ \A k \in 1..Len(groups) : groups[k] \in (SUBSET Announced) \ {{}}

\* Pages are merged one after the other, by website or by name, with a candidate that is
\* itself several pages: whatever their order, two different websites never end in one
\* candidate (admissibility.ts: "never when two different websites conflict"), and one of
\* its pages having a website, it is the candidate's.
SitesStayApart ==
  \A k \in 1..Len(kept) : \A p \in kept[k].pages : p.site \in {NULL, kept[k].site}

\* "Different place = different event" (tests/signal-discovery.test.ts): results that are all
\* resolved, placed in one department or town and dated to the month are only grouped when
\* they agree. One without a place or a date may join two that do not (rank.ts:135).
Precise(x) == NULL \notin {x.who, x.where} /\ Len(x.when) = 2 /\ \A d, e \in x.where.departments : d = e
PreciseEventsStayApart ==
  \A k \in 1..Len(groups) : (\A x \in groups[k] : Precise(x)) => \A x, y \in groups[k] : SameEvent(x, y)

\* Both: however the pages and the results are ordered, merging never joins what their
\* sites, or their places and months, tell apart.
MergesAgree == SitesStayApart /\ PreciseEventsStayApart
=============================================================================
