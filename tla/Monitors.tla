------------------------------ MODULE Monitors ------------------------------
(***************************************************************************)
(* The monitored prospects of ProspectOS and the daily cron that looks for *)
(* new signals (db/migrations/026_signal_monitoring.sql,                   *)
(* src/signals/monitor.ts, app/api/cron/signals/route.ts).                 *)
(*                                                                         *)
(* The queue is a table: a claim is one transaction, and a claimed run has *)
(* a lease of 10 minutes while an invocation lives 60 seconds at most. An  *)
(* invocation may die, run out of its 45 seconds, or lose the answer of    *)
(* any call. A closed run leaves only the key of its day.                  *)
(***************************************************************************)
EXTENDS Commons, Integers, Sequences, FiniteSets

CONSTANTS
  Prospects,    \* prospects of an organization
  Askers,       \* its members who monitor prospects
  AskedBy,      \* AskedBy[p]: the one who monitors p, created_by (a bound: always the same)
  Crons,        \* invocations of the cron that may overlap
  AskerStates,  \* what may become of a member (a bound)
  BatchLimit,   \* p_limit
  MonitorCap    \* prospects the plan allows to monitor

ASSUME MonitorsAssumption ==
  /\ IsFiniteSet(Prospects) /\ AskedBy \in [Prospects -> Askers]
  /\ AskerStates \subseteq {"ACTIVE", "AWAY", "LEFT"}
  /\ BatchLimit \in Nat \ {0} /\ MonitorCap \in Nat

MaxTakes == 3    \* attempts of a run

VARIABLES
  monitor,    \* monitored_prospects: OFF (no row), ON, or its paused_reason
  asker,      \* a member is ACTIVE, AWAY for 30 days, or has LEFT
  dueList,    \* prospects whose next_run_at passed, oldest first
  keyUsed,    \* prospects with a run of today (idempotency_key)
  takes,      \* attempts of the running run of a prospect, 0 when there is none (a bound:
              \* the code lets a prospect have a run of today and a lapsed one of a day before)
  lapsed,     \* running runs whose lease expired, oldest first
  batch       \* what an invocation claimed and still has to do, the run in hand first

monitorVars == <<monitor, asker, dueList, keyUsed, takes, lapsed, batch>>
table == <<monitor, asker, dueList, keyUsed>>

Elements(s) == {s[i] : i \in DOMAIN s}
HasRun(p) == takes[p] > 0
Distinct(s) == \A i, j \in DOMAIN s : i # j => s[i] # s[j]
\* The first n of a sequence, and those of it that are in a set, in their order.
FirstOf(s, n) == SubSeq(s, 1, IF Len(s) < n THEN Len(s) ELSE n)
Among(s, S) ==
  LET at == {i \in DOMAIN s : s[i] \in S}
      nth(k) == CHOOSE i \in at : Cardinality({j \in at : j < i}) = k - 1
  IN  [k \in 1..Cardinality(at) |-> s[nth(k)]]

MonitorsInit ==
  /\ monitor = [p \in Prospects |-> "OFF"]
  /\ asker = [u \in Askers |-> "ACTIVE"]
  /\ dueList = <<>> /\ keyUsed = {}
  /\ takes = [r \in Prospects |-> 0] /\ lapsed = <<>>
  /\ batch = [w \in Crons |-> <<>>]

-----------------------------------------------------------------------------
(* Members.                                                                *)

\* set_prospect_monitoring: a new row is due now; an old one is resumed.
StartMonitoring(p) ==
  /\ asker[AskedBy[p]] = "ACTIVE"
  /\ Cardinality({q \in Prospects \ {p} : monitor[q] # "OFF"}) < MonitorCap
  /\ dueList' = IF monitor[p] = "OFF" THEN Append(dueList, p) ELSE dueList
  /\ monitor' = [monitor EXCEPT ![p] = "ON"]
  /\ UNCHANGED <<asker, keyUsed, takes, lapsed, batch>>
StopMonitoring(p) ==
  /\ monitor[p] # "OFF"
  /\ monitor' = [monitor EXCEPT ![p] = "OFF"]
  /\ dueList' = Among(dueList, Prospects \ {p})
  /\ UNCHANGED <<asker, keyUsed, takes, lapsed, batch>>

\* The asker leaves the organization, stays away for 30 days, or comes back.
AskerIs(u, a) ==
  /\ asker[u] # "LEFT" /\ asker[u] # a
  /\ asker' = [asker EXCEPT ![u] = a]
  /\ UNCHANGED <<monitor, dueList, keyUsed, takes, lapsed, batch>>

-----------------------------------------------------------------------------
(* claim_signal_monitors.                                                  *)

\* Lapsed runs: those taken three times are failed, the oldest others are taken again.
Faulty_NoneSpent == {}
Spent == {r \in Elements(lapsed) : takes[r] >= MaxTakes}
Retaken == FirstOf(Among(lapsed, {p \in Prospects : takes[p] < MaxTakes}), BatchLimit)

\* The three updates of paused_reason, in the code's order.
Resumed(p) == monitor[p] = "inactive" /\ asker[AskedBy[p]] # "AWAY"
Paused(p) ==
  LET now == IF Resumed(p) THEN "ON" ELSE monitor[p]
  IN  IF now # "ON" THEN now
      ELSE CASE asker[AskedBy[p]] = "LEFT"   -> "member_left"
             [] asker[AskedBy[p]] = "AWAY"   -> "inactive"
             [] asker[AskedBy[p]] = "ACTIVE" -> "ON"

\* A resumed monitor is due now, unless it already was.
Faulty_DueTwice ==
  LET back == {p \in Prospects : Resumed(p)}
  IN  {dueList \o s : s \in {t \in [1..Cardinality(back) -> back] : Elements(t) = back}}
DueNow ==
  LET back == {p \in Prospects : Resumed(p)} \ Elements(dueList)
  IN  {dueList \o s : s \in {t \in [1..Cardinality(back) -> back] : Elements(t) = back}}

\* A monitor that is not paused; a bound: its last run is closed.
MayRun(p) == Paused(p) = "ON" /\ ~HasRun(p)

\* What may be claimed: the first of the queue, of which a monitor whose key of today exists is put
\* off to its next date without a run.
Taken ==
  {[queue |-> queue, first |-> FirstOf(Among(queue, {p \in Prospects : MayRun(p)}), BatchLimit - Len(Retaken))]
   : queue \in DueNow}
Claims ==
  {[due |-> Among(t.queue, Prospects \ Elements(t.first)), keys |-> Elements(t.first) \ keyUsed,
    todo |-> Retaken \o Among(t.first, Prospects \ keyUsed)] : t \in Taken}

\* One transaction of an invocation that begins, or that has done all of a full batch.
ClaimMonitors(w) ==
  /\ batch[w] = <<>>
  /\ monitor' = [p \in Prospects |-> Paused(p)]
  /\ UNCHANGED asker
  /\ \E claim \in Claims :
       /\ dueList' = claim.due
       /\ keyUsed' = keyUsed \cup claim.keys
       /\ takes' = [p \in Prospects |-> CASE p \in Spent                -> 0
                                       [] p \in Elements(claim.todo) -> takes[p] + 1
                                       [] OTHER                      -> takes[p]]
       /\ batch' = [batch EXCEPT ![w] = claim.todo]
       /\ lapsed' = Among(lapsed, Prospects \ (Spent \cup Elements(claim.todo)))

-----------------------------------------------------------------------------
(* runMonitorBatch: one run after the other.                               *)

\* The sources of the run in hand are read and its signals saved, or not; then it is closed
\* by complete_signal_run, on a running run only, unless that call fails.
CloseRun(w) ==
  /\ batch[w] # <<>>
  /\ LET p == Head(batch[w])
     IN  \/ /\ takes' = [takes EXCEPT ![p] = 0]
            /\ lapsed' = Among(lapsed, Prospects \ {p})
         \/ UNCHANGED <<takes, lapsed>>
  /\ batch' = [batch EXCEPT ![w] = Tail(@)]
  /\ UNCHANGED table

\* Out of the time budget, killed, or the answer of the claim was lost: what the invocation
\* was to do waits for its lease.
Stops(w) ==
  /\ batch[w] # <<>>
  /\ batch' = [batch EXCEPT ![w] = <<>>]
  /\ UNCHANGED <<table, takes, lapsed>>

-----------------------------------------------------------------------------
(* Time.                                                                   *)

Faulty_NeverHeld(p) == FALSE
Held(p) == \E w \in Crons : p \in Elements(batch[w])

\* Ten minutes: no invocation that was handed the run still lives.
LeaseLapses(p) ==
  /\ HasRun(p) /\ p \notin Elements(lapsed) /\ ~Held(p)
  /\ lapsed' = Append(lapsed, p)
  /\ UNCHANGED <<table, takes, batch>>

\* Another day: the keys of the day before no longer stand in the way, and monitors
\* whose next date has come are due.
DayBegins ==
  /\ keyUsed # {}
  /\ keyUsed' = {}
  /\ UNCHANGED <<monitor, asker, dueList, takes, lapsed, batch>>
Faulty_JumpsTheQueue(p) ==
  /\ monitor[p] # "OFF" /\ p \notin Elements(dueList) /\ p \notin keyUsed
  /\ dueList' = <<p>> \o dueList
  /\ UNCHANGED <<monitor, asker, keyUsed, takes, lapsed, batch>>
FallsDue(p) ==
  /\ monitor[p] # "OFF" /\ p \notin Elements(dueList) /\ p \notin keyUsed
  /\ dueList' = Append(dueList, p)
  /\ UNCHANGED <<monitor, asker, keyUsed, takes, lapsed, batch>>

MonitorsNext ==
  \/ \E p \in Prospects : StartMonitoring(p) \/ StopMonitoring(p) \/ FallsDue(p) \/ LeaseLapses(p)
  \/ \E u \in Askers, a \in AskerStates : AskerIs(u, a)
  \/ \E w \in Crons : ClaimMonitors(w) \/ CloseRun(w) \/ Stops(w)
  \/ DayBegins

\* The cron runs every day, an invocation goes on or is stopped, a lease ends in time.
MonitorsFairness ==
  /\ WF_monitorVars(\E w \in Crons : ClaimMonitors(w))
  /\ \A w \in Crons : WF_monitorVars(CloseRun(w) \/ Stops(w))
  /\ \A p \in Prospects : WF_monitorVars(LeaseLapses(p))

MonitorsSpec == MonitorsInit /\ [][MonitorsNext]_monitorVars
MonitorsFairSpec == MonitorsSpec /\ MonitorsFairness

-----------------------------------------------------------------------------
(* Properties.                                                             *)

\* Type invariant: a lapsed run is running, nothing is in a queue twice.
MonitorsTypeOK ==
  /\ monitor \in [Prospects -> {"OFF", "ON", "inactive", "member_left"}]
  /\ asker \in [Askers -> {"ACTIVE", "AWAY", "LEFT"}]
  /\ dueList \in Seq(Prospects) /\ Distinct(dueList)
  /\ \A p \in Elements(dueList) : monitor[p] # "OFF"
  /\ keyUsed \subseteq Prospects
  /\ takes \in [Prospects -> 0..MaxTakes]
  /\ lapsed \in Seq(Prospects) /\ Distinct(lapsed)
  /\ \A p \in Elements(lapsed) : HasRun(p)
  /\ batch \in [Crons -> Seq(Prospects)]

\* "Never doubled" (monitor.ts): two invocations never have the same run to do, and an
\* invocation never closes a run that a later claim took.
OneInvocationPerRun ==
  \A v, w \in Crons : v # w => Elements(batch[v]) \cap Elements(batch[w]) = {}

\* "Never lost" (monitor.ts): whatever dies, a running run is closed in the end, because a
\* lapsed lease is taken again or failed.
RunCloses == \A p \in Prospects : HasRun(p) ~> ~HasRun(p)

\* A due monitor is served, however many lapsed runs are taken before it: it gets a run, is
\* put off because it ran today, or is paused or stopped.
DueIsServed ==
  \A p \in Prospects : (monitor[p] = "ON" /\ p \in Elements(dueList)) ~> (monitor[p] # "ON" \/ p \notin Elements(dueList))
=============================================================================
