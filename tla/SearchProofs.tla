---------------------------- MODULE SearchProofs ----------------------------
(***************************************************************************)
(* Proofs about Discovery, for any launches, companies, pages and queries, *)
(* about Merging, for any sources and sightings, and about Signals, for    *)
(* any prospects, items and searches.                                      *)
(***************************************************************************)
EXTENDS Discovery, Merging, Signals, FiniteSetTheorems, SequenceTheorems, TLAPS

(* One launch: its row, its request, what was asked of the source, the     *)
(* cost that was recorded and the results.                                 *)
Pooled == {"READ", "SEARCH", "EXPAND", "METER", "SAVE"}
OneRun(row, job, asked, cost, found, queries) ==
  /\ row \in {NoRun, NeverLaunched} => job = NoJob /\ asked = NoAnswer /\ cost = 0 /\ found = {}
  /\ asked.answered <= asked.all /\ asked.all <= MaxProviderCalls
  \* Requests are counted, and a pass is made in the time budget.
  /\ job.step = "READ" => asked.all = 0 /\ job.calls = 0
  /\ job.step = "SEARCH" => asked.all = job.calls /\ job.calls <= queries /\ queries <= MaxProviderCalls
  /\ job.step \in {"SEARCH", "EXPAND"} =>
       /\ job.calls = 0 => job.elapsed <= PassTimeout
       /\ job.memory => job.elapsed <= TimeBudget
  /\ job.step = "METER" => job.elapsed <= TimeBudget
  \* The cost is recorded when no request is made any more.
  /\ cost # 0 => cost = asked.all /\ job.step \notin {"READ", "SEARCH", "EXPAND"}
  \* What the source did not answer has no results, and a unit is given back for that only.
  /\ row \in DiscoveryRun =>
       /\ row.source = NULL /\ asked.answered = 0 => found = {} /\ (job.step \in Pooled => job.pool = {})
       /\ row.unit = "billed" => row.source = NULL
       /\ row.unit = "released" => row.status = "failed" /\ job = NoJob /\ found = {}
       /\ row.source # NULL => row.started - row.origin < Fresh

EachRun == \A r \in Runs : OneRun(run[r], driver[r], sent[r], ledger[r], results[r], Queries[r])

(* A run that uses another again starts from the search that one came from.*)
Retraces(f) == f = [r \in Runs |-> IF Reuse(r) THEN f[run[r].source] ELSE r]
Traced(f) ==
  \A r \in Runs : run[r] \in DiscoveryRun =>
    f[r] \in Runs /\ run[f[r]] \in DiscoveryRun /\ run[f[r]].started = run[r].origin
Sources ==
  \A r \in Runs : Reuse(r) => run[r].source \in Runs /\ run[run[r].source] \in DiscoveryRun

TraceInv == Sources /\ (\E f : Retraces(f)) /\ (\A f : Retraces(f) => Traced(f))

DiscoveryInv == DiscoveryTypeOK /\ EachRun /\ TraceInv

-----------------------------------------------------------------------------
(* Types.                                                                  *)

LEMMA SizeOfPool ==
  ASSUME NEW S \in SUBSET Candidates
  PROVE  Cardinality(S) \in Nat
<1>1. IsFiniteSet(Candidates)
  BY DiscoveryAssumption, FS_Union DEF Candidates
<1>. QED
  BY <1>1, FS_Subset, FS_CardinalityType

LEMMA JobTypes ==
  ASSUME DiscoveryTypeOK, NEW r \in Runs
  PROVE  /\ driver[r].step \in {"READ", "SEARCH", "EXPAND"} => driver[r] \in Searching
         /\ driver[r].step \in Pooled => driver[r].pool \subseteq Candidates
         /\ driver[r].step = "METER" => driver[r].elapsed \in Nat
         /\ driver[r].step = "FINISH" => driver[r].count \in Nat
         /\ driver[r] # NoJob => driver[r].step # "NONE"
<1>1. driver[r] \in JobState
  BY DEF DiscoveryTypeOK
<1>2. driver[r].step \in {"READ", "SEARCH", "EXPAND"} => driver[r] \in Searching
  BY <1>1 DEF JobState, NoJob, Searching
<1>3. driver[r].step \in Pooled => driver[r].pool \subseteq Candidates
  BY <1>1 DEF JobState, NoJob, Searching, Pooled
<1>4. driver[r].step = "METER" => driver[r].elapsed \in Nat
  BY <1>1 DEF JobState, NoJob, Searching
<1>5. driver[r].step = "FINISH" => driver[r].count \in Nat
  BY <1>1 DEF JobState, NoJob, Searching
<1>6. driver[r] # NoJob => driver[r].step # "NONE"
  BY <1>1 DEF JobState, Searching
<1>. QED
  BY <1>2, <1>3, <1>4, <1>5, <1>6

LEMMA DrivenIsLaunched ==
  ASSUME DiscoveryTypeOK, EachRun, NEW r \in Runs, driver[r] # NoJob
  PROVE  run[r] \in DiscoveryRun
BY DEF DiscoveryTypeOK, EachRun, OneRun

(* A step of one run leaves the others alone.                              *)
Apart(r) ==
  /\ \A q \in Runs \ {r} : /\ driver'[q] = driver[q] /\ sent'[q] = sent[q]
                           /\ ledger'[q] = ledger[q] /\ results'[q] = results[q]
  /\ day' = day
RowsStay == run' = run
LaunchMoves(r) == OneRun(run'[r], driver'[r], sent'[r], ledger'[r], results'[r], Queries[r])

LEMMA StepOfOneRun ==
  ASSUME EachRun, NEW r \in Runs, Apart(r), LaunchMoves(r), \A q \in Runs \ {r} : run'[q] = run[q]
  PROVE  EachRun'
BY DEF EachRun, Apart, LaunchMoves

(* Steps that change the request of the run and nothing else.              *)
LEMMA LaunchRequestTyped ==
  ASSUME DiscoveryTypeOK, NEW r \in Runs, NEW job \in JobState,
         driver' = [driver EXCEPT ![r] = job], UNCHANGED <<day, run, results, sent, ledger>>,
         job = NoJob \/ job.step \in {"FAILED", "RELEASE"} \/ run[r].status = "running"
  PROVE  DiscoveryTypeOK' /\ Apart(r)
<1>1. driver' \in [Runs -> JobState] /\ \A q \in Runs : driver'[q] = IF q = r THEN job ELSE driver[q]
  BY DEF DiscoveryTypeOK
<1>. QED
  BY <1>1 DEF DiscoveryTypeOK, Apart

LEMMA BreakTyped == [step |-> "FAILED"] \in JobState /\ NoJob \in JobState
BY DEF JobState

LEMMA StopsStep ==
  ASSUME DiscoveryTypeOK, EachRun, NEW r \in Runs, ReadFails(r) \/ JobDies(r)
  PROVE  DiscoveryTypeOK' /\ Apart(r) /\ LaunchMoves(r) /\ run' = run
<1>1. PICK job \in {[step |-> "FAILED"], NoJob} :
        driver' = [driver EXCEPT ![r] = job] /\ UNCHANGED <<day, run, results, sent, ledger>>
  BY DEF ReadFails, JobDies, Breaks
<1>2. driver'[r] = job
  BY <1>1 DEF DiscoveryTypeOK
<1>3. driver[r] # NoJob /\ run[r] \in DiscoveryRun
  BY DrivenIsLaunched DEF ReadFails, JobDies, AtStep, NoJob
<1>4. LaunchMoves(r)
  <2>1. OneRun(run[r], driver[r], sent[r], ledger[r], results[r], Queries[r])
    BY DEF EachRun
  <2>2. driver'[r].step \notin Pooled
    BY <1>2 DEF Pooled, NoJob
  <2>3. driver'[r].step \in {"FAILED", "NONE"}
    BY <1>2 DEF NoJob
  <2>. QED
    BY <1>1, <1>3, <2>1, <2>2, <2>3 DEF LaunchMoves, OneRun, NoRun, NeverLaunched, DiscoveryRun
<1>. QED
  BY <1>1, <1>4, BreakTyped, LaunchRequestTyped

-----------------------------------------------------------------------------
(* The search.                                                             *)

LEMMA ReadStep ==
  ASSUME DiscoveryTypeOK, EachRun, NEW r \in Runs, Read(r)
  PROVE  DiscoveryTypeOK' /\ Apart(r) /\ LaunchMoves(r) /\ run' = run
<1>1. PICK known \in SUBSET Companies, ok \in BOOLEAN, t \in Durations :
       driver' = [driver EXCEPT ![r].step = IF run[r].source = NULL THEN "SEARCH" ELSE "EXPAND",
                          ![r].known = known, ![r].memory = ok /\ r \in SearchNew, ![r].elapsed = t,
                          ![r].old = IF ok /\ r \in SearchNew THEN known \cup UNION {results[s] : s \in Runs \ {r}} ELSE {}]
  BY DEF Read
<1>. DEFINE next == IF run[r].source = NULL THEN "SEARCH" ELSE "EXPAND"
            old == IF ok /\ r \in SearchNew THEN known \cup UNION {results[s] : s \in Runs \ {r}} ELSE {}
            job == [driver[r] EXCEPT !.step = next, !.known = known, !.memory = ok /\ r \in SearchNew,
                                     !.elapsed = t, !.old = old]
<1>2. driver[r] \in Searching /\ driver[r].step = "READ" /\ driver \in [Runs -> JobState]
  BY JobTypes DEF Read, AtStep, DiscoveryTypeOK
<1>3. old \subseteq Companies
  BY DEF DiscoveryTypeOK
<1>4. next \in {"SEARCH", "EXPAND"} /\ (ok /\ r \in SearchNew) \in BOOLEAN /\ t \in Nat /\ t <= PassTimeout
  BY DEF Durations, PassTimeout
<1>5. driver' = [driver EXCEPT ![r] = job]
  BY <1>1, <1>2
<1>. HIDE DEF old, next
<1>6. /\ job \in Searching /\ job.step = next /\ job.elapsed = t /\ job.calls = driver[r].calls
      /\ job.pool = driver[r].pool
  BY <1>2, <1>3, <1>4 DEF Searching
<1>. HIDE DEF job
<1>7. UNCHANGED <<day, run, results, sent, ledger>> /\ driver'[r] = job /\ job \in JobState
  BY <1>2, <1>5, <1>6 DEF Read, JobState
<1>8. driver[r] # NoJob /\ run[r].status = "running"
  BY <1>2 DEF DiscoveryTypeOK, NoJob
<1>9. run[r] \in DiscoveryRun
  BY <1>8, DrivenIsLaunched
<1>10. LaunchMoves(r)
  <2>1. OneRun(run[r], driver[r], sent[r], ledger[r], results[r], Queries[r])
    BY DEF EachRun
  <2>2. Queries[r] \in 1..MaxProviderCalls
    BY DiscoveryAssumption
  <2>. QED
    BY <1>2, <1>4, <1>6, <1>7, <1>8, <1>9, <2>1, <2>2
    DEF LaunchMoves, OneRun, NoRun, NeverLaunched, DiscoveryRun, Pooled, MaxProviderCalls, PassTimeout, TimeBudget, NoJob
<1>. QED
  BY <1>5, <1>7, <1>8, <1>10, LaunchRequestTyped

(* A request to the source: the job that made it, and what it left.        *)
LEMMA AskingStep ==
  ASSUME DiscoveryTypeOK, EachRun, NEW r \in Runs, NEW job \in JobState, NEW got \in {0, 1},
         driver' = [driver EXCEPT ![r] = job], UNCHANGED <<day, run, results, ledger>>,
         NEW asked \in [all : Nat, answered : Nat], sent' = [sent EXCEPT ![r] = asked],
         asked.all = sent[r].all + 1, asked.answered = sent[r].answered + got,
         driver[r].step \in {"SEARCH", "EXPAND"}, sent[r].all < MaxProviderCalls,
         job.step \in {"SEARCH", "EXPAND", "METER", "FAILED"},
         job.step = "SEARCH" => job.calls = sent[r].all + 1 /\ job.calls <= Queries[r],
         job.step \in {"SEARCH", "EXPAND"} =>
           job.calls # 0 /\ (job.memory => job.elapsed <= TimeBudget),
         job.step = "METER" => job.elapsed <= TimeBudget,
         run[r].source = NULL /\ got = 0 /\ sent[r].answered = 0 /\ job.step \in Pooled => job.pool = {}
  PROVE  DiscoveryTypeOK' /\ Apart(r) /\ LaunchMoves(r) /\ run' = run
<1>1. driver \in [Runs -> JobState] /\ sent \in [Runs -> [all : Nat, answered : Nat]]
  BY DEF DiscoveryTypeOK
<1>2. driver'[r] = job /\ driver' \in [Runs -> JobState] /\ \A q \in Runs \ {r} : driver'[q] = driver[q]
  BY <1>1
<1>3. /\ sent'[r].all = sent[r].all + 1 /\ sent'[r].answered = sent[r].answered + got
      /\ sent' \in [Runs -> [all : Nat, answered : Nat]] /\ \A q \in Runs \ {r} : sent'[q] = sent[q]
      /\ sent[r].all \in Nat /\ sent[r].answered \in Nat
  BY <1>1
<1>4. driver[r] # NoJob /\ run[r].status = "running"
  BY DEF DiscoveryTypeOK, NoJob
<1>5. run[r] \in DiscoveryRun
  BY <1>4, DrivenIsLaunched
<1>6. DiscoveryTypeOK' /\ Apart(r)
  BY <1>2, <1>3, <1>4 DEF DiscoveryTypeOK, Apart
<1>7. LaunchMoves(r)
  <2>1. OneRun(run[r], driver[r], sent[r], ledger[r], results[r], Queries[r])
    BY DEF EachRun
  <2>2. Queries[r] \in 1..MaxProviderCalls
    BY DiscoveryAssumption
  <2>. QED
    BY <1>2, <1>3, <1>4, <1>5, <2>1, <2>2 DEF LaunchMoves, OneRun, NoRun, NeverLaunched, DiscoveryRun, MaxProviderCalls
<1>. QED
  BY <1>6, <1>7

(* A pass is made as the first, or in the time budget.                     *)
LEMMA PassInTime ==
  ASSUME DiscoveryTypeOK, EachRun, NEW r \in Runs, AtStep(r, "SEARCH"), MorePasses(r), NEW t \in Durations
  PROVE  /\ driver[r] \in Searching /\ sent[r].all = driver[r].calls /\ sent[r].all < MaxProviderCalls
         /\ driver[r].calls + 1 <= Queries[r] /\ t \in Nat
         /\ driver[r].memory => driver[r].elapsed + t <= TimeBudget
<1>1. driver[r].step = "SEARCH" /\ driver[r] \in Searching
  BY JobTypes DEF AtStep
<1>2. OneRun(run[r], driver[r], sent[r], ledger[r], results[r], Queries[r]) /\ Queries[r] \in 1..MaxProviderCalls
  BY DiscoveryAssumption DEF EachRun
<1>3. driver[r].calls \in Nat /\ driver[r].elapsed \in Nat /\ t \in Nat /\ t <= PassTimeout
  BY <1>1 DEF Searching, Durations, PassTimeout
<1>4. /\ sent[r].all = driver[r].calls /\ driver[r].calls < Queries[r]
      /\ driver[r].calls = 0 => driver[r].elapsed <= PassTimeout
  BY <1>1, <1>2 DEF OneRun, MorePasses
<1>5. driver[r].memory => driver[r].elapsed + t <= TimeBudget
  BY <1>3, <1>4 DEF MorePasses, Deep, InBudget, PassTimeout, TimeBudget
<1>. QED
  BY <1>1, <1>2, <1>3, <1>4, <1>5 DEF MaxProviderCalls

LEMMA AnsweredStep ==
  ASSUME DiscoveryTypeOK, EachRun, NEW r \in Runs, NEW t \in Durations, NEW answer \in SUBSET Candidates,
         Answered(r, answer, t)
  PROVE  DiscoveryTypeOK' /\ Apart(r) /\ LaunchMoves(r) /\ run' = run
<1>1. AtStep(r, "SEARCH") /\ MorePasses(r) /\ UNCHANGED <<day, run, results, ledger>>
  BY DEF Answered
<1>2. PICK step \in {"SEARCH", "EXPAND"} :
        driver' = [driver EXCEPT ![r] = [driver[r] EXCEPT !.calls = driver[r].calls + 1,
                     !.pool = driver[r].pool \cup answer, !.elapsed = driver[r].elapsed + t, !.step = step]]
  BY DEF Answered
<1>. DEFINE job == [driver[r] EXCEPT !.calls = driver[r].calls + 1, !.pool = driver[r].pool \cup answer,
                                     !.elapsed = driver[r].elapsed + t, !.step = step]
<1>3. /\ driver[r] \in Searching /\ sent[r].all = driver[r].calls /\ sent[r].all < MaxProviderCalls
      /\ driver[r].calls + 1 <= Queries[r] /\ t \in Nat
      /\ driver[r].memory => driver[r].elapsed + t <= TimeBudget
  BY <1>1, PassInTime
<1>4. driver' = [driver EXCEPT ![r] = job]
  BY <1>2
<1>9. driver[r].calls + 1 \in Nat /\ driver[r].elapsed + t \in Nat /\ driver[r].pool \cup answer \in SUBSET Candidates
  BY <1>3 DEF Searching
<1>5. /\ job \in JobState /\ job.step = step /\ job.calls = driver[r].calls + 1
      /\ job.elapsed = driver[r].elapsed + t /\ job.memory = driver[r].memory
  <2>1. job \in Searching
    BY <1>3, <1>9 DEF Searching
  <2>2. /\ job.step = step /\ job.calls = driver[r].calls + 1
        /\ job.elapsed = driver[r].elapsed + t /\ job.memory = driver[r].memory
    BY <1>3 DEF Searching
  <2>. QED
    BY <2>1, <2>2 DEF JobState
<1>. HIDE DEF job
<1>. DEFINE got == 1
            asked == [all |-> sent[r].all + 1, answered |-> sent[r].answered + got]
<1>6. /\ asked \in [all : Nat, answered : Nat] /\ sent' = [sent EXCEPT ![r] = asked]
      /\ asked.all = sent[r].all + 1 /\ asked.answered = sent[r].answered + got
      /\ got \in {0, 1} /\ got # 0
  BY DEF Answered, DiscoveryTypeOK
<1>. HIDE DEF got, asked
<1>7. job.calls # 0
  BY <1>3, <1>5, <1>9 DEF Searching
<1>8. driver[r].step \in {"SEARCH", "EXPAND"}
  BY <1>1 DEF AtStep
<1>. QED
  BY <1>1, <1>3, <1>4, <1>5, <1>6, <1>7, <1>8, AskingStep

LEMMA UnansweredStep ==
  ASSUME DiscoveryTypeOK, EachRun, NEW r \in Runs, NEW t \in Durations, NEW limited \in BOOLEAN,
         Unanswered(r, limited, t)
  PROVE  DiscoveryTypeOK' /\ Apart(r) /\ LaunchMoves(r) /\ run' = run
<1>1. AtStep(r, "SEARCH") /\ MorePasses(r) /\ UNCHANGED <<day, run, results, ledger>>
  BY DEF Unanswered
<1>2. /\ driver[r] \in Searching /\ sent[r].all = driver[r].calls /\ sent[r].all < MaxProviderCalls
      /\ driver[r].calls + 1 <= Queries[r] /\ t \in Nat
      /\ driver[r].memory => driver[r].elapsed + t <= TimeBudget
  BY <1>1, PassInTime
<1>. DEFINE asked == [all |-> sent[r].all + 1, answered |-> sent[r].answered + 0]
<1>3. /\ asked \in [all : Nat, answered : Nat] /\ sent' = [sent EXCEPT ![r] = asked]
      /\ asked.all = sent[r].all + 1 /\ asked.answered = sent[r].answered + 0
  <2>1. sent' = [sent EXCEPT ![r].all = @ + 1] /\ sent \in [Runs -> [all : Nat, answered : Nat]]
    BY DEF Unanswered, DiscoveryTypeOK
  <2>2. [sent[r] EXCEPT !.all = @ + 1] = asked
    BY <2>1
  <2>3. asked \in [all : Nat, answered : Nat]
    BY <2>1
  <2>. QED
    BY <2>1, <2>2, <2>3
<1>. HIDE DEF asked
<1>4. driver[r].step \in {"SEARCH", "EXPAND"} /\ driver[r].step \in Pooled
  BY <1>1 DEF AtStep, Pooled
<1>5. OneRun(run[r], driver[r], sent[r], ledger[r], results[r], Queries[r])
  BY DEF EachRun
<1>6. driver[r] # NoJob
  BY <1>4 DEF NoJob
<1>7. run[r] \in DiscoveryRun
  BY <1>6, DrivenIsLaunched
<1>8. CASE Breaks(r)
  BY <1>1, <1>2, <1>3, <1>4, <1>8, AskingStep, BreakTyped DEF Breaks, Pooled
<1>9. CASE ~Breaks(r)
  <2>1. PICK step \in {"SEARCH", "EXPAND"} :
          driver' = [driver EXCEPT ![r] = [driver[r] EXCEPT !.calls = driver[r].calls + 1,
                       !.elapsed = driver[r].elapsed + t, !.step = step]]
    BY <1>9 DEF Unanswered
  <2>. DEFINE job == [driver[r] EXCEPT !.calls = driver[r].calls + 1, !.elapsed = driver[r].elapsed + t, !.step = step]
  <2>2. driver' = [driver EXCEPT ![r] = job]
    BY <2>1
  <2>6. driver[r].calls + 1 \in Nat /\ driver[r].calls \in Nat /\ driver[r].elapsed + t \in Nat /\ driver[r].pool \in SUBSET Candidates
    BY <1>2 DEF Searching
  <2>3. /\ job \in JobState /\ job.step = step /\ job.calls = driver[r].calls + 1
        /\ job.elapsed = driver[r].elapsed + t /\ job.memory = driver[r].memory /\ job.pool = driver[r].pool
    <3>1. job \in Searching
      BY <1>2, <2>6 DEF Searching
    <3>2. /\ job.step = step /\ job.calls = driver[r].calls + 1 /\ job.pool = driver[r].pool
          /\ job.elapsed = driver[r].elapsed + t /\ job.memory = driver[r].memory
      BY <1>2 DEF Searching
    <3>. QED
      BY <3>1, <3>2 DEF JobState
  <2>. HIDE DEF job
  <2>4. job.calls # 0
    BY <2>3, <2>6
  <2>5. run[r].source = NULL /\ sent[r].answered = 0 => job.pool = {}
    BY <1>4, <1>5, <1>7, <2>3 DEF OneRun
  <2>. QED
    BY <1>1, <1>2, <1>3, <1>4, <2>2, <2>3, <2>4, <2>5, AskingStep
<1>. QED
  BY <1>8, <1>9

LEMMA SearchIsOverStep ==
  ASSUME DiscoveryTypeOK, EachRun, NEW r \in Runs, SearchIsOver(r)
  PROVE  DiscoveryTypeOK' /\ Apart(r) /\ LaunchMoves(r) /\ run' = run
<1>. DEFINE job == [driver[r] EXCEPT !.step = "EXPAND"]
<1>1. driver[r].step = "SEARCH" /\ driver' = [driver EXCEPT ![r].step = "EXPAND"]
      /\ UNCHANGED <<day, run, results, sent, ledger>>
  BY DEF SearchIsOver, AtStep, Enters
<1>2. driver[r] \in Searching /\ driver \in [Runs -> JobState]
  BY <1>1, JobTypes DEF DiscoveryTypeOK
<1>3. driver' = [driver EXCEPT ![r] = job]
  BY <1>1, <1>2
<1>4. /\ job \in Searching /\ job.step = "EXPAND" /\ job.calls = driver[r].calls
      /\ job.elapsed = driver[r].elapsed /\ job.memory = driver[r].memory /\ job.pool = driver[r].pool
  BY <1>2 DEF Searching
<1>. HIDE DEF job
<1>5. job \in JobState /\ driver'[r] = job
  BY <1>2, <1>3, <1>4 DEF JobState
<1>6. driver[r] # NoJob /\ run[r].status = "running"
  BY <1>1 DEF DiscoveryTypeOK, NoJob
<1>7. run[r] \in DiscoveryRun
  BY <1>6, DrivenIsLaunched
<1>8. LaunchMoves(r)
  <2>1. OneRun(run[r], driver[r], sent[r], ledger[r], results[r], Queries[r])
    BY DEF EachRun
  <2>. QED
    BY <1>1, <1>4, <1>5, <1>6, <1>7, <2>1 DEF LaunchMoves, OneRun, NoRun, NeverLaunched, DiscoveryRun, Pooled
<1>. QED
  BY <1>1, <1>3, <1>5, <1>6, <1>8, LaunchRequestTyped

LEMMA ExpandStep ==
  ASSUME DiscoveryTypeOK, EachRun, NEW r \in Runs, Expand(r)
  PROVE  DiscoveryTypeOK' /\ Apart(r) /\ LaunchMoves(r) /\ run' = run
<1>1. driver[r].step = "EXPAND" /\ UNCHANGED <<day, run, results, ledger>>
  BY DEF Expand, AtStep
<1>2. driver[r] \in Searching /\ driver \in [Runs -> JobState]
  BY <1>1, JobTypes DEF DiscoveryTypeOK
<1>3. driver[r] # NoJob /\ run[r].status = "running"
  BY <1>1 DEF DiscoveryTypeOK, NoJob
<1>4. run[r] \in DiscoveryRun
  BY <1>3, DrivenIsLaunched
<1>5. OneRun(run[r], driver[r], sent[r], ledger[r], results[r], Queries[r])
  BY DEF EachRun
<1>6. driver[r].pool \subseteq Candidates /\ (run[r].source = NULL /\ sent[r].answered = 0 => driver[r].pool = {})
  BY <1>1, <1>2, <1>4, <1>5 DEF OneRun, Pooled, Searching
<1>7. CASE MayExpand(r)
  <2>1. PICK ok \in BOOLEAN, t \in Durations : \E found \in SUBSET CitedBy(r, driver[r].pool) :
          /\ ~ok => found = {}
          /\ sent' = [sent EXCEPT ![r] = [all |-> @.all + 1, answered |-> @.answered + IF ok THEN 1 ELSE 0]]
          /\ Writes(r, driver[r].pool \cup found, driver[r].elapsed + t)
    BY <1>7 DEF Expand
  <2>2. PICK found \in SUBSET CitedBy(r, driver[r].pool) :
          /\ ~ok => found = {}
          /\ sent' = [sent EXCEPT ![r] = [all |-> @.all + 1, answered |-> @.answered + IF ok THEN 1 ELSE 0]]
          /\ Writes(r, driver[r].pool \cup found, driver[r].elapsed + t)
    BY <2>1
  <2>3. found \subseteq Candidates
    BY DiscoveryAssumption DEF CitedBy, Candidates
  <2>4. sent[r].all < MaxProviderCalls /\ driver[r].elapsed + PassTimeout <= TimeBudget
    BY <1>7 DEF MayExpand, InBudget
  <2>5. t \in Nat /\ t <= PassTimeout /\ driver[r].elapsed \in Nat
    BY <1>2 DEF Durations, PassTimeout, Searching
  <2>. DEFINE job == [step |-> "METER", pool |-> driver[r].pool \cup found, elapsed |-> driver[r].elapsed + t]
              got == IF ok THEN 1 ELSE 0
  <2>6. job \in JobState
    BY <1>6, <2>3, <2>5 DEF JobState
  <2>7. driver' = [driver EXCEPT ![r] = job]
    BY <2>2 DEF Writes
  <2>8. job.step = "METER" /\ job.elapsed <= TimeBudget /\ job.pool = driver[r].pool \cup found
    BY <2>4, <2>5 DEF PassTimeout, TimeBudget
  <2>9. got \in {0, 1} /\ (got = 0 => found = {})
    BY <2>2
  <2>. DEFINE asked == [all |-> sent[r].all + 1, answered |-> sent[r].answered + got]
  <2>10. /\ asked \in [all : Nat, answered : Nat] /\ sent' = [sent EXCEPT ![r] = asked]
         /\ asked.all = sent[r].all + 1 /\ asked.answered = sent[r].answered + got
    <3>1. sent \in [Runs -> [all : Nat, answered : Nat]]
      BY DEF DiscoveryTypeOK
    <3>. QED
      BY <2>2, <3>1
  <2>. HIDE DEF job, got, asked
  <2>. QED
    BY <1>1, <1>6, <2>4, <2>6, <2>7, <2>8, <2>9, <2>10, AskingStep
<1>8. CASE ~MayExpand(r)
  <2>. DEFINE job == [step |-> "METER", pool |-> driver[r].pool, elapsed |-> 0]
  <2>1. driver' = [driver EXCEPT ![r] = job] /\ sent' = sent
    BY <1>8 DEF Expand, Writes
  <2>2. job \in JobState /\ driver'[r] = job
    BY <1>2, <1>6, <2>1 DEF JobState
  <2>3. LaunchMoves(r)
    BY <1>1, <1>3, <1>4, <1>5, <1>6, <2>1, <2>2
    DEF LaunchMoves, OneRun, NoRun, NeverLaunched, DiscoveryRun, Pooled, TimeBudget
  <2>. QED
    BY <1>1, <1>3, <2>1, <2>2, <2>3, LaunchRequestTyped
<1>. QED
  BY <1>7, <1>8

-----------------------------------------------------------------------------
(* What is written.                                                        *)

(* The cost is recorded once the search is over, and once.                 *)
LEMMA MetersOnce ==
  ASSUME DiscoveryTypeOK, EachRun, NEW r \in Runs, Meters(r), sent' = sent
  PROVE  /\ ledger' \in [Runs -> Nat] /\ \A q \in Runs \ {r} : ledger'[q] = ledger[q]
         /\ ledger'[r] # 0 => ledger'[r] = sent[r].all
<1>1. ledger \in [Runs -> Nat] /\ sent[r].all \in Nat
  BY DEF DiscoveryTypeOK
<1>2. ledger[r] # 0 => ledger[r] = sent[r].all
  BY DEF EachRun, OneRun
<1>. QED
  BY <1>1, <1>2 DEF Meters, Recorded

LEMMA MeterStep ==
  ASSUME DiscoveryTypeOK, EachRun, NEW r \in Runs, Meter(r)
  PROVE  DiscoveryTypeOK' /\ Apart(r) /\ LaunchMoves(r) /\ run' = run
<1>. DEFINE job == [step |-> "SAVE", pool |-> driver[r].pool]
<1>1. /\ driver[r].step = "METER" /\ Meters(r) /\ UNCHANGED <<day, run, results, sent>>
      /\ driver' = [driver EXCEPT ![r] = job] /\ driver \in [Runs -> JobState]
  BY DEF Meter, AtStep, DiscoveryTypeOK
<1>2. driver[r].pool \subseteq Candidates
  BY <1>1, JobTypes DEF Pooled
<1>3. job \in JobState /\ job.step = "SAVE" /\ job.pool = driver[r].pool
  BY <1>2 DEF JobState
<1>. HIDE DEF job
<1>4. driver'[r] = job /\ driver' \in [Runs -> JobState] /\ \A q \in Runs \ {r} : driver'[q] = driver[q]
  BY <1>1, <1>3
<1>5. driver[r] # NoJob /\ run[r].status = "running"
  BY <1>1 DEF DiscoveryTypeOK, NoJob
<1>6. run[r] \in DiscoveryRun
  BY <1>5, DrivenIsLaunched
<1>7. /\ ledger' \in [Runs -> Nat] /\ \A q \in Runs \ {r} : ledger'[q] = ledger[q]
      /\ ledger'[r] # 0 => ledger'[r] = sent[r].all
  BY <1>1, MetersOnce
<1>8. DiscoveryTypeOK' /\ Apart(r)
  BY <1>1, <1>4, <1>5, <1>7 DEF DiscoveryTypeOK, Apart
<1>9. LaunchMoves(r)
  <2>1. OneRun(run[r], driver[r], sent[r], ledger[r], results[r], Queries[r])
    BY DEF EachRun
  <2>. QED
    BY <1>1, <1>3, <1>4, <1>5, <1>6, <1>7, <2>1 DEF LaunchMoves, OneRun, NoRun, NeverLaunched, DiscoveryRun, Pooled
<1>. QED
  BY <1>1, <1>8, <1>9

LEMMA SaveStep ==
  ASSUME DiscoveryTypeOK, EachRun, NEW r \in Runs, Save(r)
  PROVE  DiscoveryTypeOK' /\ Apart(r) /\ LaunchMoves(r) /\ run' = run
<1>1. /\ driver[r].step = "SAVE" /\ UNCHANGED <<day, run, sent, ledger>>
      /\ driver \in [Runs -> JobState] /\ results \in [Runs -> SUBSET Companies]
      /\ results' = results \/ results' = [results EXCEPT ![r] = driver[r].pool \cap Companies]
  BY DEF Save, AtStep, DiscoveryTypeOK
<1>2. Cardinality(driver[r].pool) \in Nat
  BY <1>1, JobTypes, SizeOfPool DEF Pooled
<1>3. PICK job \in JobState : job.step \in {"FINISH", "FAILED"} /\ driver' = [driver EXCEPT ![r] = job]
  <2>1. [step |-> "FINISH", count |-> Cardinality(driver[r].pool)] \in JobState
    BY <1>2 DEF JobState
  <2>. QED
    BY <2>1, BreakTyped DEF Save, Breaks
<1>4. driver'[r] = job /\ driver' \in [Runs -> JobState] /\ \A q \in Runs \ {r} : driver'[q] = driver[q]
  BY <1>1, <1>3
<1>5. driver[r] # NoJob /\ run[r].status = "running"
  BY <1>1 DEF DiscoveryTypeOK, NoJob
<1>6. run[r] \in DiscoveryRun
  BY <1>5, DrivenIsLaunched
<1>7. /\ results' \in [Runs -> SUBSET Companies] /\ \A q \in Runs \ {r} : results'[q] = results[q]
      /\ results'[r] = results[r] \/ results'[r] = driver[r].pool \cap Companies
  BY <1>1
<1>8. DiscoveryTypeOK' /\ Apart(r)
  BY <1>1, <1>4, <1>5, <1>7 DEF DiscoveryTypeOK, Apart
<1>9. LaunchMoves(r)
  <2>1. OneRun(run[r], driver[r], sent[r], ledger[r], results[r], Queries[r])
    BY DEF EachRun
  <2>. QED
    BY <1>1, <1>3, <1>4, <1>5, <1>6, <1>7, <2>1 DEF LaunchMoves, OneRun, NoRun, NeverLaunched, DiscoveryRun, Pooled
<1>. QED
  BY <1>1, <1>8, <1>9

(* A row that is finished, failed or given its unit back: what a run was   *)
(* launched with stays.                                                    *)
SameLaunch(r) ==
  /\ run'[r] \in DiscoveryRun /\ run'[r].source = run[r].source
  /\ run'[r].started = run[r].started /\ run'[r].origin = run[r].origin
  /\ \A q \in Runs \ {r} : run'[q] = run[q]

LEMMA LaunchRowStep ==
  ASSUME DiscoveryTypeOK, EachRun, NEW r \in Runs, NEW row \in DiscoveryRun, NEW job \in JobState,
         driver[r].step \in {"FINISH", "FAILED", "RELEASE"},
         run' = run \/ run' = [run EXCEPT ![r] = row], driver' = [driver EXCEPT ![r] = job],
         UNCHANGED <<day, results, sent>>, ledger' = ledger \/ Meters(r),
         row.source = run[r].source, row.started = run[r].started, row.origin = run[r].origin,
         job = NoJob \/ job.step \in {"FAILED", "RELEASE"},
         \/ row.unit = run[r].unit
         \/ row.unit = "released" /\ row.status = "failed" /\ job = NoJob /\ sent[r].answered = 0 /\ run[r].unit = "billed"
  PROVE  DiscoveryTypeOK' /\ Apart(r) /\ LaunchMoves(r) /\ SameLaunch(r)
<1>1. /\ driver \in [Runs -> JobState] /\ run \in [Runs -> DiscoveryRun \cup {NoRun, NeverLaunched}]
      /\ ledger \in [Runs -> Nat]
  BY DEF DiscoveryTypeOK
<1>2. driver'[r] = job /\ driver' \in [Runs -> JobState] /\ \A q \in Runs \ {r} : driver'[q] = driver[q]
  BY <1>1
<1>3. driver[r] # NoJob
  BY DEF NoJob
<1>4. run[r] \in DiscoveryRun
  BY <1>3, DrivenIsLaunched
<1>5. /\ run' \in [Runs -> DiscoveryRun \cup {NoRun, NeverLaunched}] /\ \A q \in Runs \ {r} : run'[q] = run[q]
      /\ run'[r] = run[r] \/ run'[r] = row
  BY <1>1
<1>6. /\ ledger' \in [Runs -> Nat] /\ \A q \in Runs \ {r} : ledger'[q] = ledger[q]
      /\ ledger'[r] # 0 => ledger'[r] = sent[r].all
  <2>1. CASE ledger' = ledger
    BY <1>1, <2>1 DEF EachRun, OneRun
  <2>2. CASE Meters(r)
    BY <2>2, MetersOnce
  <2>. QED
    BY <2>1, <2>2
<1>7. OneRun(run[r], driver[r], sent[r], ledger[r], results[r], Queries[r])
  BY DEF EachRun
<1>8. SameLaunch(r)
  BY <1>4, <1>5 DEF SameLaunch
<1>9. DiscoveryTypeOK' /\ Apart(r)
  BY <1>2, <1>5, <1>6 DEF DiscoveryTypeOK, Apart
<1>10. job.step \notin Pooled /\ job.step \in {"NONE", "FAILED", "RELEASE"}
  BY DEF Pooled, NoJob
<1>11. LaunchMoves(r)
  <2>1. CASE run'[r] = run[r]
    BY <1>2, <1>3, <1>4, <1>6, <1>7, <1>10, <2>1 DEF LaunchMoves, OneRun, NoRun, NeverLaunched, DiscoveryRun
  <2>2. CASE run'[r] = row
    BY <1>2, <1>3, <1>4, <1>6, <1>7, <1>10, <2>2 DEF LaunchMoves, OneRun, NoRun, NeverLaunched, DiscoveryRun
  <2>. QED
    BY <1>5, <2>1, <2>2
<1>. QED
  BY <1>8, <1>9, <1>11

LEMMA DrivenRow ==
  ASSUME DiscoveryTypeOK, EachRun, NEW r \in Runs, driver[r] # NoJob
  PROVE  /\ run[r] \in DiscoveryRun /\ run \in [Runs -> DiscoveryRun \cup {NoRun, NeverLaunched}]
         /\ sent[r].all \in Nat /\ sent[r].answered \in Nat /\ sent[r].answered <= sent[r].all
BY DrivenIsLaunched DEF DiscoveryTypeOK, EachRun, OneRun

LEMMA FinishStep ==
  ASSUME DiscoveryTypeOK, EachRun, NEW r \in Runs, Finish(r)
  PROVE  DiscoveryTypeOK' /\ Apart(r) /\ LaunchMoves(r) /\ SameLaunch(r)
<1>. DEFINE row == [run[r] EXCEPT !.status = "completed", !.count = driver[r].count,
                                  !.failures = sent[r].all - sent[r].answered]
<1>1. driver[r].step = "FINISH" /\ driver[r] # NoJob /\ UNCHANGED <<day, results, sent, ledger>>
  BY DEF Finish, AtStep, NoJob
<1>2. /\ run[r] \in DiscoveryRun /\ run \in [Runs -> DiscoveryRun \cup {NoRun, NeverLaunched}]
      /\ sent[r].all - sent[r].answered \in Nat /\ driver[r].count \in Nat
  BY <1>1, DrivenRow, JobTypes
<1>3. row \in DiscoveryRun
  BY <1>2 DEF DiscoveryRun
<1>4. /\ row.source = run[r].source /\ row.started = run[r].started /\ row.origin = run[r].origin
      /\ row.unit = run[r].unit
  BY <1>2 DEF DiscoveryRun
<1>5. run' = run \/ run' = [run EXCEPT ![r] = row]
  BY <1>2 DEF Finish
<1>6. PICK job \in {NoJob, [step |-> "FAILED"]} : driver' = [driver EXCEPT ![r] = job]
  BY DEF Finish, Breaks
<1>7. job \in JobState /\ (job = NoJob \/ job.step \in {"FAILED", "RELEASE"})
  BY BreakTyped
<1>. HIDE DEF row
<1>. QED
  BY <1>1, <1>3, <1>4, <1>5, <1>6, <1>7, LaunchRowStep

LEMMA FinishFailedStep ==
  ASSUME DiscoveryTypeOK, EachRun, NEW r \in Runs, FinishFailed(r)
  PROVE  DiscoveryTypeOK' /\ Apart(r) /\ LaunchMoves(r) /\ SameLaunch(r)
<1>. DEFINE row == [run[r] EXCEPT !.status = "failed", !.count = 0]
<1>1. /\ driver[r].step = "FAILED" /\ driver[r] # NoJob /\ UNCHANGED <<day, results, sent>> /\ Meters(r)
      /\ driver \in [Runs -> JobState]
  BY DEF FinishFailed, AtStep, NoJob, DiscoveryTypeOK
<1>2. run[r] \in DiscoveryRun /\ run \in [Runs -> DiscoveryRun \cup {NoRun, NeverLaunched}]
  BY <1>1, DrivenRow
<1>3. row \in DiscoveryRun
  BY <1>2 DEF DiscoveryRun
<1>4. /\ row.source = run[r].source /\ row.started = run[r].started /\ row.origin = run[r].origin
      /\ row.unit = run[r].unit
  BY <1>2 DEF DiscoveryRun
<1>5. run' = run \/ run' = [run EXCEPT ![r] = row]
  BY <1>2 DEF FinishFailed
<1>6. PICK job \in {NoJob, [step |-> "RELEASE"]} : driver' = [driver EXCEPT ![r] = job]
  <2>1. driver[r] = [step |-> "FAILED"]
    BY <1>1 DEF JobState, NoJob, Searching
  <2>. QED
    BY <1>1, <2>1 DEF FinishFailed, Enters
<1>7. job \in JobState /\ (job = NoJob \/ job.step \in {"FAILED", "RELEASE"})
  BY DEF JobState
<1>. HIDE DEF row
<1>. QED
  BY <1>1, <1>3, <1>4, <1>5, <1>6, <1>7, LaunchRowStep

LEMMA GiveBackStep ==
  ASSUME DiscoveryTypeOK, EachRun, NEW r \in Runs, GiveBack(r)
  PROVE  DiscoveryTypeOK' /\ Apart(r) /\ LaunchMoves(r) /\ SameLaunch(r)
<1>1. /\ driver[r].step = "RELEASE" /\ driver[r] # NoJob /\ UNCHANGED <<day, results, sent, ledger>>
      /\ driver' = [driver EXCEPT ![r] = NoJob]
  BY DEF GiveBack, AtStep, NoJob
<1>2. /\ run[r] \in DiscoveryRun /\ run \in [Runs -> DiscoveryRun \cup {NoRun, NeverLaunched}]
      /\ sent[r].all \in Nat /\ sent[r].answered \in Nat /\ sent[r].answered <= sent[r].all
  BY <1>1, DrivenRow
<1>3. NoJob \in JobState
  BY BreakTyped
<1>4. CASE run' = run
  BY <1>1, <1>2, <1>3, <1>4, LaunchRowStep
<1>5. CASE run' # run
  <2>. DEFINE row == [run[r] EXCEPT !.unit = "released"]
  <2>1. NothingAnswered(r) /\ run[r].unit = "billed" /\ run[r].status = "failed" /\ run' = [run EXCEPT ![r].unit = "released"]
    BY <1>5 DEF GiveBack
  <2>2. /\ row \in DiscoveryRun /\ row.unit = "released" /\ row.status = "failed"
        /\ row.source = run[r].source /\ row.started = run[r].started /\ row.origin = run[r].origin
    BY <1>2, <2>1 DEF DiscoveryRun
  <2>3. run' = [run EXCEPT ![r] = row]
    BY <1>2, <2>1
  <2>4. sent[r].answered = 0
    BY <1>2, <2>1 DEF NothingAnswered
  <2>. HIDE DEF row
  <2>. QED
    BY <1>1, <1>3, <2>1, <2>2, <2>3, <2>4, LaunchRowStep
<1>. QED
  BY <1>4, <1>5

-----------------------------------------------------------------------------
(* Launches.                                                               *)

LEMMA NewJobIs ==
  ASSUME NEW pool \in SUBSET Companies
  PROVE  /\ NewJob(pool) \in JobState /\ NewJob(pool).step = "READ" /\ NewJob(pool).calls = 0
         /\ NewJob(pool).pool = pool
<1>1. NewJob(pool) \in Searching
  BY DEF NewJob, Searching, Candidates
<1>. QED
  BY <1>1 DEF NewJob, JobState

LEMMA LaunchStep ==
  ASSUME DiscoveryTypeOK, EachRun, NEW r \in Runs, run[r] = NoRun,
         NEW row \in DiscoveryRun, run' = [run EXCEPT ![r] = row],
         row.status = "running", row.unit # "released", row.unit = "billed" => row.source = NULL,
         NEW pool \in SUBSET Companies, row.source = NULL => pool = {},
         driver' \in {driver, [driver EXCEPT ![r] = NewJob(pool)]},
         row.source # NULL => row.started - row.origin < Fresh,
         UNCHANGED <<day, results, sent, ledger>>
  PROVE  DiscoveryTypeOK' /\ Apart(r) /\ LaunchMoves(r)
<1>1. /\ driver \in [Runs -> JobState] /\ run \in [Runs -> DiscoveryRun \cup {NoRun, NeverLaunched}]
  BY DEF DiscoveryTypeOK
<1>2. run'[r] = row /\ run' \in [Runs -> DiscoveryRun \cup {NoRun, NeverLaunched}] /\ \A q \in Runs \ {r} : run'[q] = run[q]
  BY <1>1
<1>3. driver[r] = NoJob /\ sent[r] = NoAnswer /\ ledger[r] = 0 /\ results[r] = {}
  BY DEF EachRun, OneRun
<1>4. /\ driver' \in [Runs -> JobState] /\ \A q \in Runs \ {r} : driver'[q] = driver[q]
      /\ driver'[r] = NoJob \/ driver'[r] = NewJob(pool)
  BY <1>1, <1>3, NewJobIs
<1>5. DiscoveryTypeOK' /\ Apart(r)
  BY <1>2, <1>4 DEF DiscoveryTypeOK, Apart
<1>6. sent'[r].all = 0 /\ sent'[r].answered = 0 /\ ledger'[r] = 0 /\ results'[r] = {}
  BY <1>3 DEF NoAnswer
<1>7. row \notin {NoRun, NeverLaunched}
  BY DEF DiscoveryRun, NoRun, NeverLaunched
<1>8. LaunchMoves(r)
  <2>1. CASE driver'[r] = NoJob
    BY <1>2, <1>6, <1>7, <2>1 DEF LaunchMoves, OneRun, Pooled, NoJob, MaxProviderCalls
  <2>2. CASE driver'[r] = NewJob(pool)
    BY <1>2, <1>6, <1>7, <2>2, NewJobIs DEF LaunchMoves, OneRun, Pooled, MaxProviderCalls
  <2>. QED
    BY <1>4, <2>1, <2>2
<1>. QED
  BY <1>5, <1>8

-----------------------------------------------------------------------------
(* The search a run comes from.                                            *)

\* What the reuse of a run says of it.
SameOrigin(q) ==
  /\ run'[q].source = run[q].source
  /\ run'[q].started = run[q].started
  /\ run'[q].origin = run[q].origin

LEMMA SameTraces ==
  ASSUME TraceInv,
         \A q \in Runs : run'[q] \in DiscoveryRun <=> run[q] \in DiscoveryRun,
         \A q \in Runs : run[q] \in DiscoveryRun => SameOrigin(q)
  PROVE  TraceInv'
<1>1. \A q \in Runs : (Reuse(q)' <=> Reuse(q)) /\ (Reuse(q) => run'[q].source = run[q].source)
  BY DEF Reuse, SameOrigin
<1>2. Sources'
  <2>1. ASSUME NEW q \in Runs, Reuse(q)'
        PROVE  run'[q].source \in Runs /\ run'[run'[q].source] \in DiscoveryRun
    BY <1>1, <2>1 DEF TraceInv, Sources
  <2>. QED
    BY <2>1 DEF Sources
<1>3. ASSUME NEW f
      PROVE  Retraces(f)' <=> Retraces(f)
  <2>1. [q \in Runs |-> IF Reuse(q)' THEN f[run'[q].source] ELSE q] = [q \in Runs |-> IF Reuse(q) THEN f[run[q].source] ELSE q]
    BY <1>1
  <2>. QED
    BY <2>1 DEF Retraces
<1>4. ASSUME NEW f, Traced(f)
      PROVE  Traced(f)'
  <2>1. ASSUME NEW q \in Runs, run'[q] \in DiscoveryRun
        PROVE  f[q] \in Runs /\ run'[f[q]] \in DiscoveryRun /\ run'[f[q]].started = run'[q].origin
    <3>1. run[q] \in DiscoveryRun
      BY <2>1
    <3>2. f[q] \in Runs /\ run[f[q]] \in DiscoveryRun /\ run[f[q]].started = run[q].origin
      BY <1>4, <3>1 DEF Traced
    <3>. QED
      BY <3>1, <3>2 DEF SameOrigin
  <2>. QED
    BY <2>1 DEF Traced
<1>. QED
  BY <1>2, <1>3, <1>4 DEF TraceInv

LEMMA LaunchTraced ==
  ASSUME TraceInv, NEW r \in Runs, run[r] \notin DiscoveryRun, run \in [Runs -> DiscoveryRun \cup {NoRun, NeverLaunched}],
         NEW row \in DiscoveryRun, run' = [run EXCEPT ![r] = row],
         \/ row.source = NULL /\ row.origin = row.started
         \/ row.source \in Runs \ {r} /\ run[row.source] \in DiscoveryRun /\ row.origin = run[row.source].origin
  PROVE  TraceInv'
<1>. DEFINE s == row.source
<1>1. run'[r] = row /\ \A q \in Runs \ {r} : run'[q] = run[q]
  OBVIOUS
<1>2. /\ ~Reuse(r) /\ \A q \in Runs \ {r} : Reuse(q)' <=> Reuse(q)
      /\ Reuse(r)' <=> s # NULL
  BY <1>1 DEF Reuse
<1>3. \A q \in Runs : Reuse(q) => q # r /\ run[q].source \in Runs \ {r} /\ run[run[q].source] \in DiscoveryRun
  BY <1>2 DEF TraceInv, Sources
<1>4. s # NULL => s \in Runs \ {r} /\ run[s] \in DiscoveryRun /\ row.origin = run[s].origin
  OBVIOUS
<1>5. Sources'
  BY <1>1, <1>2, <1>3, <1>4 DEF Sources
<1>6. \E f : Retraces(f)'
  <2>1. PICK h : Retraces(h)
    BY DEF TraceInv
  <2>. DEFINE f == [q \in Runs |-> IF q = r /\ s # NULL THEN h[s] ELSE h[q]]
  <2>2. \A q \in Runs : h[q] = IF Reuse(q) THEN h[run[q].source] ELSE q
    BY <2>1 DEF Retraces
  <2>3. \A q \in Runs : f[q] = IF Reuse(q)' THEN f[run'[q].source] ELSE q
    <3>1. ASSUME NEW q \in Runs, q # r
          PROVE  f[q] = IF Reuse(q)' THEN f[run'[q].source] ELSE q
      BY <1>1, <1>2, <1>3, <2>2, <3>1
    <3>2. f[r] = IF Reuse(r)' THEN f[run'[r].source] ELSE r
      BY <1>1, <1>2, <1>4, <2>2
    <3>. QED
      BY <3>1, <3>2
  <2>4. f = [q \in Runs |-> IF Reuse(q)' THEN f[run'[q].source] ELSE q]
    <3>1. f = [q \in Runs |-> f[q]]
      OBVIOUS
    <3>. HIDE DEF f
    <3>. QED
      BY <2>3, <3>1
  <2>. QED
    BY <2>4 DEF Retraces
<1>7. ASSUME NEW f, Retraces(f)'
      PROVE  Traced(f)'
  <2>1. f = [q \in Runs |-> IF Reuse(q)' THEN f[run'[q].source] ELSE q]
    BY <1>7 DEF Retraces
  <2>2. \A q \in Runs : f[q] = IF Reuse(q)' THEN f[run'[q].source] ELSE q
    BY <2>1
  <2>. DEFINE h == [q \in Runs |-> IF q = r THEN r ELSE f[q]]
  <2>3. \A q \in Runs : h[q] = IF Reuse(q) THEN h[run[q].source] ELSE q
    <3>1. ASSUME NEW q \in Runs, q # r
          PROVE  h[q] = IF Reuse(q) THEN h[run[q].source] ELSE q
      BY <1>1, <1>2, <1>3, <2>2, <3>1
    <3>. QED
      BY <1>2, <3>1
  <2>4. h = [q \in Runs |-> IF Reuse(q) THEN h[run[q].source] ELSE q]
    <3>1. h = [q \in Runs |-> h[q]]
      OBVIOUS
    <3>. HIDE DEF h
    <3>. QED
      BY <2>3, <3>1
  <2>5. Retraces(h)
    BY <2>4 DEF Retraces
  <2>6. Traced(h)
    BY <2>5 DEF TraceInv
  <2>7. ASSUME NEW q \in Runs \ {r}, run[q] \in DiscoveryRun
        PROVE  f[q] \in Runs \ {r} /\ run[f[q]] \in DiscoveryRun /\ run[f[q]].started = run[q].origin
    <3>1. h[q] = f[q]
      OBVIOUS
    <3>. HIDE DEF h
    <3>. QED
      BY <2>6, <2>7, <3>1 DEF Traced
  <2>8. f[r] \in Runs /\ run'[f[r]] \in DiscoveryRun /\ run'[f[r]].started = row.origin
    <3>1. CASE s = NULL
      <4>1. f[r] = r
        BY <1>2, <2>2, <3>1
      <4>2. row.origin = row.started
        BY <3>1, DiscoveryAssumption
      <4>. QED
        BY <1>1, <4>1, <4>2
    <3>2. CASE s # NULL
      <4>1. f[r] = f[s]
        BY <1>1, <1>2, <2>2, <3>2
      <4>. QED
        BY <1>1, <1>4, <2>7, <3>2, <4>1
    <3>. QED
      BY <3>1, <3>2
  <2>. HIDE DEF h
  <2>. QED
    BY <1>1, <2>7, <2>8 DEF Traced
<1>. QED
  BY <1>5, <1>6, <1>7 DEF TraceInv

-----------------------------------------------------------------------------
LEMMA LaunchKeeps ==
  ASSUME DiscoveryTypeOK, EachRun, TraceInv, NEW r \in Runs,
         Launch(r) \/ \E s \in Runs \ {r} : LaunchReused(r, s)
  PROVE  DiscoveryTypeOK' /\ EachRun' /\ TraceInv'
<1>1. /\ run[r] = NoRun /\ UNCHANGED <<day, results, sent, ledger>> /\ run[r] \notin DiscoveryRun
      /\ run \in [Runs -> DiscoveryRun \cup {NoRun, NeverLaunched}] /\ day \in Nat
  <2>1. run[r] = NoRun /\ UNCHANGED <<day, results, sent, ledger>>
    BY DEF Launch, LaunchReused, CanLaunch
  <2>2. NoRun \notin DiscoveryRun
    BY DEF NoRun, DiscoveryRun
  <2>3. run \in [Runs -> DiscoveryRun \cup {NoRun, NeverLaunched}] /\ day \in Nat
    BY DiscoveryAssumption DEF DiscoveryTypeOK
  <2>. QED
    BY <2>1, <2>2, <2>3
<1>2. ASSUME NEW row \in DiscoveryRun, run' = [run EXCEPT ![r] = row], DiscoveryTypeOK', Apart(r), LaunchMoves(r),
             \/ row.source = NULL /\ row.origin = row.started
             \/ row.source \in Runs \ {r} /\ run[row.source] \in DiscoveryRun /\ row.origin = run[row.source].origin
      PROVE  DiscoveryTypeOK' /\ EachRun' /\ TraceInv'
  <2>1. \A q \in Runs \ {r} : run'[q] = run[q]
    BY <1>1, <1>2
  <2>2. EachRun'
    BY <1>2, <2>1, StepOfOneRun
  <2>3. TraceInv'
    BY <1>1, <1>2, LaunchTraced
  <2>. QED
    BY <1>2, <2>2, <2>3
<1>3. CASE Launch(r)
  <2>. DEFINE row == [status |-> "running", count |-> 0, started |-> day, source |-> NULL,
                      origin |-> day, failures |-> 0, unit |-> "billed"]
  <2>1. /\ row \in DiscoveryRun /\ row.source = NULL /\ row.origin = row.started /\ row.status = "running"
        /\ row.unit = "billed" /\ row.unit # "released"
    BY <1>1 DEF DiscoveryRun
  <2>2. run' = [run EXCEPT ![r] = row] /\ driver' \in {driver, [driver EXCEPT ![r] = NewJob({})]}
    BY <1>3 DEF Launch
  <2>. DEFINE pool == {}
  <2>4. pool \in SUBSET Companies /\ driver' \in {driver, [driver EXCEPT ![r] = NewJob(pool)]}
    BY <2>2
  <2>5. row.source = NULL => pool = {}
    OBVIOUS
  <2>. HIDE DEF row, pool
  <2>3. DiscoveryTypeOK' /\ Apart(r) /\ LaunchMoves(r)
    BY <1>1, <2>1, <2>2, <2>4, <2>5, LaunchStep
  <2>. QED
    BY <1>2, <2>1, <2>2, <2>3
<1>4. ASSUME NEW s \in Runs \ {r}, LaunchReused(r, s)
      PROVE  DiscoveryTypeOK' /\ EachRun' /\ TraceInv'
  <2>. DEFINE row == [status |-> "running", count |-> 0, started |-> day, source |-> s,
                      origin |-> OriginOf(s), failures |-> 0, unit |-> "none"]
  <2>1. run[s] \in DiscoveryRun
    BY <1>1, <1>4 DEF LaunchReused, Reusable, NoRun, NeverLaunched
  <2>2. run[s].origin \in Nat /\ run[s].origin > day - Fresh
    BY <1>4, <2>1 DEF LaunchReused, Reusable, OriginOf, DiscoveryRun
  <2>3. /\ row \in DiscoveryRun /\ row.source = s /\ row.origin = run[s].origin /\ row.status = "running"
        /\ row.unit # "billed" /\ row.unit # "released" /\ row.started - row.origin < Fresh
    BY <1>1, <2>2 DEF DiscoveryRun, OriginOf, Fresh
  <2>4. run' = [run EXCEPT ![r] = row] /\ driver' \in {driver, [driver EXCEPT ![r] = NewJob(results[s])]}
    BY <1>4 DEF LaunchReused
  <2>5. results[s] \in SUBSET Companies /\ s # NULL
    BY DiscoveryAssumption DEF DiscoveryTypeOK
  <2>. HIDE DEF row
  <2>6. DiscoveryTypeOK' /\ Apart(r) /\ LaunchMoves(r)
    BY <1>1, <2>3, <2>4, <2>5, LaunchStep
  <2>. QED
    BY <1>2, <2>1, <2>3, <2>4, <2>6
<1>. QED
  BY <1>3, <1>4

LEMMA RunStepKeeps ==
  ASSUME DiscoveryTypeOK, EachRun, TraceInv, NEW r \in Runs, RunStep(r)
  PROVE  DiscoveryTypeOK' /\ EachRun' /\ TraceInv'
<1>1. ASSUME DiscoveryTypeOK', Apart(r), LaunchMoves(r), run' = run
      PROVE  DiscoveryTypeOK' /\ EachRun' /\ TraceInv'
  <2>1. EachRun'
    BY <1>1, StepOfOneRun
  <2>2. \A q \in Runs : (run'[q] \in DiscoveryRun <=> run[q] \in DiscoveryRun) /\ SameOrigin(q)
    BY <1>1 DEF SameOrigin
  <2>3. TraceInv'
    BY <2>2, SameTraces
  <2>. QED
    BY <1>1, <2>1, <2>3
<1>2. ASSUME DiscoveryTypeOK', Apart(r), LaunchMoves(r), SameLaunch(r), driver[r] # NoJob
      PROVE  DiscoveryTypeOK' /\ EachRun' /\ TraceInv'
  <2>1. EachRun'
    BY <1>2, StepOfOneRun DEF SameLaunch
  <2>2. run[r] \in DiscoveryRun
    BY <1>2, DrivenIsLaunched
  <2>3. \A q \in Runs : (run'[q] \in DiscoveryRun <=> run[q] \in DiscoveryRun) /\ SameOrigin(q)
    BY <1>2, <2>2 DEF SameLaunch, SameOrigin
  <2>4. TraceInv'
    BY <2>3, SameTraces
  <2>. QED
    BY <1>2, <2>1, <2>4
<1>3. ASSUME NEW t \in Durations, NEW answer \in SUBSET Candidates, Answered(r, answer, t)
      PROVE  DiscoveryTypeOK' /\ EachRun' /\ TraceInv'
  BY <1>1, <1>3, AnsweredStep
<1>4. ASSUME NEW t \in Durations, NEW limited \in BOOLEAN, Unanswered(r, limited, t)
      PROVE  DiscoveryTypeOK' /\ EachRun' /\ TraceInv'
  BY <1>1, <1>4, UnansweredStep
<1>5. CASE Read(r) \/ ReadFails(r) \/ SearchIsOver(r) \/ JobDies(r)
  BY <1>1, <1>5, ReadStep, StopsStep, SearchIsOverStep
<1>6. CASE Expand(r) \/ Meter(r) \/ Save(r)
  BY <1>1, <1>6, ExpandStep, MeterStep, SaveStep
<1>7. CASE Finish(r) \/ FinishFailed(r) \/ GiveBack(r)
  <2>1. driver[r] # NoJob
    BY <1>7 DEF Finish, FinishFailed, GiveBack, AtStep, NoJob
  <2>. QED
    BY <1>2, <1>7, <2>1, FinishStep, FinishFailedStep, GiveBackStep
<1>8. CASE Launch(r) \/ \E s \in Runs \ {r} : LaunchReused(r, s)
  BY <1>8, LaunchKeeps
<1>. QED
  BY <1>3, <1>4, <1>5, <1>6, <1>7, <1>8 DEF RunStep

-----------------------------------------------------------------------------
(* The whole search.                                                       *)

LEMMA DiscoveryStarts == DiscoveryInit => DiscoveryInv
<1>. SUFFICES ASSUME DiscoveryInit
     PROVE  DiscoveryInv
  OBVIOUS
<1>1. PICK plan \in Launches : run = Waiting(plan)
  BY DEF DiscoveryInit
<1>2. \A q \in Runs : run[q] \in {NoRun, NeverLaunched} /\ run[q] \notin DiscoveryRun
  BY <1>1 DEF Waiting, NoRun, NeverLaunched, DiscoveryRun
<1>3. run \in [Runs -> DiscoveryRun \cup {NoRun, NeverLaunched}]
  BY <1>1 DEF Waiting
<1>4. \A q \in Runs : driver[q] = NoJob /\ sent[q] = NoAnswer /\ ledger[q] = 0 /\ results[q] = {}
  BY DEF DiscoveryInit
<1>5. DiscoveryTypeOK
  <2>1. NoAnswer \in [all : Nat, answered : Nat] /\ NoJob \in JobState
    BY DEF NoAnswer, JobState
  <2>2. driver \in [Runs -> JobState] /\ sent \in [Runs -> [all : Nat, answered : Nat]]
    BY <2>1 DEF DiscoveryInit
  <2>3. ledger \in [Runs -> Nat] /\ results \in [Runs -> SUBSET Companies] /\ day \in 0..LastDay
    BY DiscoveryAssumption DEF DiscoveryInit
  <2>. QED
    BY <1>3, <1>4, <2>2, <2>3 DEF DiscoveryTypeOK
<1>6. EachRun
  BY <1>2, <1>4 DEF EachRun, OneRun, NoJob, NoAnswer, Pooled, MaxProviderCalls
<1>7. Sources
  BY <1>2 DEF Sources, Reuse
<1>8. \A f : Traced(f)
  BY <1>2 DEF Traced
<1>9. Retraces([q \in Runs |-> q])
  BY <1>2 DEF Retraces, Reuse
<1>. QED
  BY <1>5, <1>6, <1>7, <1>8, <1>9 DEF DiscoveryInv, TraceInv

LEMMA DiscoveryAdvances == DiscoveryInv /\ [DiscoveryNext]_discoveryVars => DiscoveryInv'
<1>. SUFFICES ASSUME DiscoveryInv, [DiscoveryNext]_discoveryVars
     PROVE  DiscoveryInv'
  OBVIOUS
<1>. USE DEF DiscoveryInv
<1>1. ASSUME NEW r \in Runs, RunStep(r)
      PROVE  DiscoveryInv'
  BY <1>1, RunStepKeeps
<1>2. ASSUME UNCHANGED <<run, results, driver, sent, ledger>>, day' \in 0..LastDay
      PROVE  DiscoveryInv'
  <2>1. DiscoveryTypeOK'
    BY <1>2 DEF DiscoveryTypeOK
  <2>2. EachRun'
    BY <1>2 DEF EachRun
  <2>3. \A q \in Runs : (run'[q] \in DiscoveryRun <=> run[q] \in DiscoveryRun) /\ SameOrigin(q)
    BY <1>2 DEF SameOrigin
  <2>4. TraceInv'
    BY <2>3, SameTraces
  <2>. QED
    BY <2>1, <2>2, <2>4
<1>3. CASE NextDay
  <2>1. day' \in 0..LastDay
    BY <1>3, DiscoveryAssumption DEF NextDay, DiscoveryTypeOK
  <2>. QED
    BY <1>2, <1>3, <2>1 DEF NextDay
<1>4. CASE UNCHANGED discoveryVars
  BY <1>2, <1>4 DEF discoveryVars, DiscoveryTypeOK
<1>. QED
  BY <1>1, <1>3, <1>4 DEF DiscoveryNext

\* The inductive invariant of a search holds in every behaviour.
THEOREM DiscoveryInvariant == DiscoverySpec => []DiscoveryInv
<1>1. DiscoveryInit => DiscoveryInv
  BY DiscoveryStarts
<1>2. DiscoveryInv /\ [DiscoveryNext]_discoveryVars => DiscoveryInv'
  BY DiscoveryAdvances
<1>. QED
  BY <1>1, <1>2, PTL DEF DiscoverySpec

\* One search never makes a fourth paid request, whichever plan, passes or look for cited
\* companies it goes through and whatever fails on the way, and it leaves saving its time.
THEOREM SearchesAreBounded == DiscoverySpec => []RequestsBounded
<1>1. DiscoveryInv => RequestsBounded
  <2>1. ASSUME DiscoveryInv, NEW r \in Runs
        PROVE  /\ sent[r].all <= MaxProviderCalls
               /\ driver[r].step \in {"SEARCH", "EXPAND"} /\ Deep(r) /\ driver[r].calls > 1 => driver[r].elapsed <= TimeBudget
               /\ AtStep(r, "METER") => driver[r].elapsed <= TimeBudget
    BY <2>1 DEF DiscoveryInv, EachRun, OneRun, Deep, AtStep
  <2>. QED
    BY <2>1 DEF RequestsBounded
<1>. QED
  BY <1>1, DiscoveryInvariant, PTL

\* What the ledger of costs shows for a run is the number of requests the source received,
\* also when the run fails half way and its catch block records them.
THEOREM CostsAreRecordedExactly == DiscoverySpec => []LedgerIsExact
<1>1. DiscoveryInv => LedgerIsExact
  BY DEF DiscoveryInv, EachRun, OneRun, LedgerIsExact
<1>. QED
  BY <1>1, DiscoveryInvariant, PTL

\* The unit of a run is given back only when no result of the run was saved, whichever
\* answer of the database was lost.
THEOREM OnlyEmptyRunsAreReleased == DiscoverySpec => []ReleasedDeliveredNothing
<1>1. DiscoveryInv => ReleasedDeliveredNothing
  BY DEF DiscoveryInv, EachRun, OneRun, ReleasedDeliveredNothing
<1>. QED
  BY <1>1, DiscoveryInvariant, PTL

\* However long the chain of reuse of reuse, the search it goes back to was less than seven
\* days old when the last run took its results.
THEOREM ReusedResultsAreFresh == DiscoverySpec => []ReuseIsFresh
<1>1. ASSUME DiscoveryInv
      PROVE  ReuseIsFresh
  <2>1. PICK f : Retraces(f)
    BY <1>1 DEF DiscoveryInv, TraceInv
  <2>2. Retraces(SearchOf)
    BY <2>1 DEF SearchOf, Retraces
  <2>3. Traced(SearchOf)
    BY <1>1, <2>2 DEF DiscoveryInv, TraceInv
  <2>4. ASSUME NEW r \in Runs, Reuse(r)
        PROVE  run[r].started - run[SearchOf[r]].started < Fresh
    <3>1. run[r] \in DiscoveryRun /\ run[r].source # NULL
      BY <2>4 DEF Reuse
    <3>2. run[SearchOf[r]].started = run[r].origin
      BY <2>3, <3>1 DEF Traced
    <3>3. run[r].started - run[r].origin < Fresh
      BY <1>1, <3>1 DEF DiscoveryInv, EachRun, OneRun
    <3>. QED
      BY <3>2, <3>3
  <2>. QED
    BY <2>4 DEF ReuseIsFresh
<1>2. DiscoveryInv => ReuseIsFresh
  BY <1>1
<1>. QED
  BY <1>2, DiscoveryInvariant, PTL

-----------------------------------------------------------------------------
(* The results of a search, one candidate per organization and per event   *)
(* (Merging).                                                              *)

Entity == [name : Cores, site : Domains \cup {NULL}, admissible : BOOLEAN, pages : SUBSET Page]
MergingInv == kept \in Seq(Entity) /\ groups \in Seq(SUBSET Announced) /\ MergesAgree

\* Appending to a list, and replacing one of its elements.
LEMMA Appended ==
  ASSUME NEW S, NEW list \in Seq(S), NEW x \in S, NEW next, next = Append(list, x)
  PROVE  /\ next \in Seq(S) /\ Len(list) \in Nat /\ Len(next) = Len(list) + 1 /\ next[Len(list) + 1] = x
         /\ \A j \in 1..Len(list) : next[j] = list[j]
BY AppendProperties, LenProperties

LEMMA ElementReplaced ==
  ASSUME NEW S, NEW list \in Seq(S), NEW k \in DOMAIN list, NEW x \in S, NEW next, next = [list EXCEPT ![k] = x]
  PROVE  /\ next \in Seq(S) /\ Len(next) = Len(list) /\ next[k] = x /\ k \in 1..Len(list)
         /\ \A j \in 1..Len(list) : j # k => next[j] = list[j]
BY ExceptSeq, LenProperties

\* The site of a candidate that another page joins is the one of all its pages.
LEMMA JoinedSites ==
  ASSUME NEW t \in Entity, NEW c \in Page, SameEntity(t, c), \A p \in t.pages : p.site \in {NULL, t.site}
  PROVE  /\ Joined(t, c) \in Entity
         /\ \A p \in Joined(t, c).pages : p.site \in {NULL, Joined(t, c).site}
<1>1. Primary(t, c) = t \/ Primary(t, c) = c
  BY DEF Primary
<1>2. /\ t.name \in Cores /\ t.site \in Domains \cup {NULL} /\ t.pages \in SUBSET Page
      /\ c.name \in Cores /\ c.site \in Domains \cup {NULL}
  BY DEF Entity, Page
<1>3. Primary(t, c).name \in Cores /\ Primary(t, c).site \in Domains \cup {NULL}
  BY <1>1, <1>2
<1>. DEFINE s == Primary(t, c).site
<1>4. Joined(t, c) \in Entity /\ Joined(t, c).site = s /\ Joined(t, c).pages = t.pages \cup {c}
  BY <1>2, <1>3 DEF Joined, Entity
<1>5. t.site \in {NULL, s} /\ c.site \in {NULL, s}
  BY DEF Primary, SameEntity
<1>. HIDE DEF s
<1>6. ASSUME NEW p \in t.pages
      PROVE  p.site \in {NULL, s}
  BY <1>5
<1>. QED
  BY <1>4, <1>5, <1>6

LEMMA ReadPageKeeps ==
  ASSUME MergingInv, NEW c \in Page, ReadPage(c)
  PROVE  MergingInv'
<1>. DEFINE alone == [name |-> c.name, site |-> c.site, admissible |-> c.admissible, pages |-> {c}]
            same == {k \in DOMAIN kept : kept[k].admissible /\ c.admissible /\ SameEntity(kept[k], c)}
<1>1. /\ kept \in Seq(Entity) /\ groups' = groups /\ groups \in Seq(SUBSET Announced)
      /\ SitesStayApart /\ PreciseEventsStayApart
  BY DEF MergingInv, MergesAgree, ReadPage
<1>2. PreciseEventsStayApart'
  BY <1>1 DEF PreciseEventsStayApart
<1>3. alone \in Entity /\ alone.site = c.site /\ alone.pages = {c}
  BY DEF Entity, Page
<1>4. ASSUME NEW k \in 1..Len(kept)
      PROVE  kept[k] \in Entity /\ \A p \in kept[k].pages : p.site \in {NULL, kept[k].site}
  BY <1>1, ElementOfSeq DEF SitesStayApart
<1>5. CASE kept' = Append(kept, alone)
  <2>. HIDE DEF alone
  <2>1. /\ kept' \in Seq(Entity) /\ Len(kept) \in Nat /\ Len(kept') = Len(kept) + 1 /\ kept'[Len(kept) + 1] = alone
        /\ \A j \in 1..Len(kept) : kept'[j] = kept[j]
    BY <1>1, <1>3, <1>5, Appended
  <2>2. ASSUME NEW k \in 1..Len(kept'), NEW p \in kept'[k].pages
        PROVE  p.site \in {NULL, kept'[k].site}
    <3>1. CASE k = Len(kept) + 1
      BY <1>3, <2>1, <2>2, <3>1
    <3>2. CASE k \in 1..Len(kept)
      BY <1>4, <2>1, <2>2, <3>2
    <3>. QED
      BY <2>1, <3>1, <3>2
  <2>3. SitesStayApart'
    BY <2>2 DEF SitesStayApart
  <2>. QED
    BY <1>1, <1>2, <2>1, <2>3 DEF MergingInv, MergesAgree
<1>6. ASSUME NEW k \in same, kept' = [kept EXCEPT ![k] = Joined(kept[k], c)]
      PROVE  MergingInv'
  <2>1. k \in DOMAIN kept /\ SameEntity(kept[k], c) /\ k \in 1..Len(kept)
    BY <1>1, <1>6, LenProperties
  <2>. DEFINE new == Joined(kept[k], c)
  <2>2. new \in Entity /\ (\A p \in new.pages : p.site \in {NULL, new.site}) /\ kept' = [kept EXCEPT ![k] = new]
    BY <1>4, <1>6, <2>1, JoinedSites
  <2>. HIDE DEF new, same
  <2>3. /\ kept' \in Seq(Entity) /\ Len(kept') = Len(kept) /\ kept'[k] = new
        /\ \A j \in 1..Len(kept) : j # k => kept'[j] = kept[j]
    BY <1>1, <2>1, <2>2, ElementReplaced
  <2>4. ASSUME NEW j \in 1..Len(kept'), NEW p \in kept'[j].pages
        PROVE  p.site \in {NULL, kept'[j].site}
    <3>1. CASE j = k
      BY <2>2, <2>3, <2>4, <3>1
    <3>2. CASE j # k
      BY <1>4, <2>3, <2>4, <3>2
    <3>. QED
      BY <3>1, <3>2
  <2>5. SitesStayApart'
    BY <2>4 DEF SitesStayApart
  <2>. QED
    BY <1>1, <1>2, <2>3, <2>5 DEF MergingInv, MergesAgree
<1>. QED
  BY <1>5, <1>6 DEF ReadPage

\* Between precise results, being the same event goes from one to the next.
LEMMA SamePrecisely ==
  ASSUME NEW x, NEW y, Precise(x), Precise(y)
  PROVE  SameEvent(x, y) <=>
           /\ x.who = y.who /\ x.when[1] = y.when[1] /\ x.when[2] = y.when[2]
           /\ \/ x.where.departments \cap y.where.departments # {}
              \/ x.where.departments = {} /\ y.where.departments = {} /\ x.where.town = y.where.town
<1>1. SamePeriod(x, y) <=> x.when[1] = y.when[1] /\ x.when[2] = y.when[2]
  <2>1. Len(x.when) = 2 /\ Len(y.when) = 2
    BY DEF Precise
  <2>2. 1..2 = {1, 2}
    OBVIOUS
  <2>. QED
    BY <2>1, <2>2 DEF SamePeriod, Begins
<1>2. NULL \notin {x.who, y.who, x.where, y.where}
  BY DEF Precise
<1>. QED
  BY <1>1, <1>2 DEF SameEvent, SamePlace

LEMMA SameIsTransitive ==
  ASSUME NEW x, NEW y, NEW z, Precise(x), Precise(y), Precise(z), SameEvent(x, y), SameEvent(x, z)
  PROVE  SameEvent(y, z) /\ SameEvent(z, y)
<1>. DEFINE Near(a, b) == \/ a.where.departments \cap b.where.departments # {}
                          \/ a.where.departments = {} /\ b.where.departments = {} /\ a.where.town = b.where.town
<1>1. /\ x.who = y.who /\ x.when[1] = y.when[1] /\ x.when[2] = y.when[2] /\ Near(x, y)
      /\ x.who = z.who /\ x.when[1] = z.when[1] /\ x.when[2] = z.when[2] /\ Near(x, z)
  BY SamePrecisely
<1>2. /\ \A d, e \in x.where.departments : d = e
      /\ \A d, e \in y.where.departments : d = e
      /\ \A d, e \in z.where.departments : d = e
  BY DEF Precise
<1>3. Near(y, z) /\ Near(z, y)
  BY <1>1, <1>2
<1>. HIDE DEF Near
<1>. QED
  BY <1>1, <1>3, SamePrecisely DEF Near

LEMMA SameAsItself ==
  ASSUME NEW x, Precise(x)
  PROVE  SameEvent(x, x)
BY SamePrecisely

LEMMA ReadResultKeeps ==
  ASSUME MergingInv, NEW c \in Announced, ReadResult(c)
  PROVE  MergingInv'
<1>. DEFINE same == {k \in DOMAIN groups : \E x \in groups[k] : SameEvent(x, c)}
<1>1. /\ kept \in Seq(Entity) /\ kept' = kept /\ groups \in Seq(SUBSET Announced)
      /\ SitesStayApart /\ PreciseEventsStayApart
  BY DEF MergingInv, MergesAgree, ReadResult
<1>2. SitesStayApart'
  BY <1>1 DEF SitesStayApart
<1>3. CASE groups' = Append(groups, {c})
  <2>. DEFINE alone == {c}
  <2>1. alone \in SUBSET Announced /\ groups' = Append(groups, alone)
    BY <1>3
  <2>. HIDE DEF alone
  <2>2. /\ groups' \in Seq(SUBSET Announced) /\ Len(groups) \in Nat /\ Len(groups') = Len(groups) + 1
        /\ groups'[Len(groups) + 1] = alone /\ \A j \in 1..Len(groups) : groups'[j] = groups[j]
    BY <1>1, <2>1, Appended
  <2>3. ASSUME NEW k \in 1..Len(groups'), \A x \in groups'[k] : Precise(x), NEW x \in groups'[k], NEW y \in groups'[k]
        PROVE  SameEvent(x, y)
    <3>1. CASE k = Len(groups) + 1
      <4>1. x = c /\ y = c /\ Precise(c)
        BY <2>2, <2>3, <3>1 DEF alone
      <4>. QED
        BY <4>1, SameAsItself
    <3>2. CASE k \in 1..Len(groups)
      BY <1>1, <2>2, <2>3, <3>2 DEF PreciseEventsStayApart
    <3>. QED
      BY <2>2, <3>1, <3>2
  <2>4. PreciseEventsStayApart'
    BY <2>3 DEF PreciseEventsStayApart
  <2>. QED
    BY <1>1, <1>2, <2>2, <2>4 DEF MergingInv, MergesAgree
<1>4. ASSUME NEW k \in same, groups' = [groups EXCEPT ![k] = groups[k] \cup {c}]
      PROVE  MergingInv'
  <2>. DEFINE more == groups[k] \cup {c}
  <2>1. k \in DOMAIN groups /\ k \in 1..Len(groups) /\ \E x \in groups[k] : SameEvent(x, c)
    BY <1>1, LenProperties
  <2>2. more \in SUBSET Announced /\ groups' = [groups EXCEPT ![k] = more]
    BY <1>1, <1>4, <2>1, ElementOfSeq
  <2>3. \A z : z \in more <=> z \in groups[k] \/ z = c
    OBVIOUS
  <2>. HIDE DEF more, same
  <2>4. /\ groups' \in Seq(SUBSET Announced) /\ Len(groups') = Len(groups) /\ groups'[k] = more
        /\ \A j \in 1..Len(groups) : j # k => groups'[j] = groups[j]
    BY <1>1, <2>1, <2>2, ElementReplaced
  <2>5. ASSUME NEW j \in 1..Len(groups'), \A x \in groups'[j] : Precise(x), NEW x \in groups'[j], NEW y \in groups'[j]
        PROVE  SameEvent(x, y)
    <3>1. CASE j # k
      BY <1>1, <2>4, <2>5, <3>1 DEF PreciseEventsStayApart
    <3>2. CASE j = k
      <4>1. /\ Precise(c) /\ \A z \in groups[k] : Precise(z)
            /\ x \in groups[k] \/ x = c
            /\ y \in groups[k] \/ y = c
        BY <2>3, <2>4, <2>5, <3>2
      <4>2. \A u, v \in groups[k] : SameEvent(u, v)
        BY <1>1, <2>1, <4>1 DEF PreciseEventsStayApart
      <4>3. PICK w \in groups[k] : SameEvent(w, c)
        BY <2>1
      <4>4. \A u \in groups[k] : SameEvent(u, c) /\ SameEvent(c, u)
        BY <4>1, <4>2, <4>3, SameIsTransitive
      <4>. QED
        BY <4>1, <4>2, <4>4, SameAsItself
    <3>. QED
      BY <3>1, <3>2
  <2>6. PreciseEventsStayApart'
    BY <2>5 DEF PreciseEventsStayApart
  <2>. QED
    BY <1>1, <1>2, <2>4, <2>6 DEF MergingInv, MergesAgree
<1>. QED
  BY <1>3, <1>4 DEF ReadResult

\* The candidates of a search, typed, with what never joins two of them.
THEOREM MergingInvariant == MergingSpec => []MergingInv
<1>1. MergingInit => MergingInv
  BY EmptySeq DEF MergingInit, MergingInv, MergesAgree, SitesStayApart, PreciseEventsStayApart
<1>2. ASSUME MergingInv, [MergingNext]_mergingVars
      PROVE  MergingInv'
  <2>1. CASE UNCHANGED mergingVars
    BY <1>2, <2>1 DEF mergingVars, MergingInv, MergesAgree, SitesStayApart, PreciseEventsStayApart
  <2>. QED
    BY <1>2, <2>1, ReadPageKeeps, ReadResultKeeps DEF MergingNext
<1>3. MergingInv /\ [MergingNext]_mergingVars => MergingInv'
  BY <1>2
<1>. QED
  BY <1>1, <1>3, PTL DEF MergingSpec

\* A result that is read is a candidate more at most, and a candidate stands for a result.
ReadCounted ==
  /\ unread \in 0..MaxRead /\ Len(kept) + Len(groups) + unread <= MaxRead
  /\ \A k \in 1..Len(kept) : kept[k].pages # {}
  /\ \A k \in 1..Len(groups) : groups[k] # {}

LEMMA ReadPageCounts ==
  ASSUME MergingInv, ReadCounted, NEW c \in Page, ReadPage(c)
  PROVE  ReadCounted'
<1>. DEFINE alone == [name |-> c.name, site |-> c.site, admissible |-> c.admissible, pages |-> {c}]
<1>1. /\ kept \in Seq(Entity) /\ groups' = groups /\ Len(groups) \in Nat /\ Len(kept) \in Nat
      /\ unread \in Nat /\ unread > 0 /\ unread' = unread - 1 /\ MaxRead \in Nat
  BY LenProperties, MergingAssumption DEF MergingInv, ReadPage, ReadNext, ReadCounted
<1>2. /\ Len(kept') \in Nat /\ Len(kept') <= Len(kept) + 1
      /\ \A j \in 1..Len(kept') : kept'[j].pages # {}
  <2>1. alone \in Entity /\ alone.pages # {}
    BY DEF Entity, Page
  <2>2. CASE kept' = Append(kept, alone)
    <3>. HIDE DEF alone
    <3>1. /\ Len(kept') = Len(kept) + 1 /\ kept'[Len(kept) + 1] = alone
          /\ \A j \in 1..Len(kept) : kept'[j] = kept[j]
      BY <1>1, <2>1, <2>2, Appended
    <3>. QED
      BY <1>1, <2>1, <3>1 DEF ReadCounted
  <2>3. ASSUME NEW k \in DOMAIN kept, SameEntity(kept[k], c), kept' = [kept EXCEPT ![k] = Joined(kept[k], c)]
        PROVE  Len(kept') = Len(kept) /\ \A j \in 1..Len(kept') : kept'[j].pages # {}
    <3>1. k \in 1..Len(kept) /\ kept[k] \in Entity
      BY <1>1, <2>3, LenProperties, ElementOfSeq
    <3>2. \A p \in kept[k].pages : p.site \in {NULL, kept[k].site}
      BY <3>1 DEF MergingInv, MergesAgree, SitesStayApart
    <3>3. Joined(kept[k], c) \in Entity
      BY <2>3, <3>1, <3>2, JoinedSites
    <3>4. Joined(kept[k], c).pages # {}
      BY DEF Joined
    <3>. DEFINE new == Joined(kept[k], c)
    <3>5. new \in Entity /\ new.pages # {} /\ kept' = [kept EXCEPT ![k] = new]
      BY <2>3, <3>3, <3>4
    <3>. HIDE DEF new
    <3>6. /\ Len(kept') = Len(kept) /\ kept'[k] = new
          /\ \A j \in 1..Len(kept) : j # k => kept'[j] = kept[j]
      BY <1>1, <2>3, <3>5, ElementReplaced
    <3>. QED
      BY <3>5, <3>6 DEF ReadCounted
  <2>4. \/ kept' = Append(kept, alone)
        \/ \E k \in DOMAIN kept : SameEntity(kept[k], c) /\ kept' = [kept EXCEPT ![k] = Joined(kept[k], c)]
    BY DEF ReadPage
  <2>5. CASE kept' = Append(kept, alone)
    BY <1>1, <2>2, <2>5
  <2>6. CASE kept' # Append(kept, alone)
    <3>1. Len(kept') = Len(kept) /\ \A j \in 1..Len(kept') : kept'[j].pages # {}
      BY <2>3, <2>4, <2>6
    <3>. QED
      BY <1>1, <3>1
  <2>. QED
    BY <2>5, <2>6
<1>. QED
  BY <1>1, <1>2 DEF ReadCounted

LEMMA ReadResultCounts ==
  ASSUME MergingInv, ReadCounted, NEW c \in Announced, ReadResult(c)
  PROVE  ReadCounted'
<1>1. /\ groups \in Seq(SUBSET Announced) /\ kept' = kept /\ Len(groups) \in Nat /\ Len(kept) \in Nat
      /\ unread \in Nat /\ unread > 0 /\ unread' = unread - 1 /\ MaxRead \in Nat
  BY LenProperties, MergingAssumption DEF MergingInv, ReadResult, ReadNext, ReadCounted
<1>2. /\ Len(groups') \in Nat /\ Len(groups') <= Len(groups) + 1
      /\ \A j \in 1..Len(groups') : groups'[j] # {}
  <2>1. CASE groups' = Append(groups, {c})
    <3>1. {c} \in SUBSET Announced
      OBVIOUS
    <3>2. /\ Len(groups') = Len(groups) + 1 /\ groups'[Len(groups) + 1] = {c}
          /\ \A j \in 1..Len(groups) : groups'[j] = groups[j]
      BY <1>1, <2>1, <3>1, Appended
    <3>. QED
      BY <1>1, <3>2 DEF ReadCounted
  <2>2. ASSUME NEW k \in DOMAIN groups, groups' = [groups EXCEPT ![k] = groups[k] \cup {c}]
        PROVE  Len(groups') = Len(groups) /\ \A j \in 1..Len(groups') : groups'[j] # {}
    <3>. DEFINE more == groups[k] \cup {c}
    <3>1. more \in SUBSET Announced /\ more # {} /\ groups' = [groups EXCEPT ![k] = more]
      BY <1>1, <2>2, LenProperties, ElementOfSeq
    <3>. HIDE DEF more
    <3>2. /\ Len(groups') = Len(groups) /\ groups'[k] = more
          /\ \A j \in 1..Len(groups) : j # k => groups'[j] = groups[j]
      BY <1>1, <2>2, <3>1, ElementReplaced
    <3>. QED
      BY <3>1, <3>2 DEF ReadCounted
  <2>3. \/ groups' = Append(groups, {c})
        \/ \E k \in DOMAIN groups : groups' = [groups EXCEPT ![k] = groups[k] \cup {c}]
    BY DEF ReadResult
  <2>4. CASE groups' = Append(groups, {c})
    BY <1>1, <2>1, <2>4
  <2>5. CASE groups' # Append(groups, {c})
    <3>1. Len(groups') = Len(groups) /\ \A j \in 1..Len(groups') : groups'[j] # {}
      BY <2>2, <2>3, <2>5
    <3>. QED
      BY <1>1, <3>1
  <2>. QED
    BY <2>4, <2>5
<1>. QED
  BY <1>1, <1>2 DEF ReadCounted

\* No candidate is without a result, and there are no more of them than results read.
THEOREM MergingTypes == MergingSpec => []MergingTypeOK
<1>1. MergingInit => ReadCounted
  BY EmptySeq, MergingAssumption DEF MergingInit, ReadCounted
<1>2. ASSUME MergingInv, ReadCounted, [MergingNext]_mergingVars
      PROVE  ReadCounted'
  <2>1. CASE UNCHANGED mergingVars
    BY <1>2, <2>1 DEF mergingVars, ReadCounted
  <2>. QED
    BY <1>2, <2>1, ReadPageCounts, ReadResultCounts DEF MergingNext
<1>3. MergingInv /\ ReadCounted => MergingTypeOK
  <2>. SUFFICES ASSUME MergingInv, ReadCounted PROVE MergingTypeOK
    OBVIOUS
  <2>1. \A k \in 1..Len(kept) : kept[k] \in Entity
    BY ElementOfSeq DEF MergingInv
  <2>2. \A k \in 1..Len(groups) : groups[k] \in SUBSET Announced
    BY ElementOfSeq DEF MergingInv
  <2>3. Len(kept) \in Nat /\ Len(groups) \in Nat /\ MaxRead \in Nat
    BY LenProperties, MergingAssumption DEF MergingInv
  <2>4. \A k \in 1..Len(kept) : kept[k].name \in Cores /\ kept[k].pages \in SUBSET Page
    BY <2>1 DEF Entity
  <2>5. unread \in Nat /\ Len(kept) + Len(groups) <= MaxRead
    BY <2>3 DEF ReadCounted
  <2>. QED
    BY <2>2, <2>4, <2>5 DEF MergingTypeOK, ReadCounted
<1>. QED
  BY <1>1, <1>2, <1>3, MergingInvariant, PTL DEF MergingSpec

\* In whatever order a search returns them, its pages and its results are never merged when
\* their sites, or their places and months, tell them apart.
THEOREM MergesAgreeAlways == MergingSpec => []MergesAgree
<1>1. MergingInv => MergesAgree
  BY DEF MergingInv
<1>. QED
  BY <1>1, MergingInvariant, PTL

-----------------------------------------------------------------------------
(* The signals of prospects.                                               *)
StatusesOK ==
  /\ signalStatus \in [Leads \X Items -> SignalStatuses]
  /\ opened \in SUBSET Leads /\ revived \in SUBSET (Leads \X Items)
  /\ \A p \in Leads, i \in Items : <<p, i>> \in revived => Alive(p, i)
  /\ \A p \in Leads, i \in Items : signalStatus[<<p, i>>] # "NONE" => p \in opened
  /\ EventKeptOnce

(* Candidates: a link to a signal is to one that is there.                 *)
FindRow == [status : {"NONE", "NEW", "IGNORED", "ADDED", "PURGED"}, lead : Leads \cup {NULL},
            signal : Items \cup {NULL}]
OneFind(row) ==
  /\ row.lead \in opened \cup {NULL}
  /\ row.lead # NULL <=> row.status = "ADDED"
  /\ row.signal # NULL => row.lead # NULL /\ signalStatus[<<row.lead, row.signal>>] # "NONE"
FindsOK == find \in [Finds -> FindRow] /\ \A c \in Finds : OneFind(find[c])

(* Searches: what the request knows of the answers, and when a unit goes.  *)
SearchRow == [status : {"none", "running", "completed", "failed"}, answered : Nat,
              unit : {"none", "billed", "released"}]
Codes == {NULL, "PROVIDER_UNAVAILABLE", "PERSISTENCE_FAILED", "RUN_CLOSE_FAILED"}
Asking == [step : {"ASK"}, asked : Nat, answered : Nat]
Saving == [step : {"SAVE"}, found : SUBSET Finds, answered : Nat]
Ending == [step : {"CLOSE", "RELEASE"}, status : {"completed", "failed"}, code : Codes,
           answered : Nat, failed : BOOLEAN]
InquiryState == {NoInquiry} \cup Asking \cup Saving \cup Ending
Telling == [status : {"completed", "failed"}, code : Codes, refunded : BOOLEAN, failed : BOOLEAN]

OneSearch(row, job, said, n, finds) ==
  /\ row = NotSearched => job = NoInquiry /\ said = NULL /\ n = 0
  /\ row.answered <= n
  /\ job # NoInquiry => said = NULL /\ row.unit = "billed" /\ job.answered = n
  /\ job.step \in {"ASK", "SAVE"} => row.status = "running"
  /\ job.step = "SAVE" => n > 0 /\ job.found \subseteq finds
  /\ job.step \in {"CLOSE", "RELEASE"} =>
       /\ job.code = "PROVIDER_UNAVAILABLE" => n = 0 /\ job.status = "failed"
       /\ n = 0 => job.code = "PROVIDER_UNAVAILABLE"
  /\ job.step = "RELEASE" => row.status = "failed" /\ row.answered = 0 /\ n = 0
  /\ row.unit = "released" => n = 0
  /\ said # NULL =>
       /\ said.status = "completed" => row.status = "completed"
       /\ said.refunded => row.unit = "released"
       /\ said.code = "PROVIDER_UNAVAILABLE" /\ ~said.failed => row.unit = "released"
EachSearch == \A r \in Inquiries : OneSearch(search[r], inquiry[r], told[r], heard[r], FoundBy(r))
SearchesOK ==
  /\ search \in [Inquiries -> SearchRow] /\ inquiry \in [Inquiries -> InquiryState]
  /\ told \in [Inquiries -> Telling \cup {NULL}] /\ heard \in [Inquiries -> Nat]
  /\ EachSearch

\* Nothing is found by a search of which nothing was heard.
Unheard == \A c \in Finds : heard[FinderOf[c]] = 0 => find[c] = NoFind

SignalsInv == StatusesOK /\ FindsOK /\ SearchesOK /\ Unheard

-----------------------------------------------------------------------------
(* The signals of a prospect.                                              *)

LEMMA TwoAlive ==
  ASSUME EventKeptOnce, NEW p \in Leads, NEW i \in Items, NEW j \in Items, i # j, EventOf[i] = EventOf[j],
         Alive(p, i), Alive(p, j)
  PROVE  <<p, i>> \in revived \/ <<p, j>> \in revived
<1>1. revived \cap {<<p, i>>, <<p, j>>} # {}
  BY DEF EventKeptOnce
<1>. QED
  BY <1>1

LEMMA RowWritten ==
  ASSUME signalStatus \in [Leads \X Items -> SignalStatuses], NEW p \in Leads, NEW i \in Items,
         NEW v \in SignalStatuses, signalStatus' = [signalStatus EXCEPT ![<<p, i>>] = v]
  PROVE  /\ signalStatus' \in [Leads \X Items -> SignalStatuses]
         /\ \A q \in Leads, j \in Items :
              signalStatus'[<<q, j>>] = IF q = p /\ j = i THEN v ELSE signalStatus[<<q, j>>]
<1>1. signalStatus' \in [Leads \X Items -> SignalStatuses]
  OBVIOUS
<1>2. ASSUME NEW q \in Leads, NEW j \in Items
      PROVE  signalStatus'[<<q, j>>] = IF q = p /\ j = i THEN v ELSE signalStatus[<<q, j>>]
  <2>1. <<q, j>> \in Leads \X Items /\ (<<q, j>> = <<p, i>> <=> q = p /\ j = i)
    OBVIOUS
  <2>. QED
    BY <2>1
<1>. QED
  BY <1>1, <1>2

LEMMA SavedKeeps ==
  ASSUME StatusesOK, NEW p \in Leads, NEW i \in Items, signalStatus' = Saved(p, i),
         opened' \in SUBSET Leads, opened \subseteq opened', p \in opened', revived' = revived
  PROVE  /\ StatusesOK'
         /\ \A q \in Leads, j \in Items : signalStatus[<<q, j>>] # "NONE" => signalStatus'[<<q, j>>] # "NONE"
<1>1. CASE signalStatus' = signalStatus
  <2>1. EventKeptOnce'
    BY <1>1 DEF StatusesOK, EventKeptOnce, Alive
  <2>2. /\ \A q \in Leads, j \in Items : <<q, j>> \in revived' => Alive(q, j)'
        /\ \A q \in Leads, j \in Items : signalStatus'[<<q, j>>] # "NONE" => q \in opened'
    BY <1>1 DEF StatusesOK, Alive
  <2>. QED
    BY <1>1, <2>1, <2>2 DEF StatusesOK
<1>2. CASE signalStatus' # signalStatus
  <2>1. /\ ~Known(p, EventOf[i]) /\ signalStatus[<<p, i>>] = "NONE"
        /\ signalStatus' = [signalStatus EXCEPT ![<<p, i>>] = "PENDING_REVIEW"]
    BY <1>2 DEF Saved
  <2>. DEFINE v == "PENDING_REVIEW"
  <2>2. v \in SignalStatuses /\ v # "NONE" /\ v # "REJECTED" /\ signalStatus' = [signalStatus EXCEPT ![<<p, i>>] = v]
    BY <2>1 DEF SignalStatuses
  <2>. HIDE DEF v
  <2>3. /\ signalStatus' \in [Leads \X Items -> SignalStatuses]
        /\ \A q \in Leads, j \in Items :
             signalStatus'[<<q, j>>] = IF q = p /\ j = i THEN v ELSE signalStatus[<<q, j>>]
    BY <2>2, RowWritten DEF StatusesOK
  <2>4. \A q \in Leads, j \in Items : Alive(q, j)' => Alive(q, j) \/ (q = p /\ j = i)
    BY <2>3 DEF Alive
  <2>5. \A q \in Leads, j \in Items : Alive(q, j) => Alive(q, j)'
    BY <2>1, <2>3 DEF Alive
  <2>6. \A j \in Items : EventOf[j] = EventOf[i] => ~Alive(p, j)
    BY <2>1 DEF Known
  <2>7. EventKeptOnce'
    <3>1. ASSUME NEW q \in Leads, NEW j \in Items, NEW k \in Items, j # k, EventOf[j] = EventOf[k],
                 Alive(q, j)', Alive(q, k)'
          PROVE  revived' \cap {<<q, j>>, <<q, k>>} # {}
      <4>1. Alive(q, j) /\ Alive(q, k)
        BY <2>4, <2>6, <3>1
      <4>. QED
        BY <3>1, <4>1 DEF StatusesOK, EventKeptOnce
    <3>. QED
      BY <3>1 DEF EventKeptOnce
  <2>8. \A q \in Leads, j \in Items : <<q, j>> \in revived' => Alive(q, j)'
    BY <2>5 DEF StatusesOK
  <2>9. \A q \in Leads, j \in Items : signalStatus'[<<q, j>>] # "NONE" => q \in opened'
    BY <2>3 DEF StatusesOK
  <2>. QED
    BY <2>1, <2>2, <2>3, <2>7, <2>8, <2>9 DEF StatusesOK
<1>. QED
  BY <1>1, <1>2

LEMMA JudgeKeeps ==
  ASSUME StatusesOK, NEW p \in Leads, NEW i \in Items, NEW decision \in DOMAIN Decided, Judge(p, i, decision)
  PROVE  /\ StatusesOK'
         /\ \A q \in Leads, j \in Items : signalStatus[<<q, j>>] # "NONE" => signalStatus'[<<q, j>>] # "NONE"
<1>. DEFINE v == Decided[decision]
<1>1. /\ v \in {"VERIFIED", "REJECTED", "PENDING_REVIEW"} /\ (v = "REJECTED" <=> decision = "reject")
      /\ decision \in {"verify", "reject", "reset"}
  BY DEF Decided
<1>2. signalStatus[<<p, i>>] # "NONE" /\ signalStatus' = [signalStatus EXCEPT ![<<p, i>>] = v] /\ opened' = opened
  BY DEF Judge
<1>3. v \in SignalStatuses /\ v # "NONE"
  BY <1>1 DEF SignalStatuses
<1>4. revived' = IF v = "REJECTED" THEN revived \ {<<p, i>>}
                 ELSE revived \cup ({<<p, i>>} \cap {x \in Leads \X Items : signalStatus[x] = "REJECTED"})
  BY <1>1 DEF Judge
<1>. HIDE DEF v
<1>5. /\ signalStatus' \in [Leads \X Items -> SignalStatuses]
      /\ \A q \in Leads, j \in Items :
           signalStatus'[<<q, j>>] = IF q = p /\ j = i THEN v ELSE signalStatus[<<q, j>>]
  BY <1>2, <1>3, RowWritten DEF StatusesOK
<1>6. <<p, i>> \in Leads \X Items
  OBVIOUS
<1>7. /\ \A q \in Leads, j \in Items : ~(q = p /\ j = i) => (<<q, j>> \in revived' <=> <<q, j>> \in revived)
      /\ <<p, i>> \in revived' => v # "REJECTED"
      /\ v # "REJECTED" => (<<p, i>> \in revived' <=> <<p, i>> \in revived \/ signalStatus[<<p, i>>] = "REJECTED")
      /\ revived' \in SUBSET (Leads \X Items)
  <2>1. CASE v = "REJECTED"
    BY <1>4, <2>1 DEF StatusesOK
  <2>2. CASE v # "REJECTED"
    BY <1>4, <1>6, <2>2 DEF StatusesOK
  <2>. QED
    BY <2>1, <2>2
<1>8. \A q \in Leads, j \in Items : ~(q = p /\ j = i) => (Alive(q, j)' <=> Alive(q, j))
  BY <1>5 DEF Alive
<1>9. (Alive(p, i)' <=> v # "REJECTED") /\ (Alive(p, i) <=> signalStatus[<<p, i>>] # "REJECTED")
  <2>1. signalStatus'[<<p, i>>] = v /\ signalStatus[<<p, i>>] \in SignalStatuses
    BY <1>5, <1>6 DEF StatusesOK
  <2>. QED
    BY <1>1, <1>2, <2>1 DEF Alive, SignalStatuses
<1>10. EventKeptOnce'
  <2>1. ASSUME NEW q \in Leads, NEW j \in Items, NEW k \in Items, j # k, EventOf[j] = EventOf[k],
               Alive(q, j)', Alive(q, k)'
        PROVE  <<q, j>> \in revived' \/ <<q, k>> \in revived'
    <3>1. CASE Alive(q, j) /\ Alive(q, k)
      <4>1. <<q, j>> \in revived \/ <<q, k>> \in revived
        BY <2>1, <3>1 DEF StatusesOK, EventKeptOnce
      <4>. QED
        BY <1>7, <1>9, <2>1, <4>1
    <3>2. CASE ~Alive(q, j)
      BY <1>7, <1>8, <1>9, <2>1, <3>2
    <3>3. CASE ~Alive(q, k)
      BY <1>7, <1>8, <1>9, <2>1, <3>3
    <3>. QED
      BY <3>1, <3>2, <3>3
  <2>. QED
    BY <2>1 DEF EventKeptOnce
<1>11. \A q \in Leads, j \in Items : <<q, j>> \in revived' => Alive(q, j)'
  BY <1>7, <1>8, <1>9 DEF StatusesOK
<1>12. \A q \in Leads, j \in Items : signalStatus'[<<q, j>>] # "NONE" => q \in opened'
  BY <1>2, <1>5 DEF StatusesOK
<1>13. \A q \in Leads, j \in Items : signalStatus[<<q, j>>] # "NONE" => signalStatus'[<<q, j>>] # "NONE"
  BY <1>3, <1>5
<1>. QED
  BY <1>2, <1>5, <1>7, <1>10, <1>11, <1>12, <1>13 DEF StatusesOK

LEMMA PurgeKeeps ==
  ASSUME StatusesOK, NEW p \in Leads, NEW i \in Items, PurgeSignal(p, i)
  PROVE  /\ StatusesOK'
         /\ \A q \in Leads, j \in Items : ~(q = p /\ j = i) => signalStatus'[<<q, j>>] = signalStatus[<<q, j>>]
<1>. DEFINE v == "NONE"
<1>1. signalStatus' = [signalStatus EXCEPT ![<<p, i>>] = v] /\ opened' = opened /\ revived' = revived \ {<<p, i>>}
  BY DEF PurgeSignal
<1>2. v \in SignalStatuses /\ v \notin {"PENDING_REVIEW", "VERIFIED"} /\ v = "NONE"
  BY DEF SignalStatuses
<1>. HIDE DEF v
<1>3. /\ signalStatus' \in [Leads \X Items -> SignalStatuses]
      /\ \A q \in Leads, j \in Items :
           signalStatus'[<<q, j>>] = IF q = p /\ j = i THEN v ELSE signalStatus[<<q, j>>]
  BY <1>1, <1>2, RowWritten DEF StatusesOK
<1>4. \A q \in Leads, j \in Items : Alive(q, j)' <=> Alive(q, j) /\ ~(q = p /\ j = i)
  BY <1>2, <1>3 DEF Alive
<1>5. \A q \in Leads, j \in Items : <<q, j>> \in revived' <=> <<q, j>> \in revived /\ ~(q = p /\ j = i)
  BY <1>1
<1>6. EventKeptOnce'
  <2>1. ASSUME NEW q \in Leads, NEW j \in Items, NEW k \in Items, j # k, EventOf[j] = EventOf[k],
               Alive(q, j)', Alive(q, k)'
        PROVE  <<q, j>> \in revived' \/ <<q, k>> \in revived'
    <3>0. /\ Alive(q, j) /\ ~(q = p /\ j = i)
          /\ Alive(q, k) /\ ~(q = p /\ k = i)
      BY <1>4, <2>1
    <3>1. <<q, j>> \in revived \/ <<q, k>> \in revived
      BY <2>1, <3>0, TwoAlive DEF StatusesOK
    <3>. QED
      BY <1>5, <3>0, <3>1
  <2>. QED
    BY <2>1 DEF EventKeptOnce
<1>7. revived' \in SUBSET (Leads \X Items) /\ opened' \in SUBSET Leads
  BY <1>1 DEF StatusesOK
<1>8. \A q \in Leads, j \in Items : <<q, j>> \in revived' => Alive(q, j)'
  BY <1>4, <1>5 DEF StatusesOK
<1>9. \A q \in Leads, j \in Items : signalStatus'[<<q, j>>] # "NONE" => q \in opened'
  BY <1>1, <1>2, <1>3 DEF StatusesOK
<1>10. StatusesOK'
  BY <1>3, <1>6, <1>7, <1>8, <1>9 DEF StatusesOK
<1>. QED
  BY <1>3, <1>10

-----------------------------------------------------------------------------
(* Candidates.                                                             *)

LEMMA FindsStay ==
  ASSUME FindsOK, find' = find, opened \subseteq opened',
         \A q \in Leads, j \in Items : signalStatus[<<q, j>>] # "NONE" => signalStatus'[<<q, j>>] # "NONE"
  PROVE  FindsOK'
<1>1. ASSUME NEW c \in Finds
      PROVE  OneFind(find[c])'
  <2>1. find[c] \in FindRow /\ OneFind(find[c])
    BY DEF FindsOK
  <2>2. find'[c] = find[c] /\ NULL \notin Leads
    BY SignalsAssumption
  <2>3. find[c].signal # NULL => find[c].signal \in Items /\ find[c].lead \in Leads
    BY <2>1 DEF FindRow, OneFind
  <2>. QED
    BY <2>1, <2>2, <2>3 DEF OneFind
<1>. QED
  BY <1>1 DEF FindsOK

LEMMA FindWritten ==
  ASSUME FindsOK, NEW c \in Finds, NEW row \in FindRow, find' = [find EXCEPT ![c] = row],
         OneFind(row)', opened \subseteq opened', find[c] # NoFind,
         \A q \in Leads, j \in Items : signalStatus[<<q, j>>] # "NONE" => signalStatus'[<<q, j>>] # "NONE",
         Unheard, heard' = heard
  PROVE  FindsOK' /\ Unheard'
<1>1. find' \in [Finds -> FindRow] /\ find'[c] = row /\ \A d \in Finds \ {c} : find'[d] = find[d]
  BY DEF FindsOK
<1>2. ASSUME NEW d \in Finds \ {c}
      PROVE  OneFind(find[d])'
  <2>1. find[d] \in FindRow /\ OneFind(find[d]) /\ find'[d] = find[d]
    BY <1>1 DEF FindsOK
  <2>2. find[d].signal # NULL => find[d].signal \in Items /\ find[d].lead \in Leads
    BY <2>1 DEF FindRow, OneFind
  <2>. QED
    BY <2>1, <2>2 DEF OneFind
<1>3. FindsOK'
  BY <1>1, <1>2 DEF FindsOK
<1>4. Unheard'
  BY <1>1 DEF Unheard
<1>. QED
  BY <1>3, <1>4

LEMMA ManyFindsWritten ==
  ASSUME FindsOK, find' \in [Finds -> FindRow], UNCHANGED <<opened, signalStatus>>,
         \A c \in Finds : find'[c] = find[c] \/ OneFind(find'[c])
  PROVE  FindsOK'
<1>1. ASSUME NEW c \in Finds
      PROVE  OneFind(find[c])'
  <2>1. OneFind(find'[c])
    BY DEF FindsOK
  <2>. QED
    BY <2>1 DEF OneFind
<1>. QED
  BY <1>1 DEF FindsOK

LEMMA NoFindIs == NoFind \in FindRow /\ NoFind.lead = NULL /\ NoFind.signal = NULL /\ NoFind.status = "NONE"
BY DEF NoFind, FindRow

LEMMA PurgeSignalKeeps ==
  ASSUME StatusesOK, FindsOK, Unheard, NEW p \in Leads, NEW i \in Items, PurgeSignal(p, i)
  PROVE  StatusesOK' /\ FindsOK' /\ Unheard'
<1>1. /\ StatusesOK'
      /\ \A q \in Leads, j \in Items : ~(q = p /\ j = i) => signalStatus'[<<q, j>>] = signalStatus[<<q, j>>]
  BY PurgeKeeps
<1>2. opened' = opened /\ heard' = heard /\ NULL \notin Leads
  BY SignalsAssumption DEF PurgeSignal
<1>3. ASSUME NEW c \in Finds
      PROVE  /\ find'[c] \in FindRow /\ OneFind(find[c])'
             /\ find[c] = NoFind => find'[c] = NoFind
  <2>1. find[c] \in FindRow /\ OneFind(find[c])
    BY DEF FindsOK
  <2>2. find'[c] = IF find[c].lead = p /\ find[c].signal = i THEN [find[c] EXCEPT !.signal = NULL] ELSE find[c]
    BY DEF PurgeSignal
  <2>3. CASE find[c].lead = p /\ find[c].signal = i
    <3>1. find'[c] = [find[c] EXCEPT !.signal = NULL]
      BY <2>2, <2>3
    <3>2. find'[c] \in FindRow /\ find'[c].signal = NULL /\ find'[c].lead = find[c].lead /\ find'[c].status = find[c].status
      BY <2>1, <3>1 DEF FindRow
    <3>3. find[c] # NoFind
      BY <1>2, <2>3, NoFindIs
    <3>. QED
      BY <1>2, <2>1, <3>2, <3>3 DEF OneFind
  <2>4. CASE ~(find[c].lead = p /\ find[c].signal = i)
    <3>1. find'[c] = find[c]
      BY <2>2, <2>4
    <3>2. find[c].signal # NULL => find[c].signal \in Items /\ find[c].lead \in Leads
      BY <2>1 DEF FindRow, OneFind
    <3>3. find[c].signal # NULL => signalStatus'[<<find[c].lead, find[c].signal>>] # "NONE"
      BY <1>1, <2>1, <2>4, <3>2 DEF OneFind
    <3>. QED
      BY <1>2, <2>1, <3>1, <3>3 DEF OneFind
  <2>. QED
    BY <2>3, <2>4
<1>4. find' \in [Finds -> FindRow]
  <2>1. find' = [c \in Finds |-> find'[c]]
    BY DEF PurgeSignal
  <2>. QED
    BY <1>3, <2>1
<1>5. FindsOK'
  BY <1>3, <1>4 DEF FindsOK
<1>6. Unheard'
  BY <1>2, <1>3 DEF Unheard
<1>. QED
  BY <1>1, <1>5, <1>6

LEMMA IgnoreKeeps ==
  ASSUME StatusesOK, FindsOK, Unheard, NEW c \in Finds, Ignore(c) \/ PurgeFind(c)
  PROVE  StatusesOK' /\ FindsOK' /\ Unheard'
<1>1. /\ UNCHANGED <<signalStatus, opened, heard, revived>> /\ find[c].status \in {"NEW", "IGNORED"}
      /\ find' = [find EXCEPT ![c].status = "IGNORED"] \/ find' = [find EXCEPT ![c] = [NoFind EXCEPT !.status = "PURGED"]]
  BY DEF Ignore, PurgeFind
<1>2. find[c] \in FindRow /\ OneFind(find[c]) /\ find[c] # NoFind
  BY <1>1, NoFindIs DEF FindsOK
<1>3. find[c].lead = NULL /\ find[c].signal = NULL
  BY <1>1, <1>2 DEF OneFind
<1>. DEFINE ignored == [find[c] EXCEPT !.status = "IGNORED"]
            purged == [NoFind EXCEPT !.status = "PURGED"]
<1>4. ignored \in FindRow /\ ignored.lead = NULL /\ ignored.signal = NULL /\ ignored.status = "IGNORED"
  BY <1>2, <1>3 DEF FindRow
<1>5. purged \in FindRow /\ purged.lead = NULL /\ purged.signal = NULL /\ purged.status = "PURGED"
  BY NoFindIs DEF FindRow
<1>6. find' = [find EXCEPT ![c] = ignored] \/ find' = [find EXCEPT ![c] = purged]
  BY <1>1
<1>7. ASSUME NEW row \in FindRow, row.lead = NULL, row.signal = NULL, row.status # "ADDED"
      PROVE  OneFind(row)'
  BY <1>7 DEF OneFind
<1>8. StatusesOK'
  <2>1. EventKeptOnce' /\ \A q \in Leads, j \in Items : Alive(q, j)' <=> Alive(q, j)
    BY <1>1 DEF StatusesOK, EventKeptOnce, Alive
  <2>. QED
    BY <1>1, <2>1 DEF StatusesOK
<1>. HIDE DEF ignored, purged
<1>9. CASE find' = [find EXCEPT ![c] = ignored]
  BY <1>1, <1>2, <1>4, <1>7, <1>8, <1>9, FindWritten
<1>10. CASE find' = [find EXCEPT ![c] = purged]
  BY <1>1, <1>2, <1>5, <1>7, <1>8, <1>10, FindWritten
<1>. QED
  BY <1>6, <1>9, <1>10

LEMMA AddKeeps ==
  ASSUME StatusesOK, FindsOK, Unheard, NEW c \in Finds, NEW p \in Leads, Add(c, p)
  PROVE  StatusesOK' /\ FindsOK' /\ Unheard'
<1>. DEFINE i == ItemOf[c]
<1>1. /\ i \in Items /\ find[c].status = "NEW" /\ opened' = opened \cup {p} /\ signalStatus' = Saved(p, i)
      /\ revived' = revived /\ heard' = heard
  BY SignalsAssumption DEF Add
<1>2. PICK j \in Items : /\ signalStatus'[<<p, j>>] \in {"PENDING_REVIEW", "VERIFIED"}
                         /\ find' = [find EXCEPT ![c] = [status |-> "ADDED", lead |-> p, signal |-> j]]
  BY DEF Add
<1>. HIDE DEF i
<1>3. opened' \in SUBSET Leads /\ opened \subseteq opened' /\ p \in opened'
  BY <1>1 DEF StatusesOK
<1>4. /\ StatusesOK'
      /\ \A q \in Leads, k \in Items : signalStatus[<<q, k>>] # "NONE" => signalStatus'[<<q, k>>] # "NONE"
  BY <1>1, <1>3, SavedKeeps
<1>. DEFINE row == [status |-> "ADDED", lead |-> p, signal |-> j]
<1>5. row \in FindRow /\ row.lead = p /\ row.signal = j /\ row.status = "ADDED"
  BY DEF FindRow
<1>6. find' = [find EXCEPT ![c] = row]
  BY <1>2
<1>. HIDE DEF row
<1>7. OneFind(row)'
  BY <1>2, <1>3, <1>5, SignalsAssumption DEF OneFind
<1>8. find[c] # NoFind
  BY <1>1, NoFindIs
<1>9. FindsOK' /\ Unheard'
  BY <1>1, <1>3, <1>4, <1>5, <1>6, <1>7, <1>8, FindWritten
<1>. QED
  BY <1>4, <1>9

-----------------------------------------------------------------------------
(* Searches.                                                               *)

LEMMA SearchMoves ==
  ASSUME SearchesOK, NEW r \in Inquiries,
         NEW row \in SearchRow, NEW job \in InquiryState, NEW said \in Telling \cup {NULL}, NEW n \in Nat,
         search' = [search EXCEPT ![r] = row], inquiry' = [inquiry EXCEPT ![r] = job],
         told' = [told EXCEPT ![r] = said], heard' = [heard EXCEPT ![r] = n],
         OneSearch(row, job, said, n, FoundBy(r))
  PROVE  SearchesOK'
<1>1. /\ search' \in [Inquiries -> SearchRow] /\ inquiry' \in [Inquiries -> InquiryState]
      /\ told' \in [Inquiries -> Telling \cup {NULL}] /\ heard' \in [Inquiries -> Nat]
  BY DEF SearchesOK
<1>2. search'[r] = row /\ inquiry'[r] = job /\ told'[r] = said /\ heard'[r] = n
  BY DEF SearchesOK
<1>3. \A q \in Inquiries \ {r} : search'[q] = search[q] /\ inquiry'[q] = inquiry[q] /\ told'[q] = told[q] /\ heard'[q] = heard[q]
  BY DEF SearchesOK
<1>4. ASSUME NEW q \in Inquiries
      PROVE  OneSearch(search'[q], inquiry'[q], told'[q], heard'[q], FoundBy(q))
  <2>1. CASE q = r
    BY <1>2, <2>1
  <2>2. CASE q # r
    <3>1. OneSearch(search[q], inquiry[q], told[q], heard[q], FoundBy(q))
      BY DEF SearchesOK, EachSearch
    <3>. QED
      BY <1>3, <2>2, <3>1
  <2>. QED
    BY <2>1, <2>2
<1>5. EachSearch'
  BY <1>4 DEF EachSearch, FoundBy
<1>. QED
  BY <1>1, <1>5 DEF SearchesOK

LEMMA SearchFacts ==
  ASSUME SearchesOK, NEW r \in Inquiries
  PROVE  /\ search[r] \in SearchRow /\ inquiry[r] \in InquiryState /\ told[r] \in Telling \cup {NULL}
         /\ heard[r] \in Nat /\ OneSearch(search[r], inquiry[r], told[r], heard[r], FoundBy(r))
         /\ search = [search EXCEPT ![r] = search[r]] /\ inquiry = [inquiry EXCEPT ![r] = inquiry[r]]
         /\ told = [told EXCEPT ![r] = told[r]] /\ heard = [heard EXCEPT ![r] = heard[r]]
BY DEF SearchesOK, EachSearch

LEMMA StartSearchKeeps ==
  ASSUME SearchesOK, NEW r \in Inquiries, StartSearch(r)
  PROVE  SearchesOK'
<1>. DEFINE row == [status |-> "running", answered |-> 0, unit |-> "billed"]
            begun == [step |-> "ASK", asked |-> 0, answered |-> 0]
<1>1. row \in SearchRow /\ row.status = "running" /\ row.answered = 0 /\ row.unit = "billed" /\ row # NotSearched
  BY DEF SearchRow, NotSearched
<1>2. begun \in Asking /\ begun.step = "ASK" /\ begun.answered = 0
  BY DEF Asking
<1>3. search' = [search EXCEPT ![r] = row] /\ inquiry' \in {inquiry, [inquiry EXCEPT ![r] = begun]}
      /\ search[r] = NotSearched /\ told' = told /\ heard' = heard
  BY DEF StartSearch
<1>. HIDE DEF row, begun
<1>4. inquiry[r] = NoInquiry /\ told[r] = NULL /\ heard[r] = 0
  BY <1>3, SearchFacts DEF OneSearch
<1>5. NoInquiry.step = "NONE" /\ NoInquiry \in InquiryState /\ begun \in InquiryState
  BY <1>2 DEF NoInquiry, InquiryState
<1>. DEFINE nothing == NULL
            zero == 0
<1>6. /\ nothing \in Telling \cup {NULL} /\ nothing = NULL /\ zero \in Nat /\ zero = 0
      /\ told' = [told EXCEPT ![r] = nothing] /\ heard' = [heard EXCEPT ![r] = zero]
  BY <1>3, <1>4, SearchFacts
<1>. HIDE DEF nothing, zero
<1>7. OneSearch(row, begun, nothing, zero, FoundBy(r))
  BY <1>1, <1>2, <1>6 DEF OneSearch
<1>8. OneSearch(row, NoInquiry, nothing, zero, FoundBy(r))
  BY <1>1, <1>5, <1>6 DEF OneSearch
<1>9. ASSUME NEW job \in InquiryState, OneSearch(row, job, nothing, zero, FoundBy(r)),
             inquiry' = [inquiry EXCEPT ![r] = job]
      PROVE  SearchesOK'
  <2>1. /\ search' = [search EXCEPT ![r] = row] /\ told' = [told EXCEPT ![r] = nothing]
        /\ heard' = [heard EXCEPT ![r] = zero] /\ row \in SearchRow /\ nothing \in Telling \cup {NULL} /\ zero \in Nat
    BY <1>1, <1>3, <1>6
  <2>. QED
    BY <1>9, <2>1, SearchMoves
<1>10. CASE inquiry' = [inquiry EXCEPT ![r] = begun]
  BY <1>5, <1>7, <1>9, <1>10
<1>11. CASE inquiry' = inquiry
  <2>1. inquiry' = [inquiry EXCEPT ![r] = NoInquiry]
    BY <1>4, <1>11, SearchFacts
  <2>. QED
    BY <1>5, <1>8, <1>9, <2>1
<1>. QED
  BY <1>3, <1>10, <1>11

\* What an action does to its own search, when it leaves the unit and the history alone.
LEMMA JobMoves ==
  ASSUME SearchesOK, NEW r \in Inquiries, NEW job \in InquiryState, inquiry' = [inquiry EXCEPT ![r] = job],
         UNCHANGED <<search, told, heard>>, OneSearch(search[r], job, told[r], heard[r], FoundBy(r))
  PROVE  SearchesOK'
<1>1. /\ search[r] \in SearchRow /\ told[r] \in Telling \cup {NULL} /\ heard[r] \in Nat
      /\ search' = [search EXCEPT ![r] = search[r]] /\ told' = [told EXCEPT ![r] = told[r]]
      /\ heard' = [heard EXCEPT ![r] = heard[r]]
  BY SearchFacts
<1>. DEFINE row == search[r]
            said == told[r]
            n == heard[r]
<1>2. /\ row \in SearchRow /\ said \in Telling \cup {NULL} /\ n \in Nat
      /\ search' = [search EXCEPT ![r] = row] /\ told' = [told EXCEPT ![r] = said]
      /\ heard' = [heard EXCEPT ![r] = n] /\ OneSearch(row, job, said, n, FoundBy(r))
  BY <1>1
<1>. HIDE DEF row, said, n
<1>. QED
  BY <1>2, SearchMoves

LEMMA AskKeeps ==
  ASSUME SearchesOK, NEW r \in Inquiries, Ask(r)
  PROVE  SearchesOK'
<1>. DEFINE job == inquiry[r]
<1>1. job \in Asking /\ job.step = "ASK"
  BY SearchFacts DEF Ask, At, InquiryState, NoInquiry, Saving, Ending
<1>2. /\ OneSearch(search[r], job, told[r], heard[r], FoundBy(r)) /\ search[r] \in SearchRow /\ heard[r] \in Nat
      /\ told[r] \in Telling \cup {NULL} /\ UNCHANGED <<search, told>>
  BY SearchFacts DEF Ask
<1>3. job # NoInquiry
  BY <1>1 DEF NoInquiry
<1>4. /\ told[r] = NULL /\ search[r].unit = "billed" /\ job.answered = heard[r] /\ search[r].status = "running"
      /\ search[r].answered <= heard[r] /\ search[r] # NotSearched
  BY <1>1, <1>2, <1>3 DEF OneSearch
<1>5. ASSUME NEW other \in Asking, NEW n \in Nat, n >= heard[r], other.answered = n,
             inquiry' = [inquiry EXCEPT ![r] = other], heard' = [heard EXCEPT ![r] = n]
      PROVE  SearchesOK'
  <2>1. other \in InquiryState /\ other.step = "ASK"
    BY <1>5 DEF InquiryState, Asking
  <2>2. search[r].answered \in Nat
    BY <1>2 DEF SearchRow
  <2>3. OneSearch(search[r], other, told[r], n, FoundBy(r))
    BY <1>2, <1>4, <1>5, <2>1, <2>2 DEF OneSearch
  <2>4. search' = [search EXCEPT ![r] = search[r]] /\ told' = [told EXCEPT ![r] = told[r]]
    BY <1>2, SearchFacts
  <2>. QED
    BY <1>2, <1>5, <2>1, <2>3, <2>4, SearchMoves
<1>6. CASE \E some \in BOOLEAN :
             /\ heard' = [heard EXCEPT ![r] = @ + 1]
             /\ inquiry' = [inquiry EXCEPT ![r].asked = @ + 1, ![r].answered = @ + Counted(some)]
  <2>. DEFINE other == [job EXCEPT !.asked = job.asked + 1, !.answered = job.answered + 1]
              n == heard[r] + 1
  <2>0. n \in Nat /\ n >= heard[r] /\ job.asked + 1 \in Nat /\ job.answered + 1 = n
    BY <1>1, <1>2, <1>4 DEF Asking
  <2>1. other \in Asking /\ other.answered = n
    BY <1>1, <2>0 DEF Asking
  <2>2. inquiry' = [inquiry EXCEPT ![r] = other] /\ heard' = [heard EXCEPT ![r] = n]
    BY <1>6 DEF Counted
  <2>. HIDE DEF other, n
  <2>. QED
    BY <1>5, <2>0, <2>1, <2>2
<1>7. CASE /\ heard' = heard
           /\ inquiry' \in {[inquiry EXCEPT ![r].asked = @ + 1], [inquiry EXCEPT ![r].asked = NeedQueries]}
  <2>. DEFINE one == [job EXCEPT !.asked = job.asked + 1]
              all == [job EXCEPT !.asked = NeedQueries]
  <2>1. one \in Asking /\ one.answered = heard[r] /\ all \in Asking /\ all.answered = heard[r]
    BY <1>1, <1>4, SignalsAssumption DEF Asking
  <2>2. inquiry' = [inquiry EXCEPT ![r] = one] \/ inquiry' = [inquiry EXCEPT ![r] = all]
    BY <1>7
  <2>3. heard' = [heard EXCEPT ![r] = heard[r]] /\ heard[r] >= heard[r]
    BY <1>2, <1>7, SearchFacts
  <2>. HIDE DEF one, all
  <2>4. CASE inquiry' = [inquiry EXCEPT ![r] = one]
    BY <1>2, <1>5, <2>1, <2>3, <2>4
  <2>5. CASE inquiry' = [inquiry EXCEPT ![r] = all]
    BY <1>2, <1>5, <2>1, <2>3, <2>5
  <2>. QED
    BY <2>2, <2>4, <2>5
<1>. QED
  BY <1>6, <1>7 DEF Ask

LEMMA ClosingIs ==
  ASSUME NEW r \in Inquiries, NEW n \in Nat, inquiry[r].answered = n, NEW status \in {"completed", "failed"},
         NEW code \in Codes, NEW failed \in BOOLEAN, Closing(r, status, code, failed)
  PROVE  \E job \in Ending :
           /\ inquiry' = [inquiry EXCEPT ![r] = job]
           /\ job.step = "CLOSE" /\ job.status = status /\ job.code = code /\ job.answered = n
           /\ job.failed = failed
<1>. DEFINE job == [step |-> "CLOSE", status |-> status, code |-> code, answered |-> n, failed |-> failed]
<1>1. job \in Ending
  BY DEF Ending
<1>. QED
  BY <1>1 DEF Closing

\* A request that goes to its end.
LEMMA ClosingKeeps ==
  ASSUME SearchesOK, NEW r \in Inquiries, inquiry[r].step \in {"ASK", "SAVE"},
         NEW status \in {"completed", "failed"}, NEW code \in Codes, NEW failed \in BOOLEAN,
         Closing(r, status, code, failed), UNCHANGED <<search, told, heard>>,
         code = "PROVIDER_UNAVAILABLE" <=> heard[r] = 0, heard[r] = 0 => status = "failed"
  PROVE  SearchesOK'
<1>1. /\ OneSearch(search[r], inquiry[r], told[r], heard[r], FoundBy(r)) /\ heard[r] \in Nat
  BY SearchFacts
<1>2. inquiry[r] # NoInquiry
  BY DEF NoInquiry
<1>3. /\ told[r] = NULL /\ search[r].unit = "billed" /\ inquiry[r].answered = heard[r] /\ search[r].status = "running"
      /\ search[r].answered <= heard[r] /\ search[r] # NotSearched
  BY <1>1, <1>2 DEF OneSearch
<1>4. PICK job \in Ending :
        /\ inquiry' = [inquiry EXCEPT ![r] = job]
        /\ job.step = "CLOSE" /\ job.status = status /\ job.code = code /\ job.answered = heard[r]
        /\ job.failed = failed
  BY <1>1, <1>3, ClosingIs
<1>5. job \in InquiryState
  BY DEF InquiryState
<1>6. OneSearch(search[r], job, told[r], heard[r], FoundBy(r))
  BY <1>1, <1>3, <1>4 DEF OneSearch
<1>. QED
  BY <1>4, <1>5, <1>6, JobMoves

LEMMA AskedKeeps ==
  ASSUME SearchesOK, NEW r \in Inquiries, Asked(r)
  PROVE  SearchesOK'
<1>1. /\ inquiry[r] \in InquiryState /\ inquiry[r].step = "ASK" /\ heard[r] \in Nat
      /\ OneSearch(search[r], inquiry[r], told[r], heard[r], FoundBy(r)) /\ UNCHANGED <<search, told, heard>>
  BY SearchFacts DEF Asked, At
<1>2. inquiry[r] # NoInquiry
  BY <1>1 DEF NoInquiry
<1>3. /\ told[r] = NULL /\ search[r].unit = "billed" /\ inquiry[r].answered = heard[r] /\ search[r].status = "running"
      /\ search[r].answered <= heard[r] /\ search[r] # NotSearched
  BY <1>1, <1>2 DEF OneSearch
<1>4. NULL \in Codes /\ "PROVIDER_UNAVAILABLE" \in Codes
  BY DEF Codes
<1>5. CASE inquiry[r].answered = 0 /\ Closing(r, "failed", "PROVIDER_UNAVAILABLE", FALSE)
  BY <1>1, <1>3, <1>4, <1>5, ClosingKeeps
<1>6. CASE inquiry[r].answered # 0 /\ Closing(r, "completed", NULL, FALSE)
  BY <1>1, <1>3, <1>4, <1>6, SignalsAssumption, ClosingKeeps
<1>7. ASSUME NEW S \in SUBSET FoundBy(r), inquiry[r].answered # 0,
             inquiry' = [inquiry EXCEPT ![r] = [step |-> "SAVE", found |-> S, answered |-> @.answered]]
      PROVE  SearchesOK'
  <2>. DEFINE job == [step |-> "SAVE", found |-> S, answered |-> heard[r]]
  <2>1. job \in Saving /\ job.step = "SAVE" /\ job.found = S /\ job.answered = heard[r]
    BY <1>1 DEF Saving, FoundBy
  <2>2. inquiry' = [inquiry EXCEPT ![r] = job]
    BY <1>3, <1>7
  <2>. HIDE DEF job
  <2>3. job \in InquiryState /\ OneSearch(search[r], job, told[r], heard[r], FoundBy(r))
    BY <1>1, <1>3, <1>7, <2>1 DEF InquiryState, OneSearch
  <2>. QED
    BY <1>1, <2>2, <2>3, JobMoves
<1>. QED
  BY <1>5, <1>6, <1>7 DEF Asked

LEMMA SaveFindsKeeps ==
  ASSUME FindsOK, SearchesOK, Unheard, NEW r \in Inquiries, SaveFinds(r)
  PROVE  FindsOK' /\ SearchesOK' /\ Unheard'
<1>1. /\ inquiry[r] \in InquiryState /\ inquiry[r].step = "SAVE" /\ heard[r] \in Nat
      /\ OneSearch(search[r], inquiry[r], told[r], heard[r], FoundBy(r))
      /\ UNCHANGED <<signalStatus, opened, search, told, heard>>
  BY SearchFacts DEF SaveFinds, At
<1>2. heard[r] > 0 /\ inquiry[r].found \subseteq FoundBy(r)
  BY <1>1 DEF OneSearch
<1>3. SearchesOK'
  <2>1. /\ NULL \in Codes /\ "PERSISTENCE_FAILED" \in Codes /\ heard[r] # 0
        /\ inquiry[r].step \in {"ASK", "SAVE"} /\ UNCHANGED <<search, told, heard>>
    BY <1>1, <1>2 DEF Codes
  <2>2. CASE Closing(r, "completed", NULL, FALSE)
    BY <2>1, <2>2, SignalsAssumption, ClosingKeeps
  <2>3. CASE Closing(r, "failed", "PERSISTENCE_FAILED", TRUE)
    BY <2>1, <2>3, ClosingKeeps
  <2>. QED
    BY <2>2, <2>3 DEF SaveFinds
<1>. DEFINE fresh == [NoFind EXCEPT !.status = "NEW"]
            rows == [c \in Finds |-> IF c \in inquiry[r].found THEN fresh ELSE find[c]]
<1>4. find' = find \/ find' = rows
  BY DEF SaveFinds
<1>5. fresh \in FindRow /\ fresh.lead = NULL /\ fresh.signal = NULL /\ fresh.status = "NEW"
  BY NoFindIs DEF FindRow
<1>6. CASE find' = find
  BY <1>1, <1>3, <1>6, FindsStay DEF Unheard
<1>7. CASE find' = rows
  <2>1. \A c \in Finds : find'[c] = IF c \in inquiry[r].found THEN fresh ELSE find[c]
    BY <1>7
  <2>2. OneFind(fresh)
    BY <1>5 DEF OneFind
  <2>3. find' \in [Finds -> FindRow]
    BY <1>5, <1>7 DEF FindsOK
  <2>. HIDE DEF fresh, rows
  <2>4. FindsOK'
    BY <1>1, <2>1, <2>2, <2>3, ManyFindsWritten
  <2>5. Unheard'
    <3>1. ASSUME NEW c \in Finds, heard[FinderOf[c]] = 0
          PROVE  find'[c] = NoFind
      <4>1. c \notin inquiry[r].found
        BY <1>2, <3>1 DEF FoundBy
      <4>. QED
        BY <2>1, <3>1, <4>1 DEF Unheard
    <3>. QED
      BY <1>1, <3>1 DEF Unheard
  <2>. QED
    BY <1>3, <2>4, <2>5
<1>. QED
  BY <1>4, <1>6, <1>7

\* A request that ends, whether or not the member is told.
LEMMA LeavingKeeps ==
  ASSUME SearchesOK, NEW r \in Inquiries, NEW row \in SearchRow, NEW said \in Telling \cup {NULL},
         search' = [search EXCEPT ![r] = row], Leaves(r), told' = [told EXCEPT ![r] = said], heard' = heard,
         row # NotSearched, row.answered <= heard[r], row.unit = "released" => heard[r] = 0,
         said # NULL =>
           /\ said.status = "completed" => row.status = "completed"
           /\ said.refunded => row.unit = "released"
           /\ said.code = "PROVIDER_UNAVAILABLE" /\ ~said.failed => row.unit = "released"
  PROVE  SearchesOK'
<1>1. heard[r] \in Nat /\ heard' = [heard EXCEPT ![r] = heard[r]]
  BY SearchFacts
<1>. DEFINE n == heard[r]
            none == NoInquiry
<1>2. none \in InquiryState /\ none.step = "NONE" /\ none = NoInquiry /\ inquiry' = [inquiry EXCEPT ![r] = none]
  BY DEF NoInquiry, InquiryState, Leaves
<1>3. n \in Nat /\ heard' = [heard EXCEPT ![r] = n] /\ row.answered <= n /\ (row.unit = "released" => n = 0)
  BY <1>1
<1>. HIDE DEF n, none
<1>4. OneSearch(row, none, said, n, FoundBy(r))
  BY <1>2, <1>3 DEF OneSearch
<1>. QED
  BY <1>2, <1>3, <1>4, SearchMoves

LEMMA TellsIs ==
  ASSUME NEW r \in Inquiries, NEW status \in {"completed", "failed"}, NEW code \in Codes,
         NEW refunded \in BOOLEAN, NEW failed \in BOOLEAN, Tells(r, status, code, refunded, failed)
  PROVE  /\ Leaves(r)
         /\ \E said \in Telling :
              /\ told' = [told EXCEPT ![r] = said]
              /\ said.status = status /\ said.code = code /\ said.refunded = refunded /\ said.failed = failed
<1>. DEFINE said == [status |-> status, code |-> code, refunded |-> refunded, failed |-> failed]
<1>1. said \in Telling
  BY DEF Telling
<1>. QED
  BY <1>1 DEF Tells

LEMMA CloseKeeps ==
  ASSUME SearchesOK, NEW r \in Inquiries, Close(r)
  PROVE  SearchesOK'
<1>. DEFINE q == inquiry[r]
            row == [search[r] EXCEPT !.status = q.status, !.answered = q.answered]
<1>1. /\ q \in InquiryState /\ q.step = "CLOSE" /\ search[r] \in SearchRow /\ heard[r] \in Nat /\ heard' = heard
      /\ OneSearch(search[r], q, told[r], heard[r], FoundBy(r)) /\ told[r] \in Telling \cup {NULL}
      /\ search = [search EXCEPT ![r] = search[r]] /\ told = [told EXCEPT ![r] = told[r]]
  BY SearchFacts DEF Close, At
<1>2. q \in Ending /\ q # NoInquiry
  BY <1>1 DEF InquiryState, NoInquiry, Asking, Saving
<1>3. /\ q.status \in {"completed", "failed"} /\ q.code \in Codes /\ q.answered = heard[r] /\ q.failed \in BOOLEAN
      /\ told[r] = NULL /\ search[r].unit = "billed" /\ search[r] # NotSearched /\ search[r].answered <= heard[r]
      /\ q.code = "PROVIDER_UNAVAILABLE" => heard[r] = 0 /\ q.status = "failed"
      /\ heard[r] = 0 => q.code = "PROVIDER_UNAVAILABLE"
  BY <1>1, <1>2 DEF OneSearch, Ending
<1>4. /\ row \in SearchRow /\ row.status = q.status /\ row.answered = heard[r] /\ row.unit = "billed"
      /\ row # NotSearched
  BY <1>1, <1>3 DEF SearchRow, NotSearched
<1>5. [search EXCEPT ![r].status = q.status, ![r].answered = q.answered] = [search EXCEPT ![r] = row]
  BY <1>1 DEF SearchesOK
<1>. HIDE DEF row, q
<1>6. CASE /\ search' = [search EXCEPT ![r] = row]
           /\ q.status = "failed" /\ q.answered = 0
           /\ inquiry' = [inquiry EXCEPT ![r].step = "RELEASE"] /\ told' = told
  <2>. DEFINE job == [q EXCEPT !.step = "RELEASE"]
  <2>1. job \in Ending /\ job.step = "RELEASE" /\ job.code = q.code /\ job.answered = q.answered /\ job.status = q.status
    BY <1>2 DEF Ending
  <2>2. inquiry' = [inquiry EXCEPT ![r] = job]
    BY <1>6 DEF q
  <2>. HIDE DEF job
  <2>3. job \in InquiryState
    BY <2>1 DEF InquiryState
  <2>. DEFINE n == heard[r]
              said == told[r]
  <2>4. /\ n \in Nat /\ said \in Telling \cup {NULL} /\ heard' = [heard EXCEPT ![r] = n]
        /\ told' = [told EXCEPT ![r] = said]
    BY <1>1, <1>6, SearchFacts
  <2>5. OneSearch(row, job, said, n, FoundBy(r))
    BY <1>1, <1>3, <1>4, <1>6, <2>1 DEF OneSearch
  <2>. HIDE DEF n, said
  <2>. QED
    BY <1>4, <1>6, <2>2, <2>3, <2>4, <2>5, SearchMoves
<1>7. CASE /\ search' = [search EXCEPT ![r] = row]
           /\ ~(q.status = "failed" /\ q.answered = 0) /\ Tells(r, q.status, q.code, FALSE, q.failed)
  <2>1. Leaves(r)
    BY <1>7 DEF Tells
  <2>. DEFINE said == [status |-> q.status, code |-> q.code, refunded |-> FALSE, failed |-> q.failed]
  <2>2. /\ said \in Telling /\ told' = [told EXCEPT ![r] = said]
        /\ said.status = q.status /\ said.code = q.code /\ said.refunded = FALSE
    BY <1>3, <1>7 DEF Telling, Tells
  <2>. HIDE DEF said
  <2>3. said.code # "PROVIDER_UNAVAILABLE"
    BY <1>3, <1>7, <2>2
  <2>4. row.answered <= heard[r] /\ row.unit # "released"
    BY <1>1, <1>4
  <2>. QED
    BY <1>1, <1>4, <1>7, <2>1, <2>2, <2>3, <2>4, LeavingKeeps
<1>8. ASSUME NEW code \in Codes, Tells(r, "failed", code, FALSE, TRUE),
             search' = search \/ search' = [search EXCEPT ![r] = row]
      PROVE  SearchesOK'
  <2>1. Leaves(r)
    BY <1>8 DEF Tells
  <2>2. PICK said \in Telling :
          /\ told' = [told EXCEPT ![r] = said]
          /\ said.status = "failed" /\ said.refunded = FALSE /\ said.failed = TRUE
    BY <1>8, TellsIs
  <2>3. ASSUME NEW next \in SearchRow, search' = [search EXCEPT ![r] = next], next.unit = "billed",
               next # NotSearched, next.answered <= heard[r]
        PROVE  SearchesOK'
    BY <1>1, <2>1, <2>2, <2>3, LeavingKeeps
  <2>4. row.answered <= heard[r]
    BY <1>1, <1>4
  <2>5. CASE search' = search
    <3>. DEFINE next == search[r]
    <3>1. /\ next \in SearchRow /\ search' = [search EXCEPT ![r] = next] /\ next.unit = "billed"
          /\ next # NotSearched /\ next.answered <= heard[r]
      BY <1>1, <1>3, <2>5
    <3>. HIDE DEF next
    <3>. QED
      BY <2>3, <3>1
  <2>6. CASE search' = [search EXCEPT ![r] = row]
    BY <1>4, <2>3, <2>4, <2>6
  <2>. QED
    BY <1>8, <2>5, <2>6
<1>9. (IF q.code = NULL THEN "RUN_CLOSE_FAILED" ELSE q.code) \in Codes
  BY <1>3 DEF Codes
<1>. QED
  BY <1>5, <1>6, <1>7, <1>8, <1>9 DEF Close, q

LEMMA ReleaseUnitKeeps ==
  ASSUME SearchesOK, NEW r \in Inquiries, ReleaseUnit(r)
  PROVE  SearchesOK'
<1>. DEFINE q == inquiry[r]
            row == [search[r] EXCEPT !.unit = "released"]
<1>1. /\ q \in InquiryState /\ q.step = "RELEASE" /\ search[r] \in SearchRow /\ heard[r] \in Nat /\ heard' = heard
      /\ OneSearch(search[r], q, told[r], heard[r], FoundBy(r))
      /\ search = [search EXCEPT ![r] = search[r]]
  BY SearchFacts DEF ReleaseUnit, At
<1>2. q \in Ending /\ q # NoInquiry
  BY <1>1 DEF InquiryState, NoInquiry, Asking, Saving
<1>3. /\ q.code \in Codes /\ q.failed \in BOOLEAN
      /\ search[r].unit = "billed" /\ search[r].status = "failed" /\ search[r].answered = 0 /\ heard[r] = 0
      /\ search[r] # NotSearched
  BY <1>1, <1>2 DEF OneSearch, Ending
<1>4. row \in SearchRow /\ row.status = "failed" /\ row.answered = 0 /\ row.unit = "released" /\ row # NotSearched
  BY <1>1, <1>3 DEF SearchRow, NotSearched
<1>5. [search EXCEPT ![r].unit = "released"] = [search EXCEPT ![r] = row]
  BY <1>1 DEF SearchesOK
<1>. HIDE DEF row, q
<1>6. CASE /\ search' = [search EXCEPT ![r] = row]
           /\ Tells(r, "failed", q.code, TRUE, q.failed)
  <2>1. Leaves(r)
    BY <1>6 DEF Tells
  <2>. DEFINE said == [status |-> "failed", code |-> q.code, refunded |-> TRUE, failed |-> q.failed]
  <2>2. said \in Telling /\ told' = [told EXCEPT ![r] = said] /\ said.status = "failed"
    BY <1>3, <1>6 DEF Telling, Tells
  <2>. HIDE DEF said
  <2>3. row.answered <= heard[r]
    BY <1>3, <1>4
  <2>. QED
    BY <1>1, <1>3, <1>4, <1>6, <2>1, <2>2, <2>3, LeavingKeeps
<1>7. CASE /\ search' = search \/ search' = [search EXCEPT ![r] = row]
           /\ Tells(r, "failed", q.code, FALSE, TRUE)
  <2>1. Leaves(r)
    BY <1>7 DEF Tells
  <2>2. PICK said \in Telling :
          /\ told' = [told EXCEPT ![r] = said]
          /\ said.status = "failed" /\ said.refunded = FALSE /\ said.failed = TRUE
    BY <1>3, <1>7, TellsIs
  <2>3. ASSUME NEW next \in SearchRow, search' = [search EXCEPT ![r] = next],
               next # NotSearched, next.answered <= heard[r]
        PROVE  SearchesOK'
    BY <1>1, <1>3, <2>1, <2>2, <2>3, LeavingKeeps
  <2>4. row.answered <= heard[r]
    BY <1>3, <1>4
  <2>5. CASE search' = search
    <3>. DEFINE next == search[r]
    <3>1. /\ next \in SearchRow /\ search' = [search EXCEPT ![r] = next]
          /\ next # NotSearched /\ next.answered <= heard[r]
      BY <1>1, <1>3, <2>5
    <3>. HIDE DEF next
    <3>. QED
      BY <2>3, <3>1
  <2>6. CASE search' = [search EXCEPT ![r] = row]
    BY <1>4, <2>3, <2>4, <2>6
  <2>. QED
    BY <1>7, <2>5, <2>6
<1>8. search[r].status = "failed" /\ search[r].answered = 0 /\ search[r].unit = "billed"
  BY <1>3
<1>. QED
  BY <1>5, <1>6, <1>7, <1>8 DEF ReleaseUnit, q

LEMMA SearchDiesKeeps ==
  ASSUME SearchesOK, NEW r \in Inquiries, SearchDies(r)
  PROVE  SearchesOK'
<1>. DEFINE row == search[r]
            said == told[r]
<1>1. /\ row \in SearchRow /\ said \in Telling \cup {NULL} /\ Leaves(r) /\ heard' = heard
      /\ search' = [search EXCEPT ![r] = row] /\ told' = [told EXCEPT ![r] = said]
      /\ OneSearch(row, inquiry[r], said, heard[r], FoundBy(r)) /\ inquiry[r] # NoInquiry
  BY SearchFacts DEF SearchDies
<1>2. row # NotSearched /\ row.answered <= heard[r] /\ row.unit = "billed" /\ said = NULL
  BY <1>1 DEF OneSearch
<1>. HIDE DEF row, said
<1>. QED
  BY <1>1, <1>2, LeavingKeeps

-----------------------------------------------------------------------------
(* All of it.                                                              *)

LEMMA SignalsStart == SignalsInit => SignalsInv
<1>. SUFFICES ASSUME SignalsInit
     PROVE  SignalsInv
  OBVIOUS
<1>1. \A p \in Leads, i \in Items : signalStatus[<<p, i>>] = "NONE" /\ ~Alive(p, i)
  BY DEF SignalsInit, Alive
<1>2. StatusesOK
  <2>1. signalStatus \in [Leads \X Items -> SignalStatuses] /\ opened \in SUBSET Leads /\ revived = {}
    BY DEF SignalsInit, SignalStatuses
  <2>2. EventKeptOnce
    BY <1>1 DEF EventKeptOnce
  <2>. QED
    BY <1>1, <2>1, <2>2 DEF StatusesOK
<1>3. FindsOK /\ Unheard
  <2>1. \A c \in Finds : find[c] = NoFind
    BY DEF SignalsInit
  <2>2. find \in [Finds -> FindRow] /\ OneFind(NoFind)
    BY NoFindIs DEF SignalsInit, OneFind
  <2>. QED
    BY <2>1, <2>2 DEF FindsOK, Unheard
<1>4. SearchesOK
  <2>1. NotSearched \in SearchRow /\ NoInquiry \in InquiryState
    BY DEF NotSearched, SearchRow, InquiryState
  <2>2. /\ search \in [Inquiries -> SearchRow] /\ inquiry \in [Inquiries -> InquiryState]
        /\ told \in [Inquiries -> Telling \cup {NULL}] /\ heard \in [Inquiries -> Nat]
    BY <2>1 DEF SignalsInit
  <2>3. EachSearch
    BY DEF SignalsInit, EachSearch, OneSearch, NotSearched, NoInquiry
  <2>. QED
    BY <2>2, <2>3 DEF SearchesOK
<1>. QED
  BY <1>2, <1>3, <1>4 DEF SignalsInv

LEMMA SignalsAdvance == SignalsInv /\ [SignalsNext]_signalVars => SignalsInv'
<1>. SUFFICES ASSUME SignalsInv, [SignalsNext]_signalVars
     PROVE  SignalsInv'
  OBVIOUS
<1>1. StatusesOK /\ FindsOK /\ SearchesOK /\ Unheard
  BY DEF SignalsInv
<1>2. ASSUME UNCHANGED <<signalStatus, opened, revived>>
      PROVE  StatusesOK'
  <2>1. EventKeptOnce' /\ \A q \in Leads, j \in Items : Alive(q, j)' <=> Alive(q, j)
    BY <1>1, <1>2 DEF StatusesOK, EventKeptOnce, Alive
  <2>. QED
    BY <1>1, <1>2, <2>1 DEF StatusesOK
<1>3. ASSUME UNCHANGED <<search, inquiry, told, heard>>
      PROVE  SearchesOK'
  BY <1>1, <1>3 DEF SearchesOK, EachSearch, FoundBy
<1>4. ASSUME UNCHANGED <<find, signalStatus, opened>>
      PROVE  FindsOK'
  BY <1>1, <1>4, FindsStay
<1>5. ASSUME UNCHANGED <<find, heard>>
      PROVE  Unheard'
  BY <1>1, <1>5 DEF Unheard
<1>6. ASSUME NEW p \in Leads, NEW i \in Items, SaveSignal(p, i)
      PROVE  SignalsInv'
  <2>1. /\ p \in opened /\ signalStatus' = Saved(p, i)
        /\ UNCHANGED <<opened, find, search, inquiry, told, heard, revived>>
    BY <1>6 DEF SaveSignal
  <2>2. /\ StatusesOK'
        /\ \A q \in Leads, j \in Items : signalStatus[<<q, j>>] # "NONE" => signalStatus'[<<q, j>>] # "NONE"
    BY <1>1, <2>1, SavedKeeps DEF StatusesOK
  <2>3. FindsOK'
    BY <1>1, <2>1, <2>2, FindsStay
  <2>. QED
    BY <1>3, <1>5, <2>1, <2>2, <2>3 DEF SignalsInv
<1>7. ASSUME NEW p \in Leads, NEW i \in Items, NEW decision \in DOMAIN Decided, Judge(p, i, decision)
      PROVE  SignalsInv'
  <2>1. UNCHANGED <<opened, find, search, inquiry, told, heard>>
    BY <1>7 DEF Judge
  <2>2. /\ StatusesOK'
        /\ \A q \in Leads, j \in Items : signalStatus[<<q, j>>] # "NONE" => signalStatus'[<<q, j>>] # "NONE"
    BY <1>1, <1>7, JudgeKeeps
  <2>3. FindsOK'
    BY <1>1, <2>1, <2>2, FindsStay
  <2>. QED
    BY <1>3, <1>5, <2>1, <2>2, <2>3 DEF SignalsInv
<1>8. ASSUME NEW p \in Leads, NEW i \in Items, PurgeSignal(p, i)
      PROVE  SignalsInv'
  <2>1. UNCHANGED <<search, inquiry, told, heard>>
    BY <1>8 DEF PurgeSignal
  <2>. QED
    BY <1>1, <1>3, <1>8, <2>1, PurgeSignalKeeps DEF SignalsInv
<1>9. ASSUME NEW c \in Finds, Ignore(c) \/ PurgeFind(c) \/ \E p \in Leads : Add(c, p)
      PROVE  SignalsInv'
  <2>1. UNCHANGED <<search, inquiry, told, heard>>
    BY <1>9 DEF Ignore, PurgeFind, Add
  <2>2. StatusesOK' /\ FindsOK' /\ Unheard'
    BY <1>1, <1>9, IgnoreKeeps, AddKeeps
  <2>. QED
    BY <1>3, <2>1, <2>2 DEF SignalsInv
<1>10. ASSUME NEW r \in Inquiries, SaveFinds(r)
       PROVE  SignalsInv'
  <2>1. UNCHANGED <<signalStatus, opened, revived>>
    BY <1>10 DEF SaveFinds
  <2>. QED
    BY <1>1, <1>2, <1>10, <2>1, SaveFindsKeeps DEF SignalsInv
<1>11. ASSUME NEW r \in Inquiries, Ask(r)
       PROVE  SignalsInv'
  <2>1. /\ UNCHANGED <<signalStatus, opened, revived, find>>
        /\ heard' = heard \/ heard' = [heard EXCEPT ![r] = @ + 1]
    BY <1>11 DEF Ask
  <2>2. \A q \in Inquiries : heard[q] \in Nat
    BY <1>1 DEF SearchesOK
  <2>3. \A q \in Inquiries : heard'[q] = 0 => heard[q] = 0
    <3>1. CASE heard' = heard
      BY <3>1
    <3>2. CASE heard' = [heard EXCEPT ![r] = @ + 1]
      <4>1. ASSUME NEW q \in Inquiries, heard'[q] = 0
            PROVE  heard[q] = 0
        <5>1. CASE q = r
          <6>1. heard'[r] = heard[r] + 1
            BY <1>1, <3>2 DEF SearchesOK
          <6>. QED
            BY <2>2, <4>1, <5>1, <6>1
        <5>2. CASE q # r
          BY <1>1, <3>2, <4>1, <5>2 DEF SearchesOK
        <5>. QED
          BY <5>1, <5>2
      <4>. QED
        BY <4>1
    <3>. QED
      BY <2>1, <3>1, <3>2
  <2>4. Unheard'
    <3>1. \A c \in Finds : FinderOf[c] \in Inquiries
      BY SignalsAssumption
    <3>. QED
      BY <1>1, <2>1, <2>3, <3>1 DEF Unheard
  <2>5. SearchesOK'
    BY <1>1, <1>11, AskKeeps
  <2>. QED
    BY <1>2, <1>4, <2>1, <2>4, <2>5 DEF SignalsInv
<1>12. ASSUME NEW r \in Inquiries, StartSearch(r) \/ Asked(r) \/ Close(r) \/ ReleaseUnit(r) \/ SearchDies(r)
       PROVE  SignalsInv'
  <2>1. UNCHANGED <<signalStatus, opened, revived, find, heard>>
    BY <1>12 DEF StartSearch, Asked, Close, ReleaseUnit, SearchDies
  <2>2. SearchesOK'
    BY <1>1, <1>12, StartSearchKeeps, AskedKeeps, CloseKeeps, ReleaseUnitKeeps, SearchDiesKeeps
  <2>. QED
    BY <1>2, <1>4, <1>5, <2>1, <2>2 DEF SignalsInv
<1>13. CASE UNCHANGED signalVars
  BY <1>2, <1>3, <1>4, <1>5, <1>13 DEF signalVars, SignalsInv
<1>. QED
  BY <1>6, <1>7, <1>8, <1>9, <1>10, <1>11, <1>12, <1>13 DEF SignalsNext

\* The inductive invariant of the signals and of their searches.
THEOREM SignalsInvariant == SignalsSpec => []SignalsInv
<1>. QED
  BY SignalsStart, SignalsAdvance, PTL DEF SignalsSpec

\* Whoever saves it, and however often the same news is found, an event has one live signal of
\* a prospect, unless a rejected one was taken back.
THEOREM EventsAreKeptOnce == SignalsSpec => []EventKeptOnce
<1>1. SignalsInv => EventKeptOnce
  BY DEF SignalsInv, StatusesOK
<1>. QED
  BY <1>1, SignalsInvariant, PTL

\* A unit is given back only for a search that heard and saved nothing, and what the member is
\* told of the outcome and of the charge is what the database holds.
THEOREM SearchesAreToldTruly == SignalsSpec => []SearchIsToldTruly
<1>1. ASSUME SignalsInv
      PROVE  SearchIsToldTruly
  <2>1. ASSUME NEW r \in Inquiries
        PROVE  OneSearch(search[r], inquiry[r], told[r], heard[r], FoundBy(r))
    BY <1>1 DEF SignalsInv, SearchesOK, EachSearch
  <2>2. \A r \in Inquiries : heard[r] = 0 => \A c \in FoundBy(r) : find[c] = NoFind
    BY <1>1 DEF SignalsInv, Unheard, FoundBy
  <2>. QED
    BY <2>1, <2>2 DEF SearchIsToldTruly, OneSearch
<1>2. SignalsInv => SearchIsToldTruly
  BY <1>1
<1>. QED
  BY <1>2, SignalsInvariant, PTL

\* Of signals, candidates and searches: a signal is of a prospect that is there, a candidate is
\* tied to a prospect only when it was added, and to a signal that is there; a request that goes
\* on has told nothing yet.
THEOREM SignalsTypes == SignalsSpec => []SignalsTypeOK
<1>1. SignalsInv => SignalsTypeOK
  <2>. SUFFICES ASSUME SignalsInv PROVE SignalsTypeOK
    OBVIOUS
  <2>1. /\ signalStatus \in [Leads \X Items -> SignalStatuses] /\ opened \subseteq Leads
        /\ revived \subseteq {x \in Leads \X Items : Alive(x[1], x[2])}
        /\ \A x \in Leads \X Items : signalStatus[x] # "NONE" => x[1] \in opened
    BY DEF SignalsInv, StatusesOK
  <2>2. ASSUME NEW c \in Finds
        PROVE  /\ find[c].status \in {"NONE", "NEW", "IGNORED", "ADDED", "PURGED"}
               /\ find[c].lead \in opened \cup {NULL} /\ (find[c].lead # NULL <=> find[c].status = "ADDED")
               /\ find[c].signal # NULL => signalStatus[<<find[c].lead, find[c].signal>>] # "NONE"
    BY DEF SignalsInv, FindsOK, OneFind, FindRow
  <2>3. ASSUME NEW r \in Inquiries
        PROVE  search[r].answered \in 0..heard[r] /\ (inquiry[r] # NoInquiry => told[r] = NULL)
    BY DEF SignalsInv, SearchesOK, EachSearch, OneSearch, SearchRow
  <2>. QED
    BY <2>1, <2>2, <2>3 DEF SignalsTypeOK
<1>. QED
  BY <1>1, SignalsInvariant, PTL
=============================================================================
