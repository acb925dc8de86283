------------------------------ MODULE Discovery ------------------------------
(***************************************************************************)
(* A search for prospects in ProspectOS, from its launch to its results    *)
(* (src/discovery/services.ts, search-until-new.ts, secondary-sources.ts,  *)
(* providers/brave.ts, repository.ts, api.ts; db/migrations/014, 021, 022).*)
(*                                                                         *)
(* A run is driven by one request of the member: read the project, search, *)
(* look for the companies that pages cite, record the cost, save, finish.  *)
(* Every call may fail or lose its answer, and the process may die         *)
(* anywhere. The runs are launches of one search by members of one         *)
(* organization; what its unit costs in the plan is Usage's.               *)
(***************************************************************************)
EXTENDS Commons, Integers, FiniteSets

CONSTANTS
  Runs,        \* launches
  SearchNew,   \* launches that ask for new companies ("search new")
  Reuses,      \* launches for which a run to reuse was found
  Launches,       \* the launches of a behaviour are one of these sets (a bound)
  Companies,   \* organizations a source may return, each with its own site
  Pages,       \* other pages a source may return
  Cites,       \* Cites[g]: the companies a page names
  Queries,     \* Queries[r]: queries of its plan, or variants of a search for new companies
  SignalQueries, \* those of them that look for a need
  Wanted,      \* new companies asked for
  Jobs,        \* requests under way at a time (a bound)
  LastDay      \* time in days (a bound)

MaxProviderCalls == 3
PassTimeout == 3      \* 12 seconds, in ticks of four
TimeBudget == 10      \* 40 seconds
Durations == {1, PassTimeout}
Fresh == 2            \* days a search can be reused: 7

ASSUME DiscoveryAssumption ==
  /\ NULL \notin Runs /\ IsFiniteSet(Companies) /\ IsFiniteSet(Pages)
  /\ SearchNew \subseteq Runs /\ Reuses \subseteq Runs \ SearchNew /\ Launches \subseteq SUBSET Runs
  /\ Cites \in [Pages -> SUBSET Companies]
  /\ Queries \in [Runs -> 1..MaxProviderCalls] /\ SignalQueries \subseteq 1..MaxProviderCalls
  /\ Wanted \in Nat \ {0} /\ LastDay \in Nat

VARIABLES
  day,
  run,        \* discovery_runs, and the unit of each
  results,       \* discovery_results: the companies of a run (pages are only counted)
  driver,     \* the request that drives a run
  sent,       \* requests the source received for a run, and those it answered
  ledger      \* requests recorded as the cost of a run

discoveryVars == <<day, run, results, driver, sent, ledger>>

Candidates == Companies \cup Pages
NoRun == [status |-> "none"]
NeverLaunched == [status |-> "never"]
DiscoveryRun == [status : {"running", "completed", "failed"}, count : Nat, started : Nat,
        source : Runs \cup {NULL}, origin : Nat, failures : Nat, unit : {"none", "billed", "released"}]
NoJob == [step |-> "NONE"]
Searching == [step : {"READ", "SEARCH", "EXPAND"}, pool : SUBSET Candidates, calls : Nat, elapsed : Nat,
              known : SUBSET Companies, old : SUBSET Companies, memory : BOOLEAN]
JobState == {NoJob} \cup Searching \cup [step : {"METER"}, pool : SUBSET Candidates, elapsed : Nat]
           \cup [step : {"SAVE"}, pool : SUBSET Candidates] \cup [step : {"FINISH"}, count : Nat]
           \cup [step : {"FAILED", "RELEASE"}]
NoAnswer == [all |-> 0, answered |-> 0]

Waiting(plan) == [r \in Runs |-> IF r \in plan THEN NoRun ELSE NeverLaunched]
DiscoveryInit ==
  /\ day = 0
  /\ run \in {Waiting(plan) : plan \in Launches}
  /\ results = [r \in Runs |-> {}]
  /\ driver = [r \in Runs |-> NoJob]
  /\ sent = [r \in Runs |-> NoAnswer] /\ ledger = [r \in Runs |-> 0]

-----------------------------------------------------------------------------
(* Launch.                                                                 *)

AtStep(r, s) == driver[r].step = s
Enters(r, s) == driver' = [driver EXCEPT ![r].step = s]
\* Past the search only the candidates are used.
Writes(r, pool, t) == driver' = [driver EXCEPT ![r] = [step |-> "METER", pool |-> pool, elapsed |-> t]]
Breaks(r) == driver' = [driver EXCEPT ![r] = [step |-> "FAILED"]]
NewJob(pool) == [step |-> "READ", pool |-> pool, calls |-> 0, elapsed |-> 0,
                 known |-> {}, old |-> {}, memory |-> FALSE]

CanLaunch(r) == run[r] = NoRun /\ Cardinality({s \in Runs : driver[s] # NoJob}) < Jobs

\* start_discovery; the answer may be lost, and the run then goes no further.
Launch(r) ==
  /\ CanLaunch(r) /\ r \notin Reuses
  /\ run' = [run EXCEPT ![r] = [status |-> "running", count |-> 0, started |-> day, source |-> NULL,
                                origin |-> day, failures |-> 0, unit |-> "billed"]]
  /\ driver' \in {driver, [driver EXCEPT ![r] = NewJob({})]}
  /\ UNCHANGED <<day, results, sent, ledger>>

\* run_reusable: complete, with results, no failed request, and a recent origin.
Faulty_OwnStart(s) == run[s].started
OriginOf(s) == run[s].origin
Reusable(s) ==
  /\ run[s].status = "completed" /\ run[s].count > 0 /\ run[s].failures = 0
  /\ OriginOf(s) > day - Fresh
\* start_reused_discovery: the same pipeline on the results of the other run, for no unit.
LaunchReused(r, s) ==
  /\ CanLaunch(r) /\ r \in Reuses /\ s \notin SearchNew
  /\ Reusable(s)
  /\ run' = [run EXCEPT ![r] = [status |-> "running", count |-> 0, started |-> day, source |-> s,
                                origin |-> OriginOf(s), failures |-> 0, unit |-> "none"]]
  /\ driver' \in {driver, [driver EXCEPT ![r] = NewJob(results[s])]}
  /\ UNCHANGED <<day, results, sent, ledger>>

-----------------------------------------------------------------------------
(* Search.                                                                 *)

\* The prospects of the project, whichever they are, then its memory of earlier runs,
\* which a search for new companies uses: without it, it is a normal search.
Read(r) ==
  /\ AtStep(r, "READ")
  /\ \E known \in SUBSET Companies, ok \in BOOLEAN, t \in Durations :
       driver' = [driver EXCEPT ![r].step = IF run[r].source = NULL THEN "SEARCH" ELSE "EXPAND",
                          ![r].known = known, ![r].memory = ok /\ r \in SearchNew, ![r].elapsed = t,
                          ![r].old = IF ok /\ r \in SearchNew THEN known \cup UNION {results[s] : s \in Runs \ {r}} ELSE {}]
  /\ UNCHANGED <<day, run, results, sent, ledger>>

Deep(r) == driver[r].memory
NewIn(r, pool) == Cardinality((pool \cap Companies) \ driver[r].old)
SignalAfter(r, i) == \E q \in SignalQueries : i < q /\ q <= Queries[r]
\* planSecondaryExpansion: cited, neither found by this run nor a prospect.
CitedBy(r, pool) == UNION {Cites[g] : g \in pool \cap Pages} \ (pool \cup driver[r].known)
\* A request can still end in the time budget.
InBudget(r) == driver[r].elapsed + PassTimeout <= TimeBudget

\* searchUntilNewTarget: whether another pass is made after those already made.
Reserves(r) ==
  /\ driver[r].calls = MaxProviderCalls - 1 /\ ~SignalAfter(r, driver[r].calls)
  /\ CitedBy(r, driver[r].pool) # {}
MorePasses(r) ==
  /\ driver[r].calls < Queries[r]
  /\ Deep(r) => driver[r].calls = 0 \/ (InBudget(r) /\ ~Reserves(r))

\* One request of the plan, or one pass, answered.
Answered(r, answer, t) ==
  /\ AtStep(r, "SEARCH") /\ MorePasses(r)
  /\ sent' = [sent EXCEPT ![r] = [all |-> @.all + 1, answered |-> @.answered + 1]]
  /\ LET i == driver[r].calls + 1
         pool == driver[r].pool \cup answer
         enough == Deep(r) /\ (\/ NewIn(r, pool) >= Wanted
                               \/ /\ i > 1 /\ NewIn(r, pool) <= NewIn(r, driver[r].pool) /\ ~SignalAfter(r, i))
     IN  driver' = [driver EXCEPT ![r] = [driver[r] EXCEPT !.calls = i, !.pool = pool,
                                             !.elapsed = driver[r].elapsed + t, !.step = IF enough THEN "EXPAND" ELSE "SEARCH"]]
  /\ UNCHANGED <<day, run, results, ledger>>

\* It failed: a plan goes on unless the source limits the rate, passes stop. With no
\* answer at all the search fails.
Unanswered(r, limited, t) ==
  /\ AtStep(r, "SEARCH") /\ MorePasses(r)
  /\ sent' = [sent EXCEPT ![r].all = @ + 1]
  /\ LET calls == driver[r].calls + 1
         stops == Deep(r) \/ limited \/ calls = Queries[r]
     IN  IF stops /\ sent[r].answered = 0
         THEN Breaks(r)
         ELSE driver' = [driver EXCEPT ![r] = [driver[r] EXCEPT !.calls = calls,
                                                  !.elapsed = driver[r].elapsed + t, !.step = IF stops THEN "EXPAND" ELSE "SEARCH"]]
  /\ UNCHANGED <<day, run, results, ledger>>

SearchIsOver(r) ==
  /\ AtStep(r, "SEARCH") /\ ~MorePasses(r)
  /\ Enters(r, "EXPAND")
  /\ UNCHANGED <<day, run, results, sent, ledger>>

\* expandSecondary: at most one more request, for the cited companies; its failure is
\* never the run's. A reused run has no source to ask.
Faulty_MayExpand(r) == CitedBy(r, driver[r].pool) # {} /\ run[r].source = NULL /\ InBudget(r)
MayExpand(r) ==
  /\ CitedBy(r, driver[r].pool) # {} /\ run[r].source = NULL
  /\ sent[r].all < MaxProviderCalls /\ InBudget(r)
Expand(r) ==
  /\ AtStep(r, "EXPAND")
  /\ IF MayExpand(r)
     THEN \E ok \in BOOLEAN, t \in Durations : \E found \in SUBSET CitedBy(r, driver[r].pool) :
            /\ ~ok => found = {}
            /\ sent' = [sent EXCEPT ![r] = [all |-> @.all + 1, answered |-> @.answered + IF ok THEN 1 ELSE 0]]
            /\ Writes(r, driver[r].pool \cup found, driver[r].elapsed + t)
     ELSE Writes(r, driver[r].pool, 0) /\ sent' = sent
  /\ UNCHANGED <<day, run, results, ledger>>

-----------------------------------------------------------------------------
(* What is written.                                                        *)

\* meterSearch, best effort, once; the failed runs pass here too.
Faulty_RecordedAsOne(r) == 1
Recorded(r) == sent[r].all
Meters(r) == ledger' \in {ledger, [ledger EXCEPT ![r] = IF @ = 0 THEN Recorded(r) ELSE @]}
Meter(r) ==
  /\ AtStep(r, "METER") /\ Meters(r)
  /\ driver' = [driver EXCEPT ![r] = [step |-> "SAVE", pool |-> @.pool]]
  /\ UNCHANGED <<day, run, results, sent>>

\* save_discovery_results, on a running run; no candidate is a call less.
Save(r) ==
  /\ AtStep(r, "SAVE")
  /\ \/ /\ results' = [results EXCEPT ![r] = driver[r].pool \cap Companies]
        /\ \/ driver' = [driver EXCEPT ![r] = [step |-> "FINISH", count |-> Cardinality(driver[r].pool)]]
           \/ Breaks(r)
     \/ results' = results /\ Breaks(r)
  /\ UNCHANGED <<day, run, sent, ledger>>

\* finish: an update of the row, whatever its status. Its answer may be lost.
Finish(r) ==
  /\ AtStep(r, "FINISH")
  /\ \/ /\ run' = [run EXCEPT ![r].status = "completed", ![r].count = driver[r].count,
                              ![r].failures = sent[r].all - sent[r].answered]
        /\ \/ driver' = [driver EXCEPT ![r] = NoJob]
           \/ Breaks(r)
     \/ run' = run /\ Breaks(r)
  /\ UNCHANGED <<day, results, sent, ledger>>

\* The catch block: the cost, then the failed run; when that write fails too, nothing more.
FinishFailed(r) ==
  /\ AtStep(r, "FAILED") /\ Meters(r)
  /\ \/ /\ run' = [run EXCEPT ![r].status = "failed", ![r].count = 0]
        /\ Enters(r, "RELEASE")
     \/ run' = run /\ driver' = [driver EXCEPT ![r] = NoJob]
  /\ UNCHANGED <<day, results, sent>>

\* release_failed_discovery when the source answered nothing, best effort.
Faulty_SomethingFailed(r) == sent[r].all = 0 \/ sent[r].answered < sent[r].all
NothingAnswered(r) == sent[r].all = 0 \/ sent[r].answered = 0
GiveBack(r) ==
  /\ AtStep(r, "RELEASE")
  /\ \/ run' = run
     \/ /\ NothingAnswered(r) /\ run[r].unit = "billed" /\ run[r].status = "failed"
        /\ run' = [run EXCEPT ![r].unit = "released"]
  /\ driver' = [driver EXCEPT ![r] = NoJob]
  /\ UNCHANGED <<day, results, sent, ledger>>

\* A read that fails before the search; the process that dies.
ReadFails(r) ==
  /\ AtStep(r, "READ")
  /\ Breaks(r)
  /\ UNCHANGED <<day, run, results, sent, ledger>>
JobDies(r) ==
  /\ driver[r] # NoJob
  /\ driver' = [driver EXCEPT ![r] = NoJob]
  /\ UNCHANGED <<day, run, results, sent, ledger>>

-----------------------------------------------------------------------------
\* A request lives 60 seconds: it is over by the next day.
NextDay ==
  /\ day < LastDay /\ \A r \in Runs : driver[r] = NoJob
  /\ day' = day + 1
  /\ UNCHANGED <<run, results, driver, sent, ledger>>

RunStep(r) ==
  \/ Launch(r) \/ \E s \in Runs \ {r} : LaunchReused(r, s)
  \/ Read(r) \/ ReadFails(r) \/ SearchIsOver(r)
  \/ \E t \in Durations :
       \/ \E answer \in SUBSET Candidates : Answered(r, answer, t)
       \/ \E limited \in BOOLEAN : Unanswered(r, limited, t)
  \/ Expand(r) \/ Meter(r) \/ Save(r) \/ Finish(r) \/ FinishFailed(r) \/ GiveBack(r)
  \/ JobDies(r)

DiscoveryNext ==
  \/ \E r \in Runs : RunStep(r)
  \/ NextDay

DiscoverySpec == DiscoveryInit /\ [][DiscoveryNext]_discoveryVars

-----------------------------------------------------------------------------
(* Properties.                                                             *)

\* Type invariant.
DiscoveryTypeOK ==
  /\ day \in 0..LastDay
  /\ run \in [Runs -> DiscoveryRun \cup {NoRun, NeverLaunched}]
  /\ results \in [Runs -> SUBSET Companies]
  /\ driver \in [Runs -> JobState]
  /\ \A r \in Runs : driver[r] # NoJob => run[r].status = "running" \/ driver[r].step \in {"FAILED", "RELEASE"}
  /\ sent \in [Runs -> [all : Nat, answered : Nat]]
  /\ ledger \in [Runs -> Nat]

\* One search, whichever way it goes, is at most three paid requests, and a pass or a look
\* for cited companies that is not the first request ends within the time budget, so that
\* saving is left its part of the 60 seconds (search-until-new.ts).
RequestsBounded ==
  \A r \in Runs :
    /\ sent[r].all <= MaxProviderCalls
    /\ driver[r].step \in {"SEARCH", "EXPAND"} /\ Deep(r) /\ driver[r].calls > 1 => driver[r].elapsed <= TimeBudget
    /\ AtStep(r, "METER") => driver[r].elapsed <= TimeBudget

\* The ledger never shows another number of requests than the source received: "N requests are
\* never recorded as one" (services.ts), even when the run fails half way and is metered by
\* its catch block.
LedgerIsExact ==
  \A r \in Runs : ledger[r] # 0 => ledger[r] = sent[r].all

\* A unit is given back only for a run that delivered nothing: no result of it is in the
\* project, whatever answer of the database was lost on the way.
ReleasedDeliveredNothing ==
  \A r \in Runs : run[r] \in DiscoveryRun /\ run[r].unit = "released" => results[r] = {} /\ run[r].status = "failed"

\* Results that are reused are less than seven days old when they are, however many times
\* they were reused before.
Reuse(r) == run[r] \in DiscoveryRun /\ run[r].source # NULL
SearchOf[r \in Runs] == IF Reuse(r) THEN SearchOf[run[r].source] ELSE r
ReuseIsFresh ==
  \A r \in Runs : Reuse(r) => run[r].started - run[SearchOf[r]].started < Fresh
=============================================================================
