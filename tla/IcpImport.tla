----------------------------- MODULE IcpImport ------------------------------
(***************************************************************************)
(* The import of a customer profile from a document, for one project       *)
(* (db/migrations/041_icp_import.sql, src/icp-import/api.ts,               *)
(* src/domain/icp/projection.ts).                                          *)
(*                                                                         *)
(* Each SQL function is one step. A request makes several, and may die or  *)
(* lose an answer between two; the completion it sent last may arrive any  *)
(* time later. Refusals that change nothing (quotas, entitlement, a body   *)
(* that cannot be read) are requests that do not begin, or stop.           *)
(*                                                                         *)
(* Of a project's criteria the projection writes the rules of target_fit   *)
(* only, which stand here for all of them: NULL when it has none.          *)
(***************************************************************************)
EXTENDS Commons

CONSTANTS
  Imports,       \* imports of the project (a bound)
  AuthorOf,      \* AuthorOf[i]: created_by
  Visits,        \* requests under way at a time (a bound)
  HandRules,     \* rules a person writes
  Targets,       \* what projectTargetFit makes of a profile: rules, or NULL
  EditsOverlap   \* a bound: criteria are saved by hand while a validation is under way

ASSUME IcpImportAssumption == EditsOverlap \in BOOLEAN /\ NULL \notin HandRules

VARIABLES
  import,   \* icp_imports: status, whether extracted holds a draft, the import it retries
            \* (retries and refused, that a person rejected it, are history)
  stale,    \* imports PENDING for two minutes
  icp,      \* icps: rules of the criteria, of projected_criteria, profile_import_id
  visit,    \* what a request has read and done
  late,     \* completions sent by requests that died, <<import, status>>
  byHand    \* history: the rules in force were written by hand

icpVars == <<import, stale, icp, visit, late, byHand>>

ImportStatuses == {"NONE", "PENDING", "EXTRACTED", "FAILED", "VALIDATED", "DISCARDED", "ERASED"}
Import == [status : ImportStatuses, draft : BOOLEAN, retries : Imports \cup {NULL}, refused : BOOLEAN]
Rules == HandRules \cup Targets \cup {NULL}
Icp == [rules : Rules, projected : Rules, from : Imports \cup {NULL}]

NoVisit == [step |-> "IDLE"]
Visit ==
  {NoVisit}
  \cup [step : {"READ"}, prev : Imports, seen : ImportStatuses, stale : BOOLEAN]    \* the import to retry
  \cup [step : {"STARTED"}, import : Imports, prev : Imports \cup {NULL}, replaces : BOOLEAN]
  \cup [step : {"RECORDED"}, prev : Imports]                                         \* as a draft
  \cup [step : {"REVIEWED"}, import : Imports, keep : BOOLEAN, rules : Rules]        \* about to validate

Has(i, S) == import[i].status \in S
Becomes(i, s) == import' = [import EXCEPT ![i].status = s]
Driven(i) == \E v \in Visits : visit[v].step = "STARTED" /\ visit[v].import = i
\* What readRow reports of a row: a dead run is FAILED.
ReadAs(i) == IF i \in stale THEN "FAILED" ELSE import[i].status

IcpInit ==
  /\ import = [i \in Imports |-> [status |-> "NONE", draft |-> FALSE, retries |-> NULL, refused |-> FALSE]]
  /\ stale = {} /\ late = {}
  /\ icp = [rules |-> NULL, projected |-> NULL, from |-> NULL]
  /\ visit = [v \in Visits |-> NoVisit]
  /\ byHand = FALSE

-----------------------------------------------------------------------------
(* An import, or the retry of one.                                         *)

Enter(v, w) == visit[v] = NoVisit /\ visit' = [visit EXCEPT ![v] = w]
Exit(v) == visit' = [visit EXCEPT ![v] = NoVisit]

\* POST /retry reads the previous import, before the source and before anything is written.
ReadPrevious(v, p) ==
  /\ ReadAs(p) \notin {"NONE", "ERASED", "PENDING"}
  /\ Enter(v, [step |-> "READ", prev |-> p, seen |-> ReadAs(p), stale |-> p \in stale])
  /\ UNCHANGED <<import, stale, icp, late, byHand>>

\* start_icp_import: a dead run is recorded FAILED, then one import in progress per project.
\* Its answer may be lost, which ends the request.
Start(v, i) ==
  /\ visit[v].step \in {"IDLE", "READ"}
  /\ Has(i, {"NONE"})
  /\ \A j \in Imports : Has(j, {"PENDING"}) => j \in stale
  /\ LET prev == IF visit[v] = NoVisit THEN NULL ELSE visit[v].prev
         open == [step |-> "STARTED", import |-> i, prev |-> prev,
                  replaces |-> prev # NULL /\ visit[v].seen \in {"EXTRACTED", "FAILED"} /\ ~visit[v].stale]
     IN  /\ import' = [j \in Imports |->
                         CASE j = i       -> [import[j] EXCEPT !.status = "PENDING", !.retries = prev]
                           [] j \in stale -> [import[j] EXCEPT !.status = "FAILED"]
                           [] OTHER       -> import[j]]
         /\ visit' \in {[visit EXCEPT ![v] = open], [visit EXCEPT ![v] = NoVisit]}
  /\ stale' = {}
  /\ UNCHANGED <<icp, late, byHand>>

\* complete_icp_import, on a PENDING row only.
Faulty_AnyStatus(i, s) ==
  import' = [import EXCEPT ![i].status = s, ![i].draft = (s = "EXTRACTED")]
RecordedAs(i, s) ==
  IF Has(i, {"PENDING"}) THEN import' = [import EXCEPT ![i].status = s, ![i].draft = (s = "EXTRACTED")]
  ELSE UNCHANGED import

\* The draft is recorded and the answer received: a retry goes on to its last step.
Faulty_GoesOn(i, s, ok) == s = "EXTRACTED"
GoesOn(i, s, ok) == ok /\ s = "EXTRACTED" /\ Has(i, {"PENDING"})

\* The provider answered, or failed, or was not called. The call may fail (ok = FALSE)
\* before it is executed or after it.
CompleteImport(v, s, ok) ==
  /\ visit[v].step = "STARTED"
  /\ LET i == visit[v].import
     IN  /\ \/ RecordedAs(i, s) /\ stale' = stale \ {i}
            \/ ~ok /\ UNCHANGED <<import, stale>>
         /\ IF visit[v].replaces /\ GoesOn(i, s, ok)
            THEN visit' = [visit EXCEPT ![v] = [step |-> "RECORDED", prev |-> @.prev]]
            ELSE Exit(v)
  /\ UNCHANGED <<icp, late, byHand>>

\* discard_icp_import of the previous import, best effort.
Discarded(i) == IF Has(i, {"EXTRACTED", "FAILED"}) THEN Becomes(i, "DISCARDED") ELSE UNCHANGED import
DiscardPrevious(v) ==
  /\ visit[v].step = "RECORDED"
  /\ Discarded(visit[v].prev) \/ UNCHANGED import
  /\ Exit(v)
  /\ UNCHANGED <<stale, icp, late, byHand>>

\* The request ends anywhere; what it sent last may still arrive.
VisitDies(v) ==
  /\ visit[v] # NoVisit
  /\ late' \in {late} \cup
       IF visit[v].step = "STARTED" THEN {late \cup {<<visit[v].import, s>>} : s \in {"EXTRACTED", "FAILED"}} ELSE {}
  /\ Exit(v)
  /\ UNCHANGED <<import, stale, icp, byHand>>
Arrives(i, s) ==
  /\ <<i, s>> \in late
  /\ RecordedAs(i, s) /\ stale' = stale \ {i}
  /\ late' = late \ {<<i, s>>}
  /\ UNCHANGED <<icp, visit, byHand>>

\* Two minutes, twice what a request lives.
LockLapses(i) ==
  /\ Has(i, {"PENDING"}) /\ i \notin stale /\ ~Driven(i)
  /\ stale' = stale \cup {i}
  /\ UNCHANGED <<import, icp, visit, late, byHand>>

-----------------------------------------------------------------------------
(* What people do with an import.                                          *)

\* projectCriteria: rules edited by hand since the last projection are kept.
Projection(t) ==
  IF t = NULL \/ (icp.rules # NULL /\ icp.rules # icp.projected) THEN icp.rules ELSE t

\* POST /validate reads the import and the criteria, and computes the projection; keep: the
\* criteria of the project are kept.
Review(v, i, t, keep) ==
  /\ ReadAs(i) = "EXTRACTED"
  /\ Enter(v, [step |-> "REVIEWED", import |-> i, keep |-> keep, rules |-> Projection(t)])
  /\ UNCHANGED <<import, stale, icp, late, byHand>>

\* validate_icp_import: the criteria given are stored as the projection as well.
Validate(v) ==
  /\ visit[v].step = "REVIEWED"
  /\ Has(visit[v].import, {"EXTRACTED"})
  /\ Becomes(visit[v].import, "VALIDATED")
  /\ LET given == visit[v].rules
     IN  IF visit[v].keep
         THEN /\ icp' = [icp EXCEPT !.from = visit[v].import]
              /\ byHand' = byHand
         ELSE /\ icp' = [rules |-> given, projected |-> given, from |-> visit[v].import]
              /\ byHand' = (byHand /\ given = icp.rules)
  /\ Exit(v)
  /\ UNCHANGED <<stale, late>>

\* POST /icps: a person writes the criteria.
SaveCriteria(r) ==
  /\ EditsOverlap \/ \A v \in Visits : visit[v].step # "REVIEWED"
  /\ r # icp.rules
  /\ icp' = [icp EXCEPT !.rules = r]
  /\ byHand' = (r # NULL)
  /\ UNCHANGED <<import, stale, visit, late>>

Discard(i) ==
  /\ Has(i, {"EXTRACTED", "FAILED"})
  /\ import' = [import EXCEPT ![i].status = "DISCARDED", ![i].refused = TRUE]
  /\ UNCHANGED <<stale, icp, visit, late, byHand>>

\* delete_icp_import, or the purge of what failed or was rejected 30 days ago.
Delete(i) ==
  /\ ~Has(i, {"NONE", "ERASED"})
  /\ Has(i, {"PENDING"}) => i \in stale
  /\ Becomes(i, "ERASED") /\ stale' = stale \ {i}
  /\ UNCHANGED <<icp, visit, late, byHand>>

\* erase_member_icp_imports: what the member started and nobody validated.
MemberLeaves(m) ==
  LET mine == {i \in Imports : AuthorOf[i] = m /\ ~Has(i, {"NONE", "VALIDATED", "ERASED"})}
  IN  /\ mine # {}
      /\ import' = [i \in Imports |-> IF i \in mine THEN [import[i] EXCEPT !.status = "ERASED"] ELSE import[i]]
      /\ stale' = stale \ mine
      /\ UNCHANGED <<icp, visit, late, byHand>>

IcpNext ==
  \/ \E v \in Visits, i \in Imports :
       \/ ReadPrevious(v, i) \/ Start(v, i)
       \/ \E t \in Targets, keep \in BOOLEAN : Review(v, i, t, keep)
  \/ \E v \in Visits :
       \/ \E s \in {"EXTRACTED", "FAILED"}, ok \in BOOLEAN : CompleteImport(v, s, ok)
       \/ DiscardPrevious(v) \/ Validate(v) \/ VisitDies(v)
  \/ \E i \in Imports :
       \/ \E s \in {"EXTRACTED", "FAILED"} : Arrives(i, s)
       \/ LockLapses(i) \/ Discard(i) \/ Delete(i)
  \/ \E r \in HandRules \cup {NULL} : SaveCriteria(r)
  \/ \E i \in Imports : MemberLeaves(AuthorOf[i])

IcpSpec == IcpInit /\ [][IcpNext]_icpVars

-----------------------------------------------------------------------------
(* Properties.                                                             *)

\* Type invariant: one import in progress, the stale ones are PENDING.
IcpTypeOK ==
  /\ import \in [Imports -> Import]
  /\ icp \in Icp
  /\ visit \in [Visits -> Visit]
  /\ stale \subseteq Imports /\ byHand \in BOOLEAN
  /\ late \subseteq Imports \X {"EXTRACTED", "FAILED"}
  /\ \A i \in stale : Has(i, {"PENDING"})
  /\ \A i, j \in Imports : Has(i, {"PENDING"}) /\ Has(j, {"PENDING"}) => i = j

\* "The previous import is rejected only once the new one is EXTRACTED: a retry that is
\* refused, fails or cannot be recorded leaves the previous draft as it was" (api.ts): a
\* draft that nobody rejected is rejected only when a retry of it has left a draft.
DraftsKept ==
  \A i \in Imports : Has(i, {"DISCARDED"}) /\ ~import[i].refused
    => \E j \in Imports : import[j].retries = i /\ import[j].draft

\* What was said of an import stands: a late completion never revives one that was recorded
\* FAILED, rejected or erased, and a retry never rejects what was accepted in the meantime.
After == [NONE |-> {"PENDING"}, PENDING |-> {"EXTRACTED", "FAILED", "ERASED"},
          EXTRACTED |-> {"VALIDATED", "DISCARDED", "ERASED"}, FAILED |-> {"DISCARDED", "ERASED"},
          VALIDATED |-> {"ERASED"}, DISCARDED |-> {"ERASED"}, ERASED |-> {}]
ImportsMoveForward ==
  [][\A i \in Imports : import'[i].status \in {import[i].status} \cup After[import[i].status]]_icpVars

\* "A rule edited by hand since the last projection (or written by hand before any) is kept,
\* never overwritten" (projection.ts): rules written by hand go only when a person removes them.
HandRulesKept == [][byHand /\ icp'.rules # NULL => byHand']_icpVars
=============================================================================
