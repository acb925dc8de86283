------------------------------ MODULE Signals -------------------------------
(***************************************************************************)
(* Signals of the prospects of a project, and the search that finds some   *)
(* (db/migrations/024, 026, 030; src/signals, src/signal-discovery).       *)
(*                                                                         *)
(* A signal is an item (a page and the words read on it) told of an event. *)
(* It is saved by a scan, a monitor or a person, for review. A signal      *)
(* search is one request: start, ask the source, save the candidates,      *)
(* close the run, give its unit back; every call to the database may fail  *)
(* or lose its answer, and the request may die. A person then ignores a    *)
(* candidate or adds it: a prospect, and one signal of it.                 *)
(***************************************************************************)
EXTENDS Commons, Naturals, FiniteSets

CONSTANTS
  Items,       \* items
  EventOf,     \* EventOf[i]: its event_key
  Leads,       \* prospects, those that do not exist yet included (a bound)
  Inquiries,   \* runs of a signal search
  Finds,       \* candidates
  FinderOf,    \* FinderOf[c]: the run that may find it
  ItemOf,      \* ItemOf[c]: its own item
  NeedQueries  \* queries of a plan (a bound: the code sends three at most)

ASSUME SignalsAssumption ==
  /\ NULL \notin Leads \cup Items /\ NULL # "PROVIDER_UNAVAILABLE"
  /\ FinderOf \in [Finds -> Inquiries] /\ ItemOf \in [Finds -> Items]
  /\ NeedQueries \in Nat \ {0}
  \* one candidate of an event in a run: unique(run_id, event_key)
  /\ \A c, d \in Finds :
       c # d /\ FinderOf[c] = FinderOf[d] => EventOf[ItemOf[c]] # EventOf[ItemOf[d]]

VARIABLES
  signalStatus,  \* signals: status of each item of a prospect, NONE when there is no row
  opened,        \* prospects that exist
  find,          \* signal_discovery_candidates
  search,        \* signal_discovery_runs: status, requests_answered of its metrics; its unit
  inquiry,       \* the request that drives a run
  told,          \* what the member was told of a run, NULL before
  heard,         \* history: requests of a run that the source answered
  revived        \* history: signals taken back to review after they were rejected

signalVars == <<signalStatus, opened, find, search, inquiry, told, heard, revived>>

SignalStatuses == {"NONE", "PENDING_REVIEW", "VERIFIED", "REJECTED"}
NoFind == [status |-> "NONE", lead |-> NULL, signal |-> NULL]
NotSearched == [status |-> "none", answered |-> 0, unit |-> "none"]
NoInquiry == [step |-> "NONE"]

Alive(p, i) == signalStatus[<<p, i>>] \in {"PENDING_REVIEW", "VERIFIED"}
FoundBy(r) == {c \in Finds : FinderOf[c] = r}

SignalsInit ==
  /\ signalStatus = [x \in Leads \X Items |-> "NONE"]
  /\ \E p \in Leads : opened = {p}
  /\ find = [c \in Finds |-> NoFind]
  /\ search = [r \in Inquiries |-> NotSearched]
  /\ inquiry = [r \in Inquiries |-> NoInquiry]
  /\ told = [r \in Inquiries |-> NULL] /\ heard = [r \in Inquiries |-> 0]
  /\ revived = {}

-----------------------------------------------------------------------------
(* Signals of a prospect.                                                  *)

\* save_signals_core for one item, under the lock of the prospect: an event that is known is
\* a duplicate, and so is an item that was saved, whatever became of it.
Faulty_KnownIfVerified(p, e) == \E i \in Items : EventOf[i] = e /\ signalStatus[<<p, i>>] = "VERIFIED"
Known(p, e) == \E i \in Items : EventOf[i] = e /\ Alive(p, i)
Saved(p, i) ==
  IF Known(p, EventOf[i]) \/ signalStatus[<<p, i>>] # "NONE" THEN signalStatus
  ELSE [signalStatus EXCEPT ![<<p, i>>] = "PENDING_REVIEW"]

SaveSignal(p, i) ==
  /\ p \in opened
  /\ signalStatus' = Saved(p, i)
  /\ UNCHANGED <<opened, find, search, inquiry, told, heard, revived>>

\* review_signal: any decision at any status.
Decided == [verify |-> "VERIFIED", reject |-> "REJECTED", reset |-> "PENDING_REVIEW"]
Judge(p, i, decision) ==
  /\ signalStatus[<<p, i>>] # "NONE"
  /\ signalStatus' = [signalStatus EXCEPT ![<<p, i>>] = Decided[decision]]
  /\ revived' = IF decision = "reject" THEN revived \ {<<p, i>>}
                ELSE revived \cup ({<<p, i>>} \cap {x \in Leads \X Items : signalStatus[x] = "REJECTED"})
  /\ UNCHANGED <<opened, find, search, inquiry, told, heard>>

\* purge_signals, which nothing schedules: old ones not verified; candidates lose the link.
PurgeSignal(p, i) ==
  /\ signalStatus[<<p, i>>] \in {"PENDING_REVIEW", "REJECTED"}
  /\ signalStatus' = [signalStatus EXCEPT ![<<p, i>>] = "NONE"]
  /\ revived' = revived \ {<<p, i>>}
  /\ find' = [c \in Finds |-> IF <<find[c].lead, find[c].signal>> = <<p, i>>
                              THEN [find[c] EXCEPT !.signal = NULL] ELSE find[c]]
  /\ UNCHANGED <<opened, search, inquiry, told, heard>>

-----------------------------------------------------------------------------
(* A signal search.                                                        *)

At(r, s) == inquiry[r].step = s
Leaves(r) == inquiry' = [inquiry EXCEPT ![r] = NoInquiry]
\* failed: a call of this request to the database failed, or lost its answer.
Closing(r, status, code, failed) ==
  inquiry' = [inquiry EXCEPT ![r] = [step |-> "CLOSE", status |-> status, code |-> code,
                                     answered |-> inquiry[r].answered, failed |-> failed]]

\* start_signal_discovery, which consumes a unit; without its answer nothing follows.
StartSearch(r) ==
  /\ search[r] = NotSearched
  /\ search' = [search EXCEPT ![r] = [status |-> "running", answered |-> 0, unit |-> "billed"]]
  /\ inquiry' \in {inquiry, [inquiry EXCEPT ![r] = [step |-> "ASK", asked |-> 0, answered |-> 0]]}
  /\ UNCHANGED <<signalStatus, opened, find, told, heard, revived>>

\* A query: an answer counts, without any result too; a limited rate stops the others.
Faulty_WithResults(some) == IF some THEN 1 ELSE 0
Counted(some) == 1
Ask(r) ==
  /\ At(r, "ASK") /\ inquiry[r].asked < NeedQueries
  /\ \/ \E some \in BOOLEAN :
          /\ heard' = [heard EXCEPT ![r] = @ + 1]
          /\ inquiry' = [inquiry EXCEPT ![r].asked = @ + 1, ![r].answered = @ + Counted(some)]
     \/ /\ heard' = heard
        /\ inquiry' \in {[inquiry EXCEPT ![r].asked = @ + 1], [inquiry EXCEPT ![r].asked = NeedQueries]}
  /\ UNCHANGED <<signalStatus, opened, find, search, told, revived>>

\* All asked, or out of time: no answer is a failure, no result a completed run.
Asked(r) ==
  /\ At(r, "ASK")
  /\ IF inquiry[r].answered = 0 THEN Closing(r, "failed", "PROVIDER_UNAVAILABLE", FALSE)
     ELSE \E S \in SUBSET FoundBy(r) :
            IF S = {} THEN Closing(r, "completed", NULL, FALSE)
            ELSE inquiry' = [inquiry EXCEPT ![r] = [step |-> "SAVE", found |-> S, answered |-> @.answered]]
  /\ UNCHANGED <<signalStatus, opened, find, search, told, heard, revived>>

\* save_signal_discovery_candidates, in one transaction, on a running run.
SaveFinds(r) ==
  /\ At(r, "SAVE") /\ search[r].status = "running"
  /\ LET rows == [c \in Finds |-> IF c \in inquiry[r].found THEN [NoFind EXCEPT !.status = "NEW"] ELSE find[c]]
     IN  \/ find' = rows /\ Closing(r, "completed", NULL, FALSE)
         \/ find' \in {find, rows} /\ Closing(r, "failed", "PERSISTENCE_FAILED", TRUE)
  /\ UNCHANGED <<signalStatus, opened, search, told, heard, revived>>

Tells(r, status, code, refunded, failed) ==
  /\ told' = [told EXCEPT ![r] = [status |-> status, code |-> code, refunded |-> refunded, failed |-> failed]]
  /\ Leaves(r)

\* complete_signal_discovery_run. A run that could not be closed is told failed.
Close(r) ==
  /\ At(r, "CLOSE") /\ search[r].status = "running"
  /\ LET q == inquiry[r]
         closed == [search EXCEPT ![r].status = q.status, ![r].answered = q.answered]
     IN  \/ /\ search' = closed
            /\ IF q.status = "failed" /\ q.answered = 0
               THEN inquiry' = [inquiry EXCEPT ![r].step = "RELEASE"] /\ told' = told
               ELSE Tells(r, q.status, q.code, FALSE, q.failed)
         \/ /\ search' \in {search, closed}
            /\ Tells(r, "failed", IF q.code = NULL THEN "RUN_CLOSE_FAILED" ELSE q.code, FALSE, TRUE)
  /\ UNCHANGED <<signalStatus, opened, find, heard, revived>>

\* release_failed_signal_discovery, which reads the run again.
ReleaseUnit(r) ==
  /\ At(r, "RELEASE")
  /\ LET may == search[r].status = "failed" /\ search[r].answered = 0 /\ search[r].unit = "billed"
         released == IF may THEN [search EXCEPT ![r].unit = "released"] ELSE search
     IN  \/ search' = released /\ Tells(r, "failed", inquiry[r].code, may, inquiry[r].failed)
         \/ search' \in {search, released} /\ Tells(r, "failed", inquiry[r].code, FALSE, TRUE)
  /\ UNCHANGED <<signalStatus, opened, find, heard, revived>>

SearchDies(r) ==
  /\ inquiry[r] # NoInquiry /\ Leaves(r)
  /\ UNCHANGED <<signalStatus, opened, find, search, told, heard, revived>>

-----------------------------------------------------------------------------
(* Candidates.                                                             *)

\* ignore_signal_candidate.
Ignore(c) ==
  /\ find[c].status = "NEW"
  /\ find' = [find EXCEPT ![c].status = "IGNORED"]
  /\ UNCHANGED <<signalStatus, opened, search, inquiry, told, heard, revived>>

\* add_signal_candidate_to_project, all or nothing: without a live signal of its event in
\* the end (its own was rejected), nothing is done.
Add(c, p) ==
  /\ find[c].status = "NEW"
  /\ LET i == ItemOf[c]
     IN  /\ Known(p, EventOf[i]) \/ signalStatus[<<p, i>>] = "NONE"
         /\ opened' = opened \cup {p}
         /\ signalStatus' = Saved(p, i)
         /\ \E j \in Items :
              /\ EventOf[j] = EventOf[i] /\ signalStatus'[<<p, j>>] \in {"PENDING_REVIEW", "VERIFIED"}
              /\ find' = [find EXCEPT ![c] = [status |-> "ADDED", lead |-> p, signal |-> j]]
  /\ UNCHANGED <<search, inquiry, told, heard, revived>>

\* purge_signal_discovery, which nothing schedules: old candidates that were not added.
PurgeFind(c) ==
  /\ find[c].status \in {"NEW", "IGNORED"}
  /\ find' = [find EXCEPT ![c] = [NoFind EXCEPT !.status = "PURGED"]]
  /\ UNCHANGED <<signalStatus, opened, search, inquiry, told, heard, revived>>

-----------------------------------------------------------------------------
SignalsNext ==
  \/ \E p \in Leads, i \in Items :
       \/ SaveSignal(p, i) \/ PurgeSignal(p, i)
       \/ \E decision \in DOMAIN Decided : Judge(p, i, decision)
  \/ \E r \in Inquiries :
       StartSearch(r) \/ Ask(r) \/ Asked(r) \/ SaveFinds(r) \/ Close(r) \/ ReleaseUnit(r) \/ SearchDies(r)
  \/ \E c \in Finds : Ignore(c) \/ PurgeFind(c) \/ \E p \in Leads : Add(c, p)

SignalsSpec == SignalsInit /\ [][SignalsNext]_signalVars

-----------------------------------------------------------------------------
(* Properties.                                                             *)

\* Type invariant.
SignalsTypeOK ==
  /\ signalStatus \in [Leads \X Items -> SignalStatuses] /\ opened \subseteq Leads
  /\ revived \subseteq {x \in Leads \X Items : Alive(x[1], x[2])}
  /\ \A x \in Leads \X Items : signalStatus[x] # "NONE" => x[1] \in opened
  /\ \A c \in Finds :
       /\ find[c].status \in {"NONE", "NEW", "IGNORED", "ADDED", "PURGED"}
       /\ find[c].lead \in opened \cup {NULL} /\ (find[c].lead # NULL <=> find[c].status = "ADDED")
       /\ find[c].signal # NULL => signalStatus[<<find[c].lead, find[c].signal>>] # "NONE"
  /\ \A r \in Inquiries : search[r].answered \in 0..heard[r] /\ inquiry[r] # NoInquiry => told[r] = NULL

\* An event "seen on several sources is kept once" (024): saved by scans, monitors, people
\* and candidates added to the project, two signals of one event are never live for a
\* prospect, unless one of them was rejected and taken back after the other was saved.
EventKeptOnce ==
  \A p \in Leads : \A i, j \in Items :
    i # j /\ EventOf[i] = EventOf[j] /\ Alive(p, i) /\ Alive(p, j) => revived \cap {<<p, i>>, <<p, j>>} # {}

\* What a search costs and what the member is told go together, whatever calls fail: a unit is
\* given back only when the source answered nothing, and then no candidate was saved; a run
\* told completed is completed; and "nothing is charged" (the words of PROVIDER_UNAVAILABLE,
\* api.ts) is true unless the database failed when the run was closed or its unit released.
SearchIsToldTruly ==
  \A r \in Inquiries :
    /\ search[r].unit = "released" => heard[r] = 0 /\ \A c \in FoundBy(r) : find[c] = NoFind
    /\ told[r] # NULL =>
         /\ told[r].status = "completed" => search[r].status = "completed"
         /\ told[r].refunded => search[r].unit = "released"
         /\ told[r].code = "PROVIDER_UNAVAILABLE" /\ ~told[r].failed => search[r].unit = "released"
=============================================================================
