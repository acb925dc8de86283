------------------------- MODULE SelfOutreachProofs -------------------------
(***************************************************************************)
(* Self-Outreach, for any candidates, workers and bounds: types; the lives *)
(* of a message and of a candidate, which never disagree; no more than one *)
(* copy of a message an attempt, and a database that says what became of   *)
(* it, between the workers, the SMTP server and the database; the rules of *)
(* outreach (the daily cap, one active candidate per contact, bounded      *)
(* follow-ups, suppression and replies final, an approved text locked);    *)
(* and that all this implements Delivery.                                  *)
(***************************************************************************)
EXTENDS SelfOutreach, FiniteSetTheorems, TLAPS

(* A worker past its choice of a message holds one, and a worker about to    *)
(* complete one has a result for it: without this, completing could write    *)
(* anything.                                                                 *)
InHand ==
  \A w \in Workers :
    /\ pc[w] \in {"smtp", "abort", "report"} <=> cur[w] # NULL
    /\ pc[w] \in {"abort", "report"} <=> result[w] # NULL
    /\ pc[w] = "abort" => result[w] = "ABORTED"
    /\ pc[w] \in {"idle", "draft"} => todo[w] = {}

TypeInv == TypeOK /\ InHand

-----------------------------------------------------------------------------
(* The messages are finitely many, so any set of them has a cardinality.     *)
LEMMA FiniteMsgs ==
  ASSUME NEW S \in SUBSET Msgs
  PROVE  IsFiniteSet(S) /\ Cardinality(S) \in Nat
<1>1. IsFiniteSet(0 .. 3)
  <2>1. 0 \in Int /\ 3 \in Int
    OBVIOUS
  <2>. QED
    BY <2>1, FS_Interval, Zenon
<1>2. IsFiniteSet(Msgs)
  BY <1>1, FS_Product, OutreachAssumption DEF Msgs
<1>3. IsFiniteSet(S)
  BY <1>2, FS_Subset
<1>. QED
  BY <1>3, FS_CardinalityType

(* A message's candidate and its recipient are a candidate and an address.   *)
LEMMA MessageTypes ==
  /\ \A m \in Msgs : m[1] \in Candidates /\ MailTo(m[1]) \in Emails
  /\ \A k \in Candidates : /\ MailTo(k) \in Emails
                           /\ Org(k) \in Orgs
                           /\ Initial(k) \in Msgs
                           /\ Booking(k) \in Msgs
BY OutreachAssumption DEF Msgs, MailTo, Org, Initial, Booking

(* Stopping an address or a candidate's follow-ups keeps the types.          *)
LEMMA StopTypes ==
  ASSUME NEW s \in [Msgs -> SendStates], NEW ks \in [Candidates -> Statuses],
         NEW E, NEW K
  PROVE  /\ StopMessages(s, E) \in [Msgs -> SendStates]
         /\ StopFollowUps(s, K) \in [Msgs -> SendStates]
         /\ StopCandidates(ks, E) \in [Candidates -> Statuses]
BY DEF StopMessages, StopFollowUps, StopCandidates, SendStates, Statuses

LEMMA SweptTypes ==
  ASSUME TypeOK
  PROVE  /\ SweptStatus \in [Candidates -> Statuses]
         /\ Swept \subseteq expired
         /\ Claimable \subseteq Msgs
BY DEF SweptStatus, Swept, Claimable, TypeOK, Statuses

-----------------------------------------------------------------------------
LEMMA InitTypes == Init => TypeInv
BY OutreachAssumption
   DEF Init, TypeInv, TypeOK, InHand, Statuses, SendStates, Days

LEMMA MemberTypes == TypeInv /\ Member => TypeInv'
<1>. SUFFICES ASSUME TypeInv, Member PROVE TypeInv'
  OBVIOUS
<1>. USE OutreachAssumption, MessageTypes
<1>. USE DEF TypeInv, TypeOK, InHand, rows, messages, shared, worker, outside
<1>1. ASSUME NEW k \in Candidates, CreateCandidate(k) PROVE TypeInv'
  BY <1>1 DEF CreateCandidate, Statuses, SendStates
<1>2. ASSUME NEW m \in Msgs, Approve(m) PROVE TypeInv'
  BY <1>2 DEF Approve, Statuses, SendStates
<1>3. ASSUME NEW m \in Msgs, Reject(m) PROVE TypeInv'
  BY <1>3 DEF Reject, Statuses, SendStates
<1>4. ASSUME NEW m \in Msgs, Edit(m) PROVE TypeInv'
  BY <1>4 DEF Edit
<1>5. ASSUME NEW k \in Candidates, NEW o \in OutcomeInputs, SetOutcome(k, o)
      PROVE TypeInv'
  <2>. DEFINE s1 == StopFollowUps(send, {k})
              s2 == [m \in Msgs |-> IF o # "POSITIVE" /\ m = Booking(k)
                                        /\ s1[m] \in {"DRAFT", "READY"}
                                    THEN "CANCELLED" ELSE s1[m]]
              E == IF o \in {"UNSUBSCRIBE", "BOUNCE"} THEN {MailTo(k)} ELSE {}
  <2>1. s1 \in [Msgs -> SendStates]
    BY StopTypes
  <2>2. s2 \in [Msgs -> SendStates]
    BY <2>1 DEF SendStates
  <2>3. StopMessages(s2, E) \in [Msgs -> SendStates]
    BY <2>2, StopTypes
  <2>4. StopCandidates(kstatus, E) \in [Candidates -> Statuses]
    BY StopTypes
  <2>5. send' = StopMessages(s2, E) /\ kstatus' = StopCandidates(kstatus, E)
        /\ suppressed' = suppressed \cup E
    BY <1>5 DEF SetOutcome
  <2>6. outcome' \in [Candidates -> Outcomes \cup {"NONE"}]
    BY <1>5 DEF SetOutcome
  <2>7. E \subseteq Emails
    OBVIOUS
  <2>. HIDE DEF s1, s2, E
  <2>. QED
    BY <1>5, <2>3, <2>4, <2>5, <2>6, <2>7 DEF SetOutcome
<1>6. ASSUME NEW e \in Emails, SuppressEmail(e) PROVE TypeInv'
  BY <1>6, StopTypes DEF SuppressEmail
<1>7. ASSUME NEW c \in Campaigns, NEW l \in Links \cup {NULL}, SetBookingUrl(c, l)
      PROVE TypeInv'
  BY <1>7 DEF SetBookingUrl
<1>8. ASSUME NEW k \in Candidates, CreateBooking(k) PROVE TypeInv'
  BY <1>8 DEF CreateBooking, SendStates
<1>9. ASSUME NEW o \in OperatorOrgs, ListOrg(o) PROVE TypeInv'
  BY <1>9 DEF ListOrg
<1>. QED
  BY <1>1, <1>2, <1>3, <1>4, <1>5, <1>6, <1>7, <1>8, <1>9 DEF Member

LEMMA RunTypes == ASSUME TypeInv, NEW w \in Workers, Run(w) PROVE TypeInv'
<1>. USE OutreachAssumption, MessageTypes
<1>. USE DEF TypeInv, TypeOK, InHand, rows, messages, shared, worker, outside
<1>1. CASE StartRun(w)
  BY <1>1 DEF StartRun
<1>2. ASSUME NEW k \in Candidates, CreateFollowUp(w, k) PROVE TypeInv'
  <2>. DEFINE q == Cardinality(Rows(k))
  <2>1. q \in {1, 2} /\ send' = [send EXCEPT ![<<k, q>>] = "DRAFT"]
    BY <1>2 DEF CreateFollowUp
  <2>2. send' \in [Msgs -> SendStates]
    BY <2>1 DEF SendStates
  <2>. QED
    BY <1>2, <2>2 DEF CreateFollowUp
<1>3. ASSUME NEW k \in Candidates, SkipFollowUp(w, k) PROVE TypeInv'
  BY <1>3 DEF SkipFollowUp
<1>4. CASE Claim(w)
  <2>0. PICK batch \in SUBSET Claimable :
          \E taken \in SUBSET Capped(batch) : ClaimBatch(w, batch, taken)
    BY <1>4 DEF Claim
  <2>1. PICK taken \in SUBSET Capped(batch) : ClaimBatch(w, batch, taken)
    BY <2>0
  <2>. DEFINE leased == taken \cup (Fresh(batch) \ Capped(batch))
              E == {MailTo(m[1]) : m \in BarredOf(batch)}
  <2>2. leased \subseteq Msgs /\ taken \subseteq Msgs
    BY SweptTypes DEF Fresh, Capped
  <2>3. Cardinality(taken) \in Nat
    BY <2>2, FiniteMsgs
  <2>4. /\ StopMessages(send, E) \in [Msgs -> SendStates]
        /\ StopCandidates(SweptStatus, E) \in [Candidates -> Statuses]
    BY StopTypes, SweptTypes
  <2>a. /\ send' = [m \in Msgs |-> IF m \in Swept THEN "UNCERTAIN"
                                   ELSE IF m \in leased THEN "SENDING"
                                   ELSE IF m \in StaleOf(batch) THEN "CANCELLED"
                                   ELSE StopMessages(send, E)[m]]
        /\ kstatus' = [k \in Candidates |->
                         IF Initial(k) \in leased THEN "SENDING"
                         ELSE StopCandidates(SweptStatus, E)[k]]
    BY <2>1 DEF ClaimBatch
  <2>. HIDE DEF leased, E
  <2>5. send' \in [Msgs -> SendStates]
    BY <2>a, <2>4 DEF SendStates
  <2>6. kstatus' \in [Candidates -> Statuses]
    BY <2>a, <2>4 DEF Statuses
  <2>7. /\ holder' \in [Msgs -> Workers \cup {NULL}]
        /\ expired' \subseteq Msgs
        /\ slotDay' \in [Msgs -> Days \cup {0}]
        /\ sentCount' \in [Days -> Nat]
    BY <2>1, <2>3 DEF ClaimBatch
  <2>8. /\ todo' = [todo EXCEPT ![w] = leased]
        /\ pc' = [pc EXCEPT ![w] = IF leased = {} THEN "idle" ELSE "loop"]
        /\ stopped' = [stopped EXCEPT ![w] = FALSE]
    BY <2>1 DEF ClaimBatch, leased
  <2>. QED
    BY <1>4, <2>2, <2>5, <2>6, <2>7, <2>8 DEF Claim
<1>5. ASSUME NEW m \in Msgs, Check(w, m) PROVE TypeInv'
  <2>1. CASE pc' = [pc EXCEPT ![w] = "smtp"] /\ UNCHANGED result
    BY <1>5, <2>1 DEF Check
  <2>2. CASE pc' = [pc EXCEPT ![w] = "abort"] /\ result' = [result EXCEPT ![w] = "ABORTED"]
    BY <1>5, <2>2 DEF Check, Results
  <2>. QED
    BY <1>5, <2>1, <2>2 DEF Check
<1>6. CASE Smtp(w)
  BY <1>6 DEF Smtp, Results
<1>7. CASE Finish(w)
  <2>. DEFINE m == cur[w]
              r == result[w]
  <2>1. m \in Msgs /\ r \in Results
    BY <1>7 DEF Finish
  <2>2. PICK applied, answer \in BOOLEAN :
          /\ IF applied THEN Complete(m, r)
             ELSE UNCHANGED <<send, kstatus, suppressed, attempts, waiting, holder,
                              expired, sentCount, lastSent>>
          /\ LET ends == todo[w] = {} \/ (stopped[w] /\ ~answer)
                 auth == pc[w] = "report" /\ r = "ABORTED"
             IN /\ pc' = [pc EXCEPT ![w] = IF ends THEN "idle" ELSE "loop"]
                /\ todo' = [todo EXCEPT ![w] = IF ends THEN {} ELSE @]
                /\ stopped' = [stopped EXCEPT ![w] = ~ends /\ (@ \/ auth)]
    BY <1>7 DEF Finish
  <2>3. /\ send' \in [Msgs -> SendStates]
        /\ kstatus' \in [Candidates -> Statuses]
        /\ suppressed' \subseteq Emails
        /\ attempts' \in [Msgs -> 0 .. MaxAttempts]
        /\ waiting' \subseteq Msgs
        /\ holder' \in [Msgs -> Workers \cup {NULL}]
        /\ expired' \subseteq Msgs
        /\ sentCount' \in [Days -> Nat]
        /\ lastSent' \in [Emails -> Msgs \cup {NULL}]
    <3>1. CASE applied
      <4>. HIDE DEF m, r
      <4>0. Complete(m, r)
        BY <2>2, <3>1
      <4>1. [send EXCEPT ![m] = SendAfter(m, r)] \in [Msgs -> SendStates]
        BY <2>1 DEF SendAfter, SendStates
      <4>2. [kstatus EXCEPT ![m[1]] = StatusAfter(m, r)] \in [Candidates -> Statuses]
        BY <2>1 DEF StatusAfter, Statuses
      <4>3. AttemptsAfter(m, r) \in 0 .. MaxAttempts
        BY <2>1 DEF AttemptsAfter, Retried
      <4>4. send' \in [Msgs -> SendStates] /\ kstatus' \in [Candidates -> Statuses]
        BY <4>0, <4>1, <4>2, StopTypes DEF Complete
      <4>5. suppressed' \subseteq Emails
        BY <2>1, <4>0 DEF Complete
      <4>6. attempts' \in [Msgs -> 0 .. MaxAttempts] /\ waiting' \subseteq Msgs
        BY <2>1, <4>0, <4>3 DEF Complete
      <4>7. holder' \in [Msgs -> Workers \cup {NULL}] /\ expired' \subseteq Msgs
        BY <2>1, <4>0 DEF Complete
      <4>8. sentCount' \in [Days -> Nat]
        BY <2>1, <4>0 DEF Complete
      <4>9. lastSent' \in [Emails -> Msgs \cup {NULL}]
        BY <2>1, <4>0 DEF Complete
      <4>. QED
        BY <4>4, <4>5, <4>6, <4>7, <4>8, <4>9
    <3>2. CASE ~applied
      BY <2>2, <3>2
    <3>. QED
      BY <3>1, <3>2
  <2>4. \/ pc' = [pc EXCEPT ![w] = "idle"] /\ todo' = [todo EXCEPT ![w] = {}]
        \/ pc' = [pc EXCEPT ![w] = "loop"] /\ todo' = todo
    BY <2>2
  <2>6. stopped' \in [Workers -> BOOLEAN]
    BY <2>2, Zenon
  <2>5. /\ cur' = [cur EXCEPT ![w] = NULL]
        /\ result' = [result EXCEPT ![w] = NULL]
        /\ UNCHANGED <<reply, outcome, review, slotDay, link, bookingUrl, served,
                       today, due, accepted, unheard, answered, reported>>
    BY <1>7 DEF Finish
  <2>. HIDE DEF m, r
  <2>7. InHand'
    BY <2>4, <2>5
  <2>8. /\ pc' \in [Workers -> {"idle", "draft", "loop", "smtp", "abort", "report"}]
        /\ todo' \in [Workers -> SUBSET Msgs]
    <3>1. CASE pc' = [pc EXCEPT ![w] = "idle"] /\ todo' = [todo EXCEPT ![w] = {}]
      BY <3>1
    <3>2. CASE pc' = [pc EXCEPT ![w] = "loop"] /\ todo' = todo
      BY <3>2
    <3>. QED
      BY <2>4, <3>1, <3>2
  <2>10. /\ cur' \in [Workers -> Msgs \cup {NULL}]
         /\ result' \in [Workers -> Results \cup {NULL}]
    BY <2>5
  <2>9. TypeOK'
    BY <2>3, <2>5, <2>6, <2>8, <2>10
  <2>. QED
    BY <2>7, <2>9
<1>. QED
  BY <1>1, <1>2, <1>3, <1>4, <1>5, <1>6, <1>7 DEF Run
-----------------------------------------------------------------------------
LEMMA CrashTypes == ASSUME TypeInv, NEW w \in Workers, Crash(w) PROVE TypeInv'
BY DEF TypeInv, TypeOK, InHand, Crash, rows, messages, shared, outside

LEMMA InboundTypes ==
  ASSUME TypeInv, NEW K \in SUBSET Candidates, NEW human \in BOOLEAN,
         NEW from \in Senders, NEW optOut \in BOOLEAN,
         Inbound(K, human, from, optOut), answered' \subseteq Msgs
  PROVE  TypeInv'
<1>. USE OutreachAssumption, MessageTypes
<1>. USE DEF TypeInv, TypeOK, InHand, rows, messages, shared, worker, outside
<1>. DEFINE E == IF optOut THEN {from} ELSE {}
            ks == IF human
                  THEN [k \in Candidates |->
                         IF k \in K /\ kstatus[k] \in {"SENT", "SENDING", "FAILED"}
                         THEN "REPLIED" ELSE kstatus[k]]
                  ELSE kstatus
<1>1. ks \in [Candidates -> Statuses]
  BY DEF Statuses
<1>2. /\ send' = StopMessages(StopFollowUps(send, K), E)
      /\ kstatus' = StopCandidates(ks, E)
      /\ suppressed' = suppressed \cup E
  BY DEF Inbound
<1>3. suppressed' \subseteq Emails
  BY <1>2
<1>4. reply' \in [Candidates -> {"NONE", "REPLIED", "NEEDS_REVIEW"}]
  BY DEF Inbound
<1>. HIDE DEF ks, E
<1>5. send' \in [Msgs -> SendStates] /\ kstatus' \in [Candidates -> Statuses]
  BY <1>1, <1>2, StopTypes
<1>. QED
  BY <1>3, <1>4, <1>5 DEF Inbound

LEMMA MailboxTypes == TypeInv /\ Mailbox => TypeInv'
<1>. SUFFICES ASSUME TypeInv, Mailbox PROVE TypeInv'
  OBVIOUS
<1>1. ASSUME NEW m \in Answerable, NEW from \in Senders, NEW auto \in BOOLEAN,
             NEW optOut \in BOOLEAN, RecordReply(m, from, auto, optOut)
      PROVE  TypeInv'
  <2>1. answered' \subseteq Msgs /\ m \in Msgs
    BY <1>1, OutreachAssumption DEF RecordReply, TypeInv, TypeOK
  <2>2. \E K \in SUBSET Candidates, human \in BOOLEAN : Inbound(K, human, from, optOut)
    BY <1>1, <2>1, MessageTypes DEF RecordReply, SentTo
  <2>. QED
    BY <2>1, <2>2, InboundTypes
<1>2. ASSUME NEW from \in Senders, NEW optOut \in BOOLEAN, RecordMail(from, optOut)
      PROVE  TypeInv'
  <2>1. SentTo(from) \in SUBSET Candidates /\ answered' \subseteq Msgs
    BY <1>2 DEF SentTo, RecordMail, TypeInv, TypeOK
  <2>2. Inbound(SentTo(from), FALSE, from, optOut)
    BY <1>2 DEF RecordMail
  <2>. QED
    BY <2>1, <2>2, InboundTypes
<1>3. ASSUME NEW m \in Answerable, RecordBounce(m) PROVE TypeInv'
  <2>. USE OutreachAssumption, MessageTypes
  <2>. USE DEF TypeInv, TypeOK, InHand, rows, messages, shared, worker, outside
  <2>. DEFINE e == MailTo(m[1])
              hit == lastSent[e]
  <2>1. m \in Msgs /\ e \in Emails
    OBVIOUS
  <2>2. CASE hit = NULL
    BY <1>3, <2>1, <2>2 DEF RecordBounce
  <2>3. CASE hit # NULL
    <3>1. hit \in Msgs
      BY <2>1, <2>3
    <3>2. [kstatus EXCEPT ![hit[1]] = "BOUNCED"] \in [Candidates -> Statuses]
      BY DEF Statuses
    <3>3. /\ send' = StopMessages(send, {e})
          /\ kstatus' = StopCandidates([kstatus EXCEPT ![hit[1]] = "BOUNCED"], {e})
          /\ outcome' = [outcome EXCEPT ![hit[1]] = IF @ = "NONE" THEN "BOUNCE" ELSE @]
          /\ suppressed' = suppressed \cup {e}
          /\ reported' = reported \cup {m}
      BY <1>3, <2>3 DEF RecordBounce
    <3>4. outcome' \in [Candidates -> Outcomes \cup {"NONE"}]
      BY <3>3 DEF Outcomes
    <3>6. UNCHANGED <<reply, review, attempts, holder, expired, waiting, slotDay,
                      link, bookingUrl, served, sentCount, today, worker,
                      accepted, unheard, lastSent, answered>>
      BY <1>3 DEF RecordBounce
    <3>. HIDE DEF hit, e
    <3>5. send' \in [Msgs -> SendStates] /\ kstatus' \in [Candidates -> Statuses]
      BY <3>2, <3>3, StopTypes
    <3>. QED
      <4>1. InHand'
        BY <3>6
      <4>2. suppressed' \subseteq Emails /\ reported' \subseteq Msgs
        BY <2>1, <3>3
      <4>3. TypeOK'
        BY <3>4, <3>5, <3>6, <4>2
      <4>. QED
        BY <4>1, <4>3
  <2>. QED
    BY <2>2, <2>3
<1>. QED
  BY <1>1, <1>2, <1>3 DEF Mailbox

LEMMA TimeTypes == TypeInv /\ Time => TypeInv'
BY OutreachAssumption
   DEF TypeInv, TypeOK, InHand, Time, LeaseTimeout, RetryDelayOver, NewDay, Days,
       rows, messages, shared, worker, outside

LEMMA StutterTypes == TypeInv /\ UNCHANGED vars => TypeInv'
BY DEF TypeInv, TypeOK, InHand, vars, rows, messages, shared, worker, outside

LEMMA NextTypes == TypeInv /\ [Next]_vars => TypeInv'
BY MemberTypes, RunTypes, CrashTypes, MailboxTypes, TimeTypes, StutterTypes DEF Next

(* Every variable keeps its type in every behaviour: of the worker, that it    *)
(* completes a message it holds with a result it has, and of the database,     *)
(* that the attempts stay within the bound of complete_outreach_send.          *)
THEOREM TypeCorrect == Spec => []TypeOK
<1>2. TypeInv => TypeOK
  BY DEF TypeInv
<1>. QED
  BY <1>2, InitTypes, NextTypes, PTL DEF Spec

-----------------------------------------------------------------------------
(* The lives of a message and of a candidate.                              *)


(* The moves of a message that people, the mailbox and the drafting of         *)
(* follow-ups make, and those of a claim and of a completion.                  *)
EditorialMove(m) ==
  \/ send'[m] = send[m]
  \/ send[m] = "NONE" /\ send'[m] = "DRAFT"
  \/ send[m] = "CANCELLED" /\ review[m] # "APPROVED" /\ send'[m] = "DRAFT"
  \/ send[m] = "DRAFT" /\ send'[m] \in {"READY", "CANCELLED"}
  \/ send[m] = "READY" /\ send'[m] = "CANCELLED"

SendingMove(m) ==
  \/ send[m] = "READY" /\ send'[m] = "SENDING"
  \/ send[m] = "SENDING" /\ send'[m] \in {"READY", "SENT", "FAILED", "UNCERTAIN"}

(* A follow-up or a booking exists, a reply is recorded or an address has a    *)
(* last SENT message only once the initial message is SENT.                    *)
InitialFirst ==
  /\ \A m \in Msgs : send[m] # "NONE" /\ ~IsInitial(m) => send[Initial(m[1])] = "SENT"
  /\ \A k \in Candidates : reply[k] # "NONE" => send[Initial(k)] = "SENT"
  /\ \A e \in Emails : lastSent[e] # NULL => send[lastSent[e]] = "SENT"

(* The inductive invariant.                                                    *)
LifecycleInv == TypeInv /\ CandidateFollowsInitial /\ InitialFirst

-----------------------------------------------------------------------------
(* Stopping touches only drafts and ready messages.                          *)
LEMMA StopKeeps ==
  ASSUME NEW s \in [Msgs -> SendStates], NEW E, NEW m \in Msgs
  PROVE  \/ StopMessages(s, E)[m] = s[m]
         \/ s[m] \in {"DRAFT", "READY"} /\ StopMessages(s, E)[m] = "CANCELLED"
BY DEF StopMessages

LEMMA StopFollowUpsKeeps ==
  ASSUME NEW s \in [Msgs -> SendStates], NEW K, NEW m \in Msgs
  PROVE  \/ StopFollowUps(s, K)[m] = s[m]
         \/ /\ s[m] \in {"DRAFT", "READY"}
            /\ StopFollowUps(s, K)[m] = "CANCELLED"
            /\ ~IsInitial(m)
BY DEF StopFollowUps, IsFollowUp, IsInitial

(* Stopping an address keeps a candidate and its initial message agreed.     *)
LEMMA StopAgrees ==
  ASSUME NEW s \in [Msgs -> SendStates], NEW ks \in [Candidates -> Statuses], NEW E,
         NEW k \in Candidates, ks[k] \in StatusesFor(s[Initial(k)])
  PROVE  StopCandidates(ks, E)[k] \in StatusesFor(StopMessages(s, E)[Initial(k)])
<1>1. Initial(k) \in Msgs /\ Initial(k)[1] = k
  BY DEF Initial, Msgs
<1>2. s[Initial(k)] \in SendStates
  BY <1>1
<1>. QED
  BY <1>1, <1>2 DEF StopCandidates, StopMessages, StatusesFor, Stoppable, Active, SendStates

(* Read backwards: what a candidate's status tells of its initial message.   *)
LEMMA StatusTells ==
  ASSUME TypeOK, CandidateFollowsInitial, NEW k \in Candidates
  PROVE  /\ kstatus[k] = "NONE" <=> send[Initial(k)] = "NONE"
         /\ kstatus[k] \in {"QUALIFIED", "NEEDS_REVIEW"} <=> send[Initial(k)] = "DRAFT"
         /\ kstatus[k] = "READY_TO_SEND" <=> send[Initial(k)] = "READY"
         /\ kstatus[k] = "SENDING" <=> send[Initial(k)] = "SENDING"
         /\ kstatus[k] \in {"SENT", "REPLIED"} => send[Initial(k)] = "SENT"
<1>1. Initial(k) \in Msgs
  BY MessageTypes
<1>2. send[Initial(k)] \in SendStates /\ kstatus[k] \in StatusesFor(send[Initial(k)])
  BY <1>1 DEF TypeOK, CandidateFollowsInitial
<1>. QED
  BY <1>2 DEF SendStates, StatusesFor

LEMMA InitialFacts ==
  /\ \A m \in Msgs : IsInitial(m) <=> m = Initial(m[1])
  /\ \A k \in Candidates : /\ Initial(k)[1] = k /\ IsInitial(Initial(k))
                           /\ Booking(k)[1] = k /\ ~IsInitial(Booking(k))
                           /\ IsBooking(Booking(k))
                           /\ Initial(k) # Booking(k)
                           /\ \A q \in {1, 2} : /\ <<k, q>> \in Msgs
                                                /\ <<k, q>> # Initial(k)
                                                /\ ~IsInitial(<<k, q>>)
BY DEF Msgs, IsInitial, IsBooking, Initial, Booking

-----------------------------------------------------------------------------
(* Recording an outcome only cancels drafts and ready messages.              *)
LEMMA OutcomeMoves ==
  ASSUME TypeOK, NEW k \in Candidates, NEW o \in OutcomeInputs, SetOutcome(k, o),
         NEW m \in Msgs
  PROVE  EditorialMove(m) /\ send'[m] \in {send[m], "CANCELLED"}
<1>. DEFINE s1 == StopFollowUps(send, {k})
            s2 == [n \in Msgs |-> IF o # "POSITIVE" /\ n = Booking(k)
                                      /\ s1[n] \in {"DRAFT", "READY"}
                                  THEN "CANCELLED" ELSE s1[n]]
            E == IF o \in {"UNSUBSCRIBE", "BOUNCE"} THEN {MailTo(k)} ELSE {}
<1>0. send \in [Msgs -> SendStates] /\ kstatus \in [Candidates -> Statuses]
  BY DEF TypeOK
<1>1. s1 \in [Msgs -> SendStates]
  BY <1>0, StopTypes
<1>2. s2 \in [Msgs -> SendStates]
  BY <1>1 DEF SendStates
<1>3. send' = StopMessages(s2, E)
  BY DEF SetOutcome
<1>4. s1[m] = send[m] \/ (send[m] \in {"DRAFT", "READY"} /\ s1[m] = "CANCELLED")
  BY <1>0, StopFollowUpsKeeps
<1>5. s2[m] = s1[m] \/ (s1[m] \in {"DRAFT", "READY"} /\ s2[m] = "CANCELLED")
  OBVIOUS
<1>. HIDE DEF s1, s2, E
<1>6. send'[m] = s2[m] \/ (s2[m] \in {"DRAFT", "READY"} /\ send'[m] = "CANCELLED")
  BY <1>2, <1>3, StopKeeps
<1>. QED
  BY <1>4, <1>5, <1>6 DEF EditorialMove

(* The moves of a message made by a member's action; of the rows   *)
(* after the initial one, only a booking is created, for one who replied.     *)
MemberMove(m) ==
  /\ EditorialMove(m)
  /\ send[m] = "NONE" /\ send'[m] # "NONE" /\ ~IsInitial(m)
       => IsBooking(m) /\ kstatus[m[1]] = "REPLIED"

LEMMA MemberMoves ==
  ASSUME LifecycleInv, Member, NEW m \in Msgs
  PROVE  MemberMove(m)
<1>. USE MessageTypes, InitialFacts DEF EditorialMove, MemberMove
<1>0. TypeOK /\ CandidateFollowsInitial /\ send \in [Msgs -> SendStates]
  BY DEF LifecycleInv, TypeInv, TypeOK
<1>. USE <1>0
<1>1. ASSUME NEW k \in Candidates, CreateCandidate(k) PROVE MemberMove(m)
  <2>1. send[Initial(k)] = "NONE" /\ send' = [send EXCEPT ![Initial(k)] = "DRAFT"]
    BY <1>1, StatusTells DEF CreateCandidate
  <2>. QED
    BY <2>1
<1>2. ASSUME NEW k \in Candidates, NEW o \in OutcomeInputs, SetOutcome(k, o)
      PROVE  MemberMove(m)
  BY <1>2, OutcomeMoves
<1>3. ASSUME NEW e \in Emails, SuppressEmail(e) PROVE MemberMove(m)
  <2>1. send' = StopMessages(send, {e})
    BY <1>3 DEF SuppressEmail
  <2>. QED
    BY <2>1, StopKeeps
<1>4. ASSUME NEW k \in Candidates, CreateBooking(k) PROVE MemberMove(m)
  BY <1>4 DEF CreateBooking, Writable, Bookable
<1>5. ASSUME NEW n \in Msgs, Approve(n) \/ Reject(n) \/ Edit(n) PROVE MemberMove(m)
  BY <1>5 DEF Approve, Reject, Edit, Reviewable, messages
<1>6. ASSUME NEW c \in Campaigns, NEW l \in Links \cup {NULL}, SetBookingUrl(c, l)
      PROVE  MemberMove(m)
  BY <1>6 DEF SetBookingUrl, messages
<1>7. ASSUME NEW o \in OperatorOrgs, ListOrg(o) PROVE MemberMove(m)
  BY <1>7 DEF ListOrg, messages
<1>. QED
  BY <1>1, <1>2, <1>3, <1>4, <1>5, <1>6, <1>7 DEF Member

(* Recording an email only cancels drafts and ready messages.                *)
LEMMA InboundMoves ==
  ASSUME TypeOK, NEW K, NEW human, NEW from, NEW optOut,
         Inbound(K, human, from, optOut), NEW m \in Msgs
  PROVE  EditorialMove(m) /\ send'[m] \in {send[m], "CANCELLED"}
<1>. DEFINE s1 == StopFollowUps(send, K)
            E == IF optOut THEN {from} ELSE {}
<1>0. send \in [Msgs -> SendStates] /\ kstatus \in [Candidates -> Statuses]
  BY DEF TypeOK
<1>1. s1 \in [Msgs -> SendStates]
  BY <1>0, StopTypes
<1>2. send' = StopMessages(s1, E)
  BY DEF Inbound
<1>3. s1[m] = send[m] \/ (send[m] \in {"DRAFT", "READY"} /\ s1[m] = "CANCELLED")
  BY <1>0, StopFollowUpsKeeps
<1>. HIDE DEF s1, E
<1>4. send'[m] = s1[m] \/ (s1[m] \in {"DRAFT", "READY"} /\ send'[m] = "CANCELLED")
  BY <1>1, <1>2, StopKeeps
<1>. QED
  BY <1>3, <1>4 DEF EditorialMove

LEMMA MailboxMoves ==
  ASSUME TypeOK, Mailbox, NEW m \in Msgs
  PROVE  EditorialMove(m) /\ send'[m] \in {send[m], "CANCELLED"}
<1>1. ASSUME NEW n \in Answerable, NEW from \in Senders, NEW auto \in BOOLEAN,
             NEW optOut \in BOOLEAN, RecordReply(n, from, auto, optOut)
      PROVE  EditorialMove(m) /\ send'[m] \in {send[m], "CANCELLED"}
  BY <1>1, InboundMoves DEF RecordReply
<1>2. ASSUME NEW from \in Senders, NEW optOut \in BOOLEAN, RecordMail(from, optOut)
      PROVE  EditorialMove(m) /\ send'[m] \in {send[m], "CANCELLED"}
  BY <1>2, InboundMoves DEF RecordMail
<1>3. ASSUME NEW n \in Answerable, RecordBounce(n)
      PROVE  EditorialMove(m) /\ send'[m] \in {send[m], "CANCELLED"}
  <2>1. send' = send \/ send' = StopMessages(send, {MailTo(n[1])})
    BY <1>3 DEF RecordBounce
  <2>. QED
    BY <2>1, StopKeeps DEF EditorialMove, TypeOK
<1>. QED
  BY <1>1, <1>2, <1>3 DEF Mailbox

-----------------------------------------------------------------------------
(* The claim, seen from one message: it is leased from READY, swept from     *)
(* SENDING, cancelled, or left alone.                                        *)
LEMMA ClaimMoves ==
  ASSUME TypeInv, NEW w \in Workers, Claim(w)
  PROVE  \E leased \in SUBSET Msgs, taken \in SUBSET Msgs :
           /\ taken \subseteq leased
           /\ sentCount[today] + Cardinality(taken) <= DailyCap
           /\ \A m \in leased : send[m] = "READY" /\ send'[m] = "SENDING"
           /\ \A m \in Msgs \ leased :
                \/ m \in Swept /\ send'[m] = "UNCERTAIN"
                \/ m \notin Swept /\ (send'[m] = send[m] \/ (send[m] \in {"DRAFT", "READY"} /\ send'[m] = "CANCELLED"))
           /\ \A k \in Candidates : Initial(k) \in leased => SweptStatus[k] = "READY_TO_SEND"
           /\ slotDay' = [m \in Msgs |-> IF m \in taken THEN today
                                         ELSE IF m \in leased THEN 0 ELSE slotDay[m]]
           /\ sentCount' = [sentCount EXCEPT ![today] = @ + Cardinality(taken)]
           /\ todo' = [todo EXCEPT ![w] = leased]
           /\ pc' = [pc EXCEPT ![w] = IF leased = {} THEN "idle" ELSE "loop"]
<1>0. PICK batch \in SUBSET Claimable :
        \E taken \in SUBSET Capped(batch) :
          /\ sentCount[today] + Cardinality(taken) <= DailyCap
          /\ ClaimBatch(w, batch, taken)
  BY DEF Claim
<1>1. PICK taken \in SUBSET Capped(batch) :
        /\ sentCount[today] + Cardinality(taken) <= DailyCap
        /\ ClaimBatch(w, batch, taken)
  BY <1>0
<1>. DEFINE leased == taken \cup (Fresh(batch) \ Capped(batch))
            E == {MailTo(m[1]) : m \in BarredOf(batch)}
<1>2. /\ send' = [m \in Msgs |-> IF m \in Swept THEN "UNCERTAIN"
                                 ELSE IF m \in leased THEN "SENDING"
                                 ELSE IF m \in StaleOf(batch) THEN "CANCELLED"
                                 ELSE StopMessages(send, E)[m]]
      /\ slotDay' = [m \in Msgs |-> IF m \in taken THEN today
                                    ELSE IF m \in leased THEN 0 ELSE slotDay[m]]
      /\ sentCount' = [sentCount EXCEPT ![today] = @ + Cardinality(taken)]
      /\ todo' = [todo EXCEPT ![w] = leased]
      /\ pc' = [pc EXCEPT ![w] = IF leased = {} THEN "idle" ELSE "loop"]
  BY <1>1 DEF ClaimBatch
<1>3. leased \subseteq Fresh(batch) /\ Fresh(batch) \subseteq batch /\ StaleOf(batch) \subseteq batch
  BY DEF Fresh, Capped, StaleOf
<1>4. \A m \in batch : m \in Msgs /\ send[m] = "READY" /\ m \notin Swept
  BY DEF Claimable, Swept
<1>5. \A k \in Candidates : Initial(k) \in leased => SweptStatus[k] = "READY_TO_SEND"
  <2>. SUFFICES ASSUME NEW k \in Candidates, Initial(k) \in leased
                PROVE  SweptStatus[k] = "READY_TO_SEND"
    OBVIOUS
  <2>1. ~Stale(Initial(k), SweptStatus)
    BY <1>3 DEF Fresh, StaleOf, BarredOf
  <2>. QED
    BY <2>1, InitialFacts DEF Stale, IsBooking, IsInitial, Initial
<1>6. send \in [Msgs -> SendStates]
  BY DEF TypeInv, TypeOK
<1>. HIDE DEF leased, E
<1>7. \A m \in Msgs \ leased :
        \/ m \in Swept /\ send'[m] = "UNCERTAIN"
        \/ m \notin Swept /\ (send'[m] = send[m] \/ (send[m] \in {"DRAFT", "READY"} /\ send'[m] = "CANCELLED"))
  BY <1>2, <1>3, <1>4, <1>6, StopKeeps DEF EditorialMove
<1>8. leased \subseteq Msgs /\ taken \subseteq leased
  BY <1>3, <1>4 DEF leased
<1>9. \A m \in leased : send[m] = "READY" /\ send'[m] = "SENDING"
  BY <1>2, <1>3, <1>4
<1>. QED
  BY <1>1, <1>2, <1>5, <1>7, <1>8, <1>9

(* A completion is applied to the message in hand under its lease, or leaves  *)
(* the database alone; either way the worker has nothing in hand afterwards.  *)
LEMMA FinishCases ==
  ASSUME TypeInv, NEW w \in Workers, Finish(w)
  PROVE  /\ cur[w] \in Msgs /\ result[w] \in Results
         /\ \/ LeaseHeld(w, cur[w]) /\ Complete(cur[w], result[w])
            \/ UNCHANGED <<send, kstatus, suppressed, attempts, waiting, holder,
                           expired, sentCount, lastSent>>
         /\ cur' = [cur EXCEPT ![w] = NULL] /\ result' = [result EXCEPT ![w] = NULL]
         /\ \/ todo' = todo
            \/ todo' = [todo EXCEPT ![w] = {}]
         /\ \E p \in {"idle", "loop"} : pc' = [pc EXCEPT ![w] = p]
         /\ UNCHANGED <<reply, review, slotDay, link, accepted, unheard>>
<1>1. cur[w] \in Msgs /\ result[w] \in Results
  BY DEF Finish, TypeInv, TypeOK, InHand
<1>2. \/ LeaseHeld(w, cur[w]) /\ Complete(cur[w], result[w])
      \/ UNCHANGED <<send, kstatus, suppressed, attempts, waiting, holder,
                     expired, sentCount, lastSent>>
  BY DEF Finish
<1>3. PICK ends : /\ pc' = [pc EXCEPT ![w] = IF ends THEN "idle" ELSE "loop"]
                  /\ todo' = [todo EXCEPT ![w] = IF ends THEN {} ELSE @]
  BY DEF Finish
<1>4. todo' = todo \/ todo' = [todo EXCEPT ![w] = {}]
  BY <1>3 DEF TypeInv, TypeOK
<1>5. \E p \in {"idle", "loop"} : pc' = [pc EXCEPT ![w] = p]
  BY <1>3
<1>6. /\ cur' = [cur EXCEPT ![w] = NULL] /\ result' = [result EXCEPT ![w] = NULL]
      /\ UNCHANGED <<reply, review, slotDay, link, accepted, unheard>>
  BY DEF Finish
<1>. QED
  BY <1>1, <1>2, <1>4, <1>5, <1>6

LEMMA CompleteMoves ==
  ASSUME TypeOK, NEW m \in Msgs, NEW r \in Results, Complete(m, r), send[m] = "SENDING"
  PROVE  /\ send'[m] = SendAfter(m, r)
         /\ SendAfter(m, r) \in {"READY", "SENT", "FAILED", "UNCERTAIN"}
         /\ \A n \in Msgs \ {m} :
              \/ send'[n] = send[n]
              \/ send[n] \in {"DRAFT", "READY"} /\ send'[n] = "CANCELLED"
<1>. DEFINE E == IF r = "BOUNCED" THEN {MailTo(m[1])} ELSE {}
            s == [send EXCEPT ![m] = SendAfter(m, r)]
<1>1. send' = StopMessages(s, E)
  BY DEF Complete
<1>2. SendAfter(m, r) \in {"READY", "SENT", "FAILED", "UNCERTAIN"}
  BY DEF SendAfter
<1>3. s \in [Msgs -> SendStates] /\ s[m] = SendAfter(m, r)
  BY <1>2 DEF TypeOK, SendStates
<1>4. r = "BOUNCED" => SendAfter(m, r) = "FAILED"
  BY DEF SendAfter, Retried
<1>5. send'[m] = SendAfter(m, r)
  <2>1. CASE r = "BOUNCED"
    <3>1. s[m] = "FAILED"
      BY <1>3, <1>4, <2>1
    <3>. HIDE DEF s, E
    <3>. QED
      BY <1>1, <1>3, <3>1, StopKeeps
  <2>2. CASE r # "BOUNCED"
    BY <1>1, <1>3, <2>2 DEF StopMessages
  <2>. QED
    BY <2>1, <2>2
<1>6. ASSUME NEW n \in Msgs \ {m}
      PROVE  \/ send'[n] = send[n]
             \/ send[n] \in {"DRAFT", "READY"} /\ send'[n] = "CANCELLED"
  <2>1. s[n] = send[n]
    BY DEF TypeOK
  <2>. HIDE DEF s, E
  <2>. QED
    BY <1>1, <1>3, <2>1, StopKeeps
<1>. QED
  BY <1>2, <1>5, <1>6

-----------------------------------------------------------------------------
(* The candidate and its initial message, action by action.                  *)

Agree(k) == kstatus[k] \in StatusesFor(send[Initial(k)])

LEMMA MemberAgrees ==
  ASSUME LifecycleInv, Member, NEW k \in Candidates
  PROVE  Agree(k)'
<1>. USE MessageTypes, InitialFacts DEF Agree
<1>0. /\ TypeOK /\ CandidateFollowsInitial /\ Agree(k)
      /\ send \in [Msgs -> SendStates] /\ kstatus \in [Candidates -> Statuses]
  BY DEF LifecycleInv, TypeInv, TypeOK, CandidateFollowsInitial
<1>. USE <1>0
<1>1. ASSUME NEW j \in Candidates, CreateCandidate(j) PROVE Agree(k)'
  <2>1. PICK st \in {"QUALIFIED", "NEEDS_REVIEW"} :
          kstatus' = [kstatus EXCEPT ![j] = st] /\ send' = [send EXCEPT ![Initial(j)] = "DRAFT"]
    BY <1>1 DEF CreateCandidate
  <2>2. CASE k = j
    BY <2>1, <2>2 DEF StatusesFor
  <2>3. CASE k # j
    <3>1. Initial(k) # Initial(j)
      BY <2>3 DEF Initial
    <3>. QED
      BY <2>1, <2>3, <3>1
  <2>. QED
    BY <2>2, <2>3
<1>2. ASSUME NEW j \in Candidates, NEW o \in OutcomeInputs, SetOutcome(j, o)
      PROVE  Agree(k)'
  <2>. DEFINE s1 == StopFollowUps(send, {j})
              s2 == [n \in Msgs |-> IF o # "POSITIVE" /\ n = Booking(j)
                                        /\ s1[n] \in {"DRAFT", "READY"}
                                    THEN "CANCELLED" ELSE s1[n]]
              E == IF o \in {"UNSUBSCRIBE", "BOUNCE"} THEN {MailTo(j)} ELSE {}
  <2>1. s1 \in [Msgs -> SendStates] /\ s1[Initial(k)] = send[Initial(k)]
    BY StopTypes, StopFollowUpsKeeps
  <2>2. s2 \in [Msgs -> SendStates] /\ s2[Initial(k)] = s1[Initial(k)]
    BY <2>1 DEF SendStates, Initial, Booking
  <2>3. send' = StopMessages(s2, E) /\ kstatus' = StopCandidates(kstatus, E)
    BY <1>2 DEF SetOutcome
  <2>. HIDE DEF s1, s2, E
  <2>. QED
    BY <2>1, <2>2, <2>3, StopAgrees
<1>3. ASSUME NEW e \in Emails, SuppressEmail(e) PROVE Agree(k)'
  BY <1>3, StopAgrees DEF SuppressEmail
<1>4. ASSUME NEW j \in Candidates, CreateBooking(j) PROVE Agree(k)'
  BY <1>4 DEF CreateBooking, rows
<1>5. ASSUME NEW m \in Msgs, Approve(m) PROVE Agree(k)'
  <2>1. CASE IsInitial(m)
    <3>1. /\ m = Initial(m[1]) /\ send' = [send EXCEPT ![m] = "READY"]
          /\ kstatus' = [kstatus EXCEPT ![m[1]] = "READY_TO_SEND"]
      BY <1>5, <2>1 DEF Approve
    <3>. QED
      BY <3>1 DEF StatusesFor
  <2>2. CASE ~IsInitial(m)
    BY <1>5, <2>2 DEF Approve
  <2>. QED
    BY <2>1, <2>2
<1>6. ASSUME NEW m \in Msgs, Reject(m) PROVE Agree(k)'
  <2>1. CASE IsInitial(m)
    <3>1. /\ m = Initial(m[1]) /\ send' = [send EXCEPT ![m] = "CANCELLED"]
          /\ kstatus' = [kstatus EXCEPT ![m[1]] = "REJECTED"]
      BY <1>6, <2>1 DEF Reject
    <3>. QED
      BY <3>1 DEF StatusesFor
  <2>2. CASE ~IsInitial(m)
    BY <1>6, <2>2 DEF Reject
  <2>. QED
    BY <2>1, <2>2
<1>7. ASSUME \/ \E m \in Msgs : Edit(m)
             \/ \E c \in Campaigns, l \in Links \cup {NULL} : SetBookingUrl(c, l)
             \/ \E o \in OperatorOrgs : ListOrg(o)
      PROVE  Agree(k)'
  BY <1>7 DEF Edit, SetBookingUrl, ListOrg, rows, messages
<1>. QED
  BY <1>1, <1>2, <1>3, <1>4, <1>5, <1>6, <1>7 DEF Member

(* Whoever an email is matched to was sent the initial message.              *)
LEMMA MatchedWereSent ==
  ASSUME LifecycleInv
  PROVE  /\ \A m \in Msgs : send[m] = "SENT" => send[Initial(m[1])] = "SENT"
         /\ \A e : SentTo(e) \subseteq Candidates
         /\ \A e : \A k \in SentTo(e) : send[Initial(k)] = "SENT"
<1>1. \A m \in Msgs : send[m] = "SENT" => send[Initial(m[1])] = "SENT"
  BY InitialFacts DEF LifecycleInv, InitialFirst
<1>. QED
  BY <1>1 DEF SentTo

LEMMA InboundAgrees ==
  ASSUME LifecycleInv, NEW K \in SUBSET Candidates, \A j \in K : send[Initial(j)] = "SENT",
         NEW human \in BOOLEAN, NEW from, NEW optOut \in BOOLEAN,
         Inbound(K, human, from, optOut), NEW k \in Candidates
  PROVE  /\ Agree(k)'
         /\ reply'[k] # "NONE" => reply[k] # "NONE" \/ send[Initial(k)] = "SENT"
<1>. USE MessageTypes, InitialFacts DEF Agree
<1>0. /\ Agree(k) /\ reply \in [Candidates -> {"NONE", "REPLIED", "NEEDS_REVIEW"}]
      /\ send \in [Msgs -> SendStates] /\ kstatus \in [Candidates -> Statuses]
  BY DEF LifecycleInv, TypeInv, TypeOK, CandidateFollowsInitial
<1>. DEFINE s1 == StopFollowUps(send, K)
            E == IF optOut THEN {from} ELSE {}
            ks == IF human
                  THEN [j \in Candidates |->
                         IF j \in K /\ kstatus[j] \in {"SENT", "SENDING", "FAILED"}
                         THEN "REPLIED" ELSE kstatus[j]]
                  ELSE kstatus
<1>1. s1 \in [Msgs -> SendStates] /\ s1[Initial(k)] = send[Initial(k)]
  BY <1>0, StopTypes, StopFollowUpsKeeps
<1>2. ks \in [Candidates -> Statuses]
  BY <1>0 DEF Statuses
<1>3. ks[k] = kstatus[k] \/ (k \in K /\ ks[k] = "REPLIED")
  OBVIOUS
<1>4. send' = StopMessages(s1, E) /\ kstatus' = StopCandidates(ks, E)
  BY DEF Inbound
<1>5. reply'[k] # "NONE" => reply[k] # "NONE" \/ k \in K
  BY <1>0 DEF Inbound
<1>. HIDE DEF s1, ks, E
<1>6. ks[k] \in StatusesFor(s1[Initial(k)])
  <2>1. CASE k \in K /\ ks[k] = "REPLIED"
    BY <1>1, <2>1 DEF StatusesFor
  <2>2. CASE ks[k] = kstatus[k]
    BY <1>0, <1>1, <2>2
  <2>. QED
    BY <1>3, <2>1, <2>2
<1>. QED
  BY <1>1, <1>2, <1>4, <1>5, <1>6, StopAgrees

LEMMA MailboxAgrees ==
  ASSUME LifecycleInv, Mailbox, NEW k \in Candidates
  PROVE  /\ Agree(k)'
         /\ reply'[k] # "NONE" => reply[k] # "NONE" \/ send[Initial(k)] = "SENT"
<1>. USE MatchedWereSent
<1>1. ASSUME NEW m \in Answerable, NEW from \in Senders, NEW auto \in BOOLEAN,
             NEW optOut \in BOOLEAN, RecordReply(m, from, auto, optOut)
      PROVE  /\ Agree(k)'
             /\ reply'[k] # "NONE" => reply[k] # "NONE" \/ send[Initial(k)] = "SENT"
  <2>1. m \in Msgs /\ m[1] \in Candidates
    BY OutreachAssumption, MessageTypes
  <2>2. PICK K \in SUBSET Candidates, human \in BOOLEAN :
          /\ Inbound(K, human, from, optOut)
          /\ \A j \in K : send[Initial(j)] = "SENT"
    <3>1. CASE send[m] = "SENT"
      <4>1. Inbound({m[1]}, ~auto, from, optOut)
        BY <1>1, <3>1 DEF RecordReply
      <4>. QED
        BY <2>1, <3>1, <4>1
    <3>2. CASE send[m] # "SENT"
      <4>1. Inbound(SentTo(from), FALSE, from, optOut)
        BY <1>1, <3>2 DEF RecordReply
      <4>. QED
        BY <4>1
    <3>. QED
      BY <3>1, <3>2
  <2>. QED
    BY <2>2, InboundAgrees
<1>2. ASSUME NEW from \in Senders, NEW optOut \in BOOLEAN, RecordMail(from, optOut)
      PROVE  /\ Agree(k)'
             /\ reply'[k] # "NONE" => reply[k] # "NONE" \/ send[Initial(k)] = "SENT"
  BY <1>2, InboundAgrees DEF RecordMail
<1>3. ASSUME NEW m \in Answerable, RecordBounce(m)
      PROVE  /\ Agree(k)'
             /\ reply'[k] # "NONE" => reply[k] # "NONE" \/ send[Initial(k)] = "SENT"
  <2>. DEFINE e == MailTo(m[1])
              hit == lastSent[e]
  <2>0. /\ Agree(k) /\ reply' = reply /\ hit \in Msgs \cup {NULL} /\ e \in Emails
        /\ send \in [Msgs -> SendStates] /\ kstatus \in [Candidates -> Statuses]
        /\ Initial(k) \in Msgs
    BY <1>3, OutreachAssumption, MessageTypes
       DEF LifecycleInv, TypeInv, TypeOK, CandidateFollowsInitial, RecordBounce, Agree
  <2>1. CASE hit = NULL
    BY <1>3, <2>0, <2>1 DEF RecordBounce, Agree
  <2>2. CASE hit # NULL
    <3>. DEFINE ks == [kstatus EXCEPT ![hit[1]] = "BOUNCED"]
    <3>1. send[Initial(hit[1])] = "SENT"
      BY <2>0, <2>2, MatchedWereSent DEF LifecycleInv, InitialFirst
    <3>2. send' = StopMessages(send, {e}) /\ kstatus' = StopCandidates(ks, {e})
      BY <1>3, <2>2 DEF RecordBounce
    <3>3. ks \in [Candidates -> Statuses]
      BY <2>0 DEF Statuses
    <3>4. ks[k] = kstatus[k] \/ (k = hit[1] /\ ks[k] = "BOUNCED")
      BY <2>0
    <3>. HIDE DEF ks, hit, e
    <3>5. ks[k] \in StatusesFor(send[Initial(k)])
      <4>1. CASE ks[k] = kstatus[k]
        BY <2>0, <4>1 DEF Agree
      <4>2. CASE k = hit[1] /\ ks[k] = "BOUNCED"
        BY <3>1, <4>2 DEF StatusesFor
      <4>. QED
        BY <3>4, <4>1, <4>2
    <3>. QED
      BY <2>0, <3>2, <3>3, <3>5, StopAgrees DEF Agree
  <2>. QED
    BY <2>1, <2>2
<1>. QED
  BY <1>1, <1>2, <1>3 DEF Mailbox

(* The sweep of the expired leases closes the candidate of each.             *)
LEMMA SweepAgrees ==
  ASSUME LifecycleInv, NEW k \in Candidates
  PROVE  /\ Initial(k) \in Swept => SweptStatus[k] = "FAILED"
         /\ Initial(k) \notin Swept => SweptStatus[k] = kstatus[k]
<1>. USE MessageTypes, InitialFacts
<1>0. TypeOK /\ CandidateFollowsInitial
  BY DEF LifecycleInv, TypeInv
<1>1. Initial(k) \in Swept => kstatus[k] = "SENDING"
  BY <1>0, StatusTells DEF Swept
<1>2. ASSUME kstatus[k] = "SENDING", NEW m \in Swept, m[1] = k
      PROVE  m = Initial(k)
  <2>1. send[Initial(k)] = "SENDING" /\ m \in Msgs /\ send[m] = "SENDING"
    BY <1>0, <1>2, StatusTells DEF Swept, TypeOK
  <2>. QED
    BY <1>2, <2>1 DEF LifecycleInv, InitialFirst
<1>. QED
  BY <1>1, <1>2 DEF SweptStatus

LEMMA ClaimAgrees ==
  ASSUME LifecycleInv, NEW w \in Workers, Claim(w), NEW k \in Candidates
  PROVE  Agree(k)'
<1>. USE MessageTypes, InitialFacts
<1>0. /\ TypeOK /\ CandidateFollowsInitial /\ Agree(k)
      /\ send \in [Msgs -> SendStates] /\ kstatus \in [Candidates -> Statuses]
      /\ SweptStatus \in [Candidates -> Statuses]
  BY SweptTypes DEF LifecycleInv, TypeInv, TypeOK, CandidateFollowsInitial, Agree
<1>1. PICK batch \in SUBSET Claimable :
        \E taken \in SUBSET Capped(batch) : ClaimBatch(w, batch, taken)
  BY DEF Claim
<1>2. PICK taken \in SUBSET Capped(batch) : ClaimBatch(w, batch, taken)
  BY <1>1
<1>. DEFINE leased == taken \cup (Fresh(batch) \ Capped(batch))
            E == {MailTo(m[1]) : m \in BarredOf(batch)}
            i == Initial(k)
<1>3. /\ send'[i] = IF i \in Swept THEN "UNCERTAIN"
                    ELSE IF i \in leased THEN "SENDING"
                    ELSE IF i \in StaleOf(batch) THEN "CANCELLED"
                    ELSE StopMessages(send, E)[i]
      /\ kstatus'[k] = IF i \in leased THEN "SENDING"
                       ELSE StopCandidates(SweptStatus, E)[k]
  BY <1>2 DEF ClaimBatch
<1>4. i \in batch => send[i] = "READY" /\ i \notin Swept
  BY DEF Claimable, Swept
<1>5. i \in leased => i \in batch
  BY DEF Fresh, Capped
<1>6. i \notin StaleOf(batch)
  <2>. SUFFICES ASSUME i \in StaleOf(batch) PROVE FALSE
    OBVIOUS
  <2>1. i \in batch /\ Stale(i, SweptStatus)
    BY DEF StaleOf
  <2>2. kstatus[k] = "READY_TO_SEND" /\ SweptStatus[k] = kstatus[k] /\ reply[k] = "NONE"
    BY <1>0, <1>4, <2>1, StatusTells, SweepAgrees DEF LifecycleInv, InitialFirst
  <2>. QED
    BY <2>1, <2>2 DEF Stale, IsInitial, IsBooking, IsFollowUp, Initial
<1>. HIDE DEF leased, E
<1>7. CASE i \in leased
  BY <1>3, <1>4, <1>5, <1>7 DEF Agree, StatusesFor
<1>8. CASE i \in Swept
  <2>1. SweptStatus[k] = "FAILED" /\ i \notin leased
    BY <1>4, <1>5, <1>8, SweepAgrees
  <2>2. StopCandidates(SweptStatus, E)[k] = "FAILED"
    BY <2>1 DEF StopCandidates, Stoppable, Active
  <2>. QED
    BY <1>3, <1>8, <2>1, <2>2 DEF Agree, StatusesFor
<1>9. CASE i \notin leased /\ i \notin Swept
  <2>1. SweptStatus[k] \in StatusesFor(send[i])
    BY <1>0, <1>9, SweepAgrees DEF Agree
  <2>2. StopCandidates(SweptStatus, E)[k] \in StatusesFor(StopMessages(send, E)[i])
    BY <1>0, <2>1, StopAgrees
  <2>. QED
    BY <1>3, <1>6, <1>9, <2>2 DEF Agree
<1>. QED
  BY <1>7, <1>8, <1>9

LEMMA FinishAgrees ==
  ASSUME LifecycleInv, NEW w \in Workers, Finish(w), NEW k \in Candidates
  PROVE  Agree(k)'
<1>. USE MessageTypes, InitialFacts
<1>. DEFINE m == cur[w]
            r == result[w]
<1>0. /\ TypeOK /\ CandidateFollowsInitial /\ Agree(k)
      /\ send \in [Msgs -> SendStates] /\ kstatus \in [Candidates -> Statuses]
  BY DEF LifecycleInv, TypeInv, TypeOK, CandidateFollowsInitial, Agree
<1>1. /\ m \in Msgs /\ r \in Results
      /\ \/ LeaseHeld(w, m) /\ Complete(m, r)
         \/ UNCHANGED <<send, kstatus>>
  BY FinishCases DEF LifecycleInv
<1>. HIDE DEF m, r
<1>2. CASE UNCHANGED <<send, kstatus>>
  BY <1>0, <1>2 DEF Agree
<1>3. CASE LeaseHeld(w, m) /\ Complete(m, r)
  <2>. DEFINE E == IF r = "BOUNCED" THEN {MailTo(m[1])} ELSE {}
              s == [send EXCEPT ![m] = SendAfter(m, r)]
              ks == [kstatus EXCEPT ![m[1]] = StatusAfter(m, r)]
  <2>1. send' = StopMessages(s, E) /\ kstatus' = StopCandidates(ks, E)
    BY <1>3 DEF Complete
  <2>2. s \in [Msgs -> SendStates] /\ ks \in [Candidates -> Statuses]
    BY <1>0, <1>1 DEF SendAfter, StatusAfter, SendStates, Statuses
  <2>3. send[m] = "SENDING"
    BY <1>3 DEF LeaseHeld
  <2>4. ks[k] \in StatusesFor(s[Initial(k)])
    <3>1. CASE m = Initial(k)
      <4>1. kstatus[k] = "SENDING"
        BY <1>0, <2>3, <3>1, StatusTells
      <4>2. ks[k] = StatusAfter(m, r) /\ s[Initial(k)] = SendAfter(m, r)
        BY <1>0, <1>1, <3>1
      <4>3. kstatus[m[1]] = "SENDING" /\ IsInitial(m)
        BY <3>1, <4>1
      <4>4. CASE r = "BOUNCED"
        BY <4>2, <4>3, <4>4 DEF StatusAfter, SendAfter, StatusesFor, Retried
      <4>5. CASE r = "UNCERTAIN"
        BY <4>2, <4>3, <4>5 DEF StatusAfter, SendAfter, StatusesFor
      <4>6. CASE r = "SENT"
        BY <4>2, <4>3, <4>6 DEF StatusAfter, SendAfter, StatusesFor
      <4>7. CASE r \in {"RETRY", "FAILED", "ABORTED"}
        <5>1. CASE SendAfter(m, r) = "READY"
          BY <4>2, <4>3, <4>7, <5>1 DEF StatusAfter, StatusesFor
        <5>2. CASE SendAfter(m, r) = "FAILED"
          BY <4>2, <4>3, <4>7, <5>2 DEF StatusAfter, StatusesFor
        <5>. QED
          BY <4>7, <5>1, <5>2 DEF SendAfter
      <4>. QED
        BY <1>1, <4>4, <4>5, <4>6, <4>7 DEF Results
    <3>2. CASE m # Initial(k) /\ m[1] = k
      <4>1. ~IsInitial(m) /\ send[Initial(k)] = "SENT"
        BY <1>1, <2>3, <3>2 DEF LifecycleInv, InitialFirst
      <4>2. kstatus[k] \in StatusesFor("SENT")
        BY <1>0, <4>1 DEF Agree
      <4>3. ks[k] = StatusAfter(m, r) /\ s[Initial(k)] = "SENT"
        BY <1>0, <1>1, <3>2, <4>1
      <4>4. StatusAfter(m, r) \in {"BOUNCED", kstatus[k]}
        BY <1>1, <3>2, <4>1, <4>2 DEF StatusAfter, StatusesFor
      <4>. QED
        BY <4>2, <4>3, <4>4 DEF StatusesFor
    <3>3. CASE m[1] # k
      BY <1>0, <1>1, <3>3 DEF Agree
    <3>. QED
      BY <3>1, <3>2, <3>3
  <2>. HIDE DEF s, ks, E
  <2>. QED
    BY <2>1, <2>2, <2>4, StopAgrees DEF Agree
<1>. QED
  BY <1>1, <1>2, <1>3

-----------------------------------------------------------------------------
(* The message in every kind of step.                                        *)
Moves(m) == EditorialMove(m) \/ SendingMove(m)

LEMMA RunMoves ==
  ASSUME LifecycleInv, NEW w \in Workers, Run(w), NEW m \in Msgs
  PROVE  /\ Moves(m)
         /\ send[m] = "NONE" /\ send'[m] # "NONE" /\ ~IsInitial(m) => kstatus[m[1]] = "SENT"
<1>. USE InitialFacts DEF Moves, EditorialMove, SendingMove
<1>0. TypeInv /\ TypeOK /\ send \in [Msgs -> SendStates]
  BY DEF LifecycleInv, TypeInv, TypeOK
<1>1. CASE StartRun(w) \/ \E k \in Candidates : SkipFollowUp(w, k)
  BY <1>1 DEF StartRun, SkipFollowUp, messages
<1>2. ASSUME NEW k \in Candidates, CreateFollowUp(w, k)
      PROVE  /\ Moves(m)
             /\ send[m] = "NONE" /\ send'[m] # "NONE" => kstatus[m[1]] = "SENT"
  <2>. DEFINE q == Cardinality(Rows(k))
  <2>1. /\ q \in {1, 2} /\ send' = [send EXCEPT ![<<k, q>>] = "DRAFT"]
        /\ send[<<k, q>>] = "NONE" /\ kstatus[k] = "SENT"
    BY <1>2 DEF CreateFollowUp, Followable
  <2>. HIDE DEF q
  <2>. QED
    BY <1>0, <2>1
<1>3. CASE Claim(w)
  <2>1. PICK leased \in SUBSET Msgs :
          /\ \A n \in leased : send[n] = "READY" /\ send'[n] = "SENDING"
          /\ \A n \in Msgs \ leased :
                \/ n \in Swept /\ send'[n] = "UNCERTAIN"
                \/ send'[n] = send[n]
                \/ send[n] \in {"DRAFT", "READY"} /\ send'[n] = "CANCELLED"
    BY <1>0, <1>3, ClaimMoves
  <2>. QED
    BY <2>1 DEF Swept
<1>4. ASSUME NEW n \in Msgs, Check(w, n) PROVE send' = send
  BY <1>4 DEF Check, messages
<1>5. CASE Smtp(w)
  BY <1>5 DEF Smtp, messages
<1>6. CASE Finish(w)
  <2>1. CASE UNCHANGED send
    BY <2>1
  <2>2. CASE LeaseHeld(w, cur[w]) /\ Complete(cur[w], result[w])
    <3>1. cur[w] \in Msgs /\ result[w] \in Results /\ send[cur[w]] = "SENDING"
      BY <1>0, <1>6, <2>2, FinishCases DEF LeaseHeld
    <3>2. /\ send'[cur[w]] \in {"READY", "SENT", "FAILED", "UNCERTAIN"}
          /\ \A n \in Msgs \ {cur[w]} :
               \/ send'[n] = send[n]
               \/ send[n] \in {"DRAFT", "READY"} /\ send'[n] = "CANCELLED"
      BY <1>0, <2>2, <3>1, CompleteMoves
    <3>. QED
      BY <3>1, <3>2
  <2>. QED
    BY <1>0, <1>6, <2>1, <2>2, FinishCases
<1>. QED
  BY <1>1, <1>2, <1>3, <1>4, <1>5, <1>6 DEF Run

LEMMA NextMoves ==
  ASSUME LifecycleInv, [Next]_vars, NEW m \in Msgs
  PROVE  /\ Moves(m)
         /\ send[m] = "NONE" /\ send'[m] # "NONE" /\ ~IsInitial(m)
              => kstatus[m[1]] \in {"SENT", "REPLIED"}
<1>0. TypeOK
  BY DEF LifecycleInv, TypeInv
<1>1. CASE Member
  BY <1>1, MemberMoves DEF MemberMove, Moves
<1>2. ASSUME NEW w \in Workers, Run(w)
      PROVE  /\ Moves(m)
             /\ send[m] = "NONE" /\ send'[m] # "NONE" /\ ~IsInitial(m)
                  => kstatus[m[1]] = "SENT"
  BY <1>2, RunMoves
<1>3. CASE Mailbox
  BY <1>0, <1>3, MailboxMoves DEF Moves, EditorialMove
<1>4. CASE (\E w \in Workers : Crash(w)) \/ Time \/ UNCHANGED vars
  <2>1. send' = send
    BY <1>4 DEF Crash, Time, LeaseTimeout, RetryDelayOver, NewDay, vars, messages
  <2>. QED
    BY <2>1 DEF Moves, EditorialMove
<1>. QED
  BY <1>1, <1>2, <1>3, <1>4 DEF Next

(* A person's reply is recorded only for somebody who was written to, and the  *)
(* last SENT message of an address is SENT.                                    *)
LEMMA NextWitnesses ==
  ASSUME LifecycleInv, [Next]_vars
  PROVE  /\ \A k \in Candidates :
              reply'[k] # "NONE" => reply[k] # "NONE" \/ send[Initial(k)] = "SENT"
         /\ \A e \in Emails : lastSent'[e] # NULL =>
              \/ lastSent'[e] = lastSent[e]
              \/ lastSent'[e] \in Msgs /\ send'[lastSent'[e]] = "SENT"
<1>0. TypeInv /\ TypeOK
  BY DEF LifecycleInv, TypeInv
<1>1. CASE Member
  <2>1. UNCHANGED <<reply, lastSent>>
    BY <1>1 DEF Member, CreateCandidate, SetOutcome, SuppressEmail, CreateBooking,
                Approve, Reject, Edit, SetBookingUrl, ListOrg, outside, rows
  <2>. QED
    BY <2>1
<1>2. ASSUME NEW w \in Workers, Run(w), ~Finish(w) PROVE UNCHANGED <<reply, lastSent>>
  BY <1>2 DEF Run, StartRun, CreateFollowUp, SkipFollowUp, Claim, Check, Smtp, rows, outside
<1>3. ASSUME NEW w \in Workers, Finish(w)
      PROVE  /\ reply' = reply
             /\ \A e \in Emails : lastSent'[e] # NULL =>
                  \/ lastSent'[e] = lastSent[e]
                  \/ lastSent'[e] \in Msgs /\ send'[lastSent'[e]] = "SENT"
  <2>1. reply' = reply
    BY <1>3 DEF Finish
  <2>2. CASE UNCHANGED lastSent
    BY <2>1, <2>2
  <2>3. CASE LeaseHeld(w, cur[w]) /\ Complete(cur[w], result[w])
    <3>1. cur[w] \in Msgs /\ result[w] \in Results /\ send[cur[w]] = "SENDING"
      BY <1>0, <1>3, <2>3, FinishCases DEF LeaseHeld
    <3>2. send'[cur[w]] = SendAfter(cur[w], result[w])
      BY <1>0, <2>3, <3>1, CompleteMoves
    <3>3. lastSent' = IF result[w] = "SENT"
                      THEN [lastSent EXCEPT ![MailTo(cur[w][1])] = cur[w]] ELSE lastSent
      BY <2>3 DEF Complete
    <3>. QED
      BY <1>0, <2>1, <3>1, <3>2, <3>3 DEF SendAfter, TypeOK
  <2>. QED
    BY <1>0, <1>3, <2>2, <2>3, FinishCases
<1>4. CASE Mailbox
  <2>0. ASSUME NEW K, NEW human, NEW from, NEW optOut, Inbound(K, human, from, optOut)
        PROVE  UNCHANGED lastSent
    BY <2>0 DEF Inbound
  <2>1. UNCHANGED lastSent
    BY <1>4, <2>0 DEF Mailbox, RecordReply, RecordMail, RecordBounce
  <2>. QED
    BY <1>4, <2>1, MailboxAgrees
<1>5. CASE (\E w \in Workers : Crash(w)) \/ Time \/ UNCHANGED vars
  <2>1. UNCHANGED <<reply, lastSent>>
    BY <1>5 DEF Crash, Time, LeaseTimeout, RetryDelayOver, NewDay, vars, rows, outside
  <2>. QED
    BY <2>1
<1>. QED
  BY <1>1, <1>2, <1>3, <1>4, <1>5 DEF Next

-----------------------------------------------------------------------------
(* The inductive step, and what follows from the invariant.                  *)

LEMMA AgreementKept == ASSUME LifecycleInv, [Next]_vars PROVE CandidateFollowsInitial'
<1>. SUFFICES ASSUME NEW k \in Candidates PROVE Agree(k)'
  BY DEF Agree, CandidateFollowsInitial
<1>0. Agree(k)
  BY DEF LifecycleInv, CandidateFollowsInitial, Agree
<1>1. CASE Member
  BY <1>1, MemberAgrees
<1>2. CASE Mailbox
  BY <1>2, MailboxAgrees
<1>3. ASSUME NEW w \in Workers, Claim(w) PROVE Agree(k)'
  BY <1>3, ClaimAgrees
<1>4. ASSUME NEW w \in Workers, Finish(w) PROVE Agree(k)'
  BY <1>4, FinishAgrees
<1>5. ASSUME NEW w \in Workers, NEW j \in Candidates, CreateFollowUp(w, j) PROVE Agree(k)'
  <2>1. UNCHANGED kstatus /\ send'[Initial(k)] = send[Initial(k)]
    <3>1. PICK q \in {1, 2} : send' = [send EXCEPT ![<<j, q>>] = "DRAFT"]
      BY <1>5 DEF CreateFollowUp
    <3>2. UNCHANGED kstatus
      BY <1>5 DEF CreateFollowUp, rows
    <3>. QED
      BY <3>1, <3>2 DEF Initial
  <2>. QED
    BY <1>0, <2>1 DEF Agree
<1>6. ASSUME NEW w \in Workers, Run(w) \/ Crash(w), ~Claim(w), ~Finish(w),
             \A j \in Candidates : ~CreateFollowUp(w, j)
      PROVE  UNCHANGED <<send, kstatus>>
  BY <1>6 DEF Run, StartRun, SkipFollowUp, Check, Smtp, Crash, rows, messages
<1>7. ASSUME Time \/ UNCHANGED vars PROVE UNCHANGED <<send, kstatus>>
  BY <1>7 DEF Time, LeaseTimeout, RetryDelayOver, NewDay, vars, rows, messages
<1>8. CASE UNCHANGED <<send, kstatus>>
  BY <1>0, <1>8 DEF Agree
<1>. QED
  BY <1>1, <1>2, <1>3, <1>4, <1>5, <1>6, <1>7, <1>8 DEF Next

LEMMA PrecedenceKept == ASSUME LifecycleInv, [Next]_vars PROVE InitialFirst'
<1>. USE MessageTypes
<1>0. /\ TypeOK /\ CandidateFollowsInitial /\ InitialFirst
  BY DEF LifecycleInv, TypeInv
<1>1. ASSUME NEW m \in Msgs, send[m] = "SENT" PROVE send'[m] = "SENT"
  BY <1>1, NextMoves DEF Moves, EditorialMove, SendingMove
<1>2. \A m \in Msgs : send'[m] # "NONE" /\ ~IsInitial(m) => send'[Initial(m[1])] = "SENT"
  <2>. SUFFICES ASSUME NEW m \in Msgs, send'[m] # "NONE", ~IsInitial(m)
                PROVE  send'[Initial(m[1])] = "SENT"
    OBVIOUS
  <2>1. CASE send[m] # "NONE"
    BY <1>0, <1>1, <2>1 DEF InitialFirst
  <2>2. CASE send[m] = "NONE"
    <3>1. kstatus[m[1]] \in {"SENT", "REPLIED"}
      BY <2>2, NextMoves
    <3>. QED
      BY <1>0, <1>1, <3>1, StatusTells
  <2>. QED
    BY <2>1, <2>2
<1>3. \A k \in Candidates : reply'[k] # "NONE" => send'[Initial(k)] = "SENT"
  BY <1>0, <1>1, NextWitnesses DEF InitialFirst
<1>4. \A e \in Emails : lastSent'[e] # NULL => send'[lastSent'[e]] = "SENT"
  BY <1>0, <1>1, NextWitnesses DEF InitialFirst, TypeOK
<1>. QED
  BY <1>2, <1>3, <1>4 DEF InitialFirst

LEMMA LifecycleInit == Init => LifecycleInv
<1>1. Init => CandidateFollowsInitial /\ InitialFirst
  BY MessageTypes, OutreachAssumption DEF Init, CandidateFollowsInitial, InitialFirst, StatusesFor
<1>. QED
  BY <1>1, InitTypes DEF LifecycleInv

LEMMA LifecycleNext == LifecycleInv /\ [Next]_vars => LifecycleInv'
<1>1. LifecycleInv /\ [Next]_vars => TypeInv'
  BY NextTypes DEF LifecycleInv
<1>. QED
  BY <1>1, AgreementKept, PrecedenceKept DEF LifecycleInv

(* In every behaviour the candidate's status is one that goes with its initial  *)
(* message: completing, sweeping, stopping, answering and bouncing keep them    *)
(* agreed, because a follow-up, a reply and a last SENT message exist only once *)
(* the initial message is SENT.                                                 *)
THEOREM CandidateInStep == Spec => []CandidateFollowsInitial
<1>1. LifecycleInv => CandidateFollowsInitial
  BY DEF LifecycleInv
<1>. QED
  BY <1>1, LifecycleInit, LifecycleNext, PTL DEF Spec

(* A message that was sent, may have been sent or failed for good is never      *)
(* claimed again, by any worker.                                                *)
THEOREM NeverResent == Spec => ClosedIsFinal
<1>1. LifecycleInv /\ [Next]_vars =>
        [\A m \in Msgs : send[m] \in {"SENT", "FAILED", "UNCERTAIN"} => send'[m] = send[m]]_vars
  BY NextMoves DEF Moves, EditorialMove, SendingMove
<1>. QED
  BY <1>1, LifecycleInit, LifecycleNext, PTL DEF Spec, ClosedIsFinal

-----------------------------------------------------------------------------
(* Delivery to the SMTP server.                                             *)

InClaim(w, m) == m \in todo[w] \/ m = cur[w]

(* What a worker claimed and has not completed is SENDING, or UNCERTAIN since  *)
(* its lease ran out, and no other worker has it.                              *)
ClaimsApart ==
  \A w \in Workers, m \in Msgs : InClaim(w, m) =>
    /\ send[m] \in {"SENDING", "UNCERTAIN"}
    /\ \A v \in Workers \ {w} : ~InClaim(v, m)
    /\ ~(m \in todo[w] /\ m = cur[w])

(* What a worker knows of the copies the server accepted.                      *)
KnownCopies ==
  \A w \in Workers :
    /\ \A m \in todo[w] : accepted[m] = unheard[m]
    /\ pc[w] \in {"smtp", "abort"} => accepted[cur[w]] = unheard[cur[w]]
    /\ pc[w] = "report" /\ result[w] = "SENT" => accepted[cur[w]] = unheard[cur[w]] + 1
    /\ pc[w] = "report" /\ result[w] \notin {"SENT", "UNCERTAIN"} => accepted[cur[w]] = unheard[cur[w]]

(* But for the copies a worker was told to retry, a message is accepted once.  *)
OnceButForRetries == \A m \in Msgs : accepted[m] <= unheard[m] + 1

(* The inductive invariant: a claim is exclusive and starts from a message of  *)
(* which nobody heard that the server accepted it, and UNCERTAIN is never      *)
(* claimed.                                                                    *)
SendingInv == LifecycleInv /\ ClaimsApart /\ KnownCopies /\ OnceButForRetries /\ StatusIsTruthful

-----------------------------------------------------------------------------
(* A step that touches neither the workers nor the server, nor a message being *)
(* or having been sent.                                                        *)
QuietStep ==
  /\ \A m \in Msgs : EditorialMove(m)
  /\ UNCHANGED <<todo, cur, accepted, unheard>>
  /\ \A w \in Workers : /\ result'[w] = result[w]
                        /\ \/ pc'[w] = pc[w]
                           \/ pc'[w] \notin {"smtp", "abort", "report"}

LEMMA QuietSteps ==
  ASSUME LifecycleInv, \/ Member \/ Mailbox \/ Time \/ UNCHANGED vars
                       \/ \E w \in Workers : \/ StartRun(w)
                                             \/ \E k \in Candidates : CreateFollowUp(w, k)
                                             \/ \E k \in Candidates : SkipFollowUp(w, k)
  PROVE  QuietStep
<1>. USE DEF QuietStep
<1>0. TypeOK
  BY DEF LifecycleInv, TypeInv
<1>1. CASE Member
  <2>1. UNCHANGED <<todo, cur, accepted, unheard, pc, result>>
    BY <1>1 DEF Member, CreateCandidate, SetOutcome, SuppressEmail, CreateBooking,
                Approve, Reject, Edit, SetBookingUrl, ListOrg, worker, outside
  <2>. QED
    BY <1>1, <2>1, MemberMoves DEF MemberMove
<1>2. CASE Mailbox
  <2>0. ASSUME NEW K, NEW human, NEW from, NEW optOut, Inbound(K, human, from, optOut)
        PROVE  UNCHANGED <<todo, cur, accepted, unheard, pc, result>>
    BY <2>0 DEF Inbound, worker
  <2>1. UNCHANGED <<todo, cur, accepted, unheard, pc, result>>
    BY <1>2, <2>0 DEF Mailbox, RecordReply, RecordMail, RecordBounce, worker
  <2>. QED
    BY <1>0, <1>2, <2>1, MailboxMoves
<1>3. CASE Time \/ UNCHANGED vars
  BY <1>3 DEF Time, LeaseTimeout, RetryDelayOver, NewDay, vars, messages, worker, outside,
              EditorialMove
<1>4. ASSUME NEW w \in Workers,
             \/ StartRun(w)
             \/ \E k \in Candidates : CreateFollowUp(w, k)
             \/ \E k \in Candidates : SkipFollowUp(w, k)
      PROVE  QuietStep
  <2>1. UNCHANGED <<todo, cur, accepted, unheard, result>>
    BY <1>4 DEF StartRun, CreateFollowUp, SkipFollowUp, outside
  <2>2. ASSUME NEW m \in Msgs PROVE EditorialMove(m)
    <3>1. CASE \E k \in Candidates : CreateFollowUp(w, k)
      <4>1. PICK k \in Candidates, q \in {1, 2} :
              send[<<k, q>>] = "NONE" /\ send' = [send EXCEPT ![<<k, q>>] = "DRAFT"]
        BY <3>1 DEF CreateFollowUp
      <4>. QED
        BY <1>0, <4>1 DEF EditorialMove, TypeOK
    <3>2. CASE StartRun(w) \/ \E k \in Candidates : SkipFollowUp(w, k)
      BY <3>2 DEF StartRun, SkipFollowUp, messages, EditorialMove
    <3>. QED
      BY <1>4, <3>1, <3>2
  <2>3. \/ pc' = pc
        \/ pc' = [pc EXCEPT ![w] = "draft"]
    BY <1>4 DEF StartRun, CreateFollowUp, SkipFollowUp
  <2>. QED
    BY <1>0, <2>1, <2>2, <2>3 DEF TypeOK
<1>. QED
  BY <1>1, <1>2, <1>3, <1>4

LEMMA QuietKeeps ==
  ASSUME SendingInv, QuietStep
  PROVE  ClaimsApart' /\ KnownCopies' /\ OnceButForRetries' /\ StatusIsTruthful'
<1>0. ClaimsApart /\ KnownCopies /\ OnceButForRetries /\ StatusIsTruthful /\ TypeInv
  BY DEF SendingInv, LifecycleInv
<1>1. ClaimsApart'
  BY <1>0 DEF ClaimsApart, InClaim, QuietStep, EditorialMove
<1>2. KnownCopies'
  BY <1>0 DEF KnownCopies, QuietStep
<1>3. OnceButForRetries'
  BY <1>0 DEF OnceButForRetries, QuietStep
<1>4. StatusIsTruthful'
  BY <1>0 DEF StatusIsTruthful, QuietStep, EditorialMove
<1>. QED
  BY <1>1, <1>2, <1>3, <1>4

LEMMA CrashKeeps ==
  ASSUME SendingInv, NEW w \in Workers, Crash(w)
  PROVE  ClaimsApart' /\ KnownCopies' /\ OnceButForRetries' /\ StatusIsTruthful'
<1>0. ClaimsApart /\ KnownCopies /\ OnceButForRetries /\ StatusIsTruthful /\ TypeInv /\ TypeOK
  BY DEF SendingInv, LifecycleInv, TypeInv
<1>1. /\ UNCHANGED <<send, accepted, unheard>>
      /\ pc' = [pc EXCEPT ![w] = "idle"] /\ todo' = [todo EXCEPT ![w] = {}]
      /\ cur' = [cur EXCEPT ![w] = NULL] /\ result' = [result EXCEPT ![w] = NULL]
  BY DEF Crash, messages, outside
<1>2. \A v \in Workers, m \in Msgs : InClaim(v, m)' => v # w /\ InClaim(v, m)
  BY <1>0, <1>1, OutreachAssumption DEF InClaim, TypeOK
<1>3. ClaimsApart'
  BY <1>0, <1>1, <1>2 DEF ClaimsApart, InClaim, TypeOK
<1>4. KnownCopies'
  BY <1>0, <1>1 DEF KnownCopies, TypeOK
<1>. QED
  BY <1>0, <1>1, <1>3, <1>4 DEF OnceButForRetries, StatusIsTruthful

LEMMA ClaimKeeps ==
  ASSUME SendingInv, NEW w \in Workers, Claim(w)
  PROVE  ClaimsApart' /\ KnownCopies' /\ OnceButForRetries' /\ StatusIsTruthful'
<1>0. ClaimsApart /\ KnownCopies /\ OnceButForRetries /\ StatusIsTruthful /\ TypeInv /\ TypeOK
  BY DEF SendingInv, LifecycleInv, TypeInv
<1>1. PICK leased \in SUBSET Msgs :
        /\ \A m \in leased : send[m] = "READY" /\ send'[m] = "SENDING"
        /\ \A m \in Msgs \ leased :
             \/ m \in Swept /\ send'[m] = "UNCERTAIN"
             \/ send'[m] = send[m]
             \/ send[m] \in {"DRAFT", "READY"} /\ send'[m] = "CANCELLED"
        /\ todo' = [todo EXCEPT ![w] = leased]
        /\ pc' = [pc EXCEPT ![w] = IF leased = {} THEN "idle" ELSE "loop"]
  BY <1>0, ClaimMoves
<1>2. UNCHANGED <<cur, result, accepted, unheard>> /\ pc[w] = "draft" /\ cur[w] = NULL
  BY <1>0 DEF Claim, outside, TypeInv, InHand
<1>3. \A m \in Msgs : m \in Swept => send[m] = "SENDING"
  BY DEF Swept
<1>4. \A v \in Workers, m \in Msgs :
        InClaim(v, m)' => \/ v = w /\ m \in leased
                          \/ v # w /\ m \notin leased /\ InClaim(v, m)
  BY <1>0, <1>1, <1>2, OutreachAssumption DEF InClaim, ClaimsApart, TypeOK
<1>5. \A v \in Workers, m \in Msgs : v # w /\ InClaim(v, m) => InClaim(v, m)' /\ m \notin leased
  BY <1>0, <1>1, <1>2 DEF InClaim, ClaimsApart, TypeOK
<1>6. ClaimsApart'
  <2>. SUFFICES ASSUME NEW v \in Workers, NEW m \in Msgs, InClaim(v, m)'
                PROVE  /\ send'[m] \in {"SENDING", "UNCERTAIN"}
                       /\ \A u \in Workers \ {v} : ~InClaim(u, m)'
                       /\ ~(m \in todo'[v] /\ m = cur'[v])
    BY DEF ClaimsApart
  <2>1. CASE v = w /\ m \in leased
    BY <1>1, <1>2, <1>4, <2>1, OutreachAssumption
  <2>2. CASE v # w /\ m \notin leased /\ InClaim(v, m)
    BY <1>0, <1>1, <1>2, <1>3, <1>4, <2>2 DEF ClaimsApart, TypeOK
  <2>. QED
    BY <1>4, <2>1, <2>2
<1>7. KnownCopies'
  <2>1. \A m \in leased : accepted[m] = unheard[m]
    BY <1>0, <1>1 DEF StatusIsTruthful
  <2>. QED
    BY <1>0, <1>1, <1>2, <2>1 DEF KnownCopies, TypeOK
<1>8. OnceButForRetries' /\ StatusIsTruthful'
  BY <1>0, <1>1, <1>2, <1>3 DEF OnceButForRetries, StatusIsTruthful
<1>. QED
  BY <1>6, <1>7, <1>8

LEMMA CheckKeeps ==
  ASSUME SendingInv, NEW w \in Workers, NEW n \in Msgs, Check(w, n)
  PROVE  ClaimsApart' /\ KnownCopies' /\ OnceButForRetries' /\ StatusIsTruthful'
<1>0. ClaimsApart /\ KnownCopies /\ OnceButForRetries /\ StatusIsTruthful /\ TypeInv /\ TypeOK
  BY DEF SendingInv, LifecycleInv, TypeInv
<1>1. /\ n \in todo[w] /\ todo' = [todo EXCEPT ![w] = @ \ {n}]
      /\ cur' = [cur EXCEPT ![w] = n] /\ UNCHANGED <<send, accepted, unheard>>
      /\ \E p \in {"smtp", "abort"} : pc' = [pc EXCEPT ![w] = p]
      /\ \/ result' = result
         \/ result' = [result EXCEPT ![w] = "ABORTED"]
  BY DEF Check, messages, outside
<1>2. \A v \in Workers, m \in Msgs : InClaim(v, m)' => InClaim(v, m)
  BY <1>0, <1>1 DEF InClaim, TypeOK
<1>3. ClaimsApart'
  BY <1>0, <1>1, <1>2 DEF ClaimsApart, InClaim, TypeOK
<1>4. KnownCopies'
  BY <1>0, <1>1 DEF KnownCopies, TypeOK
<1>. QED
  BY <1>0, <1>1, <1>3, <1>4 DEF OnceButForRetries, StatusIsTruthful

(* What a result tells of the copies; those of a RETRY nobody hears of.        *)
LEMMA SmtpCopies ==
  ASSUME TypeOK, NEW w \in Workers, Smtp(w)
  PROVE  \E r \in Results, copy \in {0, 1}, lost \in {0, 1} :
           /\ r = "SENT" => copy = 1 /\ lost = 0
           /\ r \notin {"SENT", "UNCERTAIN"} => copy = lost
           /\ r \notin {"SENT", "UNCERTAIN", "RETRY"} => copy = 0
           /\ copy <= lost + 1 /\ lost <= copy
           /\ result' = [result EXCEPT ![w] = r]
           /\ accepted' = [accepted EXCEPT ![cur[w]] = @ + copy]
           /\ unheard' = [unheard EXCEPT ![cur[w]] = @ + lost]
<1>1. PICK r \in Results, copy \in {0, 1} :
        /\ copy \in Copies(r)
        /\ result' = [result EXCEPT ![w] = r]
        /\ accepted' = [accepted EXCEPT ![cur[w]] = @ + copy]
        /\ unheard' = IF r = "RETRY" THEN [unheard EXCEPT ![cur[w]] = @ + copy] ELSE unheard
  BY DEF Smtp
<1>. DEFINE lost == IF r = "RETRY" THEN copy ELSE 0
<1>2. /\ r = "SENT" => copy = 1
      /\ r \notin {"SENT", "UNCERTAIN", "RETRY"} => copy = 0
  BY <1>1 DEF Copies
<1>3. lost \in {0, 1} /\ (r = "RETRY" => lost = copy) /\ (r # "RETRY" => lost = 0)
  OBVIOUS
<1>4. unheard' = [unheard EXCEPT ![cur[w]] = @ + lost]
  <2>1. [unheard EXCEPT ![cur[w]] = @ + 0] = unheard
    BY DEF TypeOK
  <2>. QED
    BY <1>1, <1>3, <2>1
<1>. HIDE DEF lost
<1>5. /\ r = "SENT" => copy = 1 /\ lost = 0
      /\ r \notin {"SENT", "UNCERTAIN"} => copy = lost
      /\ r \notin {"SENT", "UNCERTAIN", "RETRY"} => copy = 0
      /\ copy <= lost + 1 /\ lost <= copy
  BY <1>2, <1>3
<1>. QED
  BY <1>1, <1>3, <1>4, <1>5, Zenon

LEMMA SmtpKeeps ==
  ASSUME SendingInv, NEW w \in Workers, Smtp(w)
  PROVE  ClaimsApart' /\ KnownCopies' /\ OnceButForRetries' /\ StatusIsTruthful'
<1>0. ClaimsApart /\ KnownCopies /\ OnceButForRetries /\ StatusIsTruthful /\ TypeInv /\ TypeOK
  BY DEF SendingInv, LifecycleInv, TypeInv
<1>1. PICK r \in Results, copy \in {0, 1}, lost \in {0, 1} :
        /\ r = "SENT" => copy = 1 /\ lost = 0
        /\ r \notin {"SENT", "UNCERTAIN"} => copy = lost
        /\ copy <= lost + 1
        /\ result' = [result EXCEPT ![w] = r]
        /\ accepted' = [accepted EXCEPT ![cur[w]] = @ + copy]
        /\ unheard' = [unheard EXCEPT ![cur[w]] = @ + lost]
  BY <1>0, SmtpCopies
<1>2. /\ pc[w] = "smtp" /\ pc' = [pc EXCEPT ![w] = "report"]
      /\ UNCHANGED <<send, todo, cur>>
  BY DEF Smtp, messages
<1>3. /\ cur[w] \in Msgs /\ accepted[cur[w]] = unheard[cur[w]] /\ unheard[cur[w]] \in Nat
      /\ accepted'[cur[w]] = unheard[cur[w]] + copy /\ unheard'[cur[w]] = unheard[cur[w]] + lost
      /\ \A m \in Msgs \ {cur[w]} : accepted'[m] = accepted[m] /\ unheard'[m] = unheard[m]
      /\ send[cur[w]] \in {"SENDING", "UNCERTAIN"}
  BY <1>0, <1>1, <1>2 DEF TypeInv, TypeOK, InHand, KnownCopies, ClaimsApart, InClaim
<1>4. \A v \in Workers : /\ \A m \in todo[v] : m \in Msgs /\ m # cur[w]
                         /\ v # w => cur[v] # cur[w]
  BY <1>0, <1>3 DEF ClaimsApart, InClaim, TypeOK
<1>5. ClaimsApart'
  BY <1>0, <1>2 DEF ClaimsApart, InClaim
<1>6. KnownCopies'
  <2>. SUFFICES ASSUME NEW v \in Workers
                PROVE  /\ \A m \in todo[v] : accepted'[m] = unheard'[m]
                       /\ pc'[v] \in {"smtp", "abort"} => accepted'[cur[v]] = unheard'[cur[v]]
                       /\ pc'[v] = "report" /\ result'[v] = "SENT"
                            => accepted'[cur[v]] = unheard'[cur[v]] + 1
                       /\ pc'[v] = "report" /\ result'[v] \notin {"SENT", "UNCERTAIN"}
                            => accepted'[cur[v]] = unheard'[cur[v]]
    BY <1>2 DEF KnownCopies
  <2>1. \A m \in todo[v] : accepted'[m] = unheard'[m]
    BY <1>0, <1>3, <1>4 DEF KnownCopies
  <2>2. CASE v = w
    BY <1>0, <1>1, <1>2, <1>3, <2>1, <2>2 DEF TypeOK
  <2>3. CASE v # w
    <3>1. pc'[v] = pc[v] /\ result'[v] = result[v]
      BY <1>0, <1>1, <1>2, <2>3 DEF TypeOK
    <3>2. cur[v] \in Msgs => accepted'[cur[v]] = accepted[cur[v]] /\ unheard'[cur[v]] = unheard[cur[v]]
      BY <1>3, <1>4, <2>3
    <3>3. pc[v] \in {"smtp", "abort", "report"} => cur[v] \in Msgs
      BY <1>0 DEF TypeInv, TypeOK, InHand
    <3>. QED
      BY <1>0, <2>1, <3>1, <3>2, <3>3 DEF KnownCopies
  <2>. QED
    BY <2>2, <2>3
<1>7. OnceButForRetries'
  BY <1>0, <1>1, <1>3 DEF OnceButForRetries
<1>8. StatusIsTruthful'
  BY <1>0, <1>2, <1>3 DEF StatusIsTruthful
<1>. QED
  BY <1>5, <1>6, <1>7, <1>8

LEMMA FinishKeeps ==
  ASSUME SendingInv, NEW w \in Workers, Finish(w)
  PROVE  ClaimsApart' /\ KnownCopies' /\ OnceButForRetries' /\ StatusIsTruthful'
<1>. DEFINE n == cur[w]
            r == result[w]
<1>0. ClaimsApart /\ KnownCopies /\ OnceButForRetries /\ StatusIsTruthful /\ TypeInv /\ TypeOK
  BY DEF SendingInv, LifecycleInv, TypeInv
<1>1. /\ n \in Msgs /\ r \in Results /\ UNCHANGED <<accepted, unheard>>
      /\ cur' = [cur EXCEPT ![w] = NULL] /\ result' = [result EXCEPT ![w] = NULL]
      /\ \/ todo' = todo
         \/ todo' = [todo EXCEPT ![w] = {}]
      /\ \E p \in {"idle", "loop"} : pc' = [pc EXCEPT ![w] = p]
  BY <1>0, FinishCases
<1>2. \/ send' = send
      \/ /\ send[n] = "SENDING" /\ send'[n] = SendAfter(n, r)
         /\ \A m \in Msgs \ {n} :
              \/ send'[m] = send[m]
              \/ send[m] \in {"DRAFT", "READY"} /\ send'[m] = "CANCELLED"
  <2>1. ASSUME LeaseHeld(w, n), Complete(n, r)
        PROVE  /\ send[n] = "SENDING" /\ send'[n] = SendAfter(n, r)
               /\ \A m \in Msgs \ {n} :
                    \/ send'[m] = send[m]
                    \/ send[m] \in {"DRAFT", "READY"} /\ send'[m] = "CANCELLED"
    <3>1. send[n] = "SENDING"
      BY <2>1 DEF LeaseHeld
    <3>. HIDE DEF n, r
    <3>. QED
      BY <1>0, <1>1, <2>1, <3>1, CompleteMoves
  <2>. QED
    BY <1>0, <2>1, FinishCases
<1>3. pc[w] \in {"abort", "report"}
  BY DEF Finish
<1>4. /\ r = "SENT" => accepted[n] = unheard[n] + 1
      /\ r \notin {"SENT", "UNCERTAIN"} => accepted[n] = unheard[n]
  BY <1>0, <1>3 DEF KnownCopies, TypeInv, InHand
<1>5. \A v \in Workers, m \in Msgs : InClaim(v, m)' => InClaim(v, m) /\ m # n
  BY <1>0, <1>1, OutreachAssumption DEF InClaim, ClaimsApart, TypeOK
<1>6. ClaimsApart'
  <2>. SUFFICES ASSUME NEW v \in Workers, NEW m \in Msgs, InClaim(v, m)'
                PROVE  /\ send'[m] \in {"SENDING", "UNCERTAIN"}
                       /\ \A u \in Workers \ {v} : ~InClaim(u, m)'
                       /\ ~(m \in todo'[v] /\ m = cur'[v])
    BY DEF ClaimsApart
  <2>1. InClaim(v, m) /\ m # n
    BY <1>5
  <2>2. send'[m] \in {"SENDING", "UNCERTAIN"}
    BY <1>0, <1>2, <2>1 DEF ClaimsApart
  <2>3. \A u \in Workers \ {v} : ~InClaim(u, m)'
    BY <1>0, <1>5, <2>1 DEF ClaimsApart
  <2>4. ~(m \in todo'[v] /\ m = cur'[v])
    BY <1>0, <1>1, <2>1, OutreachAssumption DEF ClaimsApart, InClaim, TypeOK
  <2>. QED
    BY <2>2, <2>3, <2>4
<1>7. KnownCopies'
  BY <1>0, <1>1 DEF KnownCopies, TypeOK
<1>8. OnceButForRetries'
  BY <1>0, <1>1 DEF OnceButForRetries
<1>9. StatusIsTruthful'
  <2>. HIDE DEF n, r
  <2>1. SendAfter(n, r) = "SENT" => r = "SENT"
    BY <1>1 DEF SendAfter
  <2>2. SendAfter(n, r) \notin {"SENT", "UNCERTAIN"} => r \notin {"SENT", "UNCERTAIN"}
    BY <1>1 DEF SendAfter
  <2>3. StatusIsTruthful
    BY <1>0
  <2>. QED
    BY <1>1, <1>2, <1>4, <2>1, <2>2, <2>3 DEF StatusIsTruthful
<1>. QED
  BY <1>6, <1>7, <1>8, <1>9

-----------------------------------------------------------------------------
LEMMA SendingInit == Init => SendingInv
<1>1. Init => ClaimsApart /\ KnownCopies /\ OnceButForRetries /\ StatusIsTruthful
  BY OutreachAssumption DEF Init, ClaimsApart, InClaim, KnownCopies, OnceButForRetries, StatusIsTruthful
<1>. QED
  BY <1>1, LifecycleInit DEF SendingInv

LEMMA SendingNext == SendingInv /\ [Next]_vars => SendingInv'
<1>. SUFFICES ASSUME SendingInv, [Next]_vars
              PROVE  ClaimsApart' /\ KnownCopies' /\ OnceButForRetries' /\ StatusIsTruthful'
  BY LifecycleNext DEF SendingInv
<1>0. LifecycleInv
  BY DEF SendingInv
<1>1. ASSUME \/ Member \/ Mailbox \/ Time \/ UNCHANGED vars
             \/ \E w \in Workers : \/ StartRun(w)
                                   \/ \E k \in Candidates : CreateFollowUp(w, k)
                                   \/ \E k \in Candidates : SkipFollowUp(w, k)
      PROVE  QuietStep
  BY <1>0, <1>1, QuietSteps
<1>2. CASE QuietStep
  BY <1>2, QuietKeeps
<1>. QED
  BY <1>1, <1>2, CrashKeeps, ClaimKeeps, CheckKeeps, SmtpKeeps, FinishKeeps DEF Next, Run

(* But for the copies a worker was told to retry, a SENT message was accepted,  *)
(* and one that is waiting, cancelled or failed was not: what                   *)
(* complete_outreach_send and the sweep write is what the worker could know.    *)
THEOREM TruthfulStatus == Spec => []StatusIsTruthful
<1>1. SendingInv => StatusIsTruthful
  BY DEF SendingInv
<1>. QED
  BY <1>1, SendingInit, SendingNext, PTL DEF Spec

-----------------------------------------------------------------------------
(* The rules of outreach.                                                   *)


-----------------------------------------------------------------------------
(* The daily cap.                                                            *)

Holding == {"SENDING", "SENT", "UNCERTAIN"}

LEMMA SlotsFinite ==
  ASSUME NEW d
  PROVE  /\ Slots(d) \subseteq Msgs
         /\ IsFiniteSet(Slots(d))
         /\ Cardinality(Slots(d)) \in Nat
<1>1. Slots(d) \in SUBSET Msgs
  BY DEF Slots
<1>. QED
  BY <1>1, FiniteMsgs

(* Only a claim and a completion move a slot.                                *)
LEMMA QuietSlots ==
  ASSUME LifecycleInv, [Next]_vars,
         \A w \in Workers : ~Claim(w) /\ ~Finish(w)
  PROVE  /\ UNCHANGED <<slotDay, sentCount>>
         /\ \A m \in Msgs : EditorialMove(m)
<1>0. TypeOK
  BY DEF LifecycleInv, TypeInv
<1>1. CASE Member
  <2>1. UNCHANGED <<slotDay, sentCount>>
    BY <1>1 DEF Member, CreateCandidate, SetOutcome, SuppressEmail, CreateBooking,
                Approve, Reject, Edit, SetBookingUrl, ListOrg, messages, shared
  <2>. QED
    BY <1>1, <2>1, MemberMoves DEF MemberMove
<1>2. CASE Mailbox
  <2>0. ASSUME NEW K, NEW human, NEW from, NEW optOut, Inbound(K, human, from, optOut)
        PROVE  UNCHANGED <<slotDay, sentCount>>
    BY <2>0 DEF Inbound
  <2>1. UNCHANGED <<slotDay, sentCount>>
    BY <1>2, <2>0 DEF Mailbox, RecordReply, RecordMail, RecordBounce
  <2>. QED
    BY <1>0, <1>2, <2>1, MailboxMoves
<1>3. ASSUME NEW w \in Workers, NEW k \in Candidates, CreateFollowUp(w, k)
      PROVE  /\ UNCHANGED <<slotDay, sentCount>>
             /\ \A m \in Msgs : EditorialMove(m)
  <2>1. PICK q \in {1, 2} :
          send[<<k, q>>] = "NONE" /\ send' = [send EXCEPT ![<<k, q>>] = "DRAFT"]
    BY <1>3 DEF CreateFollowUp
  <2>2. UNCHANGED <<slotDay, sentCount>>
    BY <1>3 DEF CreateFollowUp, shared
  <2>. QED
    BY <1>0, <2>1, <2>2 DEF EditorialMove, TypeOK
<1>4. ASSUME NEW w \in Workers, Run(w) \/ Crash(w),
             \A k \in Candidates : ~CreateFollowUp(w, k)
      PROVE  UNCHANGED <<slotDay, sentCount, send>>
  BY <1>4 DEF Run, StartRun, SkipFollowUp, Check, Smtp, Crash, messages, shared
<1>5. ASSUME Time \/ UNCHANGED vars PROVE UNCHANGED <<slotDay, sentCount, send>>
  BY <1>5 DEF Time, LeaseTimeout, RetryDelayOver, NewDay, vars, messages, shared
<1>6. CASE UNCHANGED <<slotDay, sentCount, send>>
  BY <1>6 DEF EditorialMove
<1>. QED
  BY <1>1, <1>2, <1>3, <1>4, <1>5, <1>6 DEF Next

LEMMA ClaimSlots ==
  ASSUME LifecycleInv, DailyCapHolds, NEW w \in Workers, Claim(w)
  PROVE  DailyCapHolds'
<1>0. TypeInv /\ TypeOK
  BY DEF LifecycleInv, TypeInv
<1>1. PICK leased \in SUBSET Msgs, taken \in SUBSET Msgs :
        /\ taken \subseteq leased
        /\ sentCount[today] + Cardinality(taken) <= DailyCap
        /\ \A m \in leased : send[m] = "READY" /\ send'[m] = "SENDING"
        /\ \A m \in Msgs \ leased :
             \/ m \in Swept /\ send'[m] = "UNCERTAIN"
             \/ m \notin Swept /\ \/ send'[m] = send[m]
                                  \/ send[m] \in {"DRAFT", "READY"} /\ send'[m] = "CANCELLED"
        /\ slotDay' = [m \in Msgs |-> IF m \in taken THEN today
                                      ELSE IF m \in leased THEN 0 ELSE slotDay[m]]
        /\ sentCount' = [sentCount EXCEPT ![today] = @ + Cardinality(taken)]
  BY <1>0, ClaimMoves
<1>2. \A m \in Msgs \ leased : /\ send[m] \in Holding <=> send'[m] \in Holding
                               /\ slotDay'[m] = slotDay[m]
  BY <1>1 DEF Swept, Holding
<1>3. \A m \in leased : /\ send[m] \notin Holding /\ send'[m] \in Holding
                        /\ slotDay'[m] = IF m \in taken THEN today ELSE 0
  BY <1>1 DEF Holding
<1>4. today \in Days /\ 0 \notin Days
  BY <1>0 DEF TypeOK, Days
<1>5. SUFFICES ASSUME NEW d \in Days
               PROVE  sentCount'[d] = Cardinality(Slots(d)') /\ sentCount'[d] <= DailyCap
  BY DEF DailyCapHolds
<1>6. sentCount[d] = Cardinality(Slots(d)) /\ sentCount[d] <= DailyCap /\ sentCount[d] \in Nat
  BY <1>0 DEF DailyCapHolds, TypeOK
<1>7. CASE d = today
  <2>1. Slots(d)' = Slots(d) \cup taken
    BY <1>1, <1>2, <1>3, <1>4, <1>7 DEF Slots, Holding
  <2>2. Slots(d) \cap taken = {}
    BY <1>1, <1>3 DEF Slots, Holding
  <2>3. IsFiniteSet(Slots(d)) /\ IsFiniteSet(taken) /\ Cardinality(taken) \in Nat
    BY SlotsFinite, FiniteMsgs
  <2>4. Cardinality(Slots(d)') = Cardinality(Slots(d)) + Cardinality(taken) - Cardinality({})
    BY <2>1, <2>2, <2>3, FS_Union
  <2>5. Cardinality({}) = 0
    BY FS_EmptySet
  <2>6. sentCount'[d] = sentCount[d] + Cardinality(taken)
    BY <1>0, <1>1, <1>7 DEF TypeOK
  <2>. QED
    BY <1>1, <1>6, <1>7, <2>3, <2>4, <2>5, <2>6
<1>8. CASE d # today
  <2>1. Slots(d)' = Slots(d)
    BY <1>1, <1>2, <1>3, <1>4, <1>8 DEF Slots, Holding
  <2>2. sentCount'[d] = sentCount[d]
    BY <1>0, <1>1, <1>8 DEF TypeOK
  <2>. QED
    BY <1>6, <2>1, <2>2
<1>. QED
  BY <1>7, <1>8

LEMMA FinishSlots ==
  ASSUME LifecycleInv, DailyCapHolds, NEW w \in Workers, Finish(w)
  PROVE  DailyCapHolds'
<1>. DEFINE m == cur[w]
            r == result[w]
<1>0. TypeInv /\ TypeOK
  BY DEF LifecycleInv, TypeInv
<1>1. /\ m \in Msgs /\ r \in Results /\ UNCHANGED slotDay
      /\ \/ LeaseHeld(w, m) /\ Complete(m, r)
         \/ UNCHANGED <<send, sentCount>>
  BY <1>0, FinishCases
<1>. HIDE DEF m, r
<1>2. CASE UNCHANGED <<send, sentCount>>
  BY <1>1, <1>2 DEF DailyCapHolds, Slots
<1>3. CASE LeaseHeld(w, m) /\ Complete(m, r)
  <2>1. send[m] = "SENDING"
    BY <1>3 DEF LeaseHeld
  <2>2. /\ send'[m] = SendAfter(m, r)
        /\ \A n \in Msgs \ {m} : send[n] \in Holding <=> send'[n] \in Holding
    BY <1>0, <1>1, <1>3, <2>1, CompleteMoves DEF Holding
  <2>3. sentCount' = IF Returned(r) /\ slotDay[m] # 0 /\ sentCount[slotDay[m]] > 0
                     THEN [sentCount EXCEPT ![slotDay[m]] = @ - 1] ELSE sentCount
    BY <1>3 DEF Complete
  <2>4. Returned(r) <=> send'[m] \notin Holding
    BY <1>1, <2>2 DEF Returned, SendAfter, Holding, Results
  <2>5. SUFFICES ASSUME NEW d \in Days
                 PROVE  sentCount'[d] = Cardinality(Slots(d)') /\ sentCount'[d] <= DailyCap
    BY DEF DailyCapHolds
  <2>6. sentCount[d] = Cardinality(Slots(d)) /\ sentCount[d] <= DailyCap /\ sentCount[d] \in Nat
    BY <1>0 DEF DailyCapHolds, TypeOK
  <2>7. d # 0 /\ slotDay[m] \in Days \cup {0} /\ DailyCap \in Nat
    BY <1>0, <1>1, OutreachAssumption DEF TypeOK, Days
  <2>8. CASE Returned(r) /\ slotDay[m] = d
    <3>1. Slots(d)' = Slots(d) \ {m}
      BY <1>1, <2>2, <2>4, <2>8 DEF Slots, Holding
    <3>2. m \in Slots(d)
      BY <1>1, <2>1, <2>8 DEF Slots
    <3>3. Cardinality(Slots(d)') = Cardinality(Slots(d)) - 1
      BY <3>1, <3>2, SlotsFinite, FS_RemoveElement
    <3>4. Cardinality(Slots(d)) # 0
      BY <3>2, SlotsFinite, FS_EmptySet
    <3>5. sentCount[d] > 0
      BY <2>6, <3>4
    <3>6. sentCount'[d] = sentCount[d] - 1
      BY <1>0, <2>3, <2>7, <2>8, <3>5 DEF TypeOK
    <3>. QED
      BY <2>6, <2>7, <3>3, <3>6
  <2>9. CASE ~Returned(r) \/ slotDay[m] # d
    <3>1. Slots(d)' = Slots(d)
      BY <1>1, <2>1, <2>2, <2>4, <2>9 DEF Slots, Holding
    <3>2. sentCount'[d] = sentCount[d]
      BY <1>0, <2>3, <2>7, <2>9 DEF TypeOK
    <3>. QED
      BY <2>6, <3>1, <3>2
  <2>. QED
    BY <2>8, <2>9
<1>. QED
  BY <1>1, <1>2, <1>3

(* The counter of a day is exactly the messages that took one of its slots and  *)
(* were sent, are being sent or may have been sent, and never exceeds the cap:  *)
(* claim_outreach_sends raises it and complete_outreach_send returns what was   *)
(* not used, once, on the day it was taken.                                     *)
THEOREM CapKept == Spec => []DailyCapHolds
<1>1. Init => DailyCapHolds
  <2>. SUFFICES ASSUME Init, NEW d \in Days
                PROVE  sentCount[d] = Cardinality(Slots(d)) /\ sentCount[d] <= DailyCap
    BY DEF DailyCapHolds
  <2>1. Slots(d) = {}
    BY DEF Init, Slots
  <2>. QED
    BY <2>1, FS_EmptySet, OutreachAssumption DEF Init
<1>2. LifecycleInv /\ DailyCapHolds /\ [Next]_vars => DailyCapHolds'
  <2>. SUFFICES ASSUME LifecycleInv, DailyCapHolds, [Next]_vars PROVE DailyCapHolds'
    OBVIOUS
  <2>1. CASE \A w \in Workers : ~Claim(w) /\ ~Finish(w)
    <3>1. UNCHANGED <<slotDay, sentCount>> /\ \A m \in Msgs : EditorialMove(m)
      BY <2>1, QuietSlots
    <3>2. ASSUME NEW d PROVE Slots(d)' = Slots(d)
      BY <3>1 DEF Slots, EditorialMove
    <3>. QED
      BY <3>1, <3>2 DEF DailyCapHolds
  <2>. QED
    BY <2>1, ClaimSlots, FinishSlots
<1>. QED
  BY <1>1, <1>2, LifecycleInit, LifecycleNext, PTL DEF Spec

-----------------------------------------------------------------------------
(* One active candidate per contact.                                         *)

(* Stopping an address never makes a candidate active.                       *)
LEMMA StopDeactivates ==
  ASSUME NEW ks \in [Candidates -> Statuses], NEW E, NEW k \in Candidates,
         StopCandidates(ks, E)[k] \in Active
  PROVE  ks[k] \in Active
BY DEF StopCandidates, Active

\* No candidate becomes active.
NoneActivated == \A k \in Candidates : kstatus'[k] \in Active => kstatus[k] \in Active

LEMMA MemberActivates ==
  ASSUME LifecycleInv, Member, \A k \in Candidates : ~CreateCandidate(k)
  PROVE  NoneActivated
<1>. SUFFICES ASSUME NEW k \in Candidates, kstatus'[k] \in Active PROVE kstatus[k] \in Active
  BY DEF NoneActivated
<1>0. kstatus \in [Candidates -> Statuses]
  BY DEF LifecycleInv, TypeInv, TypeOK
<1>1. ASSUME \/ \E e \in Emails : SuppressEmail(e)
             \/ \E j \in Candidates, o \in OutcomeInputs : SetOutcome(j, o)
      PROVE  \E E : kstatus' = StopCandidates(kstatus, E)
  BY <1>1 DEF SuppressEmail, SetOutcome
<1>2. ASSUME NEW m \in Msgs, Approve(m) PROVE kstatus[k] \in Active
  BY <1>0, <1>2 DEF Approve, Reviewable, Active
<1>3. ASSUME NEW m \in Msgs, Reject(m) PROVE kstatus[k] \in Active
  BY <1>0, <1>3 DEF Reject, Active
<1>4. ASSUME \/ \E m \in Msgs : Edit(m)
             \/ \E j \in Candidates : CreateBooking(j)
             \/ \E c \in Campaigns, l \in Links \cup {NULL} : SetBookingUrl(c, l)
             \/ \E o \in OperatorOrgs : ListOrg(o)
      PROVE  kstatus' = kstatus
  BY <1>4 DEF Edit, CreateBooking, SetBookingUrl, ListOrg, rows
<1>5. CASE \E E : kstatus' = StopCandidates(kstatus, E)
  BY <1>0, <1>5, StopDeactivates
<1>. QED
  BY <1>1, <1>2, <1>3, <1>4, <1>5 DEF Member

LEMMA InboundActivates ==
  ASSUME TypeOK, NEW K, NEW human \in BOOLEAN, NEW from, NEW optOut,
         Inbound(K, human, from, optOut)
  PROVE  NoneActivated
<1>. DEFINE E == IF optOut THEN {from} ELSE {}
            ks == IF human
                  THEN [j \in Candidates |->
                         IF j \in K /\ kstatus[j] \in {"SENT", "SENDING", "FAILED"}
                         THEN "REPLIED" ELSE kstatus[j]]
                  ELSE kstatus
<1>0. kstatus \in [Candidates -> Statuses]
  BY DEF TypeOK
<1>1. ks \in [Candidates -> Statuses]
  BY <1>0 DEF Statuses
<1>2. \A k \in Candidates : ks[k] = kstatus[k] \/ ks[k] = "REPLIED"
  OBVIOUS
<1>3. kstatus' = StopCandidates(ks, E)
  BY DEF Inbound
<1>. HIDE DEF ks, E
<1>. QED
  BY <1>1, <1>2, <1>3, StopDeactivates DEF NoneActivated, Active

LEMMA MailboxActivates == ASSUME LifecycleInv, Mailbox PROVE NoneActivated
<1>0. TypeOK /\ kstatus \in [Candidates -> Statuses]
  BY DEF LifecycleInv, TypeInv, TypeOK
<1>1. ASSUME NEW m \in Answerable, NEW from \in Senders, NEW auto \in BOOLEAN,
             NEW optOut \in BOOLEAN, RecordReply(m, from, auto, optOut)
      PROVE  NoneActivated
  BY <1>0, <1>1, InboundActivates DEF RecordReply
<1>2. ASSUME NEW from \in Senders, NEW optOut \in BOOLEAN, RecordMail(from, optOut)
      PROVE  NoneActivated
  BY <1>0, <1>2, InboundActivates DEF RecordMail
<1>3. ASSUME NEW m \in Answerable, RecordBounce(m) PROVE NoneActivated
  <2>. DEFINE hit == lastSent[MailTo(m[1])]
              ks == [kstatus EXCEPT ![hit[1]] = "BOUNCED"]
  <2>1. kstatus' = kstatus \/ kstatus' = StopCandidates(ks, {MailTo(m[1])})
    BY <1>3 DEF RecordBounce
  <2>2. ks \in [Candidates -> Statuses] /\ \A k \in Candidates : ks[k] \in {kstatus[k], "BOUNCED"}
    BY <1>0 DEF Statuses
  <2>. HIDE DEF ks
  <2>. QED
    BY <2>1, <2>2, StopDeactivates DEF NoneActivated, Active
<1>. QED
  BY <1>1, <1>2, <1>3 DEF Mailbox

LEMMA ClaimActivates == ASSUME LifecycleInv, NEW w \in Workers, Claim(w) PROVE NoneActivated
<1>. SUFFICES ASSUME NEW k \in Candidates, kstatus'[k] \in Active PROVE kstatus[k] \in Active
  BY DEF NoneActivated
<1>0. TypeOK /\ SweptStatus \in [Candidates -> Statuses]
  BY SweptTypes DEF LifecycleInv, TypeInv
<1>1. PICK batch \in SUBSET Claimable :
        \E taken \in SUBSET Capped(batch) : ClaimBatch(w, batch, taken)
  BY DEF Claim
<1>2. PICK taken \in SUBSET Capped(batch) : ClaimBatch(w, batch, taken)
  BY <1>1
<1>. DEFINE leased == taken \cup (Fresh(batch) \ Capped(batch))
            E == {MailTo(m[1]) : m \in BarredOf(batch)}
<1>3. kstatus'[k] = IF Initial(k) \in leased THEN "SENDING"
                    ELSE StopCandidates(SweptStatus, E)[k]
  BY <1>2 DEF ClaimBatch
<1>4. Initial(k) \in leased => SweptStatus[k] = "READY_TO_SEND"
  <2>. SUFFICES ASSUME Initial(k) \in leased PROVE SweptStatus[k] = "READY_TO_SEND"
    OBVIOUS
  <2>1. ~Stale(Initial(k), SweptStatus)
    BY DEF Fresh, Capped, StaleOf, BarredOf
  <2>. QED
    BY <2>1, InitialFacts DEF Stale, IsBooking, IsInitial, Initial
<1>. HIDE DEF leased, E
<1>5. SweptStatus[k] \in Active
  BY <1>0, <1>3, <1>4, StopDeactivates DEF Active
<1>. QED
  BY <1>5, SweepAgrees DEF Active

LEMMA FinishActivates == ASSUME LifecycleInv, NEW w \in Workers, Finish(w) PROVE NoneActivated
<1>. DEFINE m == cur[w]
            r == result[w]
<1>0. /\ TypeInv /\ TypeOK /\ CandidateFollowsInitial
      /\ kstatus \in [Candidates -> Statuses] /\ send \in [Msgs -> SendStates]
  BY DEF LifecycleInv, TypeInv, TypeOK
<1>1. /\ m \in Msgs /\ r \in Results
      /\ \/ LeaseHeld(w, m) /\ Complete(m, r)
         \/ UNCHANGED kstatus
  BY <1>0, FinishCases
<1>. HIDE DEF m, r
<1>2. CASE UNCHANGED kstatus
  BY <1>2 DEF NoneActivated
<1>3. CASE LeaseHeld(w, m) /\ Complete(m, r)
  <2>. DEFINE E == IF r = "BOUNCED" THEN {MailTo(m[1])} ELSE {}
              ks == [kstatus EXCEPT ![m[1]] = StatusAfter(m, r)]
  <2>1. kstatus' = StopCandidates(ks, E)
    BY <1>3 DEF Complete
  <2>2. StatusAfter(m, r) \in Statuses /\ m[1] \in Candidates
    BY <1>0, <1>1, MessageTypes DEF StatusAfter, Statuses
  <2>3. StatusAfter(m, r) \in Active => kstatus[m[1]] \in Active
    <3>1. CASE IsInitial(m)
      <4>1. kstatus[m[1]] = "SENDING"
        BY <1>0, <1>1, <1>3, <2>2, <3>1, InitialFacts, StatusTells DEF LeaseHeld
      <4>. QED
        BY <4>1 DEF Active
    <3>2. CASE ~IsInitial(m)
      BY <3>2 DEF StatusAfter, Active
    <3>. QED
      BY <3>1, <3>2
  <2>4. \A k \in Candidates : ks[k] \in Active => kstatus[k] \in Active
    BY <1>0, <2>2, <2>3
  <2>5. ks \in [Candidates -> Statuses]
    BY <1>0, <2>2
  <2>. HIDE DEF ks, E
  <2>. QED
    BY <2>1, <2>4, <2>5, StopDeactivates DEF NoneActivated
<1>. QED
  BY <1>1, <1>2, <1>3

(* Two campaigns never court the same contact at once: only the creation looks  *)
(* at the other candidates, and no later step makes a closed candidate active.  *)
THEOREM OneActive == Spec => []OneActivePerContact
<1>1. Init => OneActivePerContact
  BY DEF Init, OneActivePerContact, Active
<1>2. LifecycleInv /\ OneActivePerContact /\ [Next]_vars => OneActivePerContact'
  <2>. SUFFICES ASSUME LifecycleInv, OneActivePerContact, [Next]_vars
                PROVE  OneActivePerContact'
    OBVIOUS
  <2>1. ASSUME NEW k \in Candidates, CreateCandidate(k) PROVE OneActivePerContact'
    <3>1. /\ \A j \in Candidates \ {k} : ContactOf[j] = ContactOf[k] => kstatus[j] \notin Active
          /\ \E st : kstatus' = [kstatus EXCEPT ![k] = st]
      BY <2>1 DEF CreateCandidate
    <3>2. kstatus \in [Candidates -> Statuses]
      BY DEF LifecycleInv, TypeInv, TypeOK
    <3>. QED
      BY <3>1, <3>2 DEF OneActivePerContact
  <2>2. CASE NoneActivated
    BY <2>2 DEF OneActivePerContact, NoneActivated
  <2>3. ASSUME NEW w \in Workers, Run(w) \/ Crash(w), ~Claim(w), ~Finish(w)
        PROVE  kstatus' = kstatus
    BY <2>3 DEF Run, StartRun, CreateFollowUp, SkipFollowUp, Check, Smtp, Crash, rows
  <2>4. ASSUME Time \/ UNCHANGED vars PROVE kstatus' = kstatus
    BY <2>4 DEF Time, LeaseTimeout, RetryDelayOver, NewDay, vars, rows
  <2>5. CASE kstatus' = kstatus
    BY <2>5 DEF OneActivePerContact
  <2>. QED
    BY <2>1, <2>2, <2>3, <2>4, <2>5, MemberActivates, MailboxActivates, ClaimActivates,
       FinishActivates DEF Next
<1>. QED
  BY <1>1, <1>2, LifecycleInit, LifecycleNext, PTL DEF Spec

-----------------------------------------------------------------------------
(* Follow-ups.                                                               *)

LEMMA OnlyDrafting ==
  ASSUME LifecycleInv, [Next]_vars, NEW m \in Msgs, IsFollowUp(m),
         send[m] = "NONE", send'[m] # "NONE"
  PROVE  \E w \in Workers : CreateFollowUp(w, m[1])
<1>. USE DEF IsFollowUp, IsInitial, IsBooking
<1>0. TypeInv /\ TypeOK
  BY DEF LifecycleInv, TypeInv
<1>1. CASE Member
  BY <1>1, MemberMoves DEF MemberMove
<1>2. CASE Mailbox
  BY <1>0, <1>2, MailboxMoves DEF EditorialMove
<1>3. ASSUME NEW w \in Workers, Claim(w) PROVE FALSE
  <2>1. PICK leased \in SUBSET Msgs :
          /\ \A n \in leased : send[n] = "READY" /\ send'[n] = "SENDING"
          /\ \A n \in Msgs \ leased :
                \/ n \in Swept /\ send'[n] = "UNCERTAIN"
                \/ send'[n] = send[n]
                \/ send[n] \in {"DRAFT", "READY"} /\ send'[n] = "CANCELLED"
    BY <1>0, <1>3, ClaimMoves
  <2>. QED
    BY <2>1 DEF Swept
<1>4. ASSUME NEW w \in Workers, Finish(w) PROVE FALSE
  <2>1. CASE LeaseHeld(w, cur[w]) /\ Complete(cur[w], result[w])
    <3>1. cur[w] \in Msgs /\ result[w] \in Results /\ send[cur[w]] = "SENDING"
      BY <1>0, <1>4, <2>1, FinishCases DEF LeaseHeld
    <3>. QED
      BY <1>0, <2>1, <3>1, CompleteMoves
  <2>. QED
    BY <1>0, <1>4, <2>1, FinishCases
<1>5. ASSUME NEW w \in Workers, NEW k \in Candidates, CreateFollowUp(w, k) PROVE k = m[1]
  <2>1. PICK q \in {1, 2} : send' = [send EXCEPT ![<<k, q>>] = "DRAFT"]
    BY <1>5 DEF CreateFollowUp
  <2>2. send'[m] = send[m] \/ m = <<k, q>>
    BY <1>0, <2>1 DEF TypeOK
  <2>. QED
    BY <2>2
<1>6. ASSUME NEW w \in Workers, Run(w) \/ Crash(w), ~Claim(w), ~Finish(w),
             \A k \in Candidates : ~CreateFollowUp(w, k)
      PROVE  send' = send
  BY <1>6 DEF Run, StartRun, SkipFollowUp, Check, Smtp, Crash, messages
<1>7. ASSUME Time \/ UNCHANGED vars PROVE send' = send
  BY <1>7 DEF Time, LeaseTimeout, RetryDelayOver, NewDay, vars, messages
<1>. QED
  BY <1>1, <1>2, <1>3, <1>4, <1>5, <1>6, <1>7 DEF Next, Run

FollowUps(k) == {m \in Rows(k) : IsFollowUp(m)}

LEMMA RowsFinite ==
  ASSUME NEW k \in Candidates
  PROVE  /\ Rows(k) \subseteq Msgs /\ IsFiniteSet(Rows(k)) /\ Cardinality(Rows(k)) \in Nat
         /\ IsFiniteSet(FollowUps(k)) /\ Cardinality(FollowUps(k)) \in Nat
<1>1. Rows(k) \in SUBSET Msgs /\ FollowUps(k) \in SUBSET Msgs
  BY DEF Rows, FollowUps
<1>. QED
  BY <1>1, FiniteMsgs

LEMMA OneMore ==
  ASSUME NEW S, IsFiniteSet(S), NEW x
  PROVE  Cardinality(S \cup {x}) \in Nat /\ Cardinality(S \cup {x}) <= Cardinality(S) + 1
<1>1. Cardinality(S) \in Nat
  BY FS_CardinalityType
<1>2. IsFiniteSet(S \cup {x})
  BY FS_AddElement
<1>3. Cardinality(S \cup {x}) \in Nat
  BY <1>2, FS_CardinalityType
<1>4. CASE x \in S
  <2>1. S \cup {x} = S
    BY <1>4
  <2>2. Cardinality(S \cup {x}) = Cardinality(S)
    BY <2>1, Zenon
  <2>. QED
    BY <2>2, <1>1, <1>3
<1>5. CASE x \notin S
  <2>1. Cardinality(S \cup {x}) = Cardinality(S) + 1
    BY <1>5, FS_AddElement
  <2>. QED
    BY <2>1, <1>1, <1>3
<1>. QED
  BY <1>4, <1>5

LEMMA FollowUpsKept ==
  ASSUME LifecycleInv, FollowUpsBounded, [Next]_vars, NEW k \in Candidates
  PROVE  Cardinality(FollowUps(k)') <= MaxFollowups
<1>0. TypeOK /\ InitialFirst /\ MaxFollowups \in Nat
  BY OutreachAssumption DEF LifecycleInv, TypeInv
<1>1. Cardinality(FollowUps(k)) <= MaxFollowups
  BY DEF FollowUpsBounded, FollowUps
<1>2. \A m \in Msgs : send[m] # "NONE" => send'[m] # "NONE"
  <2>. SUFFICES ASSUME NEW m \in Msgs, send[m] # "NONE" PROVE send'[m] # "NONE"
    OBVIOUS
  <2>. QED
    BY NextMoves DEF Moves, EditorialMove, SendingMove
<1>3. CASE \E w \in Workers : CreateFollowUp(w, k)
  <2>1. PICK q \in {1, 2} : /\ send[<<k, q>>] = "NONE" /\ kstatus[k] = "SENT"
                            /\ send' = [send EXCEPT ![<<k, q>>] = "DRAFT"]
                            /\ Cardinality(Rows(k)) <= MaxFollowups
    BY <1>3 DEF CreateFollowUp, FollowUpsLeft, Followable
  <2>2. FollowUps(k)' = FollowUps(k) \cup {<<k, q>>}
    BY <1>0, <2>1 DEF FollowUps, Rows, IsFollowUp, Msgs, TypeOK
  <2>3. /\ Cardinality(FollowUps(k) \cup {<<k, q>>}) \in Nat
        /\ Cardinality(FollowUps(k) \cup {<<k, q>>}) <= Cardinality(FollowUps(k)) + 1
    BY RowsFinite, OneMore
  <2>4. Cardinality(FollowUps(k)') <= Cardinality(FollowUps(k)) + 1
    BY <2>2, <2>3
  <2>5. Initial(k) \in Rows(k)
    <3>1. send[Initial(k)] = "SENT"
      BY <2>1, StatusTells DEF LifecycleInv, TypeInv
    <3>. QED
      BY <3>1, MessageTypes, InitialFacts DEF Rows
  <2>6. FollowUps(k) \subseteq Rows(k) \ {Initial(k)}
    BY DEF FollowUps, IsFollowUp, Initial
  <2>7. /\ IsFiniteSet(Rows(k) \ {Initial(k)})
        /\ Cardinality(Rows(k) \ {Initial(k)}) = Cardinality(Rows(k)) - 1
    BY <2>5, RowsFinite, FS_RemoveElement
  <2>8. Cardinality(FollowUps(k)) <= Cardinality(Rows(k)) - 1
    BY <2>6, <2>7, FS_Subset
  <2>9. Cardinality(FollowUps(k)') \in Nat
    BY <2>2, <2>3
  <2>. QED
    BY <1>0, <2>1, <2>4, <2>8, <2>9, RowsFinite
<1>4. CASE ~\E w \in Workers : CreateFollowUp(w, k)
  <2>1. \A m \in Msgs : m[1] = k /\ IsFollowUp(m) => (send'[m] # "NONE" <=> send[m] # "NONE")
    BY <1>2, <1>4, OnlyDrafting
  <2>2. FollowUps(k)' = FollowUps(k)
    BY <2>1 DEF FollowUps, Rows
  <2>. QED
    BY <1>1, <2>2
<1>. QED
  BY <1>3, <1>4

(* A candidate never has more follow-ups than its campaign allows, although the *)
(* due list is read before the rows are written and the number is a count of    *)
(* them, and none before its initial message is SENT.                           *)
THEOREM FollowUpsKeptBounded == Spec => []FollowUpsBounded
<1>1. Init => FollowUpsBounded
  <2>. SUFFICES ASSUME Init, NEW k \in Candidates
                PROVE  LET drafted == {m \in Rows(k) : IsFollowUp(m)}
                       IN Cardinality(drafted) <= MaxFollowups /\ drafted = {}
    BY DEF FollowUpsBounded
  <2>1. {m \in Rows(k) : IsFollowUp(m)} = {}
    BY DEF Init, Rows
  <2>2. Cardinality({}) <= MaxFollowups
    BY FS_EmptySet, OutreachAssumption
  <2>. QED
    BY <2>1, <2>2
<1>2. LifecycleInv /\ FollowUpsBounded /\ [Next]_vars => FollowUpsBounded'
  <2>. SUFFICES ASSUME LifecycleInv, FollowUpsBounded, [Next]_vars, NEW k \in Candidates
                PROVE  /\ Cardinality(FollowUps(k)') <= MaxFollowups
                       /\ FollowUps(k)' # {} => send'[Initial(k)] = "SENT"
    BY DEF FollowUpsBounded, FollowUps
  <2>1. InitialFirst'
    BY LifecycleNext DEF LifecycleInv
  <2>2. FollowUps(k)' # {} => send'[Initial(k)] = "SENT"
    BY <2>1 DEF InitialFirst, FollowUps, Rows, IsFollowUp, IsInitial
  <2>. QED
    BY <2>2, FollowUpsKept
<1>. QED
  BY <1>1, <1>2, LifecycleInit, LifecycleNext, PTL DEF Spec

-----------------------------------------------------------------------------
(* Suppression and replies are final.                                        *)

LEMMA BarredStays ==
  ASSUME LifecycleInv, [Next]_vars, NEW m \in Msgs, Barred(m)
  PROVE  Barred(m)'
<1>. DEFINE Grows == suppressed \subseteq suppressed' /\
                     \A k \in Candidates : reply[k] # "NONE" => reply'[k] # "NONE"
<1>0. TypeOK /\ m[1] \in Candidates
  BY MessageTypes DEF LifecycleInv, TypeInv
<1>1. CASE Member
  <2>1. suppressed \subseteq suppressed' /\ UNCHANGED reply
    BY <1>1 DEF Member, CreateCandidate, SetOutcome, SuppressEmail, CreateBooking,
                Approve, Reject, Edit, SetBookingUrl, ListOrg, shared, rows
  <2>. QED
    BY <2>1 DEF Barred, MailTo
<1>2. CASE Mailbox
  <2>0. ASSUME NEW K, NEW human \in BOOLEAN, NEW from, NEW optOut,
               Inbound(K, human, from, optOut)
        PROVE  Grows
    BY <1>0, <2>0 DEF Inbound, TypeOK
  <2>1. ASSUME NEW n \in Answerable, RecordBounce(n) PROVE Grows
    BY <2>1 DEF RecordBounce
  <2>2. Grows
    BY <1>2, <2>0, <2>1 DEF Mailbox, RecordReply, RecordMail
  <2>. QED
    BY <1>0, <2>2 DEF Barred, MailTo
<1>3. ASSUME NEW w \in Workers, Finish(w) PROVE suppressed \subseteq suppressed' /\ UNCHANGED reply
  BY <1>3 DEF Finish, Complete
<1>4. ASSUME NEW w \in Workers, Run(w) \/ Crash(w), ~Finish(w)
      PROVE  UNCHANGED <<suppressed, reply>>
  BY <1>4 DEF Run, StartRun, CreateFollowUp, SkipFollowUp, Claim, Check, Smtp, Crash,
              rows, shared
<1>5. ASSUME Time \/ UNCHANGED vars PROVE UNCHANGED <<suppressed, reply>>
  BY <1>5 DEF Time, LeaseTimeout, RetryDelayOver, NewDay, vars, rows, shared
<1>6. CASE suppressed \subseteq suppressed' /\ UNCHANGED reply
  BY <1>6 DEF Barred, MailTo
<1>. QED
  BY <1>1, <1>2, <1>3, <1>4, <1>5, <1>6 DEF Next, Run

LEMMA BarredNotSent ==
  ASSUME LifecycleInv, [Next]_vars, NEW m \in Msgs, Barred(m), ~InSmtp(m)
  PROVE  ~InSmtp(m)' /\ accepted'[m] = accepted[m]
<1>0. TypeOK
  BY DEF LifecycleInv, TypeInv
<1>1. CASE Member \/ Time \/ UNCHANGED vars
  <2>1. UNCHANGED <<pc, cur, accepted>>
    BY <1>1 DEF Member, CreateCandidate, SetOutcome, SuppressEmail, CreateBooking,
                Approve, Reject, Edit, SetBookingUrl, ListOrg, Time, LeaseTimeout,
                RetryDelayOver, NewDay, vars, worker, outside
  <2>. QED
    BY <2>1 DEF InSmtp
<1>2. CASE Mailbox
  <2>0. ASSUME NEW K, NEW human, NEW from, NEW optOut, Inbound(K, human, from, optOut)
        PROVE  UNCHANGED <<pc, cur, accepted>>
    BY <2>0 DEF Inbound, worker
  <2>1. UNCHANGED <<pc, cur, accepted>>
    BY <1>2, <2>0 DEF Mailbox, RecordReply, RecordMail, RecordBounce, worker
  <2>. QED
    BY <2>1 DEF InSmtp
<1>3. ASSUME NEW w \in Workers, NEW n \in Msgs, Check(w, n)
      PROVE  ~InSmtp(m)' /\ accepted'[m] = accepted[m]
  <2>1. UNCHANGED accepted /\ cur' = [cur EXCEPT ![w] = n]
    BY <1>3 DEF Check, outside
  <2>2. \/ Permitted(w, n) /\ pc' = [pc EXCEPT ![w] = "smtp"]
        \/ pc' = [pc EXCEPT ![w] = "abort"]
    BY <1>3 DEF Check
  <2>3. ~Permitted(w, m)
    BY DEF Barred, Permitted, IsFollowUp, IsBooking
  <2>. QED
    BY <1>0, <2>1, <2>2, <2>3 DEF InSmtp, TypeOK
<1>4. ASSUME NEW w \in Workers, Smtp(w)
      PROVE  ~InSmtp(m)' /\ accepted'[m] = accepted[m]
  <2>1. /\ pc[w] = "smtp" /\ pc' = [pc EXCEPT ![w] = "report"] /\ UNCHANGED cur
        /\ \E copy : accepted' = [accepted EXCEPT ![cur[w]] = @ + copy]
    BY <1>4 DEF Smtp
  <2>2. cur[w] # m
    BY <2>1 DEF InSmtp
  <2>. QED
    BY <1>0, <2>1, <2>2 DEF InSmtp, TypeOK
<1>5. ASSUME NEW w \in Workers, Run(w) \/ Crash(w), ~Smtp(w), \A n \in Msgs : ~Check(w, n)
      PROVE  ~InSmtp(m)' /\ accepted'[m] = accepted[m]
  <2>1. UNCHANGED accepted
    BY <1>5 DEF Run, StartRun, CreateFollowUp, SkipFollowUp, Claim, Finish, Crash, outside
  <2>2. /\ \/ pc' = pc
           \/ \E p \in {"idle", "draft", "loop"} : pc' = [pc EXCEPT ![w] = p]
        /\ \/ cur' = cur
           \/ cur' = [cur EXCEPT ![w] = NULL]
    <3>1. CASE StartRun(w) \/ (\E k \in Candidates : CreateFollowUp(w, k) \/ SkipFollowUp(w, k))
      BY <3>1 DEF StartRun, CreateFollowUp, SkipFollowUp
    <3>2. CASE Claim(w)
      <4>1. UNCHANGED cur
        BY <3>2 DEF Claim
      <4>2. \E leased : pc' = [pc EXCEPT ![w] = IF leased = {} THEN "idle" ELSE "loop"]
        BY <3>2 DEF Claim, ClaimBatch
      <4>. QED
        BY <4>1, <4>2
    <3>3. CASE Finish(w)
      BY <3>3, FinishCases DEF LifecycleInv
    <3>4. CASE Crash(w)
      BY <3>4 DEF Crash
    <3>. QED
      BY <1>5, <3>1, <3>2, <3>3, <3>4 DEF Run
  <2>. QED
    BY <1>0, <2>1, <2>2, OutreachAssumption DEF InSmtp, TypeOK
<1>. QED
  BY <1>1, <1>2, <1>3, <1>4, <1>5 DEF Next

(* Once an address is suppressed, or somebody answered, the message concerned   *)
(* is never handed to SMTP again, unless a worker had passed the last check.    *)
THEOREM BarredNeverSent == Spec => BarredIsFinal
<1>1. LifecycleInv /\ [Next]_vars =>
        [\A m \in Msgs : Barred(m) /\ ~InSmtp(m) =>
           /\ Barred(m)'
           /\ ~InSmtp(m)'
           /\ accepted'[m] = accepted[m]]_vars
  BY BarredStays, BarredNotSent
<1>. QED
  BY <1>1, LifecycleInit, LifecycleNext, PTL DEF Spec, BarredIsFinal

-----------------------------------------------------------------------------
(* Approved texts.                                                           *)

ApprovedLeftDraft ==
  \A m \in Msgs : review[m] = "APPROVED" => send[m] \notin {"NONE", "DRAFT"}

(* Who writes a review or a booking link.                                      *)
LEMMA ReviewMoves ==
  ASSUME LifecycleInv, ApprovedLeftDraft, [Next]_vars, NEW m \in Msgs
  PROVE  /\ review[m] = "APPROVED" =>
              review'[m] = "APPROVED" /\ (IsBooking(m) => link'[m[1]] = link[m[1]])
         /\ review'[m] = "APPROVED" /\ review[m] # "APPROVED" => send'[m] = "READY"
<1>. USE MessageTypes, InitialFacts
<1>0. TypeOK
  BY DEF LifecycleInv, TypeInv
<1>1. ASSUME NEW n \in Msgs, Approve(n)
      PROVE  /\ UNCHANGED link /\ (review[m] = "APPROVED" => review'[m] = "APPROVED")
             /\ review'[m] = "APPROVED" /\ review[m] # "APPROVED" => send'[m] = "READY"
  BY <1>0, <1>1 DEF Approve, TypeOK
<1>2. ASSUME NEW n \in Msgs, Reject(n)
      PROVE  /\ UNCHANGED link /\ (review[m] = "APPROVED" => review'[m] = "APPROVED")
             /\ review'[m] = "APPROVED" => review[m] = "APPROVED"
  BY <1>0, <1>2 DEF Reject, Reviewable, TypeOK
<1>3. ASSUME NEW n \in Msgs, Edit(n)
      PROVE  /\ UNCHANGED review
             /\ review[m] = "APPROVED" /\ IsBooking(m) => link'[m[1]] = link[m[1]]
  <2>1. /\ review[n] = "PENDING" /\ IsBooking(n) /\ UNCHANGED review
        /\ link' = [link EXCEPT ![n[1]] = bookingUrl[CampaignOf[n[1]]]]
    BY <1>3 DEF Edit, Reviewable
  <2>2. IsBooking(m) /\ m[1] = n[1] => m = n
    BY <2>1 DEF IsBooking, Msgs
  <2>. QED
    BY <1>0, <2>1, <2>2 DEF TypeOK
<1>4. ASSUME NEW k \in Candidates, CreateBooking(k)
      PROVE  /\ review'[m] = "APPROVED" => review[m] = "APPROVED"
             /\ review[m] = "APPROVED" =>
                  review'[m] = "APPROVED" /\ (IsBooking(m) => link'[m[1]] = link[m[1]])
  <2>1. /\ review' = [review EXCEPT ![Booking(k)] = "PENDING"]
        /\ link' = [link EXCEPT ![k] = bookingUrl[CampaignOf[k]]]
        /\ Writable(Booking(k))
    BY <1>4 DEF CreateBooking
  <2>2. review[Booking(k)] # "APPROVED"
    BY <2>1 DEF Writable, ApprovedLeftDraft
  <2>3. IsBooking(m) /\ m[1] = k => m = Booking(k)
    BY DEF IsBooking, Booking, Msgs
  <2>. QED
    BY <1>0, <2>1, <2>2, <2>3 DEF TypeOK
<1>5. ASSUME Member, \A n \in Msgs : ~Approve(n) /\ ~Reject(n) /\ ~Edit(n),
             \A k \in Candidates : ~CreateBooking(k)
      PROVE  UNCHANGED <<review, link>>
  BY <1>5 DEF Member, CreateCandidate, SetOutcome, SuppressEmail, SetBookingUrl, ListOrg, messages
<1>6. ASSUME NEW w \in Workers, Run(w) PROVE UNCHANGED <<review, link>>
  BY <1>6 DEF Run, StartRun, CreateFollowUp, SkipFollowUp, Claim, Check, Smtp, Finish, messages
<1>7. CASE Mailbox
  <2>1. ASSUME NEW K, NEW human, NEW from, NEW optOut, Inbound(K, human, from, optOut)
        PROVE  UNCHANGED <<review, link>>
    BY <2>1 DEF Inbound
  <2>2. ASSUME NEW n, RecordBounce(n) PROVE UNCHANGED <<review, link>>
    BY <2>2 DEF RecordBounce, messages
  <2>3. UNCHANGED <<review, link>>
    BY <1>7, <2>1, <2>2 DEF Mailbox, RecordReply, RecordMail
  <2>. QED
    BY <2>3
<1>8. ASSUME (\E w \in Workers : Crash(w)) \/ Time \/ UNCHANGED vars
      PROVE  UNCHANGED <<review, link>>
  BY <1>8 DEF Crash, Time, LeaseTimeout, RetryDelayOver, NewDay, vars, messages
<1>. QED
  BY <1>1, <1>2, <1>3, <1>4, <1>5, <1>6, <1>7, <1>8 DEF Next

LEMMA ApprovedStays ==
  ASSUME LifecycleInv, ApprovedLeftDraft, [Next]_vars, NEW m \in Msgs, review[m] = "APPROVED"
  PROVE  send'[m] \notin {"NONE", "DRAFT"}
BY NextMoves DEF Moves, EditorialMove, SendingMove, ApprovedLeftDraft

LEMMA ApprovedKept ==
  ASSUME LifecycleInv, ApprovedLeftDraft, [Next]_vars
  PROVE  ApprovedLeftDraft'
BY ApprovedStays, ReviewMoves DEF ApprovedLeftDraft

(* An approved text is never changed, reviewed again or re-opened as a draft:   *)
(* an approved message has left DRAFT for good, since only a cancelled booking  *)
(* that nobody approved is written again.                                       *)
THEOREM ApprovedStaysLocked == Spec => ApprovedIsLocked
<1>1. Init => ApprovedLeftDraft
  BY DEF Init, ApprovedLeftDraft
<1>2. LifecycleInv /\ ApprovedLeftDraft /\ [Next]_vars =>
        [\A m \in Msgs : review[m] = "APPROVED" =>
           /\ review'[m] = "APPROVED"
           /\ send'[m] # "DRAFT"
           /\ IsBooking(m) => link'[m[1]] = link[m[1]]]_vars
  BY ReviewMoves, ApprovedStays
<1>. QED
  BY <1>1, <1>2, LifecycleInit, LifecycleNext, ApprovedKept, PTL DEF Spec, ApprovedIsLocked

-----------------------------------------------------------------------------
(* A message leads the life of Delivery.                                     *)

(* A message that left DRAFT for its sending was approved, and only it.        *)
ReadyIsApproved ==
  \A m \in Msgs : send[m] \in {"READY", "SENDING", "SENT", "FAILED", "UNCERTAIN"}
                    => review[m] = "APPROVED"

(* Nothing leaves without a person.                                            *)
TakenWereApproved == \A m \in Msgs : accepted[m] > 0 => review[m] = "APPROVED"

(* What a worker holds of which the server has no copy of this attempt.        *)
Untaken(w, m) ==
  \/ m \in todo[w]
  \/ m = cur[w] /\ pc[w] \in {"smtp", "abort"}
  \/ m = cur[w] /\ pc[w] = "report" /\ result[w] \notin {"SENT", "UNCERTAIN", "RETRY"}

(* No more copies of a message than attempts, the one under way included, and  *)
(* an attempt is left to whatever is not closed as FAILED.                     *)
CopiesCounted ==
  \A m \in Msgs :
    /\ accepted[m] <= attempts[m] + 1
    /\ send[m] \notin Holding => accepted[m] <= attempts[m]
    /\ \A w \in Workers : Untaken(w, m) => accepted[m] <= attempts[m]
    /\ send[m] # "FAILED" => attempts[m] < MaxAttempts

DeliveryInv ==
  SendingInv /\ ApprovedLeftDraft /\ ReadyIsApproved /\ TakenWereApproved /\ CopiesCounted

(* Only an approval makes a draft ready.                                       *)
LEMMA OnlyApprovalReadies ==
  ASSUME LifecycleInv, [Next]_vars, NEW m \in Msgs, send[m] = "DRAFT", send'[m] = "READY"
  PROVE  Approve(m)
<1>0. TypeOK /\ TypeInv /\ send \in [Msgs -> SendStates] /\ kstatus \in [Candidates -> Statuses]
  BY DEF LifecycleInv, TypeInv, TypeOK
<1>1. CASE Member
  <2>1. ASSUME NEW k \in Candidates, CreateCandidate(k) \/ CreateBooking(k) PROVE FALSE
    BY <1>0, <2>1 DEF CreateCandidate, CreateBooking
  <2>2. ASSUME NEW n \in Msgs, Approve(n) PROVE n = m
    BY <1>0, <2>2 DEF Approve
  <2>3. ASSUME NEW n \in Msgs, Reject(n) \/ Edit(n) PROVE FALSE
    BY <1>0, <2>3 DEF Reject, Edit
  <2>4. ASSUME NEW k \in Candidates, NEW o \in OutcomeInputs, SetOutcome(k, o) PROVE FALSE
    BY <1>0, <2>4, OutcomeMoves
  <2>5. ASSUME NEW e \in Emails, SuppressEmail(e) PROVE FALSE
    BY <1>0, <2>5, StopKeeps DEF SuppressEmail
  <2>6. ASSUME \/ \E c \in Campaigns, l \in Links \cup {NULL} : SetBookingUrl(c, l)
               \/ \E o \in OperatorOrgs : ListOrg(o)
        PROVE  FALSE
    BY <2>6 DEF SetBookingUrl, ListOrg, messages
  <2>. QED
    BY <1>1, <2>1, <2>2, <2>3, <2>4, <2>5, <2>6 DEF Member
<1>2. ASSUME NEW w \in Workers, Run(w) PROVE FALSE
  <2>1. ASSUME NEW k \in Candidates, CreateFollowUp(w, k) PROVE FALSE
    BY <1>0, <2>1 DEF CreateFollowUp
  <2>2. ASSUME Claim(w) PROVE FALSE
    BY <1>0, <2>2, ClaimMoves
  <2>3. ASSUME Finish(w) PROVE FALSE
    BY <1>0, <2>3, FinishCases, CompleteMoves DEF LeaseHeld
  <2>4. CASE StartRun(w) \/ (\E k \in Candidates : SkipFollowUp(w, k)) \/ (\E n \in Msgs : Check(w, n)) \/ Smtp(w)
    BY <2>4 DEF StartRun, SkipFollowUp, Check, Smtp, messages
  <2>. QED
    BY <1>2, <2>1, <2>2, <2>3, <2>4 DEF Run
<1>3. CASE Mailbox
  BY <1>0, <1>3, MailboxMoves
<1>4. ASSUME (\E w \in Workers : Crash(w)) \/ Time \/ UNCHANGED vars PROVE FALSE
  BY <1>4 DEF Crash, Time, LeaseTimeout, RetryDelayOver, NewDay, vars, messages
<1>. QED
  BY <1>1, <1>2, <1>3, <1>4 DEF Next

(* Only the claim makes a ready message leave, and never to a suppressed       *)
(* address.                                                                    *)
LEMMA OnlyWantedLeave ==
  ASSUME LifecycleInv, [Next]_vars, NEW m \in Msgs, send[m] = "READY", send'[m] = "SENDING"
  PROVE  MailTo(m[1]) \notin suppressed
<1>0. TypeOK /\ TypeInv
  BY DEF LifecycleInv, TypeInv
<1>1. CASE Member
  BY <1>1, MemberMoves DEF MemberMove, EditorialMove
<1>2. ASSUME NEW w \in Workers, Claim(w) PROVE MailTo(m[1]) \notin suppressed
  <2>1. PICK batch \in SUBSET Claimable :
          \E taken \in SUBSET Capped(batch) : ClaimBatch(w, batch, taken)
    BY <1>2 DEF Claim
  <2>2. PICK taken \in SUBSET Capped(batch) : ClaimBatch(w, batch, taken)
    BY <2>1
  <2>. DEFINE E == {MailTo(n[1]) : n \in BarredOf(batch)}
              leased == taken \cup (Fresh(batch) \ Capped(batch))
  <2>3. send'[m] = IF m \in Swept THEN "UNCERTAIN"
                   ELSE IF m \in leased THEN "SENDING"
                   ELSE IF m \in StaleOf(batch) THEN "CANCELLED"
                   ELSE StopMessages(send, E)[m]
    BY <2>2 DEF ClaimBatch
  <2>4. StopMessages(send, E)[m] \in {"READY", "CANCELLED"}
    BY DEF StopMessages
  <2>5. m \in leased
    BY <2>3, <2>4
  <2>6. m \in Fresh(batch)
    BY <2>5 DEF Capped
  <2>. QED
    BY <2>6 DEF Fresh, BarredOf
<1>3. ASSUME NEW w \in Workers, Run(w), ~Claim(w) PROVE FALSE
  <2>1. ASSUME NEW k \in Candidates, CreateFollowUp(w, k) PROVE FALSE
    BY <1>0, <2>1 DEF CreateFollowUp, TypeOK
  <2>2. ASSUME Finish(w) PROVE FALSE
    BY <1>0, <2>2, FinishCases, CompleteMoves DEF LeaseHeld
  <2>3. CASE StartRun(w) \/ (\E k \in Candidates : SkipFollowUp(w, k)) \/ (\E n \in Msgs : Check(w, n)) \/ Smtp(w)
    BY <2>3 DEF StartRun, SkipFollowUp, Check, Smtp, messages
  <2>. QED
    BY <1>3, <2>1, <2>2, <2>3 DEF Run
<1>4. CASE Mailbox
  BY <1>0, <1>4, MailboxMoves DEF EditorialMove
<1>5. ASSUME (\E w \in Workers : Crash(w)) \/ Time \/ UNCHANGED vars PROVE FALSE
  BY <1>5 DEF Crash, Time, LeaseTimeout, RetryDelayOver, NewDay, vars, messages
<1>. QED
  BY <1>1, <1>2, <1>3, <1>4, <1>5 DEF Next

(* A suppressed address stays so.                                              *)
LEMMA RefusedStays ==
  ASSUME LifecycleInv, [Next]_vars
  PROVE  suppressed \subseteq suppressed'
<1>1. CASE Member
  BY <1>1 DEF Member, CreateCandidate, SetOutcome, SuppressEmail, CreateBooking,
              Approve, Reject, Edit, SetBookingUrl, ListOrg, shared
<1>2. CASE Mailbox
  <2>1. ASSUME NEW K, NEW human, NEW from, NEW optOut, Inbound(K, human, from, optOut)
        PROVE  suppressed \subseteq suppressed'
    BY <2>1 DEF Inbound
  <2>2. ASSUME NEW n \in Answerable, RecordBounce(n) PROVE suppressed \subseteq suppressed'
    BY <2>2 DEF RecordBounce
  <2>. QED
    BY <1>2, <2>1, <2>2 DEF Mailbox, RecordReply, RecordMail
<1>3. ASSUME NEW w \in Workers, Finish(w) PROVE suppressed \subseteq suppressed'
  BY <1>3 DEF Finish, Complete
<1>4. ASSUME NEW w \in Workers, Run(w) \/ Crash(w), ~Finish(w) PROVE UNCHANGED suppressed
  BY <1>4 DEF Run, StartRun, CreateFollowUp, SkipFollowUp, Claim, Check, Smtp, Crash, shared
<1>5. ASSUME Time \/ UNCHANGED vars PROVE UNCHANGED suppressed
  BY <1>5 DEF Time, LeaseTimeout, RetryDelayOver, NewDay, vars, shared
<1>. QED
  BY <1>1, <1>2, <1>3, <1>4, <1>5 DEF Next, Run

(* A text changes only while it is a draft, or becoming one.                   *)
LEMMA OnlyDraftsWritten ==
  ASSUME LifecycleInv, ApprovedLeftDraft, [Next]_vars, NEW m \in Msgs, IsBooking(m),
         link'[m[1]] # link[m[1]]
  PROVE  send[m] \in {"NONE", "CANCELLED", "DRAFT"} /\ send'[m] = "DRAFT"
<1>. USE MessageTypes, InitialFacts
<1>0. TypeOK
  BY DEF LifecycleInv, TypeInv
<1>1. ASSUME NEW n \in Msgs, Edit(n)
      PROVE  send[m] = "DRAFT" /\ send'[m] = "DRAFT"
  <2>1. /\ send[n] = "DRAFT" /\ IsBooking(n) /\ UNCHANGED send
        /\ link' = [link EXCEPT ![n[1]] = bookingUrl[CampaignOf[n[1]]]]
    BY <1>1 DEF Edit, Reviewable
  <2>2. m[1] = n[1]
    BY <1>0, <2>1 DEF TypeOK
  <2>3. m = n
    BY <2>1, <2>2 DEF IsBooking, Msgs
  <2>. QED
    BY <2>1, <2>3
<1>2. ASSUME NEW k \in Candidates, CreateBooking(k)
      PROVE  send[m] \in {"NONE", "CANCELLED"} /\ send'[m] = "DRAFT"
  <2>1. /\ link' = [link EXCEPT ![k] = bookingUrl[CampaignOf[k]]]
        /\ Writable(Booking(k)) /\ send' = [send EXCEPT ![Booking(k)] = "DRAFT"]
    BY <1>2 DEF CreateBooking
  <2>2. m[1] = k
    BY <1>0, <2>1 DEF TypeOK
  <2>3. m = Booking(k)
    BY <2>2 DEF IsBooking, Booking, Msgs
  <2>. QED
    BY <1>0, <2>1, <2>3 DEF Writable, TypeOK
<1>3. ASSUME Member, \A n \in Msgs : ~Edit(n), \A k \in Candidates : ~CreateBooking(k)
      PROVE  UNCHANGED link
  BY <1>3 DEF Member, CreateCandidate, SetOutcome, SuppressEmail, SetBookingUrl, ListOrg,
              Approve, Reject, messages
<1>4. ASSUME NEW w \in Workers, Run(w) \/ Crash(w) PROVE UNCHANGED link
  BY <1>4 DEF Run, StartRun, CreateFollowUp, SkipFollowUp, Claim, Check, Smtp, Finish, Crash, messages
<1>5. CASE Mailbox
  <2>1. ASSUME NEW K, NEW human, NEW from, NEW optOut, Inbound(K, human, from, optOut)
        PROVE  UNCHANGED link
    BY <2>1 DEF Inbound
  <2>2. ASSUME NEW n, RecordBounce(n) PROVE UNCHANGED link
    BY <2>2 DEF RecordBounce
  <2>3. UNCHANGED link
    BY <1>5, <2>1, <2>2 DEF Mailbox, RecordReply, RecordMail
  <2>. QED
    BY <2>3
<1>6. ASSUME Time \/ UNCHANGED vars PROVE UNCHANGED link
  BY <1>6 DEF Time, LeaseTimeout, RetryDelayOver, NewDay, vars, messages
<1>. QED
  BY <1>1, <1>2, <1>3, <1>4, <1>5, <1>6 DEF Next

(* The server takes a message only while it is being sent, or since its lease  *)
(* ran out; nothing else of it moves then, and it takes one copy.              *)
LEMMA OnlySendingTaken ==
  ASSUME SendingInv, [Next]_vars, NEW m \in Msgs,
         accepted'[m] # accepted[m] \/ unheard'[m] # unheard[m]
  PROVE  /\ send[m] \in {"SENDING", "UNCERTAIN"}
         /\ accepted[m] = unheard[m] /\ accepted'[m] = accepted[m] + 1
         /\ unheard'[m] \in {unheard[m], unheard[m] + 1}
         /\ \E w \in Workers : Untaken(w, m)
         /\ UNCHANGED <<send, review, link, attempts>>
<1>0. LifecycleInv /\ TypeInv /\ TypeOK /\ ClaimsApart /\ KnownCopies
  BY DEF SendingInv, LifecycleInv, TypeInv
<1>1. ASSUME \/ Member \/ Mailbox \/ Time \/ UNCHANGED vars
             \/ \E w \in Workers : \/ StartRun(w)
                                   \/ \E k \in Candidates : CreateFollowUp(w, k)
                                   \/ \E k \in Candidates : SkipFollowUp(w, k)
      PROVE  FALSE
  BY <1>0, <1>1, QuietSteps DEF QuietStep
<1>2. ASSUME NEW w \in Workers, Crash(w) \/ Claim(w) \/ (\E n \in Msgs : Check(w, n)) \/ Finish(w)
      PROVE  FALSE
  BY <1>2 DEF Crash, Claim, Check, Finish, outside
<1>3. ASSUME NEW w \in Workers, Smtp(w)
      PROVE  /\ send[m] \in {"SENDING", "UNCERTAIN"}
             /\ accepted[m] = unheard[m] /\ accepted'[m] = accepted[m] + 1
             /\ unheard'[m] \in {unheard[m], unheard[m] + 1}
             /\ Untaken(w, m)
             /\ UNCHANGED <<send, review, link, attempts>>
  <2>1. PICK copy \in {0, 1}, lost \in {0, 1} :
          /\ accepted' = [accepted EXCEPT ![cur[w]] = @ + copy]
          /\ unheard' = [unheard EXCEPT ![cur[w]] = @ + lost]
          /\ lost <= copy
    BY <1>0, <1>3, SmtpCopies
  <2>2. pc[w] = "smtp" /\ UNCHANGED <<send, review, link, attempts>>
    BY <1>3 DEF Smtp, messages
  <2>3. /\ cur[w] \in Msgs /\ accepted[cur[w]] = unheard[cur[w]]
        /\ send[cur[w]] \in {"SENDING", "UNCERTAIN"}
    BY <1>0, <2>2 DEF TypeInv, TypeOK, InHand, KnownCopies, ClaimsApart, InClaim
  <2>4. m = cur[w]
    BY <1>0, <2>1 DEF TypeOK
  <2>5. /\ accepted[m] \in Nat /\ unheard[m] \in Nat
        /\ accepted'[m] = accepted[m] + copy /\ unheard'[m] = unheard[m] + lost
    BY <1>0, <2>1, <2>4 DEF TypeOK
  <2>6. copy = 1
    BY <2>1, <2>5
  <2>. QED
    BY <2>2, <2>3, <2>4, <2>5, <2>6 DEF Untaken
<1>. QED
  BY <1>1, <1>2, <1>3 DEF Next, Run

(* An attempt counts when the send it began is given back or fails, and only a *)
(* booking that nobody approved starts again.                                  *)
LEMMA AttemptsMove ==
  ASSUME LifecycleInv, [Next]_vars, NEW m \in Msgs
  PROVE  \/ attempts'[m] = attempts[m]
         \/ /\ send[m] = "SENDING" /\ send'[m] \in {"READY", "FAILED"}
            /\ attempts'[m] = attempts[m] + 1
         \/ /\ attempts'[m] = 0 /\ send'[m] = "DRAFT"
            /\ send[m] = "NONE" \/ (send[m] = "CANCELLED" /\ review[m] # "APPROVED")
<1>0. TypeInv /\ TypeOK
  BY DEF LifecycleInv, TypeInv
<1>1. ASSUME NEW k \in Candidates, CreateBooking(k)
      PROVE  \/ attempts'[m] = attempts[m]
             \/ /\ attempts'[m] = 0 /\ send'[m] = "DRAFT"
                /\ send[m] = "NONE" \/ (send[m] = "CANCELLED" /\ review[m] # "APPROVED")
  <2>1. /\ Writable(Booking(k)) /\ send' = [send EXCEPT ![Booking(k)] = "DRAFT"]
        /\ attempts' = [attempts EXCEPT ![Booking(k)] = 0]
    BY <1>1 DEF CreateBooking
  <2>. QED
    BY <1>0, <2>1 DEF Writable, TypeOK
<1>2. ASSUME Member, \A k \in Candidates : ~CreateBooking(k)
      PROVE  UNCHANGED attempts
  BY <1>2 DEF Member, CreateCandidate, SetOutcome, SuppressEmail, Approve, Reject, Edit,
              SetBookingUrl, ListOrg, messages
<1>3. CASE Mailbox
  <2>1. ASSUME NEW K, NEW human, NEW from, NEW optOut, Inbound(K, human, from, optOut)
        PROVE  UNCHANGED attempts
    BY <2>1 DEF Inbound
  <2>2. ASSUME NEW n, RecordBounce(n) PROVE UNCHANGED attempts
    BY <2>2 DEF RecordBounce
  <2>3. UNCHANGED attempts
    BY <1>3, <2>1, <2>2 DEF Mailbox, RecordReply, RecordMail
  <2>. QED
    BY <2>3
<1>4. ASSUME NEW w \in Workers, Finish(w)
      PROVE  \/ attempts'[m] = attempts[m]
             \/ /\ send[m] = "SENDING" /\ send'[m] \in {"READY", "FAILED"}
                /\ attempts'[m] = attempts[m] + 1
  <2>. DEFINE n == cur[w]
              r == result[w]
  <2>1. /\ n \in Msgs /\ r \in Results
        /\ (LeaseHeld(w, n) /\ Complete(n, r)) \/ UNCHANGED attempts
    BY <1>0, <1>4, FinishCases
  <2>2. CASE LeaseHeld(w, n) /\ Complete(n, r)
    <3>1. attempts' = [attempts EXCEPT ![n] = AttemptsAfter(n, r)] /\ send[n] = "SENDING"
      BY <2>2 DEF Complete, LeaseHeld
    <3>2. send'[n] = SendAfter(n, r)
      <4>. HIDE DEF n, r
      <4>. QED
        BY <1>0, <2>1, <2>2, <3>1, CompleteMoves
    <3>3. AttemptsAfter(n, r) \in {attempts[n], attempts[n] + 1}
      BY DEF AttemptsAfter
    <3>4. AttemptsAfter(n, r) # attempts[n] => SendAfter(n, r) \in {"READY", "FAILED"}
      BY DEF AttemptsAfter, Retried, SendAfter
    <3>5. CASE m = n
      BY <1>0, <2>1, <3>1, <3>2, <3>3, <3>4, <3>5 DEF TypeOK
    <3>6. CASE m # n
      BY <1>0, <3>1, <3>6 DEF TypeOK
    <3>. QED
      BY <3>5, <3>6
  <2>. QED
    BY <2>1, <2>2
<1>5. ASSUME NEW w \in Workers, Run(w) \/ Crash(w), ~Finish(w) PROVE UNCHANGED attempts
  BY <1>5 DEF Run, StartRun, CreateFollowUp, SkipFollowUp, Claim, Check, Smtp, Crash, messages
<1>6. ASSUME Time \/ UNCHANGED vars PROVE UNCHANGED attempts
  BY <1>6 DEF Time, LeaseTimeout, RetryDelayOver, NewDay, vars, messages
<1>. QED
  BY <1>1, <1>2, <1>3, <1>4, <1>5, <1>6 DEF Next, Run

(* A message is new in a worker's hands only by a claim, which takes what is   *)
(* ready.                                                                      *)
LEMMA UntakenMoves ==
  ASSUME SendingInv, [Next]_vars, NEW m \in Msgs, NEW v \in Workers, Untaken(v, m)'
  PROVE  \/ send[m] = "READY"
         \/ Untaken(v, m) /\ accepted'[m] = accepted[m]
<1>0. LifecycleInv /\ TypeInv /\ TypeOK /\ ClaimsApart
  BY DEF SendingInv, LifecycleInv, TypeInv
<1>1. CASE QuietStep
  BY <1>0, <1>1, OutreachAssumption DEF QuietStep, Untaken, TypeInv, InHand
<1>2. ASSUME NEW w \in Workers, Crash(w)
      PROVE  Untaken(v, m) /\ accepted'[m] = accepted[m]
  <2>1. /\ pc' = [pc EXCEPT ![w] = "idle"] /\ todo' = [todo EXCEPT ![w] = {}]
        /\ cur' = [cur EXCEPT ![w] = NULL] /\ result' = [result EXCEPT ![w] = NULL] /\ UNCHANGED accepted
    BY <1>2 DEF Crash, outside
  <2>. QED
    BY <1>0, <2>1, OutreachAssumption DEF Untaken, TypeOK
<1>3. ASSUME NEW w \in Workers, Claim(w)
      PROVE  \/ send[m] = "READY"
             \/ Untaken(v, m) /\ accepted'[m] = accepted[m]
  <2>1. PICK leased \in SUBSET Msgs :
          /\ \A n \in leased : send[n] = "READY"
          /\ todo' = [todo EXCEPT ![w] = leased]
          /\ pc' = [pc EXCEPT ![w] = IF leased = {} THEN "idle" ELSE "loop"]
    BY <1>0, <1>3, ClaimMoves
  <2>2. UNCHANGED <<cur, result, accepted>>
    BY <1>3 DEF Claim, outside
  <2>. QED
    BY <1>0, <2>1, <2>2 DEF Untaken, TypeOK
<1>4. ASSUME NEW w \in Workers, NEW n \in Msgs, Check(w, n)
      PROVE  Untaken(v, m) /\ accepted'[m] = accepted[m]
  <2>1. /\ n \in todo[w] /\ todo' = [todo EXCEPT ![w] = @ \ {n}]
        /\ cur' = [cur EXCEPT ![w] = n] /\ UNCHANGED accepted
        /\ \E p \in {"smtp", "abort"} : pc' = [pc EXCEPT ![w] = p]
        /\ result' = result \/ result' = [result EXCEPT ![w] = "ABORTED"]
    BY <1>4 DEF Check, outside
  <2>. QED
    BY <1>0, <2>1 DEF Untaken, TypeOK
<1>5. ASSUME NEW w \in Workers, Smtp(w)
      PROVE  Untaken(v, m) /\ accepted'[m] = accepted[m]
  <2>1. PICK r \in Results, copy \in {0, 1} :
          /\ r \notin {"SENT", "UNCERTAIN", "RETRY"} => copy = 0
          /\ result' = [result EXCEPT ![w] = r]
          /\ accepted' = [accepted EXCEPT ![cur[w]] = @ + copy]
    <3>1. \E r \in Results, copy \in {0, 1}, lost \in {0, 1} :
            /\ r \notin {"SENT", "UNCERTAIN", "RETRY"} => copy = 0
            /\ result' = [result EXCEPT ![w] = r]
            /\ accepted' = [accepted EXCEPT ![cur[w]] = @ + copy]
      BY <1>0, <1>5, SmtpCopies
    <3>. QED
      BY <3>1
  <2>2. pc[w] = "smtp" /\ pc' = [pc EXCEPT ![w] = "report"] /\ UNCHANGED <<todo, cur>>
    BY <1>5 DEF Smtp
  <2>3. cur[w] \in Msgs
    BY <1>0, <2>2 DEF TypeInv, TypeOK, InHand
  <2>4. CASE m # cur[w]
    <3>1. accepted'[m] = accepted[m]
      BY <1>0, <2>1, <2>4 DEF TypeOK
    <3>2. v # w => pc'[v] = pc[v] /\ result'[v] = result[v]
      BY <1>0, <2>1, <2>2 DEF TypeOK
    <3>. QED
      BY <2>2, <2>4, <3>1, <3>2 DEF Untaken
  <2>5. CASE m = cur[w]
    <3>1. InClaim(v, m) /\ InClaim(w, m)
      BY <2>2, <2>5 DEF Untaken, InClaim
    <3>2. v = w /\ m \notin todo[w]
      BY <1>0, <2>3, <2>5, <3>1 DEF ClaimsApart
    <3>3. copy = 0
      BY <1>0, <2>1, <2>2, <3>2 DEF Untaken, TypeOK
    <3>4. accepted'[m] = accepted[m]
      BY <1>0, <2>1, <2>5, <3>3 DEF TypeOK
    <3>. QED
      BY <2>2, <2>5, <3>2, <3>4 DEF Untaken
  <2>. QED
    BY <2>4, <2>5
<1>6. ASSUME NEW w \in Workers, Finish(w)
      PROVE  Untaken(v, m) /\ accepted'[m] = accepted[m]
  <2>1. /\ cur' = [cur EXCEPT ![w] = NULL] /\ result' = [result EXCEPT ![w] = NULL]
        /\ todo' = todo \/ todo' = [todo EXCEPT ![w] = {}]
        /\ \E p \in {"idle", "loop"} : pc' = [pc EXCEPT ![w] = p]
        /\ UNCHANGED accepted
    BY <1>0, <1>6, FinishCases
  <2>. QED
    BY <1>0, <2>1, OutreachAssumption DEF Untaken, TypeOK
<1>. QED
  BY <1>0, <1>1, <1>2, <1>3, <1>4, <1>5, <1>6, QuietSteps DEF Next, Run

(* Only a completion gives a message that is being sent back, or fails it.     *)
LEMMA OnlyFinishReturns ==
  ASSUME LifecycleInv, [Next]_vars, NEW m \in Msgs,
         send[m] = "SENDING", send'[m] \in {"READY", "FAILED"}
  PROVE  \E w \in Workers :
           LeaseHeld(w, cur[w]) /\ Complete(cur[w], result[w]) /\ Finish(w) /\ m = cur[w]
<1>0. TypeInv /\ TypeOK
  BY DEF LifecycleInv, TypeInv
<1>1. CASE Member
  BY <1>1, MemberMoves DEF MemberMove, EditorialMove
<1>2. ASSUME NEW w \in Workers, Claim(w) PROVE FALSE
  BY <1>0, <1>2, ClaimMoves
<1>3. ASSUME NEW w \in Workers, Finish(w)
      PROVE  LeaseHeld(w, cur[w]) /\ Complete(cur[w], result[w]) /\ m = cur[w]
  BY <1>0, <1>3, FinishCases, CompleteMoves DEF LeaseHeld
<1>4. ASSUME NEW w \in Workers, Run(w), ~Claim(w), ~Finish(w) PROVE FALSE
  <2>1. ASSUME NEW k \in Candidates, CreateFollowUp(w, k) PROVE FALSE
    BY <1>0, <2>1 DEF CreateFollowUp, TypeOK
  <2>2. CASE StartRun(w) \/ (\E k \in Candidates : SkipFollowUp(w, k)) \/ (\E n \in Msgs : Check(w, n)) \/ Smtp(w)
    BY <2>2 DEF StartRun, SkipFollowUp, Check, Smtp, messages
  <2>. QED
    BY <1>4, <2>1, <2>2 DEF Run
<1>5. CASE Mailbox
  BY <1>0, <1>5, MailboxMoves DEF EditorialMove
<1>6. ASSUME (\E w \in Workers : Crash(w)) \/ Time \/ UNCHANGED vars PROVE FALSE
  BY <1>6 DEF Crash, Time, LeaseTimeout, RetryDelayOver, NewDay, vars, messages
<1>. QED
  BY <1>1, <1>2, <1>3, <1>4, <1>5, <1>6 DEF Next, Run

LEMMA DeliveryInit == Init => DeliveryInv
<1>. SUFFICES ASSUME Init PROVE DeliveryInv
  OBVIOUS
<1>1. ApprovedLeftDraft /\ ReadyIsApproved /\ TakenWereApproved
  BY DEF Init, ApprovedLeftDraft, ReadyIsApproved, TakenWereApproved
<1>2. CopiesCounted
  <2>1. MaxAttempts \in Nat \ {0}
    BY OutreachAssumption
  <2>2. \A m \in Msgs : accepted[m] = 0 /\ attempts[m] = 0
    BY DEF Init
  <2>. QED
    BY <2>1, <2>2 DEF CopiesCounted
<1>. QED
  BY <1>1, <1>2, SendingInit DEF DeliveryInv

(* Only an approval makes a message ready to leave.                            *)
LEMMA ApprovalKept == DeliveryInv /\ [Next]_vars => ReadyIsApproved' /\ TakenWereApproved'
<1>. SUFFICES ASSUME DeliveryInv, [Next]_vars
              PROVE  ReadyIsApproved' /\ TakenWereApproved'
  OBVIOUS
<1>0. SendingInv /\ LifecycleInv /\ ApprovedLeftDraft /\ ReadyIsApproved /\ TakenWereApproved
  BY DEF DeliveryInv, SendingInv
<1>1. ASSUME NEW m \in Msgs,
             send'[m] \in {"READY", "SENDING", "SENT", "FAILED", "UNCERTAIN"}
      PROVE  review'[m] = "APPROVED"
  <2>1. CASE send[m] = "DRAFT" /\ send'[m] = "READY"
    <3>1. Approve(m) /\ TypeOK
      BY <1>0, <2>1, OnlyApprovalReadies DEF LifecycleInv, TypeInv
    <3>. QED
      BY <3>1 DEF Approve, TypeOK
  <2>2. CASE ~(send[m] = "DRAFT" /\ send'[m] = "READY")
    <3>1. Moves(m)
      BY <1>0, NextMoves
    <3>2. send[m] \in {"READY", "SENDING", "SENT", "FAILED", "UNCERTAIN"}
      BY <1>1, <2>2, <3>1 DEF Moves, EditorialMove, SendingMove
    <3>. QED
      BY <1>0, <3>2, ReviewMoves DEF ReadyIsApproved
  <2>. QED
    BY <2>1, <2>2
<1>2. ASSUME NEW m \in Msgs, accepted'[m] > 0
      PROVE  review'[m] = "APPROVED"
  <2>1. CASE accepted'[m] = accepted[m]
    BY <1>0, <1>2, <2>1, ReviewMoves DEF TakenWereApproved
  <2>2. CASE accepted'[m] # accepted[m]
    BY <1>0, <2>2, OnlySendingTaken DEF ReadyIsApproved
  <2>. QED
    BY <2>1, <2>2
<1>. QED
  BY <1>1, <1>2 DEF ReadyIsApproved, TakenWereApproved

LEMMA CountKept == DeliveryInv /\ [Next]_vars => CopiesCounted'
<1>. SUFFICES ASSUME DeliveryInv, [Next]_vars, NEW m \in Msgs
              PROVE  /\ accepted'[m] <= attempts'[m] + 1
                     /\ send'[m] \notin Holding => accepted'[m] <= attempts'[m]
                     /\ \A v \in Workers : Untaken(v, m)' => accepted'[m] <= attempts'[m]
                     /\ send'[m] # "FAILED" => attempts'[m] < MaxAttempts
  BY DEF CopiesCounted
<1>0. /\ SendingInv /\ LifecycleInv /\ ApprovedLeftDraft /\ ReadyIsApproved /\ TakenWereApproved
      /\ CopiesCounted /\ TypeInv /\ TypeOK /\ ClaimsApart
  BY DEF DeliveryInv, SendingInv, LifecycleInv, TypeInv
<1>1. /\ accepted[m] <= attempts[m] + 1
      /\ send[m] \notin Holding => accepted[m] <= attempts[m]
      /\ \A v \in Workers : Untaken(v, m) => accepted[m] <= attempts[m]
      /\ send[m] # "FAILED" => attempts[m] < MaxAttempts
      /\ accepted[m] \in Nat /\ attempts[m] \in Nat /\ MaxAttempts \in Nat \ {0} /\ attempts[m] <= MaxAttempts
  <2>1. /\ accepted[m] <= attempts[m] + 1
        /\ send[m] \notin Holding => accepted[m] <= attempts[m]
        /\ \A v \in Workers : Untaken(v, m) => accepted[m] <= attempts[m]
        /\ send[m] # "FAILED" => attempts[m] < MaxAttempts
    BY <1>0, Zenon DEF CopiesCounted
  <2>2. accepted[m] \in Nat /\ attempts[m] \in Nat /\ MaxAttempts \in Nat \ {0} /\ attempts[m] <= MaxAttempts
    BY <1>0, OutreachAssumption DEF TypeOK
  <2>. QED
    BY <2>1, <2>2
<1>2. Moves(m)
  BY <1>0, NextMoves
<1>3. \A v \in Workers : Untaken(v, m)' =>
        \/ send[m] = "READY"
        \/ Untaken(v, m) /\ accepted'[m] = accepted[m]
  BY <1>0, UntakenMoves
<1>4. CASE accepted'[m] # accepted[m]
  <2>1. /\ send[m] \in {"SENDING", "UNCERTAIN"} /\ accepted'[m] = accepted[m] + 1
        /\ \E w \in Workers : Untaken(w, m)
        /\ send'[m] = send[m] /\ attempts'[m] = attempts[m]
    BY <1>0, <1>4, OnlySendingTaken
  <2>2. accepted[m] <= attempts[m]
    BY <1>1, <2>1
  <2>3. \A v \in Workers : ~Untaken(v, m)'
    BY <1>3, <1>4, <2>1
  <2>. QED
    BY <1>1, <2>1, <2>2, <2>3 DEF Holding
<1>5. CASE accepted'[m] = accepted[m] /\ attempts'[m] = attempts[m]
           /\ ~(send[m] = "SENDING" /\ send'[m] \in {"READY", "FAILED"})
  <2>1. send'[m] \notin Holding => send[m] \notin Holding
    BY <1>2, <1>5 DEF Moves, EditorialMove, SendingMove, Holding
  <2>2. send[m] = "FAILED" => send'[m] = "FAILED"
    BY <1>2 DEF Moves, EditorialMove, SendingMove
  <2>3. send[m] = "READY" => accepted[m] <= attempts[m]
    BY <1>1 DEF Holding
  <2>. QED
    BY <1>1, <1>3, <1>5, <2>1, <2>2, <2>3
<1>6. CASE /\ accepted'[m] = accepted[m] /\ attempts'[m] = 0 /\ send'[m] = "DRAFT"
           /\ send[m] = "NONE" \/ (send[m] = "CANCELLED" /\ review[m] # "APPROVED")
  <2>1. accepted[m] = 0
    BY <1>0, <1>1, <1>6 DEF ApprovedLeftDraft, TakenWereApproved
  <2>. QED
    BY <1>1, <1>6, <2>1
<1>7. CASE accepted'[m] = accepted[m] /\ send[m] = "SENDING" /\ send'[m] \in {"READY", "FAILED"}
  <2>1. PICK w \in Workers : LeaseHeld(w, cur[w]) /\ Complete(cur[w], result[w]) /\ Finish(w) /\ m = cur[w]
    BY <1>0, <1>7, OnlyFinishReturns
  <2>. DEFINE r == result[w]
  <2>2. r \in Results /\ pc[w] \in {"abort", "report"} /\ attempts'[m] = AttemptsAfter(m, r)
    BY <1>0, <2>1, FinishCases DEF Complete, Finish, TypeOK
  <2>3. send'[m] = SendAfter(m, r)
    <3>. HIDE DEF r
    <3>1. Complete(m, r)
      BY <2>1 DEF r
    <3>. QED
      BY <1>0, <1>7, <2>2, <3>1, CompleteMoves
  <2>4. \A v \in Workers : ~Untaken(v, m)'
    <3>. SUFFICES ASSUME NEW v \in Workers, Untaken(v, m)' PROVE FALSE
      OBVIOUS
    <3>1. Untaken(v, m)
      BY <1>3, <1>7
    <3>2. v = w /\ m \notin todo[w]
      BY <1>0, <2>1, <3>1 DEF ClaimsApart, InClaim, Untaken
    <3>3. /\ cur' = [cur EXCEPT ![w] = NULL]
          /\ todo' = todo \/ todo' = [todo EXCEPT ![w] = {}]
      BY <1>0, <2>1, FinishCases
    <3>. QED
      BY <1>0, <3>2, <3>3, OutreachAssumption DEF Untaken, TypeOK
  <2>5. r \notin {"SENT", "UNCERTAIN"}
    BY <1>7, <2>3 DEF SendAfter
  <2>6. r = "RETRY" => /\ attempts'[m] = attempts[m] + 1
                       /\ send'[m] # "FAILED" => attempts[m] + 1 < MaxAttempts
    BY <1>1, <1>7, <2>2, <2>3 DEF AttemptsAfter, SendAfter, Retried
  <2>7. r # "RETRY" => accepted[m] <= attempts[m]
    <3>1. r # "RETRY" => Untaken(w, m)
      BY <2>1, <2>2, <2>5 DEF Untaken
    <3>. QED
      BY <1>1, <3>1
  <2>8. r # "RETRY" => /\ attempts'[m] \in {attempts[m], attempts[m] + 1}
                       /\ send'[m] # "FAILED" => attempts'[m] = attempts[m]
    BY <2>2, <2>3, <2>5 DEF AttemptsAfter, SendAfter, Retried, Results
  <2>. HIDE DEF r
  <2>9. CASE r = "RETRY"
    BY <1>1, <1>7, <2>4, <2>6, <2>9
  <2>10. CASE r # "RETRY"
    BY <1>1, <1>7, <2>4, <2>7, <2>8, <2>10
  <2>. QED
    BY <2>9, <2>10
<1>. QED
  BY <1>0, <1>4, <1>5, <1>6, <1>7, AttemptsMove

LEMMA DeliveryKept == DeliveryInv /\ [Next]_vars => DeliveryInv'
BY SendingNext, ApprovedKept, ApprovalKept, CountKept DEF DeliveryInv, SendingInv

(* Nothing leaves without a person: what the server took was approved.          *)
THEOREM DeliveredWereApproved == Spec => [](\A m \in Msgs : accepted[m] > 0 => review[m] = "APPROVED")
<1>1. DeliveryInv => \A m \in Msgs : accepted[m] > 0 => review[m] = "APPROVED"
  BY DEF DeliveryInv, TakenWereApproved
<1>. QED
  BY <1>1, DeliveryInit, DeliveryKept, PTL DEF Spec

LEMMA DeliveryCounts == DeliveryInv => OnceAnAttempt
<1>. SUFFICES ASSUME DeliveryInv, NEW m \in Msgs
              PROVE  /\ accepted[m] <= unheard[m] + 1
                     /\ accepted[m] <= Attempted(m)
                     /\ Attempted(m) <= MaxAttempts
  BY DEF OnceAnAttempt
<1>0. TypeOK /\ OnceButForRetries /\ CopiesCounted
  BY DEF DeliveryInv, SendingInv, LifecycleInv, TypeInv
<1>1. /\ accepted[m] <= attempts[m] + 1
      /\ send[m] \notin Holding => accepted[m] <= attempts[m]
      /\ send[m] # "FAILED" => attempts[m] < MaxAttempts
      /\ attempts[m] \in Nat /\ attempts[m] <= MaxAttempts /\ MaxAttempts \in Nat
  BY <1>0, OutreachAssumption DEF CopiesCounted, TypeOK
<1>2. Attempted(m) = IF send[m] \in Holding THEN attempts[m] + 1 ELSE attempts[m]
  BY <1>1 DEF Attempted, Holding
<1>3. send[m] \in Holding => send[m] # "FAILED"
  BY DEF Holding
<1>. QED
  BY <1>0, <1>1, <1>2, <1>3 DEF OnceButForRetries

(* No more than a copy an attempt: whatever the workers, the crashes, the lost  *)
(* completions and the expired leases do, the SMTP server accepts a message     *)
(* once, and again only for a copy a worker was told to retry; never more often *)
(* than it was attempted, and it is attempted MaxAttempts times at most.        *)
THEOREM NoDoubleSend == Spec => []OnceAnAttempt
BY DeliveryInit, DeliveryKept, DeliveryCounts, PTL DEF Spec

(* Every step moves each message by one move of Delivery, or leaves it alone.  *)
LEMMA DeliveryMoves ==
  ASSUME DeliveryInv, [Next]_vars, NEW m \in Msgs
  PROVE  \/ Delivered!Write(m) \/ Delivered!Approve(m) \/ Delivered!Withdraw(m) \/ Delivered!Try(m)
         \/ Delivered!Deliver(m) \/ Delivered!Tell(m) \/ Delivered!Rest(m)
<1>0. /\ SendingInv /\ LifecycleInv /\ TypeOK /\ ApprovedLeftDraft /\ ReadyIsApproved
      /\ StatusIsTruthful /\ CopiesCounted /\ TakenWereApproved /\ m[1] \in Candidates
      /\ attempts[m] \in Nat /\ accepted[m] \in Nat
  BY MessageTypes DEF DeliveryInv, SendingInv, LifecycleInv, TypeInv, TypeOK
<1>1. ApprovedLeftDraft' /\ StatusIsTruthful' /\ CopiesCounted'
  BY DeliveryKept DEF DeliveryInv, SendingInv
<1>2. Moves(m)
  BY <1>0, NextMoves
<1>3. \/ accepted'[m] = accepted[m] /\ unheard'[m] = unheard[m]
      \/ /\ send[m] \in {"SENDING", "UNCERTAIN"} /\ accepted[m] = unheard[m]
         /\ accepted'[m] = accepted[m] + 1 /\ unheard'[m] \in {unheard[m], unheard[m] + 1}
         /\ accepted[m] <= attempts[m]
         /\ UNCHANGED <<send, review, link, attempts>>
  BY <1>0, OnlySendingTaken DEF CopiesCounted
<1>4. /\ m \in Approved <=> review[m] = "APPROVED"
      /\ m \in Approved' <=> review'[m] = "APPROVED"
      /\ m \in Refused <=> MailTo(m[1]) \in suppressed
  BY DEF Approved, Refused
<1>5. /\ Text[m] = IF IsBooking(m) THEN link[m[1]] ELSE NULL
      /\ Text'[m] = IF IsBooking(m) THEN link'[m[1]] ELSE NULL
  BY DEF Text
<1>9. /\ Tries[m] = IF send[m] \in Holding THEN attempts[m] + 1 ELSE attempts[m]
      /\ Tries'[m] = IF send'[m] \in Holding THEN attempts'[m] + 1 ELSE attempts'[m]
  <2>1. Tries[m] = Attempted(m) /\ Tries'[m] = Attempted(m)'
    BY DEF Tries
  <2>2. attempts'[m] \in Nat
    BY DeliveryKept DEF DeliveryInv, SendingInv, LifecycleInv, TypeInv, TypeOK
  <2>. QED
    BY <1>0, <2>1, <2>2 DEF Attempted, Holding
<1>10. \/ attempts'[m] = attempts[m]
       \/ /\ send[m] = "SENDING" /\ send'[m] \in {"READY", "FAILED"}
          /\ attempts'[m] = attempts[m] + 1
       \/ /\ attempts'[m] = 0 /\ send'[m] = "DRAFT"
          /\ send[m] = "NONE" \/ (send[m] = "CANCELLED" /\ review[m] # "APPROVED")
  BY <1>0, AttemptsMove
<1>6. CASE send[m] = "DRAFT" /\ send'[m] = "READY"
  <2>1. Approve(m)
    BY <1>0, <1>6, OnlyApprovalReadies
  <2>2. /\ review'[m] = "APPROVED" /\ UNCHANGED <<link, accepted, unheard, attempts>>
        /\ MailTo(m[1]) \notin suppressed /\ review[m] # "APPROVED"
    BY <1>0, <2>1 DEF Approve, Reviewable, TypeOK, outside
  <2>3. Text'[m] = Text[m]
    BY <1>5, <2>2
  <2>4. Delivered!Approve(m)
    BY <1>4, <1>6, <1>9, <2>2, <2>3 DEF Delivered!Approve, Delivered!Undelivered, Delivered!Untried, Holding
  <2>. QED
    BY <2>4
<1>7. CASE send[m] \in {"NONE", "CANCELLED", "DRAFT"} /\ send'[m] = "DRAFT"
  <2>1. review'[m] # "APPROVED" /\ review[m] # "APPROVED"
    BY <1>0, <1>1, <1>7, ReviewMoves DEF ApprovedLeftDraft
  <2>2. accepted'[m] = accepted[m] /\ unheard'[m] = unheard[m] /\ accepted[m] = 0
    BY <1>0, <1>3, <1>7, <2>1 DEF TakenWereApproved
  <2>4. Tries'[m] \in {0, Tries[m]}
    BY <1>7, <1>9, <1>10 DEF Holding
  <2>3. Delivered!Write(m)
    BY <1>4, <1>7, <2>1, <2>2, <2>4 DEF Delivered!Write, Delivered!Undelivered
  <2>. QED
    BY <2>3
<1>8. CASE /\ ~(send[m] = "DRAFT" /\ send'[m] = "READY")
           /\ ~(send[m] \in {"NONE", "CANCELLED", "DRAFT"} /\ send'[m] = "DRAFT")
  <2>1. review'[m] = "APPROVED" <=> review[m] = "APPROVED"
    BY <1>0, <1>2, <1>8, ReviewMoves DEF Moves, EditorialMove, SendingMove, ReadyIsApproved
  <2>2. Text'[m] = Text[m]
    BY <1>0, <1>5, <1>8, OnlyDraftsWritten
  <2>3. Delivered!Settled(m)
    BY <1>4, <2>1, <2>2 DEF Delivered!Settled
  <2>4. CASE accepted'[m] # accepted[m]
    <3>1. Tries'[m] = Tries[m] /\ accepted[m] < Tries[m] /\ send'[m] = send[m]
      BY <1>0, <1>3, <1>9, <2>4 DEF Holding
    <3>2. Delivered!Deliver(m)
      BY <1>3, <2>3, <2>4, <3>1 DEF Delivered!Deliver, Delivered!Unmoved, Delivered!Untried
    <3>. QED
      BY <3>2
  <2>5. CASE accepted'[m] = accepted[m]
    <3>0. Delivered!Undelivered(m)
      BY <1>0, <1>3, <2>5 DEF Delivered!Undelivered
    <3>. USE <2>3, <3>0
    <3>1. CASE send'[m] = send[m]
      <4>1. Tries'[m] = Tries[m]
        BY <1>8, <1>9, <1>10, <3>1
      <4>. QED
        BY <3>1, <4>1 DEF Delivered!Rest, Delivered!Unmoved, Delivered!Untried
    <3>2. CASE send[m] \in {"DRAFT", "READY"} /\ send'[m] = "CANCELLED"
      <4>1. Tries'[m] = Tries[m]
        BY <1>9, <1>10, <3>2 DEF Holding
      <4>. QED
        BY <3>2, <4>1 DEF Delivered!Withdraw, Delivered!Untried
    <3>3. CASE send[m] = "READY" /\ send'[m] = "SENDING"
      <4>1. m \in Approved \ Refused
        BY <1>0, <1>4, <3>3, OnlyWantedLeave DEF ReadyIsApproved
      <4>2. Tries'[m] = Tries[m] + 1
        BY <1>9, <1>10, <3>3 DEF Holding
      <4>. QED
        BY <3>3, <4>1, <4>2 DEF Delivered!Try
    <3>4. CASE send[m] = "SENDING" /\ send'[m] \in {"SENT", "UNCERTAIN"}
      <4>1. send'[m] = "SENT" => accepted[m] = unheard[m] + 1
        BY <1>1, <3>0 DEF StatusIsTruthful, Delivered!Undelivered
      <4>2. Tries'[m] = Tries[m]
        BY <1>9, <1>10, <3>4 DEF Holding
      <4>. QED
        BY <3>4, <4>1, <4>2 DEF Delivered!Tell, Delivered!Untried
    <3>5. CASE send[m] = "SENDING" /\ send'[m] \in {"READY", "FAILED"}
      <4>1. accepted[m] = unheard[m]
        BY <1>1, <3>0, <3>5 DEF StatusIsTruthful, Delivered!Undelivered
      <4>2. Tries[m] = attempts[m] + 1 /\ Tries'[m] = attempts'[m]
        BY <1>9, <3>5 DEF Holding
      <4>3. Tries'[m] \in {Tries[m], Tries[m] - 1}
        BY <1>0, <1>10, <3>5, <4>2
      <4>4. accepted[m] <= Tries'[m]
        BY <1>1, <2>5, <3>5, <4>2 DEF CopiesCounted, Holding
      <4>. QED
        BY <3>5, <4>1, <4>3, <4>4 DEF Delivered!Tell
    <3>. QED
      BY <1>2, <1>8, <3>1, <3>2, <3>3, <3>4, <3>5 DEF Moves, EditorialMove, SendingMove
  <2>. QED
    BY <2>4, <2>5
<1>. QED
  BY <1>6, <1>7, <1>8

LEMMA DeliveryTyped == DeliveryInv => Delivered!Typed
<1>. SUFFICES ASSUME DeliveryInv PROVE Delivered!Typed
  OBVIOUS
<1>0. TypeOK /\ OnceAnAttempt
  BY DeliveryCounts DEF DeliveryInv, SendingInv, LifecycleInv, TypeInv
<1>1. send \in [Msgs -> SendStates] /\ Approved \subseteq Msgs /\ Refused \subseteq Msgs
  BY <1>0 DEF TypeOK, Approved, Refused
<1>2. Text \in [Msgs -> Links \cup {NULL}]
  BY <1>0, MessageTypes DEF TypeOK, Text
<1>3. accepted \in [Msgs -> Nat] /\ unheard \in [Msgs -> Nat]
  BY <1>0 DEF TypeOK
<1>4. Tries \in [Msgs -> 0 .. MaxAttempts]
  <2>1. ASSUME NEW m \in Msgs
        PROVE  Attempted(m) \in 0 .. MaxAttempts
    <3>1. attempts[m] \in Nat /\ MaxAttempts \in Nat /\ Attempted(m) <= MaxAttempts
      BY <1>0, OutreachAssumption DEF TypeOK, OnceAnAttempt
    <3>. QED
      BY <3>1 DEF Attempted
  <2>. QED
    BY <2>1 DEF Tries
<1>. QED
  BY <1>1, <1>2, <1>3, <1>4 DEF Delivered!Typed, SendStates

(* The candidates, the leases, the overlapping workers, their crashes and their *)
(* lost completions implement what the documentation promises of each message,  *)
(* as far as a lost connection lets it.                                         *)
THEOREM ImplementsDelivery == Spec => DeliveryIsPromised
<1>1. Init => Delivered!Init
  <2>. SUFFICES ASSUME Init PROVE Delivered!Init
    OBVIOUS
  <2>1. /\ review = [m \in Msgs |-> "PENDING"] /\ suppressed = {}
        /\ link = [k \in Candidates |-> NULL]
        /\ send = [m \in Msgs |-> "NONE"] /\ accepted = [m \in Msgs |-> 0]
        /\ unheard = [m \in Msgs |-> 0] /\ attempts = [m \in Msgs |-> 0]
    BY DEF Init
  <2>2. Approved = {} /\ Refused = {}
    BY <2>1 DEF Approved, Refused
  <2>3. Text = [m \in Msgs |-> NULL]
    BY <2>1, MessageTypes DEF Text
  <2>4. Tries = [m \in Msgs |-> 0]
    BY <2>1 DEF Tries, Attempted
  <2>. QED
    BY <2>1, <2>2, <2>3, <2>4 DEF Delivered!Init
<1>2. DeliveryInv /\ [Next]_vars => [Delivered!Next]_Delivered!vars
  <2>. SUFFICES ASSUME DeliveryInv, [Next]_vars
                PROVE  Delivered!Next
    OBVIOUS
  <2>1. Delivered!Typed'
    BY DeliveryKept, DeliveryTyped, PTL
  <2>2. suppressed \subseteq suppressed'
    BY RefusedStays DEF DeliveryInv, SendingInv
  <2>3. Refused \subseteq Refused'
    BY <2>2 DEF Refused, MailTo
  <2>. QED
    BY <2>1, <2>3, DeliveryMoves DEF Delivered!Next
<1>. QED
  BY <1>1, <1>2, DeliveryInit, DeliveryKept, PTL DEF Spec, DeliveryIsPromised, Delivered!Spec

-----------------------------------------------------------------------------
(* A reply or a delivery report that comes before the completion of the send *)
(* it answers is matched to nothing (NoFollowUpAfterReply): what the code    *)
(* keeps of what the repository says of them.                                *)

(* An address that was written to has a last SENT message.                     *)
SentIsKnown == \A m \in Msgs : send[m] = "SENT" => lastSent[MailTo(m[1])] # NULL

LEMMA SentStaysKnown ==
  ASSUME LifecycleInv, SentIsKnown, [Next]_vars
  PROVE  SentIsKnown'
<1>0. TypeInv /\ TypeOK
  BY DEF LifecycleInv, TypeInv
<1>1. CASE UNCHANGED lastSent
  <2>1. ASSUME NEW m \in Msgs, send'[m] = "SENT" PROVE send[m] = "SENT"
    <3>1. CASE ~\E w \in Workers : Run(w)
      <4>1. EditorialMove(m)
        <5>1. CASE Member
          BY <5>1, MemberMoves DEF MemberMove
        <5>2. CASE Mailbox
          BY <1>0, <5>2, MailboxMoves
        <5>3. ASSUME (\E w \in Workers : Crash(w)) \/ Time \/ UNCHANGED vars
              PROVE  EditorialMove(m)
          BY <5>3 DEF Crash, Time, LeaseTimeout, RetryDelayOver, NewDay, vars, messages,
                      EditorialMove
        <5>. QED
          BY <3>1, <5>1, <5>2, <5>3 DEF Next
      <4>. QED
        BY <2>1, <4>1 DEF EditorialMove
    <3>2. ASSUME NEW w \in Workers, Claim(w) PROVE send[m] = "SENT"
      BY <1>0, <2>1, <3>2, ClaimMoves
    <3>3. ASSUME NEW w \in Workers, Finish(w) PROVE send[m] = "SENT"
      <4>1. CASE UNCHANGED send
        BY <2>1, <4>1
      <4>2. CASE LeaseHeld(w, cur[w]) /\ Complete(cur[w], result[w])
        <5>1. /\ cur[w] \in Msgs /\ result[w] \in Results /\ send[cur[w]] = "SENDING"
          BY <1>0, <3>3, <4>2, FinishCases DEF LeaseHeld
        <5>2. m # cur[w]
          <6>. SUFFICES ASSUME m = cur[w] PROVE FALSE
            OBVIOUS
          <6>1. send'[m] = SendAfter(m, result[w])
            BY <1>0, <4>2, <5>1, CompleteMoves
          <6>2. result[w] = "SENT"
            BY <2>1, <6>1 DEF SendAfter
          <6>3. /\ lastSent' = [lastSent EXCEPT ![MailTo(m[1])] = m]
                /\ m # NULL /\ MailTo(m[1]) \in Emails /\ m = lastSent'[MailTo(m[1])]
            BY <1>0, <4>2, <6>2, MessageTypes, OutreachAssumption DEF Complete, TypeOK
          <6>4. lastSent[MailTo(m[1])] = m
            BY <1>1, <6>3
          <6>5. send[m] = "SENT"
            BY <6>3, <6>4 DEF LifecycleInv, InitialFirst
          <6>. QED
            BY <5>1, <6>5
        <5>. QED
          BY <1>0, <2>1, <4>2, <5>1, <5>2, CompleteMoves
      <4>. QED
        BY <1>0, <3>3, <4>1, <4>2, FinishCases
    <3>4. ASSUME NEW w \in Workers, Run(w), ~Claim(w), ~Finish(w) PROVE send[m] = "SENT"
      BY <1>0, <2>1, <3>4
         DEF Run, StartRun, CreateFollowUp, SkipFollowUp, Check, Smtp, messages, TypeOK
    <3>. QED
      BY <3>1, <3>2, <3>3, <3>4
  <2>. QED
    BY <1>1, <2>1 DEF SentIsKnown, MailTo
<1>2. CASE ~UNCHANGED lastSent
  <2>1. PICK w \in Workers : Finish(w)
    <3>1. ASSUME Member \/ Time PROVE UNCHANGED lastSent
      BY <3>1 DEF Member, CreateCandidate, SetOutcome, SuppressEmail, CreateBooking, Approve,
                  Reject, Edit, SetBookingUrl, ListOrg, Time, LeaseTimeout, RetryDelayOver,
                  NewDay, outside
    <3>2. ASSUME Mailbox PROVE UNCHANGED lastSent
      <4>1. ASSUME NEW K, NEW human, NEW from, NEW optOut, Inbound(K, human, from, optOut)
            PROVE  UNCHANGED lastSent
        BY <4>1 DEF Inbound
      <4>2. ASSUME NEW n, RecordBounce(n) PROVE UNCHANGED lastSent
        BY <4>2 DEF RecordBounce
      <4>3. UNCHANGED lastSent
        BY <3>2, <4>1, <4>2 DEF Mailbox, RecordReply, RecordMail
      <4>. QED
        BY <4>3
    <3>3. ASSUME NEW w \in Workers, Run(w) \/ Crash(w), ~Finish(w) PROVE UNCHANGED lastSent
      BY <3>3 DEF Run, StartRun, CreateFollowUp, SkipFollowUp, Claim, Check, Smtp, Crash, outside
    <3>. QED
      BY <1>2, <3>1, <3>2, <3>3 DEF Next, Run, vars, outside
  <2>2. LeaseHeld(w, cur[w]) /\ Complete(cur[w], result[w]) /\ cur[w] \in Msgs /\ result[w] \in Results
    BY <1>0, <1>2, <2>1, FinishCases
  <2>3. lastSent' = [lastSent EXCEPT ![MailTo(cur[w][1])] = cur[w]]
    BY <1>2, <2>2 DEF Complete
  <2>4. \A m \in Msgs \ {cur[w]} : send'[m] = "SENT" => send[m] = "SENT"
    BY <1>0, <2>2, CompleteMoves DEF LeaseHeld
  <2>5. cur[w] # NULL
    BY <2>2, OutreachAssumption
  <2>. HIDE DEF SentIsKnown
  <2>6. ASSUME NEW m \in Msgs, send'[m] = "SENT" PROVE lastSent'[MailTo(m[1])] # NULL
    <3>1. MailTo(m[1]) \in Emails /\ MailTo(cur[w][1]) \in Emails
      BY <2>2, MessageTypes
    <3>2. CASE m = cur[w]
      BY <1>0, <2>3, <2>5, <3>1, <3>2 DEF TypeOK
    <3>3. CASE m # cur[w]
      BY <1>0, <2>3, <2>4, <2>5, <2>6, <3>1, <3>3 DEF TypeOK, SentIsKnown
    <3>. QED
      BY <3>2, <3>3
  <2>. QED
    BY <2>6 DEF SentIsKnown, MailTo
<1>. QED
  BY <1>1, <1>2

(* A delivery report about a message that is recorded as SENT suppresses its    *)
(* address: only one that comes while it is SENDING, or UNCERTAIN, may be lost. *)
THEOREM ReportOfSentSuppresses ==
  Spec => [][\A m \in Msgs : send[m] = "SENT" /\ m \in reported' \ reported
               => MailTo(m[1]) \in suppressed']_vars
<1>1. Init => SentIsKnown
  BY DEF Init, SentIsKnown
<1>2. SentIsKnown /\ LifecycleInv /\ [Next]_vars =>
        [\A m \in Msgs : send[m] = "SENT" /\ m \in reported' \ reported
           => MailTo(m[1]) \in suppressed']_vars
  <2>. SUFFICES ASSUME SentIsKnown, [Next]_vars, NEW m \in Msgs, send[m] = "SENT",
                       m \in reported' \ reported
                PROVE  MailTo(m[1]) \in suppressed'
    OBVIOUS
  <2>1. ASSUME NEW n \in Answerable, RecordBounce(n) PROVE MailTo(m[1]) \in suppressed'
    <3>1. n = m
      BY <2>1 DEF RecordBounce
    <3>. QED
      BY <2>1, <3>1 DEF RecordBounce, SentIsKnown
  <2>2. ASSUME NEW K, NEW human, NEW from, NEW optOut, Inbound(K, human, from, optOut) PROVE FALSE
    BY <2>2 DEF Inbound
  <2>3. ASSUME Member \/ Time \/ UNCHANGED vars PROVE FALSE
    BY <2>3 DEF Member, CreateCandidate, SetOutcome, SuppressEmail, CreateBooking, Approve,
                Reject, Edit, SetBookingUrl, ListOrg, Time, LeaseTimeout, RetryDelayOver,
                NewDay, vars, outside
  <2>4. ASSUME NEW w \in Workers, Run(w) \/ Crash(w) PROVE FALSE
    BY <2>4 DEF Run, StartRun, CreateFollowUp, SkipFollowUp, Claim, Check, Smtp, Finish, Crash,
                outside
  <2>. QED
    BY <2>1, <2>2, <2>3, <2>4 DEF Next, Mailbox, RecordReply, RecordMail
<1>. QED
  BY <1>1, <1>2, SentStaysKnown, LifecycleInit, LifecycleNext, PTL DEF Spec

(* Once an answer is recorded on its candidate no follow-up is drafted, though  *)
(* the worker may have read the candidate as due before: only an answer that    *)
(* was matched to nothing is followed up.                                       *)
THEOREM NoFollowUpOnceMatched ==
  Spec => [][\A m \in Msgs : IsFollowUp(m) /\ send[m] = "NONE" /\ reply[m[1]] # "NONE"
               => send'[m] = "NONE"]_vars
<1>1. LifecycleInv /\ [Next]_vars =>
        [\A m \in Msgs : IsFollowUp(m) /\ send[m] = "NONE" /\ reply[m[1]] # "NONE"
           => send'[m] = "NONE"]_vars
  BY OnlyDrafting DEF CreateFollowUp, Followable
<1>. QED
  BY <1>1, LifecycleInit, LifecycleNext, PTL DEF Spec
=============================================================================
