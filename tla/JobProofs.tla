------------------------------ MODULE JobProofs ------------------------------
(***************************************************************************)
(* Proofs about what is done by invocations that may die half-way: Digest  *)
(* and Monitors, for any readers, signals, prospects and invocations, any  *)
(* length of a day, and any limit of a batch; IcpImport, for any number of *)
(* imports, members and requests.                                          *)
(***************************************************************************)
EXTENDS Digest, Monitors, IcpImport, FiniteSetTheorems, SequenceTheorems, TLAPS

(* The recaps an invocation has under way: the rows it claimed, and the    *)
(* one in hand; and those of which no email may have gone.                 *)
Sending(w) == hand[w].step \in {"SEND", "MARK"}
InHand(w) == IF Sending(w) THEN {hand[w].row} ELSE {}
UnderWay(w) == rows[w] \cup InHand(w)
Unsent(w) == rows[w] \cup (IF hand[w].step = "SEND" THEN {hand[w].row} ELSE {})

(* All recaps under way are of today, and the last claim of their reader   *)
(* is of today.                                                            *)
OfToday ==
  \A w \in Mornings : \A r \in UnderWay(w) :
    /\ Day(r.at) = Day(now) /\ r.since <= r.at /\ r.at <= now
    /\ Day(sub[r.user].claimed) = Day(now)

(* A reader has one recap under way at most, which is a row or in hand.    *)
OneUnderWay ==
  /\ \A v, w \in Mornings : \A q \in UnderWay(v), r \in UnderWay(w) :
       q.user = r.user => v = w /\ q = r
  /\ \A w \in Mornings : InHand(w) \cap rows[w] = {}

(* A recap that was not sent costs no email of its day, and no email is of *)
(* a day after the last claim of the reader.                               *)
NotYetSent ==
  /\ \A w \in Mornings : \A r \in Unsent(w) : mails[r.user][Day(r.at)] = 0
  /\ \A u \in Readers, d \in 0..Day(LastTick) : mails[u][d] # 0 => d <= Day(sub[u].claimed)

(* Signals that were told are saved, and none is after the point where the *)
(* recaps of the reader start from, nor where the one under way does.      *)
SavedAreDated == \A s \in Signals : signal[s].saved => signal[s].at # 0
SettledBefore ==
  \A u \in Readers : \A s \in settled[u] : signal[s].saved /\ signal[s].at <= sub[u].checked
NoneTwice ==
  \A w \in Mornings :
    /\ \A r \in UnderWay(w) : \A s \in settled[r.user] : signal[s].at <= r.since
    /\ Sending(w) => \A s \in hand[w].told : signal[s].saved /\ signal[s].at > hand[w].row.since

DigestInv ==
  /\ DigestTypeOK /\ now > 0 /\ OfToday /\ OneUnderWay /\ NotYetSent /\ OneRecapADay
  /\ SavedAreDated /\ SettledBefore /\ NoneTwice

-----------------------------------------------------------------------------
(* Days.                                                                   *)

LEMMA DayFacts ==
  /\ \A t \in Int : Day(t) \in Int
  /\ \A t, v \in Int : t <= v => Day(t) <= Day(v)
  /\ \A t, v \in Int : t < Day(v) * DayLength + 1 => Day(t) < Day(v)
  /\ Day(0) < 0 /\ \A t \in Nat \ {0} : Day(t) >= 0
<1>1. \A a \in Int : a \div DayLength \in Int
  BY DigestAssumption
<1>2. \A a, b \in Int : a <= b => a \div DayLength <= b \div DayLength
  BY DigestAssumption
<1>3. \A a, q \in Int : a < q * DayLength => a \div DayLength < q
  BY DigestAssumption
<1>4. (0 - 1) \div DayLength < 0
  BY <1>3, DigestAssumption
<1>5. \A a \in Nat : a \div DayLength >= 0
  BY DigestAssumption
<1>. QED
  BY <1>1, <1>2, <1>3, <1>4, <1>5, DigestAssumption DEF Day

-----------------------------------------------------------------------------
(* Types.                                                                  *)

LEMMA DigestTyped ==
  ASSUME DigestTypeOK
  PROVE  /\ now \in Int /\ now >= 0 /\ now <= LastTick
         /\ \A u \in Readers :
              sub[u].on \in BOOLEAN /\ sub[u].checked \in 0..now /\ sub[u].claimed \in 0..now
         /\ \A s \in Signals :
              signal[s].at \in 0..LastTick /\ signal[s].saved \in BOOLEAN /\ signal[s].open \in BOOLEAN
         /\ \A w \in Mornings :
              /\ rows[w] \subseteq Row
              /\ UnderWay(w) \subseteq Row /\ Unsent(w) \subseteq UnderWay(w)
              /\ Sending(w) => hand[w].row \in Row /\ hand[w].told \subseteq Signals
              /\ ~Sending(w) => hand[w] = Idle
         /\ \A r \in Row : r.user \in Readers /\ r.since \in 0..LastTick /\ r.at \in 0..LastTick
<1>1. now \in Int /\ now >= 0 /\ now <= LastTick
  BY DigestAssumption DEF DigestTypeOK, Times
<1>2. \A u \in Readers : sub[u] \in Subscription /\ sub[u].checked <= now /\ sub[u].claimed <= now
  BY DEF DigestTypeOK
<1>3. \A u \in Readers :
        sub[u].on \in BOOLEAN /\ sub[u].checked \in 0..now /\ sub[u].claimed \in 0..now
  BY <1>1, <1>2, DigestAssumption DEF Subscription, Times
<1>4. \A s \in Signals :
        signal[s].at \in 0..LastTick /\ signal[s].saved \in BOOLEAN /\ signal[s].open \in BOOLEAN
  BY DEF DigestTypeOK, Times
<1>5. \A r \in Row : r.user \in Readers /\ r.since \in 0..LastTick /\ r.at \in 0..LastTick
  BY DEF Row, Times
<1>6. \A w \in Mornings :
        /\ rows[w] \subseteq Row
        /\ Sending(w) => hand[w].row \in Row /\ hand[w].told \subseteq Signals
        /\ ~Sending(w) => hand[w] = Idle
  <2>1. \A w \in Mornings : rows[w] \subseteq Row
    BY DEF DigestTypeOK
  <2>2. \A w \in Mornings : Sending(w) => hand[w].row \in Row /\ hand[w].told \subseteq Signals
    BY DEF DigestTypeOK, Sending, Hand, Idle
  <2>3. \A w \in Mornings : ~Sending(w) => hand[w] = Idle
    BY DEF DigestTypeOK, Sending, Hand
  <2>. QED
    BY <2>1, <2>2, <2>3
<1>7. \A w \in Mornings : UnderWay(w) \subseteq Row /\ Unsent(w) \subseteq UnderWay(w)
  <2>1. \A w \in Mornings : rows[w] \subseteq Row /\ (Sending(w) => hand[w].row \in Row)
    BY <1>6
  <2>. QED
    BY <2>1 DEF UnderWay, Unsent, InHand, Sending
<1>. QED
  BY <1>1, <1>3, <1>4, <1>5, <1>6, <1>7, Zenon

LEMMA EnableTyped ==
  ASSUME DigestTypeOK, NEW u \in Readers, Enable(u)
  PROVE  DigestTypeOK'
<1>1. sub \in [Readers -> Subscription] /\ now \in Times
  BY DEF DigestTypeOK
<1>2. sub' \in [Readers -> Subscription]
  <2>1. CASE sub[u].on
    BY <1>1, <2>1 DEF Enable, Subscription
  <2>2. CASE ~sub[u].on
    BY <1>1, <2>2 DEF Enable, Subscription
  <2>. QED
    BY <2>1, <2>2
<1>3. \A v \in Readers : sub'[v].checked <= now /\ sub'[v].claimed <= now
  BY DigestAssumption DEF DigestTypeOK, Enable, Subscription, Times
<1>. QED
  BY <1>2, <1>3 DEF DigestTypeOK, Enable

LEMMA DisableTyped ==
  ASSUME DigestTypeOK, NEW u \in Readers, Disable(u)
  PROVE  DigestTypeOK'
<1>1. sub' \in [Readers -> Subscription]
  BY DEF DigestTypeOK, Disable, Subscription
<1>2. \A v \in Readers : sub'[v].checked <= now /\ sub'[v].claimed <= now
  BY DEF DigestTypeOK, Disable, Subscription
<1>. QED
  BY <1>1, <1>2 DEF DigestTypeOK, Disable

LEMMA SaveTyped ==
  ASSUME DigestTypeOK, NEW s \in Signals, SaveBegins(s) \/ SaveCommits(s) \/ Reviewed(s)
  PROVE  DigestTypeOK'
<1>. DEFINE Rec == [at : Times, saved : BOOLEAN, open : BOOLEAN]
<1>1. CASE SaveBegins(s)
  <2>1. signal' \in [Signals -> Rec]
    BY <1>1 DEF DigestTypeOK, SaveBegins
  <2>. QED
    BY <1>1, <2>1 DEF DigestTypeOK, SaveBegins
<1>2. CASE SaveCommits(s)
  <2>1. signal' \in [Signals -> Rec]
    BY <1>2 DEF DigestTypeOK, SaveCommits
  <2>. QED
    BY <1>2, <2>1 DEF DigestTypeOK, SaveCommits
<1>3. CASE Reviewed(s)
  <2>1. signal' \in [Signals -> Rec]
    BY <1>3 DEF DigestTypeOK, Reviewed
  <2>. QED
    BY <1>3, <2>1 DEF DigestTypeOK, Reviewed
<1>. QED
  BY <1>1, <1>2, <1>3

LEMMA ClaimDigestsTyped ==
  ASSUME DigestTypeOK, NEW w \in Mornings, ClaimDigests(w)
  PROVE  DigestTypeOK'
<1>1. {[user |-> u, since |-> sub[u].checked, at |-> now] : u \in Unclaimed} \in SUBSET Row
  BY DEF DigestTypeOK, Unclaimed, Row, Subscription
<1>2. rows' \in [Mornings -> SUBSET Row]
  BY <1>1 DEF ClaimDigests, DigestTypeOK
<1>3. \A u \in Readers : [sub[u] EXCEPT !.claimed = now] \in Subscription
  BY DEF DigestTypeOK, Subscription
<1>4. sub' \in [Readers -> Subscription]
  BY <1>3 DEF DigestTypeOK, ClaimDigests
<1>5. \A v \in Readers : sub'[v].checked <= now /\ sub'[v].claimed <= now
  BY DigestAssumption DEF DigestTypeOK, ClaimDigests, Subscription, Times
<1>. QED
  BY <1>2, <1>4, <1>5 DEF DigestTypeOK, ClaimDigests

LEMMA ReadSignalsTyped ==
  ASSUME DigestTypeOK, NEW w \in Mornings, NEW r \in rows[w], ReadSignals(w, r)
  PROVE  DigestTypeOK'
<1>1. r \in Row /\ New(r) \in SUBSET Signals
  BY DigestTyped DEF New
<1>2. [step |-> IF New(r) = {} THEN "MARK" ELSE "SEND", row |-> r, told |-> New(r)] \in Hand
  BY <1>1 DEF Hand
<1>3. hand' \in [Mornings -> Hand]
  BY <1>2 DEF DigestTypeOK, ReadSignals
<1>4. rows' \in [Mornings -> SUBSET Row]
  BY DEF DigestTypeOK, ReadSignals
<1>. QED
  BY <1>3, <1>4 DEF DigestTypeOK, ReadSignals

LEMMA OneMore ==
  ASSUME NEW S, NEW f \in [S -> Nat], NEW d
  PROVE  [f EXCEPT ![d] = @ + 1] \in [S -> Nat]
<1>1. CASE d \in S
  BY <1>1
<1>2. CASE d \notin S
  BY <1>2
<1>. QED
  BY <1>1, <1>2

LEMMA SendRecapTyped ==
  ASSUME DigestTypeOK, OfToday, now > 0, NEW w \in Mornings, SendRecap(w)
  PROVE  DigestTypeOK'
<1>. DEFINE u == hand[w].row.user
            d == Day(hand[w].row.at)
            taken == [mails EXCEPT ![u][d] = @ + 1]
<1>1. u \in Readers
  BY DigestTyped DEF SendRecap, Sending
<1>2. taken \in [Readers -> [0..Day(LastTick) -> Nat]]
  <2>1. mails \in [Readers -> [0..Day(LastTick) -> Nat]]
    BY DEF DigestTypeOK
  <2>2. mails[u] \in [0..Day(LastTick) -> Nat]
    BY <1>1, <2>1
  <2>3. [mails[u] EXCEPT ![d] = @ + 1] \in [0..Day(LastTick) -> Nat]
    BY <2>2, OneMore
  <2>. QED
    BY <1>1, <2>1, <2>3
<1>3. mails' \in [Readers -> [0..Day(LastTick) -> Nat]]
  BY <1>2 DEF DigestTypeOK, SendRecap
<1>4. hand' \in [Mornings -> Hand]
  <2>1. hand[w] \in [step : {"SEND", "MARK"}, row : Row, told : SUBSET Signals]
    BY DEF DigestTypeOK, Hand, Idle, SendRecap
  <2>2. [hand[w] EXCEPT !.step = "MARK"] \in Hand /\ Idle \in Hand
    BY <2>1 DEF Hand
  <2>. QED
    BY <2>2 DEF DigestTypeOK, SendRecap
<1>5. rows' \in [Mornings -> SUBSET Row]
  BY DEF DigestTypeOK, SendRecap
<1>. QED
  BY <1>3, <1>4, <1>5 DEF DigestTypeOK, SendRecap

LEMMA MarkTyped ==
  ASSUME DigestTypeOK, OfToday, NEW w \in Mornings, Mark(w)
  PROVE  DigestTypeOK'
<1>. DEFINE r == hand[w].row
<1>1. r \in Row /\ r \in UnderWay(w)
  BY DigestTyped DEF Mark, Sending, UnderWay, InHand
<1>2. r.user \in Readers /\ r.at \in Times /\ r.at <= now
  BY <1>1, DigestTyped DEF OfToday, Times
<1>3. sub' \in [Readers -> Subscription]
  BY <1>2 DEF DigestTypeOK, Mark, MarkedAt, Subscription
<1>4. \A v \in Readers : sub'[v].checked <= now /\ sub'[v].claimed <= now
  <2>1. \A v \in Readers : sub[v] \in Subscription /\ sub[v].checked <= now /\ sub[v].claimed <= now
    BY DEF DigestTypeOK
  <2>2. sub' = [sub EXCEPT ![r.user].checked = r.at] /\ sub \in [Readers -> Subscription]
    BY DEF Mark, MarkedAt, DigestTypeOK
  <2>. QED
    BY <1>2, <2>1, <2>2 DEF Subscription
<1>5. settled' \in [Readers -> SUBSET Signals]
  BY <1>1, DigestTyped DEF DigestTypeOK, Mark, Sending
<1>6. hand' \in [Mornings -> Hand]
  BY DEF DigestTypeOK, Mark, Hand
<1>. QED
  BY <1>3, <1>4, <1>5, <1>6 DEF DigestTypeOK, Mark

LEMMA EndsTyped ==
  ASSUME DigestTypeOK, NEW w \in Mornings, MarkNothing(w) \/ DigestEnds(w)
  PROVE  DigestTypeOK'
<1>1. hand' \in [Mornings -> Hand]
  BY DEF DigestTypeOK, MarkNothing, DigestEnds, Hand
<1>2. rows' \in [Mornings -> SUBSET Row]
  BY DEF DigestTypeOK, MarkNothing, DigestEnds
<1>. QED
  BY <1>1, <1>2 DEF DigestTypeOK, MarkNothing, DigestEnds

LEMMA TickTyped ==
  ASSUME DigestTypeOK, Tick
  PROVE  DigestTypeOK'
<1>1. now' \in Times /\ now' >= now
  BY DigestAssumption DEF DigestTypeOK, Tick, Times
<1>2. \A u \in Readers : sub'[u].checked <= now' /\ sub'[u].claimed <= now'
  BY <1>1, DigestTyped, DigestAssumption DEF Tick, Times
<1>. QED
  BY <1>1, <1>2 DEF DigestTypeOK, Tick

-----------------------------------------------------------------------------
(* Steps that begin no recap.                                              *)

NoneAdded == \A w \in Mornings : UnderWay(w)' \subseteq UnderWay(w)

LEMMA SameRecaps ==
  ASSUME DigestInv, NoneAdded, now' = now, \A u \in Readers : sub'[u].claimed = sub[u].claimed,
         \A w \in Mornings : InHand(w)' \cap rows'[w] = {}
  PROVE  OfToday' /\ OneUnderWay'
<1>1. \A w \in Mornings : \A r \in UnderWay(w)' : r \in UnderWay(w) /\ r.user \in Readers
  BY DigestTyped DEF NoneAdded, DigestInv
<1>2. OfToday'
  BY <1>1 DEF DigestInv, OfToday, Day
<1>3. OneUnderWay'
  BY <1>1 DEF DigestInv, OneUnderWay
<1>. QED
  BY <1>2, <1>3

(* Only members, signals and time moved.                                   *)
LEMMA QuietKeeps ==
  ASSUME DigestInv, DigestTypeOK', UNCHANGED <<rows, hand, mails, settled>>, now <= now',
         Day(now') = Day(now) \/ \A w \in Mornings : UnderWay(w) = {},
         \A u \in Readers : sub'[u].claimed = sub[u].claimed /\ sub[u].checked <= sub'[u].checked,
         \A s \in Signals :
           /\ signal[s].saved => signal'[s].saved /\ signal'[s].at = signal[s].at
           /\ signal'[s].saved => signal'[s].at # 0
  PROVE  DigestInv'
<1>1. \A w \in Mornings :
        /\ UnderWay(w)' = UnderWay(w) /\ Unsent(w)' = Unsent(w)
        /\ InHand(w)' = InHand(w) /\ Sending(w)' = Sending(w)
  BY DEF UnderWay, Unsent, InHand, Sending
<1>2. \A w \in Mornings : UnderWay(w) \subseteq Row /\ \A r \in UnderWay(w) : r.user \in Readers
  BY DigestTyped DEF DigestInv
<1>3. now \in Int /\ now' \in Int /\ now' > 0
  BY DigestAssumption DEF DigestInv, DigestTypeOK, Times
<1>4. OfToday'
  <2>1. ASSUME NEW w \in Mornings, NEW r \in UnderWay(w)
        PROVE  /\ Day(r.at) = Day(now') /\ r.since <= r.at /\ r.at <= now'
               /\ Day(sub'[r.user].claimed) = Day(now')
    <3>1. Day(now') = Day(now) /\ r.user \in Readers /\ r.at \in Int
      BY <1>2, <2>1, DigestTyped DEF DigestInv
    <3>. QED
      BY <1>3, <2>1, <3>1 DEF DigestInv, OfToday
  <2>. QED
    BY <1>1, <2>1 DEF OfToday, Day
<1>5. OneUnderWay'
  BY <1>1 DEF DigestInv, OneUnderWay
<1>6. NotYetSent'
  BY <1>1 DEF DigestInv, NotYetSent, Day
<1>7. OneRecapADay'
  BY DEF DigestInv, OneRecapADay, Day
<1>8. SavedAreDated'
  BY DEF SavedAreDated
<1>9. SettledBefore'
  <2>1. \A u \in Readers : settled[u] \subseteq Signals /\ sub[u].checked \in Int /\ sub'[u].checked \in Int
    BY DigestTyped DEF DigestInv, DigestTypeOK, Subscription, Times
  <2>2. \A x \in Signals : signal[x].at \in Int
    BY DigestTyped DEF DigestInv
  <2>. QED
    BY <2>1, <2>2 DEF DigestInv, SettledBefore
<1>10. NoneTwice'
  <2>1. \A u \in Readers : \A s \in settled[u] : s \in Signals /\ signal'[s].at = signal[s].at
    BY DEF DigestInv, SettledBefore, DigestTypeOK
  <2>2. \A w \in Mornings : Sending(w) => hand[w].told \subseteq Signals
    BY DigestTyped DEF DigestInv
  <2>. QED
    BY <1>1, <1>2, <2>1, <2>2 DEF DigestInv, NoneTwice
<1>. QED
  BY <1>3, <1>4, <1>5, <1>6, <1>7, <1>8, <1>9, <1>10 DEF DigestInv

LEMMA MembersAndTime ==
  ASSUME DigestInv,
         \/ \E u \in Readers : Enable(u) \/ Disable(u)
         \/ \E s \in Signals : SaveBegins(s) \/ SaveCommits(s) \/ Reviewed(s)
         \/ Tick
  PROVE  DigestInv'
<1>. DigestTypeOK /\ SavedAreDated
  BY DEF DigestInv
<1>1. ASSUME NEW u \in Readers, Enable(u)
      PROVE  DigestInv'
  <2>1. /\ sub \in [Readers -> Subscription]
        /\ \A v \in Readers : sub[v].checked \in Int /\ sub[v].checked <= now
        /\ now \in Int
    BY DigestTyped DEF DigestTypeOK
  <2>2. \A v \in Readers : sub'[v].claimed = sub[v].claimed /\ sub[v].checked <= sub'[v].checked
    BY <1>1, <2>1 DEF Enable, Subscription
  <2>3. UNCHANGED <<now, signal, rows, hand, mails, settled>>
    BY <1>1 DEF Enable
  <2>4. \A x \in Signals : signal'[x] = signal[x] /\ (signal[x].saved => signal[x].at # 0)
    BY <2>3 DEF SavedAreDated
  <2>5. DigestTypeOK'
    BY <1>1, EnableTyped
  <2>. QED
    BY <2>1, <2>2, <2>3, <2>4, <2>5, QuietKeeps
<1>2. ASSUME NEW u \in Readers, Disable(u)
      PROVE  DigestInv'
  <2>1. /\ sub \in [Readers -> Subscription]
        /\ \A v \in Readers : sub[v].checked \in Int
        /\ now \in Int
    BY DigestTyped DEF DigestTypeOK
  <2>2. \A v \in Readers : sub'[v].claimed = sub[v].claimed /\ sub[v].checked <= sub'[v].checked
    BY <1>2, <2>1 DEF Disable, Subscription
  <2>3. UNCHANGED <<now, signal, rows, hand, mails, settled>>
    BY <1>2 DEF Disable
  <2>4. \A x \in Signals : signal'[x] = signal[x] /\ (signal[x].saved => signal[x].at # 0)
    BY <2>3 DEF SavedAreDated
  <2>5. DigestTypeOK'
    BY <1>2, DisableTyped
  <2>. QED
    BY <2>1, <2>2, <2>3, <2>4, <2>5, QuietKeeps
<1>3. ASSUME NEW s \in Signals, SaveBegins(s) \/ SaveCommits(s) \/ Reviewed(s)
      PROVE  DigestInv'
  <2>1. signal \in [Signals -> [at : Times, saved : BOOLEAN, open : BOOLEAN]]
    BY DEF DigestTypeOK
  <2>2. \A x \in Signals :
          /\ signal[x].saved => signal'[x].saved /\ signal'[x].at = signal[x].at
          /\ signal'[x].saved => signal'[x].at # 0
    BY <1>3, <2>1 DEF SavedAreDated, SaveBegins, SaveCommits, Reviewed
  <2>3. \A u \in Readers : sub[u].checked \in Int
    BY DigestTyped
  <2>4. now \in Int /\ UNCHANGED <<now, sub, rows, hand, mails, settled>>
    BY <1>3, DigestTyped DEF SaveBegins, SaveCommits, Reviewed
  <2>5. DigestTypeOK'
    BY <1>3, SaveTyped
  <2>. QED
    BY <2>2, <2>3, <2>4, <2>5, QuietKeeps DEF Day
<1>4. ASSUME Tick
      PROVE  DigestInv'
  <2>1. now \in Int /\ now' = now + 1 /\ UNCHANGED <<sub, signal, rows, hand, mails, settled>>
    BY <1>4, DigestTyped DEF Tick
  <2>2. Day(now') = Day(now) \/ \A w \in Mornings : UnderWay(w) = {}
    BY <1>4 DEF Tick, UnderWay, InHand, Sending, Idle
  <2>3. \A u \in Readers : sub[u].checked \in Int
    BY DigestTyped
  <2>4. DigestTypeOK'
    BY <1>4, TickTyped
  <2>. QED
    BY <2>1, <2>2, <2>3, <2>4, QuietKeeps DEF SavedAreDated
<1>. QED
  BY <1>1, <1>2, <1>3, <1>4

(* Reading the signals of a row: what is told is after where it starts.    *)
LEMMA ReadSignalsKeeps ==
  ASSUME DigestInv, NEW w \in Mornings, NEW r \in rows[w], ReadSignals(w, r)
  PROVE  DigestInv'
<1>1. DigestTypeOK'
  BY ReadSignalsTyped DEF DigestInv
<1>. DEFINE h == [step |-> IF New(r) = {} THEN "MARK" ELSE "SEND", row |-> r, told |-> New(r)]
<1>2. /\ rows' = [rows EXCEPT ![w] = @ \ {r}] /\ hand' = [hand EXCEPT ![w] = h] /\ hand[w] = Idle
      /\ UNCHANGED <<now, sub, signal, mails, settled>>
      /\ rows \in [Mornings -> SUBSET Row] /\ hand \in [Mornings -> Hand]
  BY DEF ReadSignals, DigestInv, DigestTypeOK
<1>3. \A v \in Mornings :
        /\ rows'[v] = IF v = w THEN rows[w] \ {r} ELSE rows[v]
        /\ hand'[v] = IF v = w THEN h ELSE hand[v]
  BY <1>2
<1>10. h.row = r /\ h.told = New(r) /\ h.step \in {"SEND", "MARK"}
  OBVIOUS
<1>11. hand'[w].row = r /\ hand'[w].told = New(r) /\ hand'[w].step \in {"SEND", "MARK"}
  BY <1>3, <1>10
<1>. HIDE DEF h
<1>4. \A v \in Mornings : UnderWay(v)' = UnderWay(v) /\ Unsent(v)' \subseteq Unsent(v)
  <2>1. UnderWay(w) = rows[w] /\ Unsent(w) = rows[w]
    BY <1>2 DEF UnderWay, Unsent, InHand, Sending, Idle
  <2>2. UnderWay(w)' = rows'[w] \cup {r} /\ Unsent(w)' \subseteq rows'[w] \cup {r}
    BY <1>11 DEF UnderWay, Unsent, InHand, Sending
  <2>3. rows'[w] \cup {r} = rows[w]
    BY <1>3
  <2>4. \A v \in Mornings : v # w => UnderWay(v)' = UnderWay(v) /\ Unsent(v)' = Unsent(v)
    BY <1>3 DEF UnderWay, Unsent, InHand, Sending
  <2>. QED
    BY <2>1, <2>2, <2>3, <2>4
<1>5. \A v \in Mornings : InHand(v)' \cap rows'[v] = {}
  <2>1. \A v \in Mornings : InHand(v) \cap rows[v] = {}
    BY DEF DigestInv, OneUnderWay
  <2>2. InHand(w)' \subseteq {r}
    BY <1>11 DEF InHand, Sending
  <2>3. r \notin rows'[w]
    BY <1>3
  <2>4. \A v \in Mornings : v # w => InHand(v)' = InHand(v) /\ rows'[v] = rows[v]
    BY <1>3 DEF InHand, Sending
  <2>. QED
    BY <2>1, <2>2, <2>3, <2>4
<1>6. OfToday' /\ OneUnderWay'
  BY <1>2, <1>4, <1>5, SameRecaps DEF NoneAdded
<1>7. NotYetSent'
  BY <1>2, <1>4 DEF DigestInv, NotYetSent, Day
<1>8. OneRecapADay' /\ SavedAreDated' /\ SettledBefore'
  BY <1>2 DEF DigestInv, OneRecapADay, SavedAreDated, SettledBefore, Day
<1>9. NoneTwice'
  <2>1. ASSUME NEW v \in Mornings, Sending(v)'
        PROVE  \A s \in hand'[v].told : signal[s].saved /\ signal[s].at > hand'[v].row.since
    <3>1. CASE v = w
      BY <1>11, <3>1 DEF New
    <3>2. CASE v # w
      BY <1>3, <2>1, <3>2 DEF DigestInv, NoneTwice, Sending
    <3>. QED
      BY <3>1, <3>2
  <2>. QED
    BY <1>2, <1>4, <2>1 DEF DigestInv, NoneTwice
<1>. QED
  BY <1>1, <1>2, <1>6, <1>7, <1>8, <1>9 DEF DigestInv

(* Recaps that are dropped.                                                *)
LEMMA EndsKeeps ==
  ASSUME DigestInv, NEW w \in Mornings, MarkNothing(w) \/ DigestEnds(w)
  PROVE  DigestInv'
<1>1. DigestTypeOK'
  BY EndsTyped DEF DigestInv
<1>2. /\ rows' = [rows EXCEPT ![w] = {}] \/ rows' = rows
      /\ hand' = [hand EXCEPT ![w] = Idle]
      /\ UNCHANGED <<now, sub, signal, mails, settled>>
      /\ rows \in [Mornings -> SUBSET Row] /\ hand \in [Mornings -> Hand]
  BY DEF MarkNothing, DigestEnds, DigestInv, DigestTypeOK
<1>3. \A v \in Mornings :
        /\ rows'[v] \subseteq rows[v]
        /\ hand'[v] = Idle \/ hand'[v] = hand[v]
  BY <1>2
<1>4. \A v \in Mornings : UnderWay(v)' \subseteq UnderWay(v) /\ Unsent(v)' \subseteq Unsent(v)
  BY <1>3 DEF UnderWay, Unsent, InHand, Sending, Idle
<1>5. \A v \in Mornings : InHand(v)' \cap rows'[v] = {}
  BY <1>3 DEF DigestInv, OneUnderWay, InHand, Sending, Idle
<1>6. OfToday' /\ OneUnderWay'
  BY <1>2, <1>4, <1>5, SameRecaps DEF NoneAdded
<1>7. NotYetSent'
  BY <1>2, <1>4 DEF DigestInv, NotYetSent, Day
<1>8. OneRecapADay' /\ SavedAreDated' /\ SettledBefore'
  BY <1>2 DEF DigestInv, OneRecapADay, SavedAreDated, SettledBefore, Day
<1>9. NoneTwice'
  <2>1. \A v \in Mornings : Sending(v)' => Sending(v) /\ hand'[v] = hand[v]
    BY <1>3 DEF Sending, Idle
  <2>. QED
    BY <1>2, <1>4, <2>1 DEF DigestInv, NoneTwice
<1>. QED
  BY <1>1, <1>2, <1>6, <1>7, <1>8, <1>9 DEF DigestInv

-----------------------------------------------------------------------------
(* Claims, emails, and recaps that are recorded.                           *)

LEMMA ClaimDigestsKeeps ==
  ASSUME DigestInv, NEW w \in Mornings, ClaimDigests(w)
  PROVE  DigestInv'
<1>. DigestTypeOK
  BY DEF DigestInv
<1>1. DigestTypeOK'
  BY ClaimDigestsTyped
<1>. DEFINE claims == {[user |-> u, since |-> sub[u].checked, at |-> now] : u \in Unclaimed}
<1>2. /\ rows[w] = {} /\ hand[w] = Idle /\ rows' = [rows EXCEPT ![w] = claims]
      /\ UNCHANGED <<now, signal, hand, mails, settled>>
      /\ rows \in [Mornings -> SUBSET Row]
  BY DEF ClaimDigests, DigestTypeOK
<1>3. \A r \in claims : r.user \in Unclaimed /\ r.since = sub[r.user].checked /\ r.at = now
  OBVIOUS
<1>4. \A q, r \in claims : q.user = r.user => q = r
  OBVIOUS
<1>. HIDE DEF claims
<1>5. /\ UnderWay(w)' = claims /\ Unsent(w)' = claims /\ InHand(w)' = {} /\ ~Sending(w)'
      /\ \A v \in Mornings : v # w =>
           UnderWay(v)' = UnderWay(v) /\ Unsent(v)' = Unsent(v) /\ rows'[v] = rows[v]
      /\ \A v \in Mornings : InHand(v)' = InHand(v) /\ Sending(v)' = Sending(v)
  <2>1. rows'[w] = claims /\ \A v \in Mornings : v # w => rows'[v] = rows[v]
    BY <1>2
  <2>. QED
    BY <1>2, <2>1 DEF UnderWay, Unsent, InHand, Sending, Idle
<1>6. now \in Int /\ now > 0 /\ \A u \in Readers : sub[u].checked \in 0..now /\ sub[u].claimed \in 0..now
  BY DigestTyped DEF DigestInv
<1>7. /\ \A u \in Readers : sub'[u].checked = sub[u].checked
      /\ \A u \in Readers : sub'[u].claimed = IF u \in Unclaimed THEN now ELSE sub[u].claimed
  <2>1. \A u \in Readers : sub[u] \in Subscription
    BY DEF DigestTypeOK
  <2>. QED
    BY <2>1 DEF ClaimDigests, Subscription
<1>8. \A u \in Unclaimed : u \in Readers /\ Day(sub[u].claimed) < Day(now)
  BY <1>6, DayFacts DEF Unclaimed, DayStart
<1>9. Day(now) \in 0..Day(LastTick) /\ \A t \in 0..now : Day(t) \in Int /\ Day(t) <= Day(now)
  BY <1>6, DayFacts, DigestTyped, DigestAssumption
<1>10. \A v \in Mornings : \A q \in UnderWay(v) : q.user \notin Unclaimed /\ q.user \in Readers
  BY <1>8, <1>9, DigestTyped DEF DigestInv, OfToday
<1>11. OfToday'
  <2>1. ASSUME NEW v \in Mornings, NEW r \in UnderWay(v)'
        PROVE  /\ Day(r.at) = Day(now) /\ r.since <= r.at /\ r.at <= now
               /\ Day(sub'[r.user].claimed) = Day(now)
    <3>1. CASE v = w
      BY <1>3, <1>5, <1>6, <1>7, <1>8, <2>1, <3>1
    <3>2. CASE v # w
      BY <1>5, <1>7, <1>10, <2>1, <3>2 DEF DigestInv, OfToday
    <3>. QED
      BY <3>1, <3>2
  <2>. QED
    BY <1>2, <2>1 DEF OfToday, Day
<1>12. OneUnderWay'
  <2>1. ASSUME NEW v \in Mornings, NEW x \in Mornings,
               NEW q \in UnderWay(v)', NEW r \in UnderWay(x)', q.user = r.user
        PROVE  v = x /\ q = r
    <3>1. CASE v = w /\ x = w
      BY <1>4, <1>5, <2>1, <3>1
    <3>2. CASE v # w /\ x # w
      BY <1>5, <2>1, <3>2 DEF DigestInv, OneUnderWay
    <3>3. CASE (v = w) # (x = w)
      BY <1>3, <1>5, <1>10, <2>1, <3>3
    <3>. QED
      BY <3>1, <3>2, <3>3
  <2>2. \A v \in Mornings : InHand(v)' \cap rows'[v] = {}
    BY <1>5 DEF DigestInv, OneUnderWay
  <2>. QED
    BY <2>1, <2>2 DEF OneUnderWay
<1>13. NotYetSent'
  <2>1. ASSUME NEW v \in Mornings, NEW r \in Unsent(v)'
        PROVE  mails[r.user][Day(r.at)] = 0
    <3>1. CASE v = w
      <4>1. r.user \in Unclaimed /\ r.at = now
        BY <1>3, <1>5, <2>1, <3>1
      <4>2. mails[r.user][Day(now)] # 0 => Day(now) <= Day(sub[r.user].claimed)
        BY <1>8, <1>9, <4>1 DEF DigestInv, NotYetSent
      <4>. QED
        BY <1>6, <1>8, <1>9, <4>1, <4>2
    <3>2. CASE v # w
      BY <1>5, <2>1, <3>2 DEF DigestInv, NotYetSent
    <3>. QED
      BY <3>1, <3>2
  <2>2. ASSUME NEW u \in Readers, NEW d \in 0..Day(LastTick), mails[u][d] # 0
        PROVE  d <= Day(sub'[u].claimed)
    <3>1. d <= Day(sub[u].claimed)
      BY <2>2 DEF DigestInv, NotYetSent
    <3>. QED
      BY <1>6, <1>7, <1>9, <3>1
  <2>. QED
    BY <1>2, <2>1, <2>2 DEF NotYetSent, Day
<1>14. OneRecapADay' /\ SavedAreDated' /\ SettledBefore'
  BY <1>2, <1>7 DEF DigestInv, OneRecapADay, SavedAreDated, SettledBefore, Day
<1>15. NoneTwice'
  <2>1. ASSUME NEW v \in Mornings, NEW r \in UnderWay(v)', NEW s \in settled[r.user]
        PROVE  signal[s].at <= r.since
    <3>1. CASE v = w
      BY <1>3, <1>5, <1>8, <2>1, <3>1 DEF DigestInv, SettledBefore
    <3>2. CASE v # w
      BY <1>5, <2>1, <3>2 DEF DigestInv, NoneTwice
    <3>. QED
      BY <3>1, <3>2
  <2>2. ASSUME NEW v \in Mornings, Sending(v)'
        PROVE  \A s \in hand[v].told : signal[s].saved /\ signal[s].at > hand[v].row.since
    BY <1>5, <2>2 DEF DigestInv, NoneTwice
  <2>. QED
    BY <1>2, <2>1, <2>2 DEF NoneTwice
<1>. QED
  BY <1>1, <1>2, <1>6, <1>11, <1>12, <1>13, <1>14, <1>15 DEF DigestInv

(* An email that is handed to the mail server is the first of its day.     *)
LEMMA SendRecapKeeps ==
  ASSUME DigestInv, NEW w \in Mornings, SendRecap(w)
  PROVE  DigestInv'
<1>. DigestTypeOK
  BY DEF DigestInv
<1>1. DigestTypeOK'
  BY SendRecapTyped DEF DigestInv
<1>. DEFINE row == hand[w].row
            d == Day(row.at)
<1>2. /\ hand[w].step = "SEND" /\ Sending(w) /\ row \in Row /\ row.user \in Readers
      /\ row \in InHand(w) /\ row \in UnderWay(w) /\ row \in Unsent(w)
  BY DigestTyped DEF SendRecap, Sending, InHand, UnderWay, Unsent
<1>3. /\ UNCHANGED <<now, sub, signal, settled>>
      /\ rows' = rows \/ rows' = [rows EXCEPT ![w] = {}]
      /\ hand' = [hand EXCEPT ![w].step = "MARK"] \/ hand' = [hand EXCEPT ![w] = Idle]
      /\ mails' = mails \/ mails' = [mails EXCEPT ![row.user][d] = @ + 1]
  BY DEF SendRecap
<1>4. /\ \A v \in Mornings : rows'[v] \subseteq rows[v]
      /\ \A v \in Mornings : v # w => hand'[v] = hand[v]
  BY <1>3 DEF DigestTypeOK
<1>5. \/ hand'[w].step = "MARK" /\ hand'[w].row = hand[w].row /\ hand'[w].told = hand[w].told
      \/ hand'[w].step = "IDLE"
  <2>1. hand[w] \in [step : {"SEND", "MARK"}, row : Row, told : SUBSET Signals]
    BY <1>2 DEF DigestTypeOK, Hand, Idle
  <2>2. CASE hand' = [hand EXCEPT ![w].step = "MARK"]
    BY <2>1, <2>2 DEF DigestTypeOK
  <2>3. CASE hand' = [hand EXCEPT ![w] = Idle]
    BY <2>3 DEF DigestTypeOK, Idle
  <2>. QED
    BY <1>3, <2>2, <2>3
<1>6. /\ \A v \in Mornings : InHand(v)' \subseteq InHand(v)
      /\ \A v \in Mornings : Sending(v)' => Sending(v) /\ hand'[v].row = hand[v].row /\ hand'[v].told = hand[v].told
      /\ \A v \in Mornings : v # w => Unsent(v)' \subseteq Unsent(v)
      /\ Unsent(w)' \subseteq rows[w]
  <2>1. \A v \in Mornings : v # w => InHand(v)' = InHand(v) /\ Sending(v)' = Sending(v)
    BY <1>4 DEF InHand, Sending
  <2>2. InHand(w)' \subseteq InHand(w)
    BY <1>2, <1>5 DEF InHand, Sending
  <2>3. Sending(w)' => hand'[w].row = hand[w].row /\ hand'[w].told = hand[w].told
    BY <1>5 DEF Sending
  <2>4. Unsent(w)' \subseteq rows[w]
    BY <1>4, <1>5 DEF Unsent
  <2>5. \A v \in Mornings : v # w => Unsent(v)' \subseteq Unsent(v)
    BY <1>4 DEF Unsent
  <2>. QED
    BY <1>2, <1>4, <2>1, <2>2, <2>3, <2>4, <2>5
<1>7. NoneAdded
  BY <1>4, <1>6 DEF NoneAdded, UnderWay
<1>8. \A v \in Mornings : InHand(v)' \cap rows'[v] = {}
  BY <1>4, <1>6 DEF DigestInv, OneUnderWay
<1>9. OfToday' /\ OneUnderWay'
  BY <1>3, <1>7, <1>8, SameRecaps
<1>10. \A v \in Mornings : \A r \in Unsent(v)' : r \in Unsent(v) /\ r.user \in Readers /\ r.user # row.user
  <2>1. ASSUME NEW v \in Mornings, NEW r \in Unsent(v)'
        PROVE  r \in Unsent(v) /\ r \in UnderWay(v) /\ (v = w => r \in rows[w])
    BY <1>6, <2>1 DEF Unsent, UnderWay, InHand, Sending
  <2>2. \A v \in Mornings : \A r \in UnderWay(v) : r.user = row.user => v = w /\ r = row
    BY <1>2 DEF DigestInv, OneUnderWay
  <2>3. row \notin rows[w]
    BY <1>2 DEF DigestInv, OneUnderWay
  <2>. QED
    BY <2>1, <2>2, <2>3, DigestTyped
<1>11. /\ \A u \in Readers : u # row.user => mails'[u] = mails[u]
       /\ \A x \in 0..Day(LastTick) : x # d => mails'[row.user][x] = mails[row.user][x]
       /\ mails[row.user][d] = 0
       /\ d \in 0..Day(LastTick) => mails'[row.user][d] \in {0, 1}
  <2>1. mails \in [Readers -> [0..Day(LastTick) -> Nat]] /\ mails[row.user][d] = 0
    BY <1>2 DEF DigestTypeOK, DigestInv, NotYetSent
  <2>2. CASE mails' = mails
    BY <2>1, <2>2
  <2>3. CASE mails' = [mails EXCEPT ![row.user][d] = @ + 1]
    BY <1>2, <2>1, <2>3
  <2>. QED
    BY <1>3, <2>2, <2>3
<1>12. d = Day(now) /\ Day(sub[row.user].claimed) = d /\ d \in Int
  BY <1>2, DayFacts, DigestTyped DEF DigestInv, OfToday
<1>13. NotYetSent'
  <2>1. ASSUME NEW v \in Mornings, NEW r \in Unsent(v)'
        PROVE  mails'[r.user][Day(r.at)] = 0
    BY <1>10, <1>11, <2>1 DEF DigestInv, NotYetSent
  <2>2. ASSUME NEW u \in Readers, NEW x \in 0..Day(LastTick), mails'[u][x] # 0
        PROVE  x <= Day(sub[u].claimed)
    BY <1>11, <1>12, <2>2 DEF DigestInv, NotYetSent
  <2>. QED
    BY <1>3, <2>1, <2>2 DEF NotYetSent, Day
<1>14. OneRecapADay'
  BY <1>2, <1>11 DEF DigestInv, OneRecapADay, Day
<1>15. SavedAreDated' /\ SettledBefore'
  BY <1>3 DEF DigestInv, SavedAreDated, SettledBefore
<1>16. NoneTwice'
  BY <1>3, <1>6, <1>7 DEF DigestInv, NoneTwice, NoneAdded
<1>. QED
  BY <1>1, <1>3, <1>9, <1>13, <1>14, <1>15, <1>16 DEF DigestInv

(* A recap that is recorded: no other of its reader is under way.          *)
LEMMA MarkKeeps ==
  ASSUME DigestInv, NEW w \in Mornings, Mark(w)
  PROVE  DigestInv'
<1>. DigestTypeOK
  BY DEF DigestInv
<1>1. DigestTypeOK'
  BY MarkTyped DEF DigestInv
<1>. DEFINE row == hand[w].row
            told == {s \in hand[w].told : signal[s].at <= row.at}
<1>2. /\ Sending(w) /\ row \in Row /\ row.user \in Readers /\ hand[w].told \subseteq Signals
      /\ row \in InHand(w) /\ row \in UnderWay(w) /\ row.at \in Int /\ row.since \in Int
  BY DigestTyped DEF Mark, Sending, InHand, UnderWay
<1>3. /\ UNCHANGED <<now, signal, rows, mails>>
      /\ hand' = [hand EXCEPT ![w] = Idle]
      /\ sub' = [sub EXCEPT ![row.user].checked = row.at]
      /\ settled' = [settled EXCEPT ![row.user] = @ \cup told]
  BY DEF Mark, MarkedAt
<1>4. /\ \A u \in Readers : sub'[u].claimed = sub[u].claimed
      /\ \A u \in Readers : u # row.user => sub'[u] = sub[u]
      /\ sub'[row.user].checked = row.at
  BY <1>2, <1>3 DEF DigestTypeOK, Subscription
<1>5. /\ \A u \in Readers : u # row.user => settled'[u] = settled[u]
      /\ settled'[row.user] = settled[row.user] \cup told
  BY <1>2, <1>3 DEF DigestTypeOK
<1>6. /\ \A v \in Mornings : v # w => hand'[v] = hand[v]
      /\ ~Sending(w)' /\ hand'[w].step = "IDLE"
  BY <1>3 DEF DigestTypeOK, Idle, Sending
<1>. HIDE DEF told
<1>7. /\ \A v \in Mornings : UnderWay(v)' \subseteq UnderWay(v) /\ Unsent(v)' \subseteq Unsent(v)
      /\ \A v \in Mornings : InHand(v)' \subseteq InHand(v)
      /\ \A v \in Mornings : Sending(v)' => Sending(v) /\ hand'[v] = hand[v]
      /\ UnderWay(w)' = rows[w]
  <2>1. \A v \in Mornings : v # w => /\ UnderWay(v)' = UnderWay(v) /\ Unsent(v)' = Unsent(v)
                                     /\ InHand(v)' = InHand(v) /\ Sending(v)' = Sending(v)
    BY <1>3, <1>6 DEF UnderWay, Unsent, InHand, Sending
  <2>2. UnderWay(w)' = rows[w] /\ Unsent(w)' = rows[w] /\ InHand(w)' = {}
    BY <1>3, <1>6 DEF UnderWay, Unsent, InHand
  <2>3. rows[w] \subseteq UnderWay(w) /\ rows[w] \subseteq Unsent(w)
    BY DEF UnderWay, Unsent
  <2>. QED
    BY <1>6, <2>1, <2>2, <2>3
<1>8. \A v \in Mornings : InHand(v)' \cap rows'[v] = {}
  BY <1>3, <1>7 DEF DigestInv, OneUnderWay
<1>9. OfToday' /\ OneUnderWay'
  BY <1>3, <1>4, <1>7, <1>8, SameRecaps DEF NoneAdded
<1>10. NotYetSent'
  BY <1>3, <1>4, <1>7 DEF DigestInv, NotYetSent, Day
<1>11. OneRecapADay' /\ SavedAreDated'
  BY <1>3 DEF DigestInv, OneRecapADay, SavedAreDated, Day
<1>12. \A s \in told : signal[s].saved /\ signal[s].at <= row.at
  BY <1>2 DEF told, DigestInv, NoneTwice
<1>13. \A s \in settled[row.user] : signal[s].saved /\ signal[s].at <= row.at
  <2>1. \A s \in settled[row.user] : s \in Signals /\ signal[s].saved /\ signal[s].at <= row.since
    BY <1>2 DEF DigestInv, NoneTwice, SettledBefore, DigestTypeOK
  <2>2. \A s \in Signals : signal[s].at \in Int
    BY DigestTyped
  <2>3. row.since <= row.at
    BY <1>2 DEF DigestInv, OfToday
  <2>. QED
    BY <1>2, <2>1, <2>2, <2>3
<1>14. SettledBefore'
  BY <1>3, <1>4, <1>5, <1>12, <1>13 DEF DigestInv, SettledBefore
<1>15. NoneTwice'
  <2>1. ASSUME NEW v \in Mornings, NEW r \in UnderWay(v)'
        PROVE  r \in UnderWay(v) /\ r.user \in Readers /\ r.user # row.user
    <3>1. r \in UnderWay(v) /\ r.user \in Readers
      BY <1>7, <2>1, DigestTyped
    <3>2. r.user = row.user => v = w /\ r = row
      BY <1>2, <3>1 DEF DigestInv, OneUnderWay
    <3>3. v = w => r \in rows[w]
      BY <1>7, <2>1
    <3>4. row \notin rows[w]
      BY <1>2 DEF DigestInv, OneUnderWay
    <3>. QED
      BY <3>1, <3>2, <3>3, <3>4
  <2>. QED
    BY <1>3, <1>5, <1>7, <2>1 DEF DigestInv, NoneTwice
<1>. QED
  BY <1>1, <1>3, <1>9, <1>10, <1>11, <1>14, <1>15 DEF DigestInv

-----------------------------------------------------------------------------
LEMMA DigestInitHolds == DigestInit => DigestInv
<1>. SUFFICES ASSUME DigestInit
              PROVE  DigestInv
  OBVIOUS
<1>1. now = 1 /\ now \in Times /\ 0 \in Times
  BY DigestAssumption DEF DigestInit, Times
<1>2. \A u \in Readers : sub[u].on = FALSE /\ sub[u].checked = 0 /\ sub[u].claimed = 0 /\ settled[u] = {}
  BY DEF DigestInit
<1>3. \A w \in Mornings : rows[w] = {} /\ hand[w] = Idle /\ UnderWay(w) = {} /\ Unsent(w) = {} /\ InHand(w) = {}
  BY DEF DigestInit, UnderWay, Unsent, InHand, Sending, Idle
<1>4. \A u \in Readers : \A d \in 0..Day(LastTick) : mails[u][d] = 0
  BY DEF DigestInit
<1>5. \A s \in Signals : ~signal[s].saved
  BY DEF DigestInit
<1>6. DigestTypeOK
  <2>1. sub \in [Readers -> Subscription]
    BY <1>1 DEF DigestInit, Subscription
  <2>2. signal \in [Signals -> [at : Times, saved : BOOLEAN, open : BOOLEAN]]
    BY <1>1 DEF DigestInit
  <2>3. rows \in [Mornings -> SUBSET Row] /\ hand \in [Mornings -> Hand]
    BY DEF DigestInit, Hand
  <2>4. mails \in [Readers -> [0..Day(LastTick) -> Nat]] /\ settled \in [Readers -> SUBSET Signals]
    BY DEF DigestInit
  <2>. QED
    BY <1>1, <1>2, <2>1, <2>2, <2>3, <2>4 DEF DigestTypeOK
<1>7. OfToday /\ OneUnderWay /\ NotYetSent
  BY <1>3, <1>4 DEF OfToday, OneUnderWay, NotYetSent
<1>8. OneRecapADay /\ SavedAreDated /\ SettledBefore
  BY <1>2, <1>4, <1>5 DEF OneRecapADay, SavedAreDated, SettledBefore
<1>9. NoneTwice
  BY <1>3 DEF NoneTwice, Sending, Idle
<1>. QED
  BY <1>1, <1>6, <1>7, <1>8, <1>9 DEF DigestInv

LEMMA DigestStepKeeps == DigestInv /\ [DigestNext]_digestVars => DigestInv'
<1>. SUFFICES ASSUME DigestInv, [DigestNext]_digestVars
              PROVE  DigestInv'
  OBVIOUS
<1>1. ASSUME NEW w \in Mornings, NEW r \in rows[w], ReadSignals(w, r)
      PROVE  DigestInv'
  BY <1>1, ReadSignalsKeeps
<1>2. ASSUME NEW w \in Mornings,
             ClaimDigests(w) \/ SendRecap(w) \/ Mark(w) \/ MarkNothing(w) \/ DigestEnds(w)
      PROVE  DigestInv'
  BY <1>2, ClaimDigestsKeeps, SendRecapKeeps, MarkKeeps, EndsKeeps
<1>3. CASE UNCHANGED digestVars
  BY <1>3 DEF digestVars, DigestInv, DigestTypeOK, OfToday, OneUnderWay, NotYetSent, OneRecapADay,
              SavedAreDated, SettledBefore, NoneTwice, UnderWay, Unsent, InHand, Sending, Day
<1>. QED
  BY <1>1, <1>2, <1>3, MembersAndTime DEF DigestNext

(* Recaps under way are of today, one for a reader at most, and start      *)
(* after every signal that a recorded recap told.                          *)
THEOREM DigestInvariant == DigestSpec => []DigestInv
  BY DigestInitHolds, DigestStepKeeps, PTL DEF DigestSpec

(* No reader gets two emails of one day, whatever number of crons overlap, *)
(* die or are started again, and however often the subscription is stopped *)
(* and taken up (claim_morning_digests).                                   *)
THEOREM ReadersGetOneRecapADay == DigestSpec => []OneRecapADay
<1>1. DigestInv => OneRecapADay
  BY DEF DigestInv
<1>. QED
  BY <1>1, DigestInvariant, PTL

(* A signal that a recorded recap told is not in a later email: each recap *)
(* starts where the recorded one stopped (mark_morning_digest).            *)
THEOREM SignalsAreToldOnce == DigestSpec => ToldOnce
<1>. DEFINE Step == \A w \in Mornings : hand[w].step = "SEND" /\ mails' # mails /\ hand'[w] # hand[w]
                                     => hand[w].told \cap settled[hand[w].row.user] = {}
<1>1. DigestInv => Step
  <2>. SUFFICES ASSUME DigestInv, NEW w \in Mornings, hand[w].step = "SEND",
                       NEW s \in hand[w].told, s \in settled[hand[w].row.user]
                PROVE  FALSE
    OBVIOUS
  <2>1. hand[w].row \in UnderWay(w) /\ Sending(w)
    BY DEF UnderWay, InHand, Sending
  <2>2. signal[s].at \in Int /\ hand[w].row.since \in Int
    BY <2>1, DigestTyped DEF DigestInv
  <2>. QED
    BY <2>1, <2>2 DEF DigestInv, NoneTwice
<1>2. [][Step]_digestVars => ToldOnce
  BY PTL DEF ToldOnce
<1>. QED
  BY <1>1, <1>2, DigestInvariant, PTL

-----------------------------------------------------------------------------
(* Queues without doubles, and what is selected from them.                 *)

LEMMA ElementsOf ==
  ASSUME NEW T, NEW s \in Seq(T)
  PROVE  /\ Elements(s) \subseteq T /\ DOMAIN s = 1..Len(s) /\ Len(s) \in Nat
         /\ s = <<>> <=> Elements(s) = {}
         /\ \A i \in 1..Len(s) : s[i] \in Elements(s)
<1>1. DOMAIN s = 1..Len(s) /\ Len(s) \in Nat /\ \A i \in 1..Len(s) : s[i] \in T
  BY LenProperties
<1>2. s = <<>> => Len(s) = 0
  BY EmptySeq
<1>3. s # <<>> => Len(s) > 0
  BY <1>1, EmptySeq
<1>4. \A i \in 1..Len(s) : s[i] \in Elements(s)
  BY <1>1 DEF Elements
<1>5. Elements(s) \subseteq T /\ (Len(s) = 0 => Elements(s) = {})
  BY <1>1 DEF Elements
<1>6. s # <<>> => 1 \in 1..Len(s)
  BY <1>1, <1>3
<1>. QED
  BY <1>1, <1>2, <1>4, <1>5, <1>6

LEMMA AmongIs ==
  ASSUME NEW T, NEW s \in Seq(T), NEW S
  PROVE  /\ Among(s, S) \in Seq(T)
         /\ Elements(Among(s, S)) = Elements(s) \cap S
         /\ Distinct(s) => Distinct(Among(s, S))
<1>. DEFINE at == {i \in DOMAIN s : s[i] \in S}
            before(i) == {j \in at : j < i}
            nth(k) == CHOOSE i \in at : Cardinality(before(i)) = k - 1
            n == Cardinality(at)
            rank == [i \in at |-> Cardinality(before(i))]
<1>1. IsFiniteSet(at) /\ n \in Nat /\ at \subseteq Nat /\ at \subseteq DOMAIN s
  <2>5. DOMAIN s = 1..Len(s) /\ Len(s) \in Nat
    BY LenProperties
  <2>1. IsFiniteSet(1..Len(s)) /\ at \subseteq 1..Len(s)
    BY <2>5, FS_Interval
  <2>2. IsFiniteSet(at)
    BY <2>1, FS_Subset
  <2>3. n \in Nat
    BY <2>2, FS_CardinalityType
  <2>4. at \subseteq DOMAIN s /\ at \subseteq Nat
    BY <2>5, <2>1
  <2>. QED
    BY <2>2, <2>3, <2>4, Zenon
<1>. HIDE DEF at, n
<1>2. \A i \in at : rank[i] \in 0..(n - 1)
  <2>1. ASSUME NEW i \in at
        PROVE  Cardinality(before(i)) \in 0..(n - 1)
    <3>1. before(i) \in SUBSET at /\ i \notin before(i)
      BY <1>1
    <3>2. IsFiniteSet(before(i)) /\ Cardinality(before(i)) <= n /\ Cardinality(before(i)) # n
      BY <1>1, <2>1, <3>1, FS_Subset DEF n
    <3>. QED
      BY <1>1, <3>2, FS_CardinalityType
  <2>. QED
    BY <2>1
<1>3. \A i, j \in at : i < j => rank[i] < rank[j]
  <2>1. ASSUME NEW i \in at, NEW j \in at, i < j
        PROVE  Cardinality(before(i)) < Cardinality(before(j))
    <3>5. i \in Nat /\ j \in Nat /\ \A x \in before(i) : x \in at /\ x \in Nat /\ x < i
      BY <1>1
    <3>1. before(i) \in SUBSET before(j) /\ i \in before(j) /\ i \notin before(i)
      <4>1. \A x \in before(i) : x < j
        BY <2>1, <3>5
      <4>2. i \in before(j)
        BY <2>1
      <4>3. i \notin before(i)
        BY <3>5
      <4>. QED
        BY <3>5, <4>1, <4>2, <4>3
    <3>2. IsFiniteSet(before(j))
      <4>1. before(j) \in SUBSET at
        OBVIOUS
      <4>. HIDE DEF before
      <4>. QED
        BY <1>1, <4>1, FS_Subset
    <3>3. Cardinality(before(i)) <= Cardinality(before(j)) /\ Cardinality(before(i)) # Cardinality(before(j))
      BY <3>1, <3>2, FS_Subset
    <3>4. Cardinality(before(i)) \in Nat /\ Cardinality(before(j)) \in Nat
      BY <3>1, <3>2, FS_Subset, FS_CardinalityType
    <3>. QED
      BY <3>3, <3>4
  <2>. QED
    BY <2>1
<1>4. \A i, j \in at : rank[i] = rank[j] => i = j
  <2>1. \A i, j \in at : i = j \/ i < j \/ j < i
    BY <1>1
  <2>2. \A i \in at : rank[i] \in Int
    BY <1>1, <1>2
  <2>. HIDE DEF rank
  <2>. QED
    BY <1>3, <2>1, <2>2
<1>5. rank \in Injection(at, 0..(n - 1))
  <2>1. rank \in [at -> 0..(n - 1)]
    BY <1>2
  <2>. QED
    BY <1>4, <2>1 DEF Injection, IsInjective
<1>6. \A k \in 0..(n - 1) : \E i \in at : rank[i] = k
  <2>1. IsFiniteSet(0..(n - 1)) /\ Cardinality(0..(n - 1)) = n
    BY <1>1, FS_Interval
  <2>2. rank \in Surjection(at, 0..(n - 1))
    BY <1>5, <2>1, FS_Injection DEF n
  <2>. QED
    BY <2>2 DEF Surjection
<1>7. \A k \in 1..n : nth(k) \in at /\ rank[nth(k)] = k - 1
  <2>1. ASSUME NEW k \in 1..n
        PROVE  \E i \in at : Cardinality(before(i)) = k - 1
    <3>1. k - 1 \in 0..(n - 1)
      BY <1>1
    <3>. QED
      BY <1>6, <3>1
  <2>2. \A k \in 1..n : nth(k) \in at /\ Cardinality(before(nth(k))) = k - 1
    BY <2>1
  <2>. HIDE DEF nth
  <2>. QED
    BY <2>2
<1>8. \A i \in at : rank[i] + 1 \in 1..n /\ nth(rank[i] + 1) = i
  <2>1. \A i \in at : rank[i] + 1 \in 1..n /\ (rank[i] + 1) - 1 = rank[i]
    BY <1>1, <1>2
  <2>. HIDE DEF nth, rank
  <2>. QED
    BY <1>4, <1>7, <2>1
<1>9. \A k, l \in 1..n : nth(k) = nth(l) => k = l
  <2>. HIDE DEF nth, rank
  <2>. QED
    BY <1>1, <1>7
<1>10. Among(s, S) = [k \in 1..n |-> s[nth(k)]]
  BY DEF Among, at, n
<1>. HIDE DEF nth, rank
<1>11. Among(s, S) \in [1..n -> T]
  <2>1. \A k \in 1..n : s[nth(k)] \in T
    BY <1>1, <1>7, LenProperties
  <2>. QED
    BY <1>10, <2>1
<1>12. Among(s, S) \in Seq(T)
  BY <1>1, <1>11, SeqDef
<1>13. \A k \in 1..n : Among(s, S)[k] = s[nth(k)] /\ s[nth(k)] \in S
  BY <1>7, <1>10 DEF at
<1>14. Elements(Among(s, S)) = Elements(s) \cap S
  <2>1. Elements(Among(s, S)) = {s[nth(k)] : k \in 1..n}
    BY <1>10, <1>11 DEF Elements
  <2>2. Elements(s) \cap S = {s[i] : i \in at}
    BY DEF Elements, at
  <2>. QED
    BY <1>7, <1>8, <2>1, <2>2
<1>15. ASSUME Distinct(s)
       PROVE  Distinct(Among(s, S))
  <2>1. ASSUME NEW k \in 1..n, NEW l \in 1..n, k # l
        PROVE  Among(s, S)[k] # Among(s, S)[l]
    BY <1>1, <1>7, <1>9, <1>13, <1>15, <2>1 DEF Distinct
  <2>. QED
    BY <1>11, <2>1 DEF Distinct
<1>. QED
  BY <1>12, <1>14, <1>15

LEMMA FirstOfIs ==
  ASSUME NEW T, NEW s \in Seq(T), NEW n \in Int
  PROVE  /\ FirstOf(s, n) \in Seq(T)
         /\ Elements(FirstOf(s, n)) \subseteq Elements(s)
         /\ Distinct(s) => Distinct(FirstOf(s, n))
<1>. DEFINE m == IF Len(s) < n THEN Len(s) ELSE n
            t == SubSeq(s, 1, m)
<1>1. DOMAIN s = 1..Len(s) /\ Len(s) \in Nat /\ \A i \in 1..Len(s) : s[i] \in T
  BY LenProperties
<1>2. m \in Int /\ m <= Len(s)
  BY <1>1
<1>. HIDE DEF m
<1>3. \A i \in 1..m : i \in 1..Len(s) /\ s[i] \in T
  BY <1>1, <1>2
<1>4. /\ t \in Seq(T) /\ Len(t) = IF 1 <= m THEN m - 1 + 1 ELSE 0
      /\ \A i \in 1..(m - 1 + 1) : t[i] = s[1 + i - 1]
  BY <1>2, <1>3, SubSeqProperties
<1>. HIDE DEF t
<1>5. DOMAIN t = 1..Len(t) /\ Len(t) \in Nat
  BY <1>4, LenProperties
<1>6. \A i \in DOMAIN t : i \in DOMAIN s /\ t[i] = s[i]
  BY <1>1, <1>2, <1>3, <1>4, <1>5
<1>7. Elements(t) \subseteq Elements(s)
  BY <1>6 DEF Elements
<1>8. Distinct(s) => Distinct(t)
  BY <1>6 DEF Distinct
<1>. QED
  BY <1>4, <1>7, <1>8 DEF FirstOf, t, m

LEMMA JoinIs ==
  ASSUME NEW T, NEW s \in Seq(T), NEW t \in Seq(T)
  PROVE  /\ s \o t \in Seq(T)
         /\ Elements(s \o t) = Elements(s) \cup Elements(t)
         /\ Distinct(s) /\ Distinct(t) /\ Elements(s) \cap Elements(t) = {} => Distinct(s \o t)
<1>. DEFINE u == s \o t
<1>1. /\ u \in Seq(T) /\ Len(u) = Len(s) + Len(t)
      /\ \A i \in 1..(Len(s) + Len(t)) : u[i] = IF i <= Len(s) THEN s[i] ELSE t[i - Len(s)]
  BY ConcatProperties
<1>. HIDE DEF u
<1>2. /\ DOMAIN s = 1..Len(s) /\ DOMAIN t = 1..Len(t) /\ DOMAIN u = 1..Len(u)
      /\ Len(s) \in Nat /\ Len(t) \in Nat
  BY <1>1, LenProperties
<1>3. \A i \in DOMAIN u :
        \/ i \in DOMAIN s /\ u[i] = s[i]
        \/ i > Len(s) /\ i - Len(s) \in DOMAIN t /\ u[i] = t[i - Len(s)]
  <2>1. ASSUME NEW i \in DOMAIN u, i <= Len(s)
        PROVE  i \in DOMAIN s /\ u[i] = s[i]
    <3>1. i \in 1..(Len(s) + Len(t))
      BY <1>1, <1>2
    <3>2. i \in DOMAIN s
      BY <1>2, <2>1, <3>1
    <3>. QED
      BY <1>1, <2>1, <3>1, <3>2
  <2>2. ASSUME NEW i \in DOMAIN u, ~(i <= Len(s))
        PROVE  i > Len(s) /\ i - Len(s) \in DOMAIN t /\ u[i] = t[i - Len(s)]
    <3>1. i \in 1..(Len(s) + Len(t))
      BY <1>1, <1>2
    <3>2. i > Len(s) /\ i - Len(s) \in DOMAIN t
      BY <1>2, <2>2, <3>1
    <3>. QED
      BY <1>1, <2>2, <3>1, <3>2
  <2>. QED
    BY <2>1, <2>2
<1>4. \A i \in DOMAIN s : i \in DOMAIN u /\ u[i] = s[i]
  BY <1>1, <1>2
<1>5. \A i \in DOMAIN t : i + Len(s) \in DOMAIN u /\ u[i + Len(s)] = t[i]
  BY <1>1, <1>2
<1>6. Elements(u) = Elements(s) \cup Elements(t)
  BY <1>3, <1>4, <1>5 DEF Elements
<1>7. ASSUME Distinct(s), Distinct(t), Elements(s) \cap Elements(t) = {}
      PROVE  Distinct(u)
  <2>1. ASSUME NEW i \in DOMAIN u, NEW j \in DOMAIN u, i # j
        PROVE  u[i] # u[j]
    <3>1. CASE i \in DOMAIN s /\ u[i] = s[i] /\ j \in DOMAIN s /\ u[j] = s[j]
      BY <1>7, <2>1, <3>1 DEF Distinct
    <3>2. CASE /\ i > Len(s) /\ i - Len(s) \in DOMAIN t /\ u[i] = t[i - Len(s)]
               /\ j > Len(s) /\ j - Len(s) \in DOMAIN t /\ u[j] = t[j - Len(s)]
      <4>1. i - Len(s) # j - Len(s)
        BY <1>2, <2>1
      <4>. QED
        BY <1>7, <3>2, <4>1 DEF Distinct
    <3>3. CASE /\ i \in DOMAIN s /\ u[i] = s[i] /\ j - Len(s) \in DOMAIN t /\ u[j] = t[j - Len(s)]
      BY <1>7, <3>3 DEF Elements
    <3>4. CASE /\ j \in DOMAIN s /\ u[j] = s[j] /\ i - Len(s) \in DOMAIN t /\ u[i] = t[i - Len(s)]
      BY <1>7, <3>4 DEF Elements
    <3>. QED
      BY <1>3, <3>1, <3>2, <3>3, <3>4
  <2>. QED
    BY <2>1 DEF Distinct
<1>. QED
  BY <1>1, <1>6, <1>7 DEF u

LEMMA AddedIs ==
  ASSUME NEW T, NEW s \in Seq(T), NEW x \in T
  PROVE  /\ Append(s, x) \in Seq(T)
         /\ Elements(Append(s, x)) = Elements(s) \cup {x}
         /\ Distinct(s) /\ x \notin Elements(s) => Distinct(Append(s, x))
<1>. DEFINE u == Append(s, x)
<1>1. /\ u \in Seq(T) /\ Len(u) = Len(s) + 1 /\ \A i \in 1..Len(s) : u[i] = s[i]
      /\ u[Len(s) + 1] = x
  BY AppendProperties
<1>. HIDE DEF u
<1>2. DOMAIN s = 1..Len(s) /\ DOMAIN u = 1..(Len(s) + 1) /\ Len(s) \in Nat
  BY <1>1, LenProperties
<1>3. \A i \in DOMAIN u : (i \in DOMAIN s /\ u[i] = s[i]) \/ (i = Len(s) + 1 /\ u[i] = x)
  BY <1>1, <1>2
<1>4. Len(s) + 1 \in DOMAIN u /\ \A i \in DOMAIN s : i \in DOMAIN u /\ u[i] = s[i]
  BY <1>1, <1>2
<1>5. Elements(u) = Elements(s) \cup {x}
  BY <1>1, <1>3, <1>4 DEF Elements
<1>6. ASSUME Distinct(s), x \notin Elements(s)
      PROVE  Distinct(u)
  BY <1>3, <1>6 DEF Distinct, Elements
<1>. QED
  BY <1>1, <1>5, <1>6 DEF u

LEMMA TailIs ==
  ASSUME NEW T, NEW s \in Seq(T), s # <<>>
  PROVE  /\ Head(s) \in T /\ Head(s) \in Elements(s)
         /\ Tail(s) \in Seq(T) /\ Elements(Tail(s)) \subseteq Elements(s)
         /\ Distinct(s) => Distinct(Tail(s)) /\ Head(s) \notin Elements(Tail(s))
<1>. DEFINE t == Tail(s)
<1>1. /\ t \in Seq(T) /\ Len(t) = Len(s) - 1 /\ \A i \in 1..Len(t) : t[i] = s[i + 1]
      /\ Len(s) \in Nat \ {0} /\ Head(s) = s[1]
  <2>1. t \in Seq(T) /\ Len(t) = Len(s) - 1 /\ \A i \in 1..Len(t) : t[i] = s[i + 1]
    BY HeadTailProperties
  <2>2. Len(s) \in Nat \ {0}
    BY EmptySeq
  <2>3. Head(s) = s[1]
    OBVIOUS
  <2>. QED
    BY <2>1, <2>2, <2>3, Zenon
<1>. HIDE DEF t
<1>2. DOMAIN s = 1..Len(s) /\ DOMAIN t = 1..(Len(s) - 1) /\ 1 \in DOMAIN s /\ \A i \in DOMAIN s : s[i] \in T
  BY <1>1, LenProperties
<1>3. \A i \in DOMAIN t : i + 1 \in DOMAIN s /\ i + 1 # 1 /\ t[i] = s[i + 1]
  BY <1>1, <1>2
<1>4. Elements(t) \subseteq Elements(s) /\ Head(s) \in Elements(s) /\ Head(s) \in T
  BY <1>1, <1>2, <1>3 DEF Elements
<1>5. ASSUME Distinct(s)
      PROVE  Distinct(t) /\ Head(s) \notin Elements(t)
  <2>1. Head(s) \notin Elements(t)
    BY <1>1, <1>2, <1>3, <1>5 DEF Distinct, Elements
  <2>2. ASSUME NEW i \in DOMAIN t, NEW j \in DOMAIN t, i # j
        PROVE  t[i] # t[j]
    <3>1. i + 1 # j + 1
      BY <1>2, <2>2
    <3>. QED
      BY <1>3, <1>5, <3>1 DEF Distinct
  <2>. QED
    BY <2>1, <2>2 DEF Distinct
<1>. QED
  BY <1>1, <1>4, <1>5 DEF t

-----------------------------------------------------------------------------
(* What an invocation has to do is running, held once, and not lapsed.     *)
Leased ==
  \A w \in Crons : /\ Distinct(batch[w])
                  /\ \A p \in Elements(batch[w]) : HasRun(p) /\ p \notin Elements(lapsed)
MonitorsInv == MonitorsTypeOK /\ Leased /\ OneInvocationPerRun

LEMMA MonitorsStayTyped ==
  ASSUME MonitorsTypeOK, monitor' \in [Prospects -> {"OFF", "ON", "inactive", "member_left"}],
         dueList' \in Seq(Prospects), Distinct(dueList'),
         \A p \in Elements(dueList') : monitor'[p] # "OFF",
         UNCHANGED <<asker, keyUsed, takes, lapsed, batch>>
  PROVE  MonitorsTypeOK'
BY DEF MonitorsTypeOK, Elements, Distinct, HasRun

LEMMA MembersKeep ==
  ASSUME MonitorsInv, NEW p \in Prospects, StartMonitoring(p) \/ StopMonitoring(p) \/ FallsDue(p)
  PROVE  MonitorsInv'
<1>1. MonitorsTypeOK /\ dueList \in Seq(Prospects) /\ Distinct(dueList)
  BY DEF MonitorsInv, MonitorsTypeOK
<1>2. UNCHANGED <<asker, keyUsed, takes, lapsed, batch>>
  BY DEF StartMonitoring, StopMonitoring, FallsDue
<1>3. \A q \in Elements(dueList) : q \in Prospects /\ monitor[q] # "OFF"
  BY <1>1, ElementsOf DEF MonitorsTypeOK
<1>4. monitor' \in [Prospects -> {"OFF", "ON", "inactive", "member_left"}]
  BY <1>1 DEF MonitorsTypeOK, StartMonitoring, StopMonitoring, FallsDue
<1>5. dueList' \in Seq(Prospects) /\ Distinct(dueList') /\ \A q \in Elements(dueList') : monitor'[q] # "OFF"
  <2>1. CASE StartMonitoring(p)
    <3>1. monitor' = [monitor EXCEPT ![p] = "ON"]
      BY <2>1 DEF StartMonitoring
    <3>2. \A q \in Elements(dueList) \cup {p} : monitor'[q] # "OFF"
      BY <1>1, <1>3, <3>1 DEF MonitorsTypeOK
    <3>3. CASE monitor[p] = "OFF"
      <4>1. p \notin Elements(dueList) /\ dueList' = Append(dueList, p)
        BY <1>3, <2>1, <3>3 DEF StartMonitoring
      <4>. QED
        BY <1>1, <3>2, <4>1, AddedIs
    <3>4. CASE monitor[p] # "OFF"
      BY <1>1, <2>1, <3>2, <3>4 DEF StartMonitoring
    <3>. QED
      BY <3>3, <3>4
  <2>2. CASE StopMonitoring(p)
    <3>1. monitor' = [monitor EXCEPT ![p] = "OFF"] /\ dueList' = Among(dueList, Prospects \ {p})
      BY <2>2 DEF StopMonitoring
    <3>2. dueList' \in Seq(Prospects) /\ Distinct(dueList') /\ Elements(dueList') = Elements(dueList) \cap (Prospects \ {p})
      BY <1>1, <3>1, AmongIs
    <3>3. \A q \in Elements(dueList') : monitor'[q] # "OFF"
      BY <1>1, <1>3, <3>1, <3>2 DEF MonitorsTypeOK
    <3>. QED
      BY <3>2, <3>3
  <2>3. CASE FallsDue(p)
    <3>1. /\ monitor[p] # "OFF" /\ p \notin Elements(dueList)
          /\ dueList' = Append(dueList, p) /\ monitor' = monitor
      BY <2>3 DEF FallsDue
    <3>2. dueList' \in Seq(Prospects) /\ Distinct(dueList') /\ Elements(dueList') = Elements(dueList) \cup {p}
      BY <1>1, <3>1, AddedIs
    <3>. QED
      BY <1>3, <3>1, <3>2
  <2>. QED
    BY <2>1, <2>2, <2>3
<1>6. MonitorsTypeOK'
  BY <1>1, <1>2, <1>4, <1>5, MonitorsStayTyped
<1>7. Leased' /\ OneInvocationPerRun'
  BY <1>2 DEF MonitorsInv, Leased, OneInvocationPerRun, Elements, Distinct, HasRun
<1>. QED
  BY <1>6, <1>7 DEF MonitorsInv

LEMMA ClockKeeps ==
  ASSUME MonitorsInv, \/ DayBegins
                      \/ \E u \in Askers, a \in AskerStates : AskerIs(u, a)
  PROVE  MonitorsInv'
<1>1. UNCHANGED <<monitor, dueList, takes, lapsed, batch>>
  BY DEF DayBegins, AskerIs
<1>2. keyUsed' \subseteq Prospects /\ asker' \in [Askers -> {"ACTIVE", "AWAY", "LEFT"}]
  BY MonitorsAssumption DEF DayBegins, AskerIs, MonitorsInv, MonitorsTypeOK
<1>3. MonitorsTypeOK'
  BY <1>1, <1>2 DEF MonitorsInv, MonitorsTypeOK, Elements, Distinct, HasRun
<1>4. Leased' /\ OneInvocationPerRun'
  BY <1>1 DEF MonitorsInv, Leased, OneInvocationPerRun, Elements, Distinct, HasRun
<1>. QED
  BY <1>3, <1>4 DEF MonitorsInv

(* A lease lapses when no invocation holds the run.                        *)
LEMMA LapseKeeps ==
  ASSUME MonitorsInv, NEW p \in Prospects, LeaseLapses(p)
  PROVE  MonitorsInv'
<1>1. /\ UNCHANGED <<monitor, asker, dueList, keyUsed, takes, batch>> /\ HasRun(p)
      /\ p \notin Elements(lapsed) /\ lapsed' = Append(lapsed, p)
      /\ \A w \in Crons : p \notin Elements(batch[w])
  BY DEF LeaseLapses, table, Held
<1>2. lapsed \in Seq(Prospects) /\ Distinct(lapsed)
  BY DEF MonitorsInv, MonitorsTypeOK
<1>3. lapsed' \in Seq(Prospects) /\ Distinct(lapsed') /\ Elements(lapsed') = Elements(lapsed) \cup {p}
  BY <1>1, <1>2, AddedIs
<1>4. \A q \in Elements(lapsed') : takes[q] > 0
  BY <1>1, <1>3 DEF MonitorsInv, MonitorsTypeOK, HasRun
<1>. HIDE DEF HasRun
<1>5. MonitorsTypeOK'
  <2>1. /\ takes' = takes /\ \A q \in Elements(dueList) : monitor[q] # "OFF"
        /\ Elements(dueList)' = Elements(dueList) /\ (Distinct(dueList) <=> Distinct(dueList'))
    BY <1>1 DEF MonitorsInv, MonitorsTypeOK, Elements
  <2>2. Elements(lapsed)' = Elements(lapsed')
    BY DEF Elements
  <2>. QED
    BY <1>1, <1>3, <1>4, <2>1, <2>2 DEF MonitorsInv, MonitorsTypeOK, HasRun
<1>6. Leased' /\ OneInvocationPerRun'
  <2>1. \A w \in Crons : /\ Distinct(batch[w])
                         /\ \A q \in Elements(batch[w]) : HasRun(q) /\ q \notin Elements(lapsed')
    BY <1>1, <1>3 DEF MonitorsInv, Leased
  <2>2. \A w \in Crons : batch'[w] = batch[w]
    BY <1>1
  <2>3. \A q : HasRun(q)' <=> HasRun(q)
    BY <1>1 DEF HasRun
  <2>4. Leased'
    BY <2>1, <2>2, <2>3 DEF Leased, Elements, Distinct
  <2>5. OneInvocationPerRun'
    BY <2>2 DEF MonitorsInv, OneInvocationPerRun, Elements
  <2>. QED
    BY <2>4, <2>5
<1>. QED
  BY <1>5, <1>6 DEF MonitorsInv

LEMMA CloseRunKeeps ==
  ASSUME MonitorsInv, NEW w \in Crons, CloseRun(w) \/ Stops(w)
  PROVE  MonitorsInv'
<1>1. /\ UNCHANGED <<monitor, asker, dueList, keyUsed>> /\ batch[w] # <<>>
      /\ batch' = [batch EXCEPT ![w] = Tail(@)] \/ batch' = [batch EXCEPT ![w] = <<>>]
      /\ \/ UNCHANGED <<takes, lapsed>>
         \/ /\ takes' = [takes EXCEPT ![Head(batch[w])] = 0]
            /\ lapsed' = Among(lapsed, Prospects \ {Head(batch[w])})
            /\ batch' = [batch EXCEPT ![w] = Tail(@)]
  BY DEF CloseRun, Stops, table
<1>2. /\ batch \in [Crons -> Seq(Prospects)] /\ takes \in [Prospects -> 0..MaxTakes]
      /\ lapsed \in Seq(Prospects) /\ Distinct(lapsed)
      /\ \A v \in Crons : Distinct(batch[v])
      /\ \A v \in Crons : \A q \in Elements(batch[v]) : takes[q] > 0 /\ q \notin Elements(lapsed) /\ q \in Prospects
      /\ \A q \in Elements(lapsed) : takes[q] > 0 /\ q \in Prospects
  BY ElementsOf DEF MonitorsInv, MonitorsTypeOK, Leased, HasRun
<1>. DEFINE p == Head(batch[w])
<1>3. /\ p \in Prospects /\ p \in Elements(batch[w])
      /\ Tail(batch[w]) \in Seq(Prospects) /\ Elements(Tail(batch[w])) \subseteq Elements(batch[w])
      /\ Distinct(Tail(batch[w])) /\ p \notin Elements(Tail(batch[w]))
  BY <1>1, <1>2, TailIs
<1>. HIDE DEF p
<1>4. <<>> \in Seq(Prospects) /\ Elements(<<>>) = {} /\ Distinct(<<>>)
  BY DEF Elements, Distinct
<1>5. /\ batch' \in [Crons -> Seq(Prospects)]
      /\ \A v \in Crons : Distinct(batch'[v]) /\ Elements(batch'[v]) \subseteq Elements(batch[v])
  <2>1. CASE batch' = [batch EXCEPT ![w] = Tail(@)]
    BY <1>2, <1>3, <2>1
  <2>2. CASE batch' = [batch EXCEPT ![w] = <<>>]
    BY <1>2, <1>4, <2>2
  <2>. QED
    BY <1>1, <2>1, <2>2
<1>6. /\ lapsed' \in Seq(Prospects) /\ Distinct(lapsed') /\ takes' \in [Prospects -> 0..MaxTakes]
      /\ \A q \in Elements(lapsed') : takes'[q] > 0
      /\ \A v \in Crons : \A q \in Elements(batch'[v]) : takes'[q] > 0 /\ q \notin Elements(lapsed')
  <2>1. CASE UNCHANGED <<takes, lapsed>>
    BY <1>2, <1>5, <2>1
  <2>2. CASE /\ takes' = [takes EXCEPT ![p] = 0] /\ lapsed' = Among(lapsed, Prospects \ {p})
             /\ batch' = [batch EXCEPT ![w] = Tail(@)]
    <3>1. /\ lapsed' \in Seq(Prospects) /\ Distinct(lapsed')
          /\ Elements(lapsed') = Elements(lapsed) \cap (Prospects \ {p})
      BY <1>2, <2>2, AmongIs
    <3>2. takes' \in [Prospects -> 0..MaxTakes] /\ \A q \in Prospects \ {p} : takes'[q] = takes[q]
      <4>1. 0 \in 0..MaxTakes
        BY DEF MaxTakes
      <4>2. takes' = [takes EXCEPT ![p] = 0] /\ takes \in [Prospects -> 0..MaxTakes]
        BY <1>2, <2>2
      <4>. QED
        BY <4>1, <4>2
    <3>3. \A v \in Crons : p \notin Elements(batch'[v])
      <4>1. p \notin Elements(batch'[w])
        BY <1>2, <1>3, <2>2
      <4>2. \A v \in Crons : v # w => p \notin Elements(batch[v])
        BY <1>3 DEF MonitorsInv, OneInvocationPerRun
      <4>. QED
        BY <1>5, <4>1, <4>2
    <3>. QED
      BY <1>2, <1>5, <3>1, <3>2, <3>3
  <2>. QED
    BY <1>1, <2>1, <2>2 DEF p
<1>7. MonitorsTypeOK'
  <2>1. /\ \A q \in Elements(dueList) : monitor[q] # "OFF"
        /\ Elements(dueList)' = Elements(dueList) /\ (Distinct(dueList)' <=> Distinct(dueList))
    BY <1>1 DEF MonitorsInv, MonitorsTypeOK, Elements, Distinct
  <2>2. Elements(lapsed)' = Elements(lapsed') /\ (Distinct(lapsed)' <=> Distinct(lapsed'))
    BY DEF Elements, Distinct
  <2>. QED
    BY <1>1, <1>5, <1>6, <2>1, <2>2 DEF MonitorsInv, MonitorsTypeOK, HasRun
<1>8. Leased'
  BY <1>5, <1>6 DEF Leased, HasRun, Elements, Distinct
<1>9. OneInvocationPerRun'
  <2>1. \A u, v \in Crons : u # v => Elements(batch'[u]) \cap Elements(batch'[v]) = {}
    BY <1>5 DEF MonitorsInv, OneInvocationPerRun
  <2>. QED
    BY <2>1 DEF OneInvocationPerRun, Elements
<1>. QED
  BY <1>7, <1>8, <1>9 DEF MonitorsInv

(* The queue of a claim: what was due, then what is resumed.               *)
LEMMA DueNowIs ==
  ASSUME MonitorsTypeOK, NEW queue \in DueNow
  PROVE  queue \in Seq(Prospects) /\ Distinct(queue) /\ \A p \in Elements(queue) : monitor[p] # "OFF"
<1>. DEFINE back == {p \in Prospects : Resumed(p)} \ Elements(dueList)
            n == Cardinality(back)
<1>1. IsFiniteSet(back) /\ n \in Nat
  <2>1. back \in SUBSET Prospects
    OBVIOUS
  <2>. HIDE DEF back
  <2>. QED
    BY <2>1, MonitorsAssumption, FS_Subset, FS_CardinalityType
<1>2. PICK s \in {t \in [1..n -> back] : Elements(t) = back} : queue = dueList \o s
  BY DEF DueNow
<1>3. \A p \in back : p \in Prospects /\ monitor[p] # "OFF" /\ p \notin Elements(dueList)
  BY DEF Resumed
<1>. HIDE DEF back
<1>4. s \in Seq(Prospects)
  BY <1>1, <1>2, <1>3, SeqDef
<1>5. Distinct(s)
  <2>1. s \in Surjection(1..n, back)
    BY <1>2 DEF Surjection, Elements
  <2>2. IsFiniteSet(1..n) /\ Cardinality(1..n) = n
    BY <1>1, FS_Interval
  <2>. HIDE DEF n
  <2>3. s \in Injection(1..n, back)
    BY <2>1, <2>2, FS_SurjSameCardinalityImpliesInj DEF n
  <2>. QED
    BY <1>2, <2>3 DEF Injection, IsInjective, Distinct
<1>6. dueList \in Seq(Prospects) /\ Distinct(dueList) /\ \A p \in Elements(dueList) : monitor[p] # "OFF"
  BY DEF MonitorsTypeOK
<1>7. Elements(s) = back
  BY <1>2
<1>8. /\ queue \in Seq(Prospects) /\ Elements(queue) = Elements(dueList) \cup Elements(s)
      /\ Elements(dueList) \cap Elements(s) = {} => Distinct(queue)
  BY <1>2, <1>4, <1>5, <1>6, JoinIs
<1>. QED
  BY <1>3, <1>6, <1>7, <1>8

LEMMA ClaimMonitorsKeeps ==
  ASSUME MonitorsInv, NEW w \in Crons, ClaimMonitors(w)
  PROVE  MonitorsInv'
<1>20. PICK claim \in Claims :
         /\ dueList' = claim.due
         /\ keyUsed' = keyUsed \cup claim.keys
         /\ takes' = [p \in Prospects |-> CASE p \in Spent                -> 0
                                         [] p \in Elements(claim.todo) -> takes[p] + 1
                                         [] OTHER                      -> takes[p]]
         /\ batch' = [batch EXCEPT ![w] = claim.todo]
         /\ lapsed' = Among(lapsed, Prospects \ (Spent \cup Elements(claim.todo)))
  BY DEF ClaimMonitors
<1>. DEFINE runnable == {p \in Prospects : MayRun(p)}
<1>21. PICK t \in Taken : claim = [due |-> Among(t.queue, Prospects \ Elements(t.first)), keys |-> Elements(t.first) \ keyUsed,
                                  todo |-> Retaken \o Among(t.first, Prospects \ keyUsed)]
  BY DEF Claims
<1>22. PICK queue \in DueNow : t = [queue |-> queue, first |-> FirstOf(Among(queue, runnable), BatchLimit - Len(Retaken))]
  BY DEF Taken
<1>. DEFINE taken == FirstOf(Among(queue, runnable), BatchLimit - Len(Retaken))
            fresh == Among(taken, Prospects \ keyUsed)
            todo  == Retaken \o fresh
<1>23. t.queue = queue /\ t.first = taken
  BY <1>22
<1>24. /\ claim.due = Among(t.queue, Prospects \ Elements(t.first)) /\ claim.keys = Elements(t.first) \ keyUsed
       /\ claim.todo = Retaken \o Among(t.first, Prospects \ keyUsed)
  BY <1>21
<1>25. /\ claim.due = Among(queue, Prospects \ Elements(taken)) /\ claim.keys = Elements(taken) \ keyUsed
       /\ claim.todo = todo
  BY <1>23, <1>24
<1>26. batch[w] = <<>> /\ monitor' = [p \in Prospects |-> Paused(p)] /\ asker' = asker
  BY DEF ClaimMonitors
<1>. HIDE DEF taken, fresh, todo, runnable
<1>27. takes' = [p \in Prospects |-> CASE p \in Spent          -> 0
                                     [] p \in Elements(todo) -> takes[p] + 1
                                     [] OTHER                -> takes[p]]
  BY <1>20, <1>25
<1>28. lapsed' = Among(lapsed, Prospects \ (Spent \cup Elements(todo))) /\ batch' = [batch EXCEPT ![w] = todo]
  BY <1>20, <1>25
<1>29. /\ dueList' = Among(queue, Prospects \ Elements(taken))
       /\ keyUsed' = keyUsed \cup (Elements(taken) \ keyUsed)
  BY <1>20, <1>25
<1>1. /\ dueList' = Among(queue, Prospects \ Elements(taken))
      /\ keyUsed' = keyUsed \cup (Elements(taken) \ keyUsed)
      /\ takes' = [p \in Prospects |-> CASE p \in Spent          -> 0
                                      [] p \in Elements(todo) -> takes[p] + 1
                                      [] OTHER                -> takes[p]]
      /\ lapsed' = Among(lapsed, Prospects \ (Spent \cup Elements(todo)))
      /\ batch' = [batch EXCEPT ![w] = todo]
      /\ batch[w] = <<>> /\ monitor' = [p \in Prospects |-> Paused(p)] /\ asker' = asker
  BY <1>26, <1>27, <1>28, <1>29
<1>2. /\ batch \in [Crons -> Seq(Prospects)] /\ takes \in [Prospects -> 0..MaxTakes]
      /\ lapsed \in Seq(Prospects) /\ Distinct(lapsed) /\ keyUsed \subseteq Prospects
      /\ \A v \in Crons : Distinct(batch[v])
      /\ \A v \in Crons : \A q \in Elements(batch[v]) : takes[q] > 0 /\ q \notin Elements(lapsed) /\ q \in Prospects
      /\ \A q \in Elements(lapsed) : takes[q] > 0 /\ q \in Prospects
  BY ElementsOf DEF MonitorsInv, MonitorsTypeOK, Leased, HasRun
<1>3. queue \in Seq(Prospects) /\ Distinct(queue) /\ \A p \in Elements(queue) : monitor[p] # "OFF"
  BY DueNowIs DEF MonitorsInv
<1>4. /\ Retaken \in Seq(Prospects) /\ Distinct(Retaken)
      /\ \A p \in Elements(Retaken) : p \in Elements(lapsed) /\ takes[p] < MaxTakes
  <2>. DEFINE again == {p \in Prospects : takes[p] < MaxTakes}
  <2>1. /\ Among(lapsed, again) \in Seq(Prospects) /\ Distinct(Among(lapsed, again))
        /\ Elements(Among(lapsed, again)) = Elements(lapsed) \cap again
    BY <1>2, AmongIs
  <2>2. /\ Retaken \in Seq(Prospects) /\ Distinct(Retaken)
        /\ Elements(Retaken) \subseteq Elements(Among(lapsed, again))
    <3>1. Retaken = FirstOf(Among(lapsed, again), BatchLimit) /\ BatchLimit \in Int
      BY MonitorsAssumption DEF Retaken
    <3>. HIDE DEF again
    <3>. QED
      BY <2>1, <3>1, FirstOfIs
  <2>. QED
    BY <2>1, <2>2
<1>5. /\ taken \in Seq(Prospects) /\ Distinct(taken)
      /\ \A p \in Elements(taken) : p \in Elements(queue) /\ takes[p] = 0 /\ p \in Prospects
  <2>1. /\ Among(queue, runnable) \in Seq(Prospects) /\ Distinct(Among(queue, runnable))
        /\ Elements(Among(queue, runnable)) = Elements(queue) \cap runnable
    BY <1>3, AmongIs
  <2>2. BatchLimit - Len(Retaken) \in Int
    BY <1>4, LenProperties, MonitorsAssumption
  <2>3. /\ taken \in Seq(Prospects) /\ Distinct(taken)
        /\ Elements(taken) \subseteq Elements(Among(queue, runnable))
    BY <2>1, <2>2, FirstOfIs DEF taken
  <2>4. \A p \in runnable : takes[p] = 0 /\ p \in Prospects
    BY <1>2 DEF runnable, MayRun, HasRun
  <2>. QED
    BY <2>1, <2>3, <2>4
<1>6. /\ fresh \in Seq(Prospects) /\ Distinct(fresh)
      /\ \A p \in Elements(fresh) : takes[p] = 0 /\ p \in Prospects
  <2>1. /\ fresh \in Seq(Prospects) /\ Distinct(fresh)
        /\ Elements(fresh) = Elements(taken) \cap (Prospects \ keyUsed)
    BY <1>5, AmongIs DEF fresh
  <2>. QED
    BY <1>5, <2>1
<1>7. /\ todo \in Seq(Prospects) /\ Distinct(todo)
      /\ Elements(todo) = Elements(Retaken) \cup Elements(fresh)
  <2>1. Elements(Retaken) \cap Elements(fresh) = {}
    BY <1>2, <1>4, <1>6
  <2>. QED
    BY <1>4, <1>6, <2>1, JoinIs DEF todo
<1>8. /\ \A p \in Elements(todo) : p \in Prospects /\ p \notin Spent /\ takes[p] < MaxTakes
      /\ \A v \in Crons : \A p \in Elements(batch[v]) : p \notin Spent /\ p \notin Elements(todo)
      /\ Spent \subseteq Elements(lapsed)
  <2>1. \A p \in Spent : p \in Elements(lapsed) /\ takes[p] >= MaxTakes
    BY DEF Spent
  <2>2. \A p \in Elements(todo) : p \in Prospects /\ takes[p] < MaxTakes /\ (p \in Elements(lapsed) \/ takes[p] = 0)
    BY <1>2, <1>4, <1>6, <1>7 DEF MaxTakes
  <2>3. \A p \in Prospects : takes[p] \in Int
    BY <1>2
  <2>. QED
    BY <1>2, <2>1, <2>2, <2>3 DEF MaxTakes
<1>9. /\ takes' \in [Prospects -> 0..MaxTakes]
      /\ \A p \in Elements(todo) : takes'[p] > 0
      /\ \A p \in Prospects : p \notin Elements(todo) /\ p \notin Spent => takes'[p] = takes[p]
  <2>1. \A p \in Prospects : takes'[p] = IF p \in Spent THEN 0 ELSE IF p \in Elements(todo) THEN takes[p] + 1 ELSE takes[p]
    <3>1. takes' = [p \in Prospects |-> CASE p \in Spent          -> 0
                                        [] p \in Elements(todo) -> takes[p] + 1
                                        [] OTHER                -> takes[p]]
      BY <1>1
    <3>. QED
      BY <1>8, <3>1
  <2>2. \A p \in Prospects : takes[p] \in 0..MaxTakes
    BY <1>2
  <2>3. \A p \in Prospects : takes'[p] \in 0..MaxTakes
    BY <1>8, <2>1, <2>2 DEF MaxTakes
  <2>4. takes' \in [Prospects -> 0..MaxTakes]
    BY <1>1, <2>3
  <2>. QED
    BY <1>8, <2>1, <2>2, <2>4
<1>10. /\ lapsed' \in Seq(Prospects) /\ Distinct(lapsed')
       /\ Elements(lapsed') = Elements(lapsed) \cap (Prospects \ (Spent \cup Elements(todo)))
  BY <1>1, <1>2, AmongIs
<1>11. \A p \in Elements(lapsed') : takes'[p] > 0
  BY <1>2, <1>9, <1>10
<1>12. /\ dueList' \in Seq(Prospects) /\ Distinct(dueList')
       /\ Elements(dueList') = Elements(queue) \cap (Prospects \ Elements(taken))
  BY <1>1, <1>3, AmongIs
<1>13. monitor' \in [Prospects -> {"OFF", "ON", "inactive", "member_left"}]
  BY <1>1, MonitorsAssumption DEF MonitorsInv, MonitorsTypeOK, Paused, Resumed
<1>14. \A p \in Elements(dueList') : monitor'[p] # "OFF"
  <2>1. \A p \in Prospects : monitor[p] # "OFF" => Paused(p) # "OFF"
    BY MonitorsAssumption DEF MonitorsInv, MonitorsTypeOK, Paused, Resumed
  <2>. QED
    BY <1>1, <1>3, <1>12, <2>1
<1>15. batch' \in [Crons -> Seq(Prospects)] /\ batch'[w] = todo /\ \A v \in Crons : v # w => batch'[v] = batch[v]
  BY <1>1, <1>2, <1>7
<1>16. keyUsed' \subseteq Prospects
  BY <1>1, <1>2, <1>5
<1>17. MonitorsTypeOK'
  <2>1. /\ Elements(dueList)' = Elements(dueList') /\ (Distinct(dueList)' <=> Distinct(dueList'))
        /\ Elements(lapsed)' = Elements(lapsed') /\ (Distinct(lapsed)' <=> Distinct(lapsed'))
    BY DEF Elements, Distinct
  <2>2. asker' \in [Askers -> {"ACTIVE", "AWAY", "LEFT"}]
    BY <1>1 DEF MonitorsInv, MonitorsTypeOK
  <2>. QED
    BY <1>9, <1>10, <1>11, <1>12, <1>13, <1>14, <1>15, <1>16, <2>1, <2>2 DEF MonitorsTypeOK, HasRun
<1>18. Leased'
  <2>1. ASSUME NEW v \in Crons
        PROVE  Distinct(batch'[v]) /\ \A q \in Elements(batch'[v]) : takes'[q] > 0 /\ q \notin Elements(lapsed')
    <3>1. CASE v = w
      BY <1>7, <1>9, <1>10, <1>15, <3>1
    <3>2. CASE v # w
      BY <1>2, <1>8, <1>9, <1>10, <1>15, <2>1, <3>2
    <3>. QED
      BY <3>1, <3>2
  <2>. QED
    BY <2>1 DEF Leased, HasRun, Elements, Distinct
<1>19. OneInvocationPerRun'
  <2>1. \A v \in Crons : v # w => Elements(batch'[v]) \cap Elements(todo) = {}
    BY <1>8, <1>15
  <2>2. \A u, v \in Crons : u # v => Elements(batch'[u]) \cap Elements(batch'[v]) = {}
    BY <1>15, <2>1 DEF MonitorsInv, OneInvocationPerRun
  <2>. QED
    BY <2>2 DEF OneInvocationPerRun, Elements
<1>. QED
  BY <1>17, <1>18, <1>19 DEF MonitorsInv

-----------------------------------------------------------------------------
LEMMA MonitorsInitHolds == MonitorsInit => MonitorsInv
<1>. SUFFICES ASSUME MonitorsInit
              PROVE  MonitorsInv
  OBVIOUS
<1>1. <<>> \in Seq(Prospects) /\ Elements(<<>>) = {} /\ Distinct(<<>>)
  BY DEF Elements, Distinct
<1>2. MonitorsTypeOK
  BY <1>1 DEF MonitorsInit, MonitorsTypeOK, MaxTakes
<1>3. Leased /\ OneInvocationPerRun
  BY <1>1 DEF MonitorsInit, Leased, OneInvocationPerRun
<1>. QED
  BY <1>2, <1>3 DEF MonitorsInv

LEMMA MonitorsStepKeeps == MonitorsInv /\ [MonitorsNext]_monitorVars => MonitorsInv'
<1>. SUFFICES ASSUME MonitorsInv, [MonitorsNext]_monitorVars
              PROVE  MonitorsInv'
  OBVIOUS
<1>1. ASSUME NEW p \in Prospects, StartMonitoring(p) \/ StopMonitoring(p) \/ FallsDue(p) \/ LeaseLapses(p)
      PROVE  MonitorsInv'
  BY <1>1, MembersKeep, LapseKeeps
<1>2. ASSUME NEW w \in Crons, ClaimMonitors(w) \/ CloseRun(w) \/ Stops(w)
      PROVE  MonitorsInv'
  BY <1>2, ClaimMonitorsKeeps, CloseRunKeeps
<1>3. CASE UNCHANGED monitorVars
  <2>1. UNCHANGED <<monitor, asker, dueList, keyUsed, takes, lapsed, batch>>
    BY <1>3 DEF monitorVars
  <2>2. MonitorsTypeOK'
    BY <2>1 DEF MonitorsInv, MonitorsTypeOK, Elements, Distinct, HasRun
  <2>3. Leased' /\ OneInvocationPerRun'
    BY <2>1 DEF MonitorsInv, Leased, OneInvocationPerRun, Elements, Distinct, HasRun
  <2>. QED
    BY <2>2, <2>3 DEF MonitorsInv
<1>. QED
  BY <1>1, <1>2, <1>3, ClockKeeps DEF MonitorsNext

(* Nothing is monitored twice in a queue, a lapsed run is a running one,   *)
(* and no invocation holds a run that lapsed or that was closed.           *)
THEOREM MonitorsInvariant == MonitorsSpec => []MonitorsInv
  BY MonitorsInitHolds, MonitorsStepKeeps, PTL DEF MonitorsSpec

(* Two invocations of the cron never have the same run to do: a run is     *)
(* claimed by one transaction, and again only when its lease has lapsed    *)
(* (claim_signal_monitors).                                                *)
THEOREM RunsAreHeldOnce == MonitorsSpec => []OneInvocationPerRun
<1>1. MonitorsInv => OneInvocationPerRun
  BY DEF MonitorsInv
<1>. QED
  BY <1>1, MonitorsInvariant, PTL

-----------------------------------------------------------------------------
(* The import of a profile: types and the lock of a project, the drafts a  *)
(* retry leaves alone, and the order of the statuses.                      *)

\* A draft is in a row that was recorded.
DraftsRecorded == \A i \in Imports : import[i].draft => ~Has(i, {"NONE", "PENDING"})

\* A request drives a row that was inserted, for the import it retries.
DrivesItsRow ==
  \A v \in Visits : visit[v].step = "STARTED" =>
    /\ ~Has(visit[v].import, {"NONE"})
    /\ import[visit[v].import].retries = visit[v].prev
    /\ visit[v].replaces => visit[v].prev # NULL

\* Before it rejects an import, a retry has left a draft.
Retried(p) == \E j \in Imports : import[j].retries = p /\ import[j].draft
LeftADraft == \A v \in Visits : visit[v].step = "RECORDED" => Retried(visit[v].prev)

\* What was sent late is about a row that was inserted.
LateRows == \A i \in Imports, s \in {"EXTRACTED", "FAILED"} : <<i, s>> \in late => ~Has(i, {"NONE"})

IcpInv == IcpTypeOK /\ DraftsRecorded /\ DrivesItsRow /\ LeftADraft /\ LateRows /\ DraftsKept

\* What every step does to the rows.
Kept(i) ==
  /\ import'[i].status \in {import[i].status} \cup After[import[i].status]
  /\ import[i].draft => import'[i].draft
  /\ import[i].status # "NONE" => import'[i].retries = import[i].retries

-----------------------------------------------------------------------------
(* Rows.                                                                   *)

LEMMA RowTyped ==
  ASSUME NEW r \in Import, NEW s \in ImportStatuses
  PROVE  /\ [r EXCEPT !.status = s] \in Import
         /\ [r EXCEPT !.status = s].status = s
         /\ [r EXCEPT !.status = s].draft = r.draft
         /\ [r EXCEPT !.status = s].retries = r.retries
         /\ [r EXCEPT !.status = s].refused = r.refused
BY DEF Import

LEMMA RowOpened ==
  ASSUME NEW r \in Import, NEW p \in Imports \cup {NULL}
  PROVE  /\ [r EXCEPT !.status = "PENDING", !.retries = p] \in Import
         /\ [r EXCEPT !.status = "PENDING", !.retries = p].status = "PENDING"
         /\ [r EXCEPT !.status = "PENDING", !.retries = p].draft = r.draft
         /\ [r EXCEPT !.status = "PENDING", !.retries = p].retries = p
         /\ [r EXCEPT !.status = "PENDING", !.retries = p].refused = r.refused
BY DEF Import, ImportStatuses

\* An update of the status of one row.
LEMMA OneRow ==
  ASSUME IcpTypeOK, NEW i \in Imports, NEW s \in ImportStatuses, Becomes(i, s),
         s \in After[import[i].status]
  PROVE  /\ import' \in [Imports -> Import]
         /\ import'[i].status = s
         /\ \A j \in Imports : j # i => import'[j] = import[j]
         /\ \A j \in Imports : /\ Kept(j)
                               /\ import'[j].draft = import[j].draft
                               /\ import'[j].retries = import[j].retries
                               /\ import'[j].refused = import[j].refused
<1>1. import \in [Imports -> Import] /\ import[i] \in Import  BY DEF IcpTypeOK
<1>2. import' = [import EXCEPT ![i] = [import[i] EXCEPT !.status = s]]  BY DEF Becomes
<1>3. /\ import'[i] = [import[i] EXCEPT !.status = s]
      /\ \A j \in Imports : j # i => import'[j] = import[j]
  BY <1>1, <1>2
<1>4. import' \in [Imports -> Import]  BY <1>1, <1>2, RowTyped
<1>5. /\ import'[i].status = s /\ import'[i].draft = import[i].draft
      /\ import'[i].retries = import[i].retries /\ import'[i].refused = import[i].refused
  BY <1>1, <1>3, RowTyped
<1>6. \A j \in Imports : /\ import'[j].draft = import[j].draft
                         /\ import'[j].retries = import[j].retries
                         /\ import'[j].refused = import[j].refused
                         /\ import'[j].status \in {import[j].status} \cup After[import[j].status]
  BY <1>3, <1>5
<1> QED  BY <1>3, <1>4, <1>5, <1>6 DEF Kept

\* The row of an import is recorded once.
LEMMA Recording ==
  ASSUME IcpTypeOK, NEW i \in Imports, NEW s \in {"EXTRACTED", "FAILED"}, RecordedAs(i, s),
         DraftsRecorded
  PROVE  /\ import' \in [Imports -> Import]
         /\ ~import'[i].status = "PENDING"
         /\ \A j \in Imports : j # i => import'[j] = import[j]
         /\ \A j \in Imports : /\ Kept(j)
                               /\ import'[j].refused = import[j].refused
                               /\ import'[j].retries = import[j].retries
                               /\ import'[j].draft /\ ~import[j].draft => import'[j].status = "EXTRACTED"
                               /\ import'[j].status = "DISCARDED" => import[j].status = "DISCARDED"
         /\ Has(i, {"PENDING"}) /\ s = "EXTRACTED" => import'[i].draft
<1>1. import \in [Imports -> Import] /\ import[i] \in Import  BY DEF IcpTypeOK
<1>2. CASE ~Has(i, {"PENDING"})  BY <1>1, <1>2 DEF RecordedAs, Has, Kept
<1>3. CASE Has(i, {"PENDING"})
  <2> DEFINE r == [import[i] EXCEPT !.status = s, !.draft = (s = "EXTRACTED")]
  <2>1. import' = [import EXCEPT ![i] = r]  BY <1>3 DEF RecordedAs
  <2>2. /\ r \in Import /\ r.status = s /\ r.draft = (s = "EXTRACTED")
        /\ r.retries = import[i].retries /\ r.refused = import[i].refused
    BY <1>1 DEF Import, ImportStatuses
  <2>3. ~import[i].draft /\ import[i].status = "PENDING"  BY <1>3 DEF DraftsRecorded, Has
  <2> HIDE DEF r
  <2>4. import'[i] = r /\ \A j \in Imports : j # i => import'[j] = import[j]
    BY <1>1, <2>1
  <2>5. import' \in [Imports -> Import]  BY <1>1, <2>1, <2>2
  <2>6. Kept(i)  BY <2>2, <2>3, <2>4 DEF Kept, After
  <2>7. \A j \in Imports : j # i => Kept(j)  BY <2>4 DEF Kept
  <2> QED  BY <2>2, <2>3, <2>4, <2>5, <2>6, <2>7
<1> QED  BY <1>2, <1>3

-----------------------------------------------------------------------------
(* What a step leaves true.                                                *)

RowsStep ==
  /\ import' \in [Imports -> Import]
  /\ \A i \in Imports :
       /\ Kept(i)
       /\ import'[i].draft /\ ~import[i].draft => import'[i].status = "EXTRACTED"
       /\ import'[i].status = "DISCARDED" /\ ~import'[i].refused
            => \/ import[i].status = "DISCARDED" /\ ~import[i].refused
               \/ Retried(i)

\* The lock of the project.
LockStep ==
  /\ stale' \subseteq Imports
  /\ \A i \in stale' : import'[i].status = "PENDING"
  /\ \A i, j \in Imports : import'[i].status = "PENDING" /\ import'[j].status = "PENDING" => i = j

VisitStep ==
  /\ visit' \in [Visits -> Visit]
  /\ \A v \in Visits :
       \/ visit'[v] = visit[v]
       \/ visit'[v].step \in {"IDLE", "READ", "REVIEWED"}
       \/ /\ visit'[v].step = "STARTED"
          /\ import'[visit'[v].import].status # "NONE"
          /\ import'[visit'[v].import].retries = visit'[v].prev
          /\ visit'[v].replaces => visit'[v].prev # NULL
       \/ visit'[v].step = "RECORDED" /\ Retried(visit[v].prev)'

LateStep ==
  /\ late' \subseteq Imports \X {"EXTRACTED", "FAILED"}
  /\ \A i \in Imports, s \in {"EXTRACTED", "FAILED"} :
       <<i, s>> \in late' => <<i, s>> \in late \/ import[i].status # "NONE"

CriteriaStep == icp' \in Icp /\ byHand' \in BOOLEAN

LEMMA DraftsStay ==
  ASSUME IcpInv, RowsStep
  PROVE  \A p : Retried(p) => Retried(p)'
<1> SUFFICES ASSUME NEW p, NEW j \in Imports, import[j].retries = p, import[j].draft
             PROVE  Retried(p)'
  BY DEF Retried
<1>1. import[j].status # "NONE"  BY DEF IcpInv, DraftsRecorded, Has
<1> QED  BY <1>1 DEF RowsStep, Kept, Retried

LEMMA StatusStays ==
  ASSUME RowsStep, NEW i \in Imports, import[i].status # "NONE", import[i].status \in ImportStatuses
  PROVE  import'[i].status # "NONE"
BY DEF RowsStep, Kept, After, ImportStatuses

LEMMA Preserved ==
  ASSUME IcpInv, RowsStep, LockStep, VisitStep, LateStep, CriteriaStep
  PROVE  IcpInv'
<1>1. IcpTypeOK'
  BY DEF RowsStep, LockStep, VisitStep, LateStep, CriteriaStep, IcpTypeOK, Has
<1>2. \A i \in Imports : import[i] \in Import /\ import[i].status \in ImportStatuses
  BY DEF IcpInv, IcpTypeOK, Import
<1>3. \A i \in Imports : import[i].status # "NONE" => import'[i].status # "NONE"
  BY <1>2, StatusStays
<1>4. DraftsRecorded'
  <2> SUFFICES ASSUME NEW i \in Imports, import'[i].draft
               PROVE  import'[i].status \notin {"NONE", "PENDING"}
    BY DEF DraftsRecorded, Has
  <2>1. CASE ~import[i].draft  BY <2>1 DEF RowsStep
  <2>2. CASE import[i].draft
    <3>1. import[i].status \notin {"NONE", "PENDING"}  BY <2>2 DEF IcpInv, DraftsRecorded, Has
    <3> QED  BY <1>2, <3>1 DEF RowsStep, Kept, After, ImportStatuses
  <2> QED  BY <2>1, <2>2
<1>5. DrivesItsRow'
  <2> SUFFICES ASSUME NEW v \in Visits, visit'[v].step = "STARTED"
               PROVE  /\ import'[visit'[v].import].status # "NONE"
                      /\ import'[visit'[v].import].retries = visit'[v].prev
                      /\ visit'[v].replaces => visit'[v].prev # NULL
    BY DEF DrivesItsRow, Has
  <2>1. CASE visit'[v] = visit[v]
    <3>1. visit[v].step = "STARTED"  BY <2>1
    <3>2. visit[v].import \in Imports
      BY <3>1 DEF IcpInv, IcpTypeOK, Visit, NoVisit
    <3>3. /\ import[visit[v].import].status # "NONE"
          /\ import[visit[v].import].retries = visit[v].prev
          /\ visit[v].replaces => visit[v].prev # NULL
      BY <3>1 DEF IcpInv, DrivesItsRow, Has
    <3>4. Kept(visit[v].import)  BY <3>2 DEF RowsStep
    <3> QED  BY <1>3, <2>1, <3>2, <3>3, <3>4 DEF Kept
  <2> QED  BY <2>1 DEF VisitStep
<1>6. LeftADraft'
  <2> SUFFICES ASSUME NEW v \in Visits, visit'[v].step = "RECORDED"
               PROVE  Retried(visit[v].prev)'
    BY DEF LeftADraft
  <2>1. CASE visit'[v] = visit[v]
    <3>1. Retried(visit[v].prev)  BY <2>1 DEF IcpInv, LeftADraft
    <3>2. \E j \in Imports : import'[j].retries = visit[v].prev /\ import'[j].draft
      BY <3>1, DraftsStay DEF Retried
    <3> QED  BY <2>1, <3>2 DEF Retried
  <2> QED  BY <2>1 DEF VisitStep
<1>7. LateRows'
  <2> SUFFICES ASSUME NEW i \in Imports, NEW s \in {"EXTRACTED", "FAILED"}, <<i, s>> \in late'
               PROVE  import'[i].status # "NONE"
    BY DEF LateRows, Has
  <2>1. import[i].status # "NONE"  BY DEF LateStep, LateRows, IcpInv, Has
  <2> QED  BY <1>3, <2>1
<1>8. DraftsKept'
  <2> SUFFICES ASSUME NEW i \in Imports, import'[i].status = "DISCARDED", ~import'[i].refused
               PROVE  Retried(i)'
    BY DEF DraftsKept, Has, Retried
  <2>1. \/ import[i].status = "DISCARDED" /\ ~import[i].refused
        \/ Retried(i)
    BY DEF RowsStep
  <2>2. Retried(i)  BY <2>1 DEF IcpInv, DraftsKept, Has, Retried
  <2> QED  BY <2>2, DraftsStay
<1> QED  BY <1>1, <1>4, <1>5, <1>6, <1>7, <1>8 DEF IcpInv
-----------------------------------------------------------------------------
(* Parts of a step.                                                        *)

LEMMA IcpTyped ==
  ASSUME IcpInv
  PROVE  /\ import \in [Imports -> Import] /\ icp \in Icp /\ visit \in [Visits -> Visit]
         /\ stale \subseteq Imports /\ byHand \in BOOLEAN
         /\ late \subseteq Imports \X {"EXTRACTED", "FAILED"}
         /\ \A i \in Imports : import[i] \in Import /\ import[i].status \in ImportStatuses
         /\ \A i \in stale : import[i].status = "PENDING"
         /\ \A i, j \in Imports : import[i].status = "PENDING" /\ import[j].status = "PENDING" => i = j
         /\ \A v \in Visits : visit[v] \in Visit
BY DEF IcpInv, IcpTypeOK, Import, Has

LEMMA SameRows == ASSUME IcpInv, UNCHANGED import  PROVE RowsStep
BY IcpTyped DEF RowsStep, Kept

LEMMA SameLock == ASSUME IcpInv, UNCHANGED <<import, stale>>  PROVE LockStep
BY IcpTyped DEF LockStep

LEMMA SameVisits == ASSUME IcpInv, UNCHANGED visit  PROVE VisitStep
BY IcpTyped DEF VisitStep

LEMMA SameLate == ASSUME IcpInv, UNCHANGED late  PROVE LateStep
BY IcpTyped DEF LateStep

LEMMA SameCriteria == ASSUME IcpInv, UNCHANGED <<icp, byHand>>  PROVE CriteriaStep
BY IcpTyped DEF CriteriaStep

\* One request goes on to w, of a shape that promises nothing.
LEMMA OneVisit ==
  ASSUME IcpInv, NEW v \in Visits, NEW w \in Visit, w.step \in {"IDLE", "READ", "REVIEWED"},
         visit' = [visit EXCEPT ![v] = w]
  PROVE  VisitStep
<1>1. visit' \in [Visits -> Visit]  BY IcpTyped
<1>2. visit'[v] = w /\ \A u \in Visits : u # v => visit'[u] = visit[u]  BY IcpTyped
<1> QED  BY <1>1, <1>2 DEF VisitStep

LEMMA Exits == ASSUME IcpInv, NEW v \in Visits, Exit(v)  PROVE VisitStep
<1>1. NoVisit \in Visit /\ NoVisit.step = "IDLE"  BY DEF Visit, NoVisit
<1> QED  BY <1>1, OneVisit DEF Exit

\* The status of one row moves on, and it is not in progress any more.
LEMMA ImportMovesOn ==
  ASSUME IcpInv, NEW i \in Imports, NEW s \in ImportStatuses \ {"NONE", "PENDING"}, Becomes(i, s),
         s \in After[import[i].status], s = "DISCARDED" => Retried(i)
  PROVE  /\ RowsStep
         /\ stale' = stale \ {i} => LockStep
         /\ UNCHANGED stale /\ i \notin stale => LockStep
<1>1. IcpTypeOK  BY DEF IcpInv
<1>2. /\ import' \in [Imports -> Import]
      /\ import'[i].status = s
      /\ \A j \in Imports : j # i => import'[j] = import[j]
  BY <1>1, OneRow
<1>3. \A j \in Imports : /\ Kept(j)
                         /\ import'[j].draft = import[j].draft
                         /\ import'[j].refused = import[j].refused
  BY <1>1, OneRow
<1>4. RowsStep  BY <1>2, <1>3 DEF RowsStep
<1>5. stale' = stale \ {i} => LockStep  BY <1>2, IcpTyped DEF LockStep
<1>6. UNCHANGED stale /\ i \notin stale => LockStep  BY <1>2, IcpTyped DEF LockStep
<1> QED  BY <1>4, <1>5, <1>6

\* An import is recorded, in time or late.
LEMMA DraftRecorded ==
  ASSUME IcpInv, NEW i \in Imports, NEW s \in {"EXTRACTED", "FAILED"}, RecordedAs(i, s), stale' = stale \ {i}
  PROVE  RowsStep /\ LockStep
<1>1. /\ import' \in [Imports -> Import]
      /\ import'[i].status # "PENDING"
      /\ \A j \in Imports : j # i => import'[j] = import[j]
  BY Recording DEF IcpInv
<1>2. \A j \in Imports : /\ Kept(j)
                         /\ import'[j].refused = import[j].refused
                         /\ import'[j].draft /\ ~import[j].draft => import'[j].status = "EXTRACTED"
                         /\ import'[j].status = "DISCARDED" => import[j].status = "DISCARDED"
  BY Recording DEF IcpInv
<1>3. RowsStep  BY <1>1, <1>2 DEF RowsStep
<1>4. LockStep  BY <1>1, IcpTyped DEF LockStep
<1> QED  BY <1>3, <1>4
-----------------------------------------------------------------------------
(* Actions.                                                                *)

Preserves == RowsStep /\ LockStep /\ VisitStep /\ LateStep /\ CriteriaStep

LEMMA ReadPreviousStep ==
  ASSUME IcpInv, NEW v \in Visits, NEW p \in Imports, ReadPrevious(v, p)  PROVE Preserves
<1> DEFINE w == [step |-> "READ", prev |-> p, seen |-> ReadAs(p), stale |-> p \in stale]
<1>1. ReadAs(p) \in ImportStatuses  BY IcpTyped DEF ReadAs, ImportStatuses
<1>2. w \in Visit /\ w.step = "READ"  BY <1>1 DEF Visit
<1>3. visit' = [visit EXCEPT ![v] = w]  BY DEF ReadPrevious, Enter
<1> HIDE DEF w
<1>4. VisitStep  BY <1>2, <1>3, OneVisit
<1> QED
  BY <1>4, SameRows, SameLock, SameLate, SameCriteria DEF ReadPrevious, Preserves

LEMMA ReviewStep ==
  ASSUME IcpInv, NEW v \in Visits, NEW i \in Imports, NEW t \in Targets, NEW keep \in BOOLEAN,
         Review(v, i, t, keep)
  PROVE  Preserves
<1> DEFINE w == [step |-> "REVIEWED", import |-> i, keep |-> keep, rules |-> Projection(t)]
<1>1. Projection(t) \in Rules  BY IcpTyped DEF Projection, Rules, Icp
<1>2. w \in Visit /\ w.step = "REVIEWED"  BY <1>1 DEF Visit
<1>3. visit' = [visit EXCEPT ![v] = w]  BY DEF Review, Enter
<1> HIDE DEF w
<1>4. VisitStep  BY <1>2, <1>3, OneVisit
<1> QED
  BY <1>4, SameRows, SameLock, SameLate, SameCriteria DEF Review, Preserves

LEMMA StartStep ==
  ASSUME IcpInv, NEW v \in Visits, NEW i \in Imports, Start(v, i)  PROVE Preserves
<1> DEFINE prev == IF visit[v] = NoVisit THEN NULL ELSE visit[v].prev
           replaces == prev # NULL /\ visit[v].seen \in {"EXTRACTED", "FAILED"} /\ ~visit[v].stale
           open == [step |-> "STARTED", import |-> i, prev |-> prev, replaces |-> replaces]
           Opened(r) == [r EXCEPT !.status = "PENDING", !.retries = prev]
           row == Opened(import[i])
<1>1. visit[v] = NoVisit \/ visit[v].step = "READ"  BY IcpTyped DEF Start, Visit, NoVisit
<1>2. prev \in Imports \cup {NULL}  BY <1>1, IcpTyped DEF Visit, NoVisit
<1>3. import[i].status = "NONE" /\ i \notin stale  BY IcpTyped DEF Start, Has
<1>4. ~import[i].draft  BY <1>3 DEF IcpInv, DraftsRecorded, Has
<1>5. import' = [j \in Imports |-> CASE j = i       -> Opened(import[j])
                                     [] j \in stale -> [import[j] EXCEPT !.status = "FAILED"]
                                     [] OTHER       -> import[j]]
  BY DEF Start
<1>6. stale' = {}  BY DEF Start
<1>7. visit' = [visit EXCEPT ![v] = open] \/ visit' = [visit EXCEPT ![v] = NoVisit]  BY DEF Start
<1>8. /\ row \in Import /\ row.status = "PENDING" /\ row.draft = import[i].draft
      /\ row.retries = prev /\ row.refused = import[i].refused
  <2> HIDE DEF prev
  <2>1. import[i] \in Import  BY IcpTyped
  <2> QED  BY <1>2, <2>1, RowOpened
<1>9. open \in Visit /\ open.step = "STARTED" /\ open.import = i /\ open.prev = prev
      /\ (open.replaces => prev # NULL)
  BY <1>2 DEF Visit
<1>10. import'[i] = row
  <2> HIDE DEF Opened
  <2> QED  BY <1>3, <1>5
<1> HIDE DEF row, open, prev
<1>11. \A j \in stale : /\ import'[j] \in Import /\ import'[j].status = "FAILED"
                        /\ import'[j].draft = import[j].draft
                        /\ import'[j].retries = import[j].retries
                        /\ import'[j].refused = import[j].refused
  <2> SUFFICES ASSUME NEW j \in stale
               PROVE  /\ import'[j] \in Import /\ import'[j].status = "FAILED"
                      /\ import'[j].draft = import[j].draft
                      /\ import'[j].retries = import[j].retries
                      /\ import'[j].refused = import[j].refused
    OBVIOUS
  <2>1. j \in Imports /\ j # i  BY <1>3, IcpTyped
  <2>2. import'[j] = [import[j] EXCEPT !.status = "FAILED"]  BY <1>5, <2>1
  <2>3. "FAILED" \in ImportStatuses  BY DEF ImportStatuses
  <2> QED  BY <2>1, <2>2, <2>3, IcpTyped, RowTyped
<1>12. \A j \in Imports : j # i /\ j \notin stale => import'[j] = import[j]  BY <1>5
<1>13. \A j \in Imports : j # i => import'[j].status # "PENDING"
  BY <1>11, <1>12, IcpTyped DEF Start, Has
<1>14. import' \in [Imports -> Import]
  <2>1. \A j \in Imports : import'[j] \in Import  BY <1>8, <1>10, <1>11, <1>12, IcpTyped
  <2> QED  BY <1>5, <2>1
<1>15. \A j \in Imports : Kept(j)
  <2> SUFFICES ASSUME NEW j \in Imports  PROVE Kept(j)
    OBVIOUS
  <2>1. CASE j = i  BY <1>3, <1>4, <1>8, <1>10, <2>1 DEF Kept, After
  <2>2. CASE j \in stale  BY <1>11, <2>2, IcpTyped DEF Kept, After
  <2>3. CASE j # i /\ j \notin stale  BY <1>12, <2>3 DEF Kept
  <2> QED  BY <2>1, <2>2, <2>3
<1>16. RowsStep
  <2> SUFFICES ASSUME NEW j \in Imports
               PROVE  /\ import'[j].draft /\ ~import[j].draft => import'[j].status = "EXTRACTED"
                      /\ import'[j].status = "DISCARDED" /\ ~import'[j].refused
                           => import[j].status = "DISCARDED" /\ ~import[j].refused
    BY <1>14, <1>15 DEF RowsStep
  <2>1. CASE j = i  BY <1>8, <1>10, <2>1
  <2>2. CASE j \in stale  BY <1>11, <2>2
  <2>3. CASE j # i /\ j \notin stale  BY <1>12, <2>3
  <2> QED  BY <2>1, <2>2, <2>3
<1>17. LockStep  BY <1>6, <1>13 DEF LockStep
<1>18. VisitStep
  <2>1. CASE visit' = [visit EXCEPT ![v] = open]
    <3>1. visit' \in [Visits -> Visit] /\ visit'[v] = open  BY <1>9, <2>1, IcpTyped
    <3>2. \A u \in Visits : u # v => visit'[u] = visit[u]  BY <2>1, IcpTyped
    <3>3. import'[visit'[v].import].status # "NONE" /\ import'[visit'[v].import].retries = visit'[v].prev
      BY <1>8, <1>9, <1>10, <3>1
    <3> QED  BY <1>9, <3>1, <3>2, <3>3 DEF VisitStep
  <2>2. CASE visit' = [visit EXCEPT ![v] = NoVisit]  BY <2>2, Exits DEF Exit
  <2> QED  BY <1>7, <2>1, <2>2
<1> QED
  BY <1>16, <1>17, <1>18, SameLate, SameCriteria DEF Start, Preserves

LEMMA CompleteImportStep ==
  ASSUME IcpInv, NEW v \in Visits, NEW s \in {"EXTRACTED", "FAILED"}, NEW ok \in BOOLEAN,
         CompleteImport(v, s, ok)
  PROVE  Preserves
<1> DEFINE i == visit[v].import
<1>1. visit[v].step = "STARTED"  BY DEF CompleteImport
<1>2. i \in Imports /\ visit[v].prev \in Imports \cup {NULL}  BY <1>1, IcpTyped DEF Visit, NoVisit
<1>3. import[i].retries = visit[v].prev /\ (visit[v].replaces => visit[v].prev # NULL)
  BY <1>1 DEF IcpInv, DrivesItsRow
<1>4. \/ RecordedAs(i, s) /\ stale' = stale \ {i}
      \/ ~ok /\ UNCHANGED <<import, stale>>
  BY DEF CompleteImport
<1> HIDE DEF i
<1>5. RowsStep /\ LockStep  BY <1>2, <1>4, DraftRecorded, SameRows, SameLock
<1>6. VisitStep
  <2>1. CASE visit[v].replaces /\ GoesOn(i, s, ok)
    <3> DEFINE w == [step |-> "RECORDED", prev |-> visit[v].prev]
    <3>1. visit' = [visit EXCEPT ![v] = w]  BY <2>1 DEF CompleteImport, i
    <3>2. w \in Visit /\ w.step = "RECORDED" /\ w.prev = visit[v].prev
      BY <1>2, <1>3, <2>1 DEF Visit
    <3> HIDE DEF w
    <3>3. visit' \in [Visits -> Visit] /\ visit'[v] = w  BY <3>1, <3>2, IcpTyped
    <3>4. \A u \in Visits : u # v => visit'[u] = visit[u]  BY <3>1, IcpTyped
    <3>5. RecordedAs(i, s) /\ Has(i, {"PENDING"}) /\ s = "EXTRACTED"  BY <1>4, <2>1 DEF GoesOn
    <3>6. import'[i].draft /\ import'[i].retries = import[i].retries
      BY <1>2, <3>5, Recording DEF IcpInv
    <3>7. Retried(visit[v].prev)'
      <4>1. visit'[v].prev = visit[v].prev  BY <3>2, <3>3
      <4> QED  BY <1>2, <1>3, <3>6, <4>1 DEF Retried
    <3> QED  BY <3>2, <3>3, <3>4, <3>7 DEF VisitStep
  <2>2. CASE ~(visit[v].replaces /\ GoesOn(i, s, ok))
    BY <2>2, Exits DEF CompleteImport, i
  <2> QED  BY <2>1, <2>2
<1> QED
  BY <1>5, <1>6, SameLate, SameCriteria DEF CompleteImport, Preserves

LEMMA DiscardPreviousStep ==
  ASSUME IcpInv, NEW v \in Visits, DiscardPrevious(v)  PROVE Preserves
<1> DEFINE p == visit[v].prev
<1>1. visit[v].step = "RECORDED"  BY DEF DiscardPrevious
<1>2. p \in Imports  BY <1>1, IcpTyped DEF Visit, NoVisit
<1>3. Retried(p)  BY <1>1 DEF IcpInv, LeftADraft
<1>4. stale' = stale  BY DEF DiscardPrevious
<1>5. import' = import \/ Discarded(p)  BY DEF DiscardPrevious
<1>6. import' = import \/ (Has(p, {"EXTRACTED", "FAILED"}) /\ Becomes(p, "DISCARDED"))
  BY <1>5 DEF Discarded
<1> HIDE DEF p
<1>7. RowsStep /\ LockStep
  <2>1. CASE import' = import  BY <1>4, <2>1, SameRows, SameLock
  <2>2. CASE Has(p, {"EXTRACTED", "FAILED"}) /\ Becomes(p, "DISCARDED")
    <3>1. "DISCARDED" \in After[import[p].status] /\ p \notin stale  BY <2>2, IcpTyped DEF Has, After
    <3>2. "DISCARDED" \in ImportStatuses \ {"NONE", "PENDING"}  BY DEF ImportStatuses
    <3> QED  BY <1>2, <1>3, <1>4, <2>2, <3>1, <3>2, ImportMovesOn
  <2> QED  BY <1>6, <2>1, <2>2
<1> QED
  BY <1>7, Exits, SameLate, SameCriteria DEF DiscardPrevious, Preserves
LEMMA VisitDiesStep ==
  ASSUME IcpInv, NEW v \in Visits, VisitDies(v)  PROVE Preserves
<1>1. LateStep
  <2>1. CASE late' = late  BY <2>1, SameLate
  <2>2. CASE late' # late
    <3>1. PICK s \in {"EXTRACTED", "FAILED"} :
            visit[v].step = "STARTED" /\ late' = late \cup {<<visit[v].import, s>>}
      BY <2>2 DEF VisitDies
    <3>2. visit[v].import \in Imports  BY <3>1, IcpTyped DEF Visit, NoVisit
    <3>3. import[visit[v].import].status # "NONE"  BY <3>1 DEF IcpInv, DrivesItsRow, Has
    <3> QED  BY <3>1, <3>2, <3>3, IcpTyped DEF LateStep
  <2> QED  BY <2>1, <2>2
<1> QED
  BY <1>1, Exits, SameRows, SameLock, SameCriteria DEF VisitDies, Preserves

LEMMA ArrivesStep ==
  ASSUME IcpInv, NEW i \in Imports, NEW s \in {"EXTRACTED", "FAILED"}, Arrives(i, s)  PROVE Preserves
<1>1. RowsStep /\ LockStep  BY DraftRecorded DEF Arrives
<1>2. LateStep  BY IcpTyped DEF Arrives, LateStep
<1> QED
  BY <1>1, <1>2, SameVisits, SameCriteria DEF Arrives, Preserves

LEMMA LockLapsesStep ==
  ASSUME IcpInv, NEW i \in Imports, LockLapses(i)  PROVE Preserves
<1>1. LockStep  BY IcpTyped DEF LockLapses, LockStep, Has
<1> QED
  BY <1>1, SameRows, SameVisits, SameLate, SameCriteria DEF LockLapses, Preserves

LEMMA ValidateStep ==
  ASSUME IcpInv, NEW v \in Visits, Validate(v)  PROVE Preserves
<1> DEFINE i == visit[v].import
           given == visit[v].rules
<1>1. i \in Imports /\ given \in Rules  BY IcpTyped DEF Validate, Visit, NoVisit
<1>2. import[i].status = "EXTRACTED" /\ Becomes(i, "VALIDATED") /\ stale' = stale
  BY DEF Validate, Has
<1>3. \/ icp' = [icp EXCEPT !.from = i] /\ byHand' = byHand
      \/ /\ icp' = [rules |-> given, projected |-> given, from |-> i]
         /\ byHand' = (byHand /\ given = icp.rules)
  BY DEF Validate
<1> HIDE DEF i, given
<1>4. "VALIDATED" \in After[import[i].status] /\ i \notin stale  BY <1>2, IcpTyped DEF After
<1>5. "VALIDATED" \in ImportStatuses \ {"NONE", "PENDING"}  BY DEF ImportStatuses
<1>6. RowsStep /\ LockStep  BY <1>1, <1>2, <1>4, <1>5, ImportMovesOn
<1>7. icp' \in Icp  BY <1>1, <1>3, IcpTyped DEF Icp
<1>8. byHand' \in BOOLEAN  BY <1>3, IcpTyped
<1> QED
  BY <1>6, <1>7, <1>8, Exits, SameLate DEF CriteriaStep, Validate, Preserves

LEMMA SaveCriteriaStep ==
  ASSUME IcpInv, NEW r \in HandRules \cup {NULL}, SaveCriteria(r)  PROVE Preserves
<1>1. r \in Rules  BY DEF Rules
<1>2. CriteriaStep  BY <1>1, IcpTyped DEF SaveCriteria, CriteriaStep, Icp
<1> QED
  BY <1>2, SameRows, SameLock, SameVisits, SameLate DEF SaveCriteria, Preserves

LEMMA DiscardStep ==
  ASSUME IcpInv, NEW i \in Imports, Discard(i)  PROVE Preserves
<1> DEFINE r == [import[i] EXCEPT !.status = "DISCARDED", !.refused = TRUE]
<1>1. import[i].status \in {"EXTRACTED", "FAILED"} /\ stale' = stale  BY DEF Discard, Has
<1>2. import' = [import EXCEPT ![i] = r]  BY DEF Discard
<1>3. /\ r \in Import /\ r.status = "DISCARDED" /\ r.refused
      /\ r.draft = import[i].draft /\ r.retries = import[i].retries
  BY IcpTyped DEF Import, ImportStatuses
<1> HIDE DEF r
<1>4. /\ import' \in [Imports -> Import] /\ import'[i] = r
      /\ \A j \in Imports : j # i => import'[j] = import[j]
  BY <1>2, <1>3, IcpTyped
<1>5. \A j \in Imports : Kept(j)
  <2>1. Kept(i)  BY <1>1, <1>3, <1>4 DEF Kept, After
  <2> QED  BY <1>4, <2>1 DEF Kept
<1>6. RowsStep  BY <1>3, <1>4, <1>5 DEF RowsStep
<1>7. LockStep  BY <1>1, <1>3, <1>4, IcpTyped DEF LockStep
<1> QED
  BY <1>6, <1>7, SameVisits, SameLate, SameCriteria DEF Discard, Preserves

LEMMA DeleteStep ==
  ASSUME IcpInv, NEW i \in Imports, Delete(i)  PROVE Preserves
<1>1. import[i].status \notin {"NONE", "ERASED"} /\ Becomes(i, "ERASED") /\ stale' = stale \ {i}
  BY DEF Delete, Has
<1>2. "ERASED" \in After[import[i].status]  BY <1>1, IcpTyped DEF After, ImportStatuses
<1>3. "ERASED" \in ImportStatuses \ {"NONE", "PENDING"}  BY DEF ImportStatuses
<1>4. RowsStep /\ LockStep  BY <1>1, <1>2, <1>3, ImportMovesOn
<1> QED
  BY <1>4, SameVisits, SameLate, SameCriteria DEF Delete, Preserves

LEMMA MemberLeavesStep ==
  ASSUME IcpInv, NEW m, MemberLeaves(m)  PROVE Preserves
<1> DEFINE mine == {i \in Imports : AuthorOf[i] = m /\ ~Has(i, {"NONE", "VALIDATED", "ERASED"})}
<1>1. import' = [i \in Imports |-> IF i \in mine THEN [import[i] EXCEPT !.status = "ERASED"] ELSE import[i]]
  BY DEF MemberLeaves
<1>2. stale' = stale \ mine  BY DEF MemberLeaves
<1>3. \A i \in mine : i \in Imports /\ import[i].status \notin {"NONE", "VALIDATED", "ERASED"}  BY DEF Has
<1> HIDE DEF mine
<1>4. \A i \in mine : import'[i] = [import[i] EXCEPT !.status = "ERASED"]  BY <1>1, <1>3
<1>5. "ERASED" \in ImportStatuses  BY DEF ImportStatuses
<1>6. \A i \in mine : /\ import'[i] \in Import /\ import'[i].status = "ERASED"
                      /\ import'[i].draft = import[i].draft
                      /\ import'[i].retries = import[i].retries
                      /\ import'[i].refused = import[i].refused
  <2> SUFFICES ASSUME NEW i \in mine
               PROVE  /\ import'[i] \in Import /\ import'[i].status = "ERASED"
                      /\ import'[i].draft = import[i].draft
                      /\ import'[i].retries = import[i].retries
                      /\ import'[i].refused = import[i].refused
    OBVIOUS
  <2>1. import[i] \in Import  BY <1>3, IcpTyped
  <2>2. import'[i] = [import[i] EXCEPT !.status = "ERASED"]  BY <1>4
  <2> QED  BY <1>5, <2>1, <2>2, RowTyped
<1>7. \A i \in Imports : i \notin mine => import'[i] = import[i]  BY <1>1
<1>8. import' \in [Imports -> Import]
  <2>1. \A i \in Imports : import'[i] \in Import  BY <1>6, <1>7, IcpTyped
  <2> QED  BY <1>1, <2>1
<1>9. \A i \in Imports : Kept(i)
  <2> SUFFICES ASSUME NEW i \in Imports  PROVE Kept(i)
    OBVIOUS
  <2>1. CASE i \in mine  BY <1>3, <1>6, <2>1, IcpTyped DEF Kept, After, ImportStatuses
  <2>2. CASE i \notin mine  BY <1>7, <2>2 DEF Kept
  <2> QED  BY <2>1, <2>2
<1>10. RowsStep  BY <1>6, <1>7, <1>8, <1>9 DEF RowsStep
<1>11. LockStep  BY <1>2, <1>6, <1>7, IcpTyped DEF LockStep
<1> QED
  BY <1>10, <1>11, SameVisits, SameLate, SameCriteria DEF MemberLeaves, Preserves

-----------------------------------------------------------------------------
(* Theorems.                                                               *)

LEMMA NextPreserves ==
  ASSUME IcpInv, IcpNext  PROVE Preserves
<1>1. CASE \E v \in Visits, i \in Imports : ReadPrevious(v, i)  BY <1>1, ReadPreviousStep
<1>2. CASE \E v \in Visits, i \in Imports : Start(v, i)  BY <1>2, StartStep
<1>3. CASE \E v \in Visits, i \in Imports, t \in Targets, keep \in BOOLEAN : Review(v, i, t, keep)
  BY <1>3, ReviewStep
<1>4. CASE \E v \in Visits, s \in {"EXTRACTED", "FAILED"}, ok \in BOOLEAN : CompleteImport(v, s, ok)
  BY <1>4, CompleteImportStep
<1>5. CASE \E v \in Visits : DiscardPrevious(v)  BY <1>5, DiscardPreviousStep
<1>6. CASE \E v \in Visits : Validate(v)  BY <1>6, ValidateStep
<1>7. CASE \E v \in Visits : VisitDies(v)  BY <1>7, VisitDiesStep
<1>8. CASE \E i \in Imports, s \in {"EXTRACTED", "FAILED"} : Arrives(i, s)  BY <1>8, ArrivesStep
<1>9. CASE \E i \in Imports : LockLapses(i)  BY <1>9, LockLapsesStep
<1>10. CASE \E i \in Imports : Discard(i)  BY <1>10, DiscardStep
<1>11. CASE \E i \in Imports : Delete(i)  BY <1>11, DeleteStep
<1>12. CASE \E r \in HandRules \cup {NULL} : SaveCriteria(r)  BY <1>12, SaveCriteriaStep
<1>13. CASE \E i \in Imports : MemberLeaves(AuthorOf[i])  BY <1>13, MemberLeavesStep
<1> QED
  BY <1>1, <1>2, <1>3, <1>4, <1>5, <1>6, <1>7, <1>8, <1>9, <1>10, <1>11, <1>12, <1>13 DEF IcpNext

LEMMA InitInv == IcpInit => IcpInv
<1> SUFFICES ASSUME IcpInit  PROVE IcpInv
  OBVIOUS
<1>1. import \in [Imports -> Import]  BY DEF IcpInit, Import, ImportStatuses
<1>2. visit \in [Visits -> Visit]  BY DEF IcpInit, Visit
<1>3. icp \in Icp  BY DEF IcpInit, Icp, Rules
<1>4. IcpTypeOK  BY <1>1, <1>2, <1>3 DEF IcpInit, IcpTypeOK, Has
<1>5. DraftsRecorded /\ LateRows /\ DraftsKept
  BY DEF IcpInit, DraftsRecorded, LateRows, DraftsKept, Has
<1>6. DrivesItsRow /\ LeftADraft  BY DEF IcpInit, DrivesItsRow, LeftADraft, NoVisit
<1> QED  BY <1>4, <1>5, <1>6 DEF IcpInv

\* The inductive invariant: a request that is about to reject an import has left a draft,
\* because the row it drives is its own and is recorded once.
THEOREM IcpInvariant == IcpSpec => []IcpInv
<1>1. IcpInv /\ [IcpNext]_icpVars => IcpInv'
  <2> SUFFICES ASSUME IcpInv, [IcpNext]_icpVars  PROVE IcpInv'
    OBVIOUS
  <2>1. CASE IcpNext  BY <2>1, NextPreserves, Preserved DEF Preserves
  <2>2. CASE UNCHANGED icpVars
    <3>1. RowsStep /\ LockStep /\ VisitStep /\ LateStep /\ CriteriaStep
      BY <2>2, SameRows, SameLock, SameVisits, SameLate, SameCriteria DEF icpVars
    <3> QED  BY <3>1, Preserved
  <2> QED  BY <2>1, <2>2
<1> QED  BY <1>1, InitInv, PTL DEF IcpSpec

\* Types; a project has one import in progress at most, whatever dies and is retried.
THEOREM IcpTypes == IcpSpec => []IcpTypeOK
<1>1. IcpInv => IcpTypeOK  BY DEF IcpInv
<1> QED  BY <1>1, IcpInvariant, PTL

\* A draft that nobody rejected is rejected only when a retry of it has left a draft.
THEOREM RetriesKeepDrafts == IcpSpec => []DraftsKept
<1>1. IcpInv => DraftsKept  BY DEF IcpInv
<1> QED  BY <1>1, IcpInvariant, PTL

\* The status of an import only moves forward, however late a completion arrives.
THEOREM ImportsAdvance == IcpSpec => ImportsMoveForward
<1>1. IcpInv /\ [IcpNext]_icpVars =>
        [\A i \in Imports : import'[i].status \in {import[i].status} \cup After[import[i].status]]_icpVars
  <2> SUFFICES ASSUME IcpInv, IcpNext
               PROVE  \A i \in Imports : import'[i].status \in {import[i].status} \cup After[import[i].status]
    OBVIOUS
  <2>1. RowsStep  BY NextPreserves DEF Preserves
  <2> QED  BY <2>1 DEF RowsStep, Kept
<1> QED  BY <1>1, IcpInvariant, PTL DEF IcpSpec, ImportsMoveForward
=============================================================================
