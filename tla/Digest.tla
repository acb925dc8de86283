------------------------------- MODULE Digest -------------------------------
(***************************************************************************)
(* The morning recap of ProspectOS: one email a day with the new signals,  *)
(* to those who asked for it (db/migrations/040_morning_digest.sql,        *)
(* src/digest/send.ts, app/api/cron/morning-digest/route.ts).              *)
(*                                                                         *)
(* A signal bears the time at which the transaction that saved it began.   *)
(* A recap is claimed, read, sent and recorded in calls of their own, and  *)
(* the invocation may die, or an answer be lost, between any two of them.  *)
(***************************************************************************)
EXTENDS Commons, Integers, FiniteSets

CONSTANTS
  Readers,     \* users, members of the organization of the signals
  Signals,     \* signals found for its prospects
  Mornings,    \* invocations of the cron that may overlap
  DayLength,   \* ticks of a day
  LastTick     \* time (a bound)

ASSUME DigestAssumption == DayLength \in Nat \ {0} /\ LastTick \in Nat \ {0}

VARIABLES
  now,       \* time
  sub,       \* morning_digest_subscriptions: enabled, last_checked_at, claimed_at (0: null)
  signal,    \* signals: created_at (0: not begun), committed, and status PENDING_REVIEW
  rows,      \* what an invocation claimed and has not handled
  hand,      \* its row in hand, the signals it read for it, and whether it sent them
  mails,     \* emails handed to the mail server, by user and day of the claim
  settled    \* signals told to a user by a recap then recorded as sent

digestVars == <<now, sub, signal, rows, hand, mails, settled>>

Times == 0..LastTick
Day(t) == (t - 1) \div DayLength
DayStart == Day(now) * DayLength + 1      \* parisDayStart
Row == [user : Readers, since : Times, at : Times]
Idle == [step |-> "IDLE"]
Hand == {Idle} \cup [step : {"SEND", "MARK"}, row : Row, told : SUBSET Signals]
Subscription == [on : BOOLEAN, checked : Times, claimed : Times]

DigestInit ==
  /\ now = 1
  /\ sub = [u \in Readers |-> [on |-> FALSE, checked |-> 0, claimed |-> 0]]
  /\ signal = [s \in Signals |-> [at |-> 0, saved |-> FALSE, open |-> TRUE]]
  /\ rows = [w \in Mornings |-> {}] /\ hand = [w \in Mornings |-> Idle]
  /\ mails = [u \in Readers |-> [d \in 0..Day(LastTick) |-> 0]]
  /\ settled = [u \in Readers |-> {}]

-----------------------------------------------------------------------------
(* Members, and the signals of their prospects.                            *)

\* set_morning_digest: enabling again starts from now.
Enable(u) ==
  /\ sub' = [sub EXCEPT ![u].on = TRUE, ![u].checked = IF sub[u].on THEN @ ELSE now]
  /\ UNCHANGED <<now, signal, rows, hand, mails, settled>>
\* set_morning_digest, or the link of an email (unsubscribe_morning_digest).
Disable(u) ==
  /\ sub[u].on
  /\ sub' = [sub EXCEPT ![u].on = FALSE]
  /\ UNCHANGED <<now, signal, rows, hand, mails, settled>>

SaveBegins(s) ==
  /\ signal[s].at = 0
  /\ signal' = [signal EXCEPT ![s].at = now]
  /\ UNCHANGED <<now, sub, rows, hand, mails, settled>>
SaveCommits(s) ==
  /\ signal[s].at # 0 /\ ~signal[s].saved
  /\ signal' = [signal EXCEPT ![s].saved = TRUE]
  /\ UNCHANGED <<now, sub, rows, hand, mails, settled>>
Reviewed(s) ==
  /\ signal[s].saved /\ signal[s].open
  /\ signal' = [signal EXCEPT ![s].open = FALSE]
  /\ UNCHANGED <<now, sub, rows, hand, mails, settled>>

-----------------------------------------------------------------------------
(* runMorningDigest.                                                       *)

\* claim_morning_digests: the enabled who were not claimed today, once each; fewer than
\* its limit of 50.
Faulty_ClaimsAgain == {u \in Readers : sub[u].on}
Unclaimed == {u \in Readers : sub[u].on /\ sub[u].claimed < DayStart}
ClaimDigests(w) ==
  /\ rows[w] = {} /\ hand[w] = Idle
  /\ rows' = [rows EXCEPT ![w] = {[user |-> u, since |-> sub[u].checked, at |-> now] : u \in Unclaimed}]
  /\ sub' = [u \in Readers |-> IF u \in Unclaimed THEN [sub[u] EXCEPT !.claimed = now] ELSE sub[u]]
  /\ UNCHANGED <<now, signal, hand, mails, settled>>

\* morning_digest_signals; fewer than its limit of 30, all with a usable address.
New(r) == {s \in Signals : /\ signal[s].saved /\ signal[s].open
                           /\ signal[s].at > r.since /\ sub[r.user].on}
ReadSignals(w, r) ==
  /\ hand[w] = Idle /\ r \in rows[w]
  /\ rows' = [rows EXCEPT ![w] = @ \ {r}]
  /\ hand' = [hand EXCEPT ![w] = [step |-> IF New(r) = {} THEN "MARK" ELSE "SEND", row |-> r, told |-> New(r)]]
  /\ UNCHANGED <<now, sub, signal, mails, settled>>

\* The mail server takes the email or not, and its answer says SENT, or something else
\* (even after it took it); a refused login ends the batch.
SendRecap(w) ==
  /\ hand[w].step = "SEND"
  /\ LET u == hand[w].row.user
         taken == [mails EXCEPT ![u][Day(hand[w].row.at)] = @ + 1]
     IN  \/ mails' = taken /\ hand' = [hand EXCEPT ![w].step = "MARK"] /\ rows' = rows
         \/ mails' \in {mails, taken} /\ hand' = [hand EXCEPT ![w] = Idle] /\ rows' = rows
         \/ mails' = mails /\ hand' = [hand EXCEPT ![w] = Idle] /\ rows' = [rows EXCEPT ![w] = {}]
  /\ UNCHANGED <<now, sub, signal, settled>>

\* mark_morning_digest: up to when the signals were looked at, for who is still enabled.
Faulty_MarkBack(r) == r.since
MarkedAt(r) == r.at
Mark(w) ==
  /\ hand[w].step = "MARK"
  /\ LET r == hand[w].row
     IN  /\ sub[r.user].on
         /\ sub' = [sub EXCEPT ![r.user].checked = MarkedAt(r)]
         /\ settled' = [settled EXCEPT ![r.user] = @ \cup {s \in hand[w].told : signal[s].at <= r.at}]
  /\ hand' = [hand EXCEPT ![w] = Idle]
  /\ UNCHANGED <<now, signal, rows, mails>>
MarkNothing(w) ==
  /\ hand[w].step = "MARK" /\ ~sub[hand[w].row.user].on
  /\ hand' = [hand EXCEPT ![w] = Idle]
  /\ UNCHANGED <<now, sub, signal, rows, mails, settled>>

\* Out of time, a call that failed, or a crash.
DigestEnds(w) ==
  /\ rows[w] # {} \/ hand[w] # Idle
  /\ rows' = [rows EXCEPT ![w] = {}] /\ hand' = [hand EXCEPT ![w] = Idle]
  /\ UNCHANGED <<now, sub, signal, mails, settled>>

\* An invocation lives 60 seconds and starts in the morning: it is over by midnight.
Tick ==
  /\ now < LastTick
  /\ Day(now + 1) # Day(now) => \A w \in Mornings : rows[w] = {} /\ hand[w] = Idle
  /\ now' = now + 1
  /\ UNCHANGED <<sub, signal, rows, hand, mails, settled>>

DigestNext ==
  \/ \E u \in Readers : Enable(u) \/ Disable(u)
  \/ \E s \in Signals : SaveBegins(s) \/ SaveCommits(s) \/ Reviewed(s)
  \/ \E w \in Mornings :
       \/ ClaimDigests(w) \/ SendRecap(w) \/ Mark(w) \/ MarkNothing(w) \/ DigestEnds(w)
       \/ \E r \in rows[w] : ReadSignals(w, r)
  \/ Tick

DigestSpec == DigestInit /\ [][DigestNext]_digestVars

-----------------------------------------------------------------------------
(* Properties.                                                             *)

\* Type invariant: nothing is dated after now.
DigestTypeOK ==
  /\ now \in Times
  /\ sub \in [Readers -> Subscription] /\ \A u \in Readers : sub[u].checked <= now /\ sub[u].claimed <= now
  /\ signal \in [Signals -> [at : Times, saved : BOOLEAN, open : BOOLEAN]]
  /\ rows \in [Mornings -> SUBSET Row]
  /\ hand \in [Mornings -> Hand]
  /\ mails \in [Readers -> [0..Day(LastTick) -> Nat]]
  /\ settled \in [Readers -> SUBSET Signals]

\* Two crons at once, a cron started again, or a subscription stopped and taken up again
\* never cost a reader two emails for one day.
OneRecapADay == \A u \in Readers, d \in 0..Day(LastTick) : mails[u][d] <= 1

\* A signal told by a recap that was recorded is never told again, unless it came after the
\* claim of that recap: a recap starts where the recorded one stopped, even when the reader
\* stopped and took up the subscription while it was under way.
ToldOnce ==
  [][\A w \in Mornings : hand[w].step = "SEND" /\ mails' # mails /\ hand'[w] # hand[w]
       => hand[w].told \cap settled[hand[w].row.user] = {}]_digestVars
=============================================================================
