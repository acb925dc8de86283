------------------------------ MODULE Delivery ------------------------------
(***************************************************************************)
(* What Self-Outreach promises of a message (docs/SELF_OUTREACH.md, 3), as *)
(* far as its SMTP server lets it: it leaves only once a person approved   *)
(* it, as approved, its recipient not having opted out; it is taken at     *)
(* most once a try, and a second time only after a copy nobody heard of,   *)
(* in a number of tries that is bounded; what is said of it is true of the *)
(* other copies, and an outcome known to be unknown stays so for ever.     *)
(*                                                                         *)
(* Nothing here says who does it: no worker, no lease, no candidate. A     *)
(* step may move several messages, each by one move of its own life.       *)
(***************************************************************************)
EXTENDS Integers

CONSTANTS Messages, Texts, NoText, MaxTries

VARIABLES
  status,     \* what is said of each message
  approved,   \* the messages a person approved
  text,       \* what each says
  refused,    \* the messages whose recipient opted out
  copies,     \* how many of each the SMTP server took
  unheard,    \* how many of these were taken for refused
  tries       \* the tries that count

vars == <<status, approved, text, refused, copies, unheard, tries>>

Typed ==
  /\ status \in [Messages -> {"NONE", "DRAFT", "READY", "SENDING", "SENT",
                              "FAILED", "CANCELLED", "UNCERTAIN"}]
  /\ approved \subseteq Messages
  /\ text \in [Messages -> Texts \cup {NoText}]
  /\ refused \subseteq Messages
  /\ copies \in [Messages -> Nat]
  /\ unheard \in [Messages -> Nat]
  /\ tries \in [Messages -> 0 .. MaxTries]

Init ==
  /\ status = [m \in Messages |-> "NONE"]
  /\ approved = {}
  /\ text = [m \in Messages |-> NoText]
  /\ refused = {}
  /\ copies = [m \in Messages |-> 0]
  /\ unheard = [m \in Messages |-> 0]
  /\ tries = [m \in Messages |-> 0]

Settled(m) == (m \in approved') = (m \in approved) /\ text'[m] = text[m]
Undelivered(m) == copies'[m] = copies[m] /\ unheard'[m] = unheard[m]
Untried(m) == tries'[m] = tries[m]
Unmoved(m) == status'[m] = status[m]

\* A text is written, or what was cancelled before anybody approved it again.
Write(m) ==
  /\ status[m] \in {"NONE", "CANCELLED", "DRAFT"}
  /\ status'[m] = "DRAFT"
  /\ m \notin approved \cup approved'
  /\ copies[m] = 0
  /\ Undelivered(m)
  /\ tries'[m] \in {0, tries[m]}

Approve(m) ==
  /\ status[m] = "DRAFT"
  /\ status'[m] = "READY"
  /\ m \notin approved \cup refused
  /\ m \in approved'
  /\ text'[m] = text[m]
  /\ Undelivered(m) /\ Untried(m)

Withdraw(m) ==
  /\ status[m] \in {"DRAFT", "READY"}
  /\ status'[m] = "CANCELLED"
  /\ Settled(m)
  /\ Undelivered(m) /\ Untried(m)

Try(m) ==
  /\ status[m] = "READY"
  /\ m \in approved \ refused
  /\ status'[m] = "SENDING"
  /\ tries'[m] = tries[m] + 1
  /\ Settled(m)
  /\ Undelivered(m)

\* The server may take a message after those who wait for it gave up, and
\* those who wait may not hear of it.
Deliver(m) ==
  /\ status[m] \in {"SENDING", "UNCERTAIN"}
  /\ copies[m] = unheard[m]
  /\ copies[m] < tries[m]
  /\ copies'[m] = copies[m] + 1
  /\ unheard'[m] \in {unheard[m], unheard[m] + 1}
  /\ Settled(m)
  /\ Unmoved(m) /\ Untried(m)

\* What is told of a try is what those who waited heard, or that nobody knows.
\* Only a try without a copy is given back.
Tell(m) ==
  /\ status[m] = "SENDING"
  /\ \/ status'[m] = "UNCERTAIN" /\ Untried(m)
     \/ status'[m] = "SENT" /\ copies[m] = unheard[m] + 1 /\ Untried(m)
     \/ /\ status'[m] \in {"READY", "FAILED"}
        /\ copies[m] = unheard[m]
        /\ tries'[m] \in {tries[m], tries[m] - 1}
        /\ copies[m] <= tries'[m]
  /\ Settled(m)
  /\ Undelivered(m)

Rest(m) == Unmoved(m) /\ Settled(m) /\ Undelivered(m) /\ Untried(m)

Next ==
  /\ Typed'
  /\ refused \subseteq refused'
  /\ \A m \in Messages :
       Rest(m) \/ Write(m) \/ Approve(m) \/ Withdraw(m) \/ Try(m) \/ Deliver(m) \/ Tell(m)

Spec == Init /\ [][Next]_vars
=============================================================================
