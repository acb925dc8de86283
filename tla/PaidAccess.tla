----------------------------- MODULE PaidAccess -----------------------------
(***************************************************************************)
(* What billing promises about access (migration 017, header points 4 and  *)
(* 5): a commercial plan is opened only for a period somebody paid, and    *)
(* never moves a running period backwards; what an operator gives by hand  *)
(* is the operator's.                                                      *)
(***************************************************************************)
EXTENDS Integers

CONSTANTS Users, Offers, Manual, LastEnd

VARIABLES
  access,   \* what each user may use: a plan, its status, the end of its period
  paid      \* the periods each user paid, as <<offer, end>>

vars == <<access, paid>>

Access == [plan : Offers \cup Manual \cup {"NONE", "BETA"},
           status : {"ACTIVE", "EXPIRED", "REVOKED"}, end : 0..LastEnd]

Init ==
  /\ access = [u \in Users |-> [plan |-> "NONE", status |-> "EXPIRED", end |-> 0]]
  /\ paid = [u \in Users |-> {}]

Give(u, plan, status, end) ==
  access' = [access EXCEPT ![u] = [plan |-> plan, status |-> status, end |-> end]]

Pay(u) ==
  /\ \E p \in paid'[u] \ paid[u] : /\ p \in Offers \X (1..LastEnd)
                                   /\ paid' = [paid EXCEPT ![u] = @ \cup {p}]
  /\ UNCHANGED access

Running(a) == a.plan \in Offers /\ a.status = "ACTIVE"

Open(u) ==
  /\ access[u].plan \notin Manual
  /\ \E p \in paid[u] :
       /\ Running(access[u]) => access[u].end <= p[2]
       /\ Give(u, p[1], "ACTIVE", p[2])
  /\ UNCHANGED paid

Close(u) ==
  /\ Running(access[u])
  /\ Give(u, access[u].plan, "EXPIRED", access[u].end)
  /\ UNCHANGED paid

Try(u) ==
  /\ access[u].plan = "NONE"
  /\ Give(u, "BETA", "ACTIVE", 0)
  /\ UNCHANGED paid

Leave(u) ==
  /\ access[u].plan = "BETA"
  /\ Give(u, "BETA", "REVOKED", access[u].end)
  /\ UNCHANGED paid

\* An operator, by hand, whatever the user had.
Appoint(u) ==
  /\ \E p \in Manual \cup {"BETA"} : Give(u, p, "ACTIVE", 0)
  /\ UNCHANGED paid

Next == \E u \in Users : Pay(u) \/ Open(u) \/ Close(u) \/ Try(u) \/ Leave(u) \/ Appoint(u)

Spec == Init /\ [][Next]_vars
=============================================================================
