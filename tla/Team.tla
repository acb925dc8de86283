-------------------------------- MODULE Team --------------------------------
(***************************************************************************)
(* Teams of ProspectOS: the accounts of an organization, the invitations   *)
(* that let them in, and the deletion of an account                        *)
(* (db/migrations/022_team_pro.sql and 023_team_offer.sql, 008 and 018).   *)
(*                                                                         *)
(* The functions run at READ COMMITTED. A function whose decision and      *)
(* write are one statement is one step. create_team_invitation,            *)
(* accept_team_invitation and delete_own_account read, decide and write in *)
(* several statements: they are transactions of several steps, with the    *)
(* locks the code takes, the row of an invitation and the advisory lock    *)
(* 'team-seats' of an organization.                                        *)
(***************************************************************************)
EXTENDS Commons, Integers, FiniteSets

CONSTANTS
  People,       \* accounts; an account stands for its confirmed e-mail too
  Orgs,         \* organizations
  Founder,      \* Founder[o]: organizations.owner_id, written once
  Busy,         \* organizations that hold projects
  Invites,      \* rows of team_invitations that may be written (a bound)
  Connections,  \* transactions under way at a time (a bound)
  Plans,        \* what Billing may write: seats, and whether a team plan is active
  NoPlan,       \* what it has written for nobody yet
  Subscribers,  \* accounts whose plan changes (a bound)
  Leavers       \* accounts that may be deleted (a bound)

Roles == {"none", "member", "owner"}
Statuses == {"PENDING", "ACCEPTED", "REVOKED"}
Stages == {"active", "deleting", "deleted", "gone"}

ASSUME TeamAssumption ==
  /\ IsFiniteSet(People)
  /\ Founder \in [Orgs -> People]
  /\ Busy \subseteq Orgs
  /\ Plans \subseteq [seats : Nat, active : BOOLEAN]
  /\ NoPlan \in [seats : Nat, active : BOOLEAN]

VARIABLES
  role,    \* memberships
  invite,  \* team_invitations
  plan,    \* the entitlement of an account, as the team functions read it
  stage,   \* where the deletion of an account stands
  tx       \* the invitation or acceptance under way on a connection

vars == <<role, invite, plan, stage, tx>>

Invite == [org : Orgs, mail : People, status : Statuses, expired : BOOLEAN]

\* Local variables of a transaction: an invitation that has the seats lock of
\* its team (ASKED), then the rows it replaces (INVITING); an acceptance that has
\* its invitation (CHECKED), then the seats lock (COUNTED). cap is the code's own.
Steps == {"ASKED", "INVITING", "CHECKED", "COUNTED"}
Tx == [step : Steps, user : People, org : Orgs, mail : People,
       inv : Invites \cup {NULL}, cap : Nat]

ASSUME NullAssumption == NULL \notin Invite /\ NULL \notin Tx /\ NULL \notin Invites

Init ==
  /\ role = [o \in Orgs |-> [u \in People |-> IF u = Founder[o] THEN "owner" ELSE "none"]]
  /\ invite = [i \in Invites |-> NULL]
  /\ plan = [u \in People |-> NoPlan]
  /\ stage = [u \in People |-> "active"]
  /\ tx = [c \in Connections |-> NULL]

-----------------------------------------------------------------------------
Members(o) == {u \in People : role[o][u] # "none"}
InTeam(u) == \E o \in Orgs : role[o][u] = "member"

Pending(i) == invite[i] # NULL /\ invite[i].status = "PENDING"
PendingFor(i, o, m) == Pending(i) /\ invite[i].org = o /\ invite[i].mail = m
Live(i) == Pending(i) /\ ~invite[i].expired

Acts(u) == stage[u] # "gone"

\* owned_team: the oldest organization the user owns. One the user founded is
\* older than one joined and then received; the order of the others is left open.
OwnedTeam(u) ==
  LET owned == {o \in Orgs : role[o][u] = "owner"}
      founded == {o \in owned : Founder[o] = u}
  IN IF founded # {} THEN founded ELSE owned

\* require_team_owner
Manages(u, o) == Acts(u) /\ ~InTeam(u) /\ o \in OwnedTeam(u)

\* The rows a transaction has locked: those it replaces, or the one it accepts.
Locks(c, i) ==
  /\ tx[c] # NULL
  /\ \/ tx[c].step = "INVITING" /\ PendingFor(i, tx[c].org, tx[c].mail)
     \/ tx[c].step \in {"CHECKED", "COUNTED"} /\ tx[c].inv = i

Faulty_NoRowLock(i) == TRUE
RowFree(i) == \A c \in Connections : ~Locks(c, i)

\* The advisory lock 'team-seats'.
HasSeats(c, o) == tx[c] # NULL /\ tx[c].org = o /\ tx[c].step # "CHECKED"
Faulty_NoSeatsLock(o) == TRUE
SeatsFree(o) == \A c \in Connections : ~HasSeats(c, o)

\* team_seat_cap: the paid seats, or team_max_seats.
Capacity(p) == p.seats

\* The pending invitation that a new one for the same address replaces.
Faulty_KeepsOld(i, o, m) == FALSE
Replaced(i, o, m) == PendingFor(i, o, m)

WithStatus(r, s) == [org |-> r.org, mail |-> r.mail, status |-> s, expired |-> r.expired]

SetRole(o, u, r) == role' = [role EXCEPT ![o] = [@ EXCEPT ![u] = r]]
SetTx(c, t) == tx' = [tx EXCEPT ![c] = t]

-----------------------------------------------------------------------------
\* create_team_invitation up to the seats lock and the check of the address.
BeginInvite(c, u, o, m) ==
  /\ tx[c] = NULL
  /\ Manages(u, o)
  /\ plan[u].active
  /\ SeatsFree(o)
  /\ m \in Members(o) => stage[m] = "gone"
  /\ SetTx(c, [step |-> "ASKED", user |-> u, org |-> o, mail |-> m, inv |-> NULL, cap |-> 0])
  /\ UNCHANGED <<role, invite, plan, stage>>

\* The pending invitations it replaces, once their rows are free, and the count.
Reserve(c) ==
  /\ tx[c] # NULL /\ tx[c].step = "ASKED"
  /\ \A i \in Invites : PendingFor(i, tx[c].org, tx[c].mail) => RowFree(i)
  /\ Cardinality(Members(tx[c].org))
       + Cardinality({i \in Invites : /\ Live(i) /\ invite[i].org = tx[c].org
                                      /\ ~Replaced(i, tx[c].org, tx[c].mail)})
     < Capacity(plan[tx[c].user])
  /\ SetTx(c, [step |-> "INVITING", user |-> tx[c].user, org |-> tx[c].org,
               mail |-> tx[c].mail, inv |-> NULL, cap |-> Capacity(plan[tx[c].user])])
  /\ UNCHANGED <<role, invite, plan, stage>>

\* The insert and the commit, which also makes the replacement visible.
CommitInvite(c, i) ==
  /\ tx[c] # NULL /\ tx[c].step = "INVITING"
  /\ invite[i] = NULL
  /\ invite' = [j \in Invites |->
       IF j = i THEN [org |-> tx[c].org, mail |-> tx[c].mail,
                      status |-> "PENDING", expired |-> FALSE]
       ELSE IF Replaced(j, tx[c].org, tx[c].mail)
            THEN WithStatus(invite[j], "REVOKED")
            ELSE invite[j]]
  /\ SetTx(c, NULL)
  /\ UNCHANGED <<role, plan, stage>>

\* accept_team_invitation up to the seats lock: the invitation, locked and valid
\* at the start of the transaction, its address, the teams of the caller.
BeginAccept(c, u, i) ==
  /\ tx[c] = NULL
  /\ Acts(u)
  /\ Live(i) /\ RowFree(i)
  /\ invite[i].mail = u
  /\ ~InTeam(u)
  /\ u \notin Members(invite[i].org)
  /\ plan[Founder[invite[i].org]].active
  /\ SetTx(c, [step |-> "CHECKED", user |-> u, org |-> invite[i].org, mail |-> u,
               inv |-> i, cap |-> 0])
  /\ UNCHANGED <<role, invite, plan, stage>>

\* The seats lock, team_seat_cap and the count.
CountSeats(c) ==
  /\ tx[c] # NULL /\ tx[c].step = "CHECKED"
  /\ SeatsFree(tx[c].org)
  /\ Cardinality(Members(tx[c].org)) < Capacity(plan[Founder[tx[c].org]])
  /\ SetTx(c, [step |-> "COUNTED", user |-> tx[c].user, org |-> tx[c].org,
               mail |-> tx[c].mail, inv |-> tx[c].inv,
               cap |-> Capacity(plan[Founder[tx[c].org]])])
  /\ UNCHANGED <<role, invite, plan, stage>>

\* The inserts and the commit.
Join(c) ==
  /\ tx[c] # NULL /\ tx[c].step = "COUNTED"
  /\ tx[c].user \notin Members(tx[c].org)
  /\ SetRole(tx[c].org, tx[c].user, "member")
  /\ invite' = [invite EXCEPT ![tx[c].inv] = WithStatus(@, "ACCEPTED")]
  /\ SetTx(c, NULL)
  /\ UNCHANGED <<plan, stage>>

\* A refusal, a constraint, the victim of a deadlock, a lost connection.
Rollback(c) ==
  /\ tx[c] # NULL
  /\ SetTx(c, NULL)
  /\ UNCHANGED <<role, invite, plan, stage>>

\* revoke_team_invitation: one UPDATE, which waits for the row.
Revoke(u, i) ==
  /\ Pending(i) /\ RowFree(i)
  /\ Manages(u, invite[i].org)
  /\ invite' = [invite EXCEPT ![i] = WithStatus(@, "REVOKED")]
  /\ UNCHANGED <<role, plan, stage, tx>>

\* remove_team_member
Remove(u, o, v) ==
  /\ Manages(u, o)
  /\ role[o][v] = "member"
  /\ SetRole(o, v, "none")
  /\ UNCHANGED <<invite, plan, stage, tx>>

\* leave_team: every team joined by an invitation.
Leave(u) ==
  /\ Acts(u) /\ InTeam(u)
  /\ role' = [o \in Orgs |->
       IF role[o][u] = "member" THEN [role[o] EXCEPT ![u] = "none"] ELSE role[o]]
  /\ UNCHANGED <<invite, plan, stage, tx>>

Promoted(r) == "owner"

\* transfer_organization_ownership: a second owner; owner_id does not change.
Transfer(u, o, v) ==
  /\ Acts(u)
  /\ role[o][u] = "owner" /\ role[o][v] = "member"
  /\ SetRole(o, v, Promoted(role[o][v]))
  /\ UNCHANGED <<invite, plan, stage, tx>>

\* An organization that would be left without an owner while it holds something.
LastOwner(u, o) ==
  /\ role[o][u] = "owner"
  /\ \A v \in People \ {u} : role[o][v] # "owner"
  /\ o \in Busy \/ Members(o) # {u}

\* delete_own_account: the check of the last owner reads, and locks nothing.
BeginDelete(u) ==
  /\ stage[u] \in {"active", "deleted"}
  /\ \A o \in Orgs : ~LastOwner(u, o)
  /\ stage' = [stage EXCEPT ![u] = "deleting"]
  /\ UNCHANGED <<role, invite, plan, tx>>

\* The memberships are deleted; the e-mail and the session are still the user's.
FinishDelete(u) ==
  /\ stage[u] = "deleting"
  /\ role' = [o \in Orgs |-> [role[o] EXCEPT ![u] = "none"]]
  /\ stage' = [stage EXCEPT ![u] = "deleted"]
  /\ UNCHANGED <<invite, plan, tx>>

\* anonymizeAuthUser, a call of its own, which may also fail.
Anonymize(u) ==
  /\ stage[u] = "deleted"
  /\ stage' = [stage EXCEPT ![u] = "gone"]
  /\ UNCHANGED <<role, invite, plan, tx>>

\* expires_at passes.
Expire(i) ==
  /\ Live(i)
  /\ invite' = [invite EXCEPT ![i] =
       [org |-> @.org, mail |-> @.mail, status |-> @.status, expired |-> TRUE]]
  /\ UNCHANGED <<role, plan, stage, tx>>

\* Billing, or an operator, writes the entitlement of an account.
SetPlan(u, p) ==
  /\ plan[u] # p
  /\ plan' = [plan EXCEPT ![u] = p]
  /\ UNCHANGED <<role, invite, stage, tx>>

-----------------------------------------------------------------------------
Transaction(c) ==
  \/ \E u \in People, o \in Orgs, m \in People : BeginInvite(c, u, o, m)
  \/ Reserve(c)
  \/ \E i \in Invites : CommitInvite(c, i)
  \/ \E u \in People, i \in Invites : BeginAccept(c, u, i)
  \/ CountSeats(c) \/ Join(c) \/ Rollback(c)

PersonActs(u) ==
  \/ \E i \in Invites : Revoke(u, i)
  \/ \E o \in Orgs, v \in People : Remove(u, o, v) \/ Transfer(u, o, v)
  \/ Leave(u)
  \/ u \in Leavers /\ BeginDelete(u)
  \/ FinishDelete(u) \/ Anonymize(u)
  \/ u \in Subscribers /\ \E p \in Plans : SetPlan(u, p)

Next ==
  \/ \E c \in Connections : Transaction(c)
  \/ \E u \in People : PersonActs(u)
  \/ \E i \in Invites : Expire(i)

Spec == Init /\ [][Next]_vars

-----------------------------------------------------------------------------
(* Properties.                                                             *)

TypeOK ==
  /\ role \in [Orgs -> [People -> Roles]]
  /\ invite \in [Invites -> Invite \cup {NULL}]
  /\ plan \in [People -> [seats : Nat, active : BOOLEAN]]
  /\ stage \in [People -> Stages]
  /\ tx \in [Connections -> Tx \cup {NULL}]

\* "The team's capacity is its PAID seats" (023:7): however many acceptances
\* meet, a team grows to no more than the capacity its transaction read.
SeatsKept ==
  [][\A o \in Orgs : Members(o)' \ Members(o) # {} =>
       \E c \in Connections : /\ tx[c] # NULL /\ tx[c].org = o
                              /\ Cardinality(Members(o)') <= tx[c].cap]_vars

\* "single use, revocable" (022:11): an invitation accepted or revoked stays so;
\* a revocation and an acceptance that meet are decided once.
InvitationIsFinal ==
  [][\A i \in Invites : invite[i] # NULL /\ invite[i].status # "PENDING" =>
       invite'[i] # NULL /\ invite'[i].status = invite[i].status]_vars

\* "A new invitation for the same address replaces the pending one" (023:138):
\* an address never has two links that work.
OneLinkPerAddress ==
  \A i, j \in Invites : \A o \in Orgs, m \in People :
    PendingFor(i, o, m) /\ PendingFor(j, o, m) /\ Live(i) /\ Live(j) => i = j

\* "The last owner of an organization still active is blocked"
\* (docs/ACCOUNT_PRIVACY_BETA.md:53, "atomic" at line 38).
OwnerStays ==
  \A o \in Orgs : o \in Busy \/ Members(o) # {} => \E u \in People : role[o][u] = "owner"
=============================================================================
