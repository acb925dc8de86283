----------------------------- MODULE TeamProofs -----------------------------
(***************************************************************************)
(* Proofs about Team, for any number of accounts, organizations,           *)
(* invitations and connections: types, the two locks, and the three        *)
(* statements they are there for; and about Usage, the quotas of the       *)
(* members of the teams, for any accounts, teams, texts and requests.      *)
(***************************************************************************)
EXTENDS Team, Usage, FiniteSetTheorems, SequenceTheorems, TLAPS

\* An acceptance holds an invitation that is open, for its team and its user.
HoldsItsInvitation ==
  \A c \in Connections : tx[c] # NULL /\ tx[c].step \in {"CHECKED", "COUNTED"} =>
    /\ tx[c].inv \in Invites
    /\ PendingFor(tx[c].inv, tx[c].org, tx[c].mail)

\* Two transactions never have the same row, nor the seats of the same team.
RowsApart ==
  \A c, d \in Connections : \A i \in Invites : Locks(c, i) /\ Locks(d, i) => c = d

SeatsApart ==
  \A c, d \in Connections : \A o \in Orgs : HasSeats(c, o) /\ HasSeats(d, o) => c = d

\* OneLinkPerAddress without the dates.
OneOpen ==
  \A i, j \in Invites : \A o \in Orgs, m \in People :
    PendingFor(i, o, m) /\ PendingFor(j, o, m) => i = j

\* Whoever has counted still has room.
RoomLeft ==
  \A c \in Connections : tx[c] # NULL /\ tx[c].step = "COUNTED" =>
    Cardinality(Members(tx[c].org)) < tx[c].cap

LockInv == HoldsItsInvitation /\ RowsApart /\ SeatsApart

-----------------------------------------------------------------------------
(* Types.                                                                  *)

LEMMA InitTyped == Init => TypeOK
BY TeamAssumption DEF Init, TypeOK, Roles, Stages

LEMMA NewInvite ==
  ASSUME NEW o \in Orgs, NEW m \in People
  PROVE  [org |-> o, mail |-> m, status |-> "PENDING", expired |-> FALSE] \in Invite
BY DEF Invite, Statuses

LEMMA StatusTyped ==
  ASSUME NEW r \in Invite, NEW s \in Statuses
  PROVE  /\ WithStatus(r, s) \in Invite
         /\ WithStatus(r, s).status = s
BY DEF Invite, WithStatus

LEMMA NewTx ==
  ASSUME NEW s \in Steps, NEW u \in People, NEW o \in Orgs,
         NEW m \in People, NEW i \in Invites \cup {NULL}, NEW n \in Nat
  PROVE  [step |-> s, user |-> u, org |-> o, mail |-> m, inv |-> i, cap |-> n] \in Tx
BY DEF Tx

LEMMA CapacityNat ==
  ASSUME TypeOK, NEW u \in People
  PROVE  Capacity(plan[u]) \in Nat
<1>1. plan[u] \in [seats : Nat, active : BOOLEAN]
  BY DEF TypeOK
<1> QED BY <1>1 DEF Capacity

LEMMA TxTyped ==
  ASSUME TypeOK, NEW c \in Connections, tx[c] # NULL
  PROVE  /\ tx[c] \in Tx
         /\ tx[c].org \in Orgs /\ tx[c].mail \in People /\ tx[c].user \in People
         /\ tx[c].inv \in Invites \cup {NULL} /\ tx[c].cap \in Nat
         /\ tx[c].step \in Steps
<1>1. tx[c] \in Tx
  BY DEF TypeOK
<1> QED BY <1>1 DEF Tx

LEMMA PendingTyped ==
  ASSUME TypeOK, NEW i \in Invites, Pending(i)
  PROVE  invite[i] \in Invite /\ invite[i].org \in Orgs /\ invite[i].mail \in People
<1>1. invite[i] \in Invite
  BY DEF TypeOK, Pending
<1> QED BY <1>1 DEF Invite

\* A step keeps the types, given that an acceptance holds an invitation.
LEMMA StepTyped ==
  ASSUME TypeOK, HoldsItsInvitation, [Next]_vars
  PROVE  TypeOK'
<1>1. CASE UNCHANGED vars
  BY <1>1 DEF TypeOK, vars
<1>2. ASSUME NEW c \in Connections, Transaction(c)
      PROVE  TypeOK'
  <2>1. ASSUME NEW u \in People, NEW o \in Orgs, NEW m \in People, BeginInvite(c, u, o, m)
        PROVE  TypeOK'
    <3>1. [step |-> "ASKED", user |-> u, org |-> o, mail |-> m, inv |-> NULL, cap |-> 0] \in Tx
      BY NewTx DEF Steps
    <3> QED BY <2>1, <3>1 DEF BeginInvite, SetTx, TypeOK
  <2>2. ASSUME NEW i \in Invites, CommitInvite(c, i)
        PROVE  TypeOK'
    <3>1. tx[c].org \in Orgs /\ tx[c].mail \in People
      BY <2>2, TxTyped DEF CommitInvite
    <3>2. [org |-> tx[c].org, mail |-> tx[c].mail, status |-> "PENDING", expired |-> FALSE]
            \in Invite
      BY <3>1, NewInvite
    <3>3. ASSUME NEW j \in Invites, PendingFor(j, tx[c].org, tx[c].mail)
          PROVE  WithStatus(invite[j], "REVOKED") \in Invite
      BY <3>3, PendingTyped, StatusTyped DEF PendingFor, Statuses
    <3>4. invite' \in [Invites -> Invite \cup {NULL}]
      BY <2>2, <3>2, <3>3 DEF CommitInvite, Replaced, TypeOK
    <3> QED BY <2>2, <3>4 DEF CommitInvite, SetTx, TypeOK
  <2>3. ASSUME NEW u \in People, NEW i \in Invites, BeginAccept(c, u, i)
        PROVE  TypeOK'
    <3>1. invite[i].org \in Orgs
      BY <2>3, PendingTyped DEF BeginAccept, Live
    <3>2. [step |-> "CHECKED", user |-> u, org |-> invite[i].org, mail |-> u,
           inv |-> i, cap |-> 0] \in Tx
      BY <3>1, NewTx DEF Steps
    <3> QED BY <2>3, <3>2 DEF BeginAccept, SetTx, TypeOK
  <2>4. CASE CountSeats(c)
    <3>1. Founder[tx[c].org] \in People
      BY <2>4, TxTyped, TeamAssumption DEF CountSeats
    <3>2. [step |-> "COUNTED", user |-> tx[c].user, org |-> tx[c].org,
           mail |-> tx[c].mail, inv |-> tx[c].inv,
           cap |-> Capacity(plan[Founder[tx[c].org]])] \in Tx
      BY <2>4, <3>1, TxTyped, NewTx, CapacityNat DEF CountSeats, Steps
    <3> QED BY <2>4, <3>2 DEF CountSeats, SetTx, TypeOK
  <2>5. CASE Join(c)
    <3>1. /\ tx[c].inv \in Invites
          /\ invite[tx[c].inv] \in Invite
      BY <2>5, PendingTyped DEF Join, HoldsItsInvitation, PendingFor
    <3>2. WithStatus(invite[tx[c].inv], "ACCEPTED") \in Invite
      BY <3>1, StatusTyped DEF Statuses
    <3>3. invite' \in [Invites -> Invite \cup {NULL}]
      BY <2>5, <3>2 DEF Join, TypeOK
    <3>4. role' \in [Orgs -> [People -> Roles]]
      BY <2>5, TxTyped DEF Join, SetRole, TypeOK, Roles
    <3> QED BY <2>5, <3>3, <3>4 DEF Join, SetTx, TypeOK
  <2>6. CASE Rollback(c)
    BY <2>6 DEF Rollback, SetTx, TypeOK
  <2>7. CASE Reserve(c)
    <3>1. [step |-> "INVITING", user |-> tx[c].user, org |-> tx[c].org, mail |-> tx[c].mail,
           inv |-> NULL, cap |-> Capacity(plan[tx[c].user])] \in Tx
      BY <2>7, TxTyped, NewTx, CapacityNat DEF Reserve, Steps
    <3> QED BY <2>7, <3>1 DEF Reserve, SetTx, TypeOK
  <2> QED BY <1>2, <2>1, <2>2, <2>3, <2>4, <2>5, <2>6, <2>7 DEF Transaction
<1>3. ASSUME NEW u \in People, PersonActs(u)
      PROVE  TypeOK'
  <2>1. ASSUME NEW i \in Invites, Revoke(u, i)
        PROVE  TypeOK'
    <3>1. WithStatus(invite[i], "REVOKED") \in Invite
      BY <2>1, PendingTyped, StatusTyped DEF Revoke, Statuses
    <3> QED BY <2>1, <3>1 DEF Revoke, TypeOK
  <2>2. ASSUME NEW o \in Orgs, NEW v \in People, Remove(u, o, v)
        PROVE  TypeOK'
    BY <2>2 DEF Remove, SetRole, TypeOK, Roles
  <2>3. ASSUME NEW o \in Orgs, NEW v \in People, Transfer(u, o, v)
        PROVE  TypeOK'
    BY <2>3 DEF Transfer, Promoted, SetRole, TypeOK, Roles
  <2>4. CASE Leave(u)
    BY <2>4 DEF Leave, TypeOK, Roles
  <2>5. CASE BeginDelete(u)
    BY <2>5 DEF BeginDelete, TypeOK, Stages
  <2>6. CASE FinishDelete(u)
    BY <2>6 DEF FinishDelete, TypeOK, Stages, Roles
  <2>7. CASE Anonymize(u)
    BY <2>7 DEF Anonymize, TypeOK, Stages
  <2>8. ASSUME NEW p \in Plans, SetPlan(u, p)
        PROVE  TypeOK'
    <3>1. p \in [seats : Nat, active : BOOLEAN]
      BY TeamAssumption
    <3> QED BY <2>8, <3>1 DEF SetPlan, TypeOK
  <2> QED BY <1>3, <2>1, <2>2, <2>3, <2>4, <2>5, <2>6, <2>7, <2>8 DEF PersonActs
<1>4. ASSUME NEW i \in Invites, Expire(i)
      PROVE  TypeOK'
  <2>1. invite[i] \in Invite
    BY <1>4, PendingTyped DEF Expire, Live
  <2>2. [org |-> invite[i].org, mail |-> invite[i].mail, status |-> invite[i].status,
         expired |-> TRUE] \in Invite
    BY <2>1 DEF Invite
  <2> QED BY <1>4, <2>2 DEF Expire, TypeOK
<1> QED BY <1>1, <1>2, <1>3, <1>4 DEF Next

-----------------------------------------------------------------------------
(* The locks.                                                              *)

\* What a step of one account does to the rows: it locks none, and the row it
\* closes was free.
Untouched(i) == invite'[i] = invite[i]
Closed(i) == Pending(i) /\ ~Pending(i)' /\ invite'[i] # NULL

LEMMA AccountRows ==
  ASSUME TypeOK, NEW u \in People, PersonActs(u)
  PROVE  tx' = tx /\ \A i \in Invites : Untouched(i) \/ (RowFree(i) /\ Closed(i))
<1>1. ASSUME NEW j \in Invites, Revoke(u, j)
      PROVE  \A i \in Invites : Untouched(i) \/ (RowFree(i) /\ Closed(i))
  <2>1. invite[j] \in Invite /\ invite \in [Invites -> Invite \cup {NULL}]
    BY <1>1, PendingTyped DEF Revoke, TypeOK
  <2>2. invite'[j] = WithStatus(invite[j], "REVOKED")
    BY <1>1, <2>1 DEF Revoke
  <2>3. invite'[j].status = "REVOKED" /\ invite'[j] \in Invite
    BY <2>1, <2>2, StatusTyped DEF Statuses
  <2>4. \A i \in Invites \ {j} : invite'[i] = invite[i]
    BY <1>1, <2>1 DEF Revoke
  <2> QED BY <1>1, <2>3, <2>4, NullAssumption DEF Revoke, Pending, Untouched, Closed
<1>2. tx' = tx
  BY DEF PersonActs, Revoke, Remove, Transfer, Leave, BeginDelete, FinishDelete,
         Anonymize, SetPlan
<1>3. (\E i \in Invites : Revoke(u, i)) \/ invite' = invite
  BY DEF PersonActs, Remove, Transfer, Leave, BeginDelete, FinishDelete, Anonymize, SetPlan
<1> QED BY <1>1, <1>2, <1>3 DEF Untouched

\* The same for the date of an invitation.
LEMMA ExpireRows ==
  ASSUME TypeOK, NEW i \in Invites, Expire(i)
  PROVE  /\ tx' = tx
         /\ \A j \in Invites, o \in Orgs, m \in People :
              PendingFor(j, o, m)' <=> PendingFor(j, o, m)
<1>1. invite[i] \in Invite /\ invite \in [Invites -> Invite \cup {NULL}]
  BY PendingTyped DEF Expire, Live, TypeOK
<1>2. invite'[i] = [org |-> invite[i].org, mail |-> invite[i].mail,
                    status |-> invite[i].status, expired |-> TRUE]
  BY <1>1 DEF Expire
<1>3. /\ invite'[i].org = invite[i].org /\ invite'[i].mail = invite[i].mail
      /\ invite'[i].status = invite[i].status /\ invite'[i] \in Invite
  BY <1>1, <1>2 DEF Invite
<1>4. \A j \in Invites \ {i} : invite'[j] = invite[j]
  BY <1>1 DEF Expire
<1> QED BY <1>1, <1>3, <1>4, NullAssumption DEF PendingFor, Pending, Expire

\* Locks of the transactions that a step leaves alone, when no row changes.
LEMMA InitLocks == Init => LockInv
BY DEF Init, LockInv, HoldsItsInvitation, RowsApart, SeatsApart, Locks, HasSeats

LEMMA AccountLocks ==
  ASSUME TypeOK, LockInv, NEW u \in People, PersonActs(u)
  PROVE  LockInv'
<1>1. tx' = tx /\ \A i \in Invites : Untouched(i) \/ (RowFree(i) /\ Closed(i))
  BY AccountRows
<1>2. HoldsItsInvitation'
  <2>1. SUFFICES ASSUME NEW c \in Connections, tx[c] # NULL, tx[c].step \in {"CHECKED", "COUNTED"}
                 PROVE  tx[c].inv \in Invites /\ PendingFor(tx[c].inv, tx[c].org, tx[c].mail)'
    BY <1>1 DEF HoldsItsInvitation, PendingFor, Pending
  <2>2. tx[c].inv \in Invites /\ PendingFor(tx[c].inv, tx[c].org, tx[c].mail)
    BY <2>1 DEF LockInv, HoldsItsInvitation
  <2>3. ~RowFree(tx[c].inv)
    BY <2>1, <2>2 DEF RowFree, Locks
  <2>4. invite'[tx[c].inv] = invite[tx[c].inv]
    BY <1>1, <2>2, <2>3 DEF Untouched
  <2> QED BY <1>1, <2>2, <2>4 DEF PendingFor, Pending
<1>3. \A c \in Connections, i \in Invites : Locks(c, i)' => Locks(c, i)
  <2>1. SUFFICES ASSUME NEW c \in Connections, NEW i \in Invites, Locks(c, i)'
                 PROVE  Locks(c, i)
    OBVIOUS
  <2>2. CASE Untouched(i)
    BY <1>1, <2>1, <2>2 DEF Untouched, Locks, PendingFor, Pending
  <2>3. CASE Closed(i)
    BY <1>1, <2>1, <2>3 DEF Closed, Locks, PendingFor
  <2> QED BY <1>1, <2>2, <2>3
<1>4. RowsApart'
  BY <1>3 DEF LockInv, RowsApart
<1>5. SeatsApart'
  BY <1>1 DEF LockInv, SeatsApart, HasSeats
<1> QED BY <1>2, <1>4, <1>5 DEF LockInv

LEMMA ExpireLocks ==
  ASSUME TypeOK, LockInv, NEW i \in Invites, Expire(i)
  PROVE  LockInv'
<1>1. /\ tx' = tx
      /\ \A j \in Invites, o \in Orgs, m \in People :
           PendingFor(j, o, m)' <=> PendingFor(j, o, m)
  BY ExpireRows
<1>2. \A c \in Connections : tx[c] # NULL => tx[c].org \in Orgs /\ tx[c].mail \in People
  BY TxTyped
<1>3. HoldsItsInvitation'
  BY <1>1, <1>2 DEF LockInv, HoldsItsInvitation
<1>4. RowsApart'
  BY <1>1, <1>2 DEF LockInv, RowsApart, Locks
<1>5. SeatsApart'
  BY <1>1 DEF LockInv, SeatsApart, HasSeats
<1> QED BY <1>3, <1>4, <1>5 DEF LockInv

\* A connection that begins a transaction whose rows and seats are free, or
\* that ends one, while no row changes.
LEMMA TakesFree ==
  ASSUME TypeOK, LockInv, NEW c \in Connections,
         invite' = invite,
         \A d \in Connections \ {c} : tx'[d] = tx[d],
         \A i \in Invites : Locks(c, i)' => \A d \in Connections \ {c} : ~Locks(d, i),
         \A o \in Orgs : HasSeats(c, o)' => \A d \in Connections \ {c} : ~HasSeats(d, o),
         tx'[c] # NULL /\ tx'[c].step \in {"CHECKED", "COUNTED"} =>
           tx'[c].inv \in Invites /\ PendingFor(tx'[c].inv, tx'[c].org, tx'[c].mail)
  PROVE  LockInv'
<1>1. \A d \in Connections \ {c} : /\ \A i \in Invites : Locks(d, i)' <=> Locks(d, i)
                                   /\ \A o \in Orgs : HasSeats(d, o)' <=> HasSeats(d, o)
  BY DEF Locks, HasSeats, PendingFor, Pending
<1>2. HoldsItsInvitation'
  BY DEF LockInv, HoldsItsInvitation, PendingFor, Pending
<1>3. RowsApart'
  BY <1>1 DEF LockInv, RowsApart
<1>4. SeatsApart'
  BY <1>1 DEF LockInv, SeatsApart
<1> QED BY <1>2, <1>3, <1>4 DEF LockInv

LEMMA BeginInviteLocks ==
  ASSUME TypeOK, LockInv, NEW c \in Connections,
         NEW u \in People, NEW o \in Orgs, NEW m \in People, BeginInvite(c, u, o, m)
  PROVE  LockInv'
<1> DEFINE t == [step |-> "ASKED", user |-> u, org |-> o, mail |-> m,
                 inv |-> NULL, cap |-> 0]
<1>1. tx'[c] = t /\ \A d \in Connections \ {c} : tx'[d] = tx[d]
  BY DEF BeginInvite, SetTx, TypeOK
<1>2. t.step = "ASKED" /\ t.org = o
  OBVIOUS
<1> HIDE DEF t
<1>3. invite' = invite
  BY DEF BeginInvite
<1>4. \A i \in Invites : ~Locks(c, i)'
  BY <1>1, <1>2 DEF Locks
<1>5. \A p \in Orgs : HasSeats(c, p)' => \A d \in Connections \ {c} : ~HasSeats(d, p)
  BY <1>1, <1>2 DEF BeginInvite, HasSeats, SeatsFree
<1> QED BY <1>1, <1>2, <1>3, <1>4, <1>5, TakesFree

LEMMA ReserveLocks ==
  ASSUME TypeOK, LockInv, NEW c \in Connections, Reserve(c)
  PROVE  LockInv'
<1> DEFINE t == [step |-> "INVITING", user |-> tx[c].user, org |-> tx[c].org,
                 mail |-> tx[c].mail, inv |-> NULL, cap |-> Capacity(plan[tx[c].user])]
<1>1. tx'[c] = t /\ \A d \in Connections \ {c} : tx'[d] = tx[d]
  BY DEF Reserve, SetTx, TypeOK
<1>2. t.step = "INVITING" /\ t.org = tx[c].org /\ t.mail = tx[c].mail
  OBVIOUS
<1> HIDE DEF t
<1>3. invite' = invite /\ tx[c] # NULL /\ tx[c].step = "ASKED"
  BY DEF Reserve
<1>4. \A i \in Invites : Locks(c, i)' => \A d \in Connections \ {c} : ~Locks(d, i)
  <2>1. \A i \in Invites : Locks(c, i)' => PendingFor(i, tx[c].org, tx[c].mail)
    BY <1>1, <1>2, <1>3 DEF Locks, PendingFor, Pending
  <2> QED BY <2>1 DEF Reserve, RowFree
<1>5. \A p \in Orgs : HasSeats(c, p)' => \A d \in Connections \ {c} : ~HasSeats(d, p)
  <2>1. \A p \in Orgs : HasSeats(c, p)' => HasSeats(c, p)
    BY <1>1, <1>2, <1>3 DEF HasSeats
  <2> QED BY <2>1 DEF LockInv, SeatsApart
<1> QED BY <1>1, <1>2, <1>3, <1>4, <1>5, TakesFree

LEMMA BeginAcceptLocks ==
  ASSUME TypeOK, LockInv, NEW c \in Connections,
         NEW u \in People, NEW i \in Invites, BeginAccept(c, u, i)
  PROVE  LockInv'
<1> DEFINE t == [step |-> "CHECKED", user |-> u, org |-> invite[i].org, mail |-> u,
                 inv |-> i, cap |-> 0]
<1>1. tx'[c] = t /\ \A d \in Connections \ {c} : tx'[d] = tx[d]
  BY DEF BeginAccept, SetTx, TypeOK
<1>2. t.step = "CHECKED" /\ t.org = invite[i].org /\ t.mail = u /\ t.inv = i
  OBVIOUS
<1> HIDE DEF t
<1>3. invite' = invite
  BY DEF BeginAccept
<1>4. \A j \in Invites : Locks(c, j)' => \A d \in Connections \ {c} : ~Locks(d, j)
  <2>1. \A j \in Invites : Locks(c, j)' => j = i
    BY <1>1, <1>2 DEF Locks
  <2> QED BY <2>1 DEF BeginAccept, RowFree
<1>5. \A p \in Orgs : HasSeats(c, p)' => FALSE
  BY <1>1, <1>2 DEF HasSeats
<1>6. PendingFor(i, invite[i].org, u)
  BY DEF BeginAccept, Live, PendingFor
<1> QED BY <1>1, <1>2, <1>3, <1>4, <1>5, <1>6, TakesFree

LEMMA CountSeatsLocks ==
  ASSUME TypeOK, LockInv, NEW c \in Connections, CountSeats(c)
  PROVE  LockInv'
<1> DEFINE t == [step |-> "COUNTED", user |-> tx[c].user, org |-> tx[c].org,
                 mail |-> tx[c].mail, inv |-> tx[c].inv,
                 cap |-> Capacity(plan[Founder[tx[c].org]])]
<1>1. tx'[c] = t /\ \A d \in Connections \ {c} : tx'[d] = tx[d]
  BY DEF CountSeats, SetTx, TypeOK
<1>2. t.step = "COUNTED" /\ t.org = tx[c].org /\ t.mail = tx[c].mail /\ t.inv = tx[c].inv
  OBVIOUS
<1> HIDE DEF t
<1>3. invite' = invite /\ tx[c] # NULL /\ tx[c].step = "CHECKED"
  BY DEF CountSeats
<1>4. tx[c].inv \in Invites /\ PendingFor(tx[c].inv, tx[c].org, tx[c].mail)
  BY <1>3 DEF LockInv, HoldsItsInvitation
<1>5. \A i \in Invites : Locks(c, i)' => \A d \in Connections \ {c} : ~Locks(d, i)
  <2>1. \A i \in Invites : Locks(c, i)' => Locks(c, i)
    BY <1>1, <1>2, <1>3 DEF Locks
  <2> QED BY <2>1 DEF LockInv, RowsApart
<1>6. \A p \in Orgs : HasSeats(c, p)' => \A d \in Connections \ {c} : ~HasSeats(d, p)
  BY <1>1, <1>2 DEF CountSeats, HasSeats, SeatsFree
<1> QED BY <1>1, <1>2, <1>3, <1>4, <1>5, <1>6, TakesFree

LEMMA RollbackLocks ==
  ASSUME TypeOK, LockInv, NEW c \in Connections, Rollback(c)
  PROVE  LockInv'
<1>1. invite' = invite /\ tx'[c] = NULL /\ \A d \in Connections \ {c} : tx'[d] = tx[d]
  BY DEF Rollback, SetTx, TypeOK
<1>2. /\ \A i \in Invites : ~Locks(c, i)'
      /\ \A o \in Orgs : ~HasSeats(c, o)'
  BY <1>1 DEF Locks, HasSeats
<1> QED BY <1>1, <1>2, TakesFree

-----------------------------------------------------------------------------
(* The two commits.                                                        *)

\* What the commit of an invitation does to the rows: it inserts one, closes
\* those for the same address, and leaves the others.
LEMMA InvitedRows ==
  ASSUME TypeOK, NEW c \in Connections, NEW i \in Invites, CommitInvite(c, i)
  PROVE  /\ tx'[c] = NULL /\ \A d \in Connections \ {c} : tx'[d] = tx[d]
         /\ \A o \in Orgs, m \in People :
              PendingFor(i, o, m)' <=> o = tx[c].org /\ m = tx[c].mail
         /\ \A j \in Invites \ {i} :
              IF PendingFor(j, tx[c].org, tx[c].mail) THEN Closed(j) ELSE Untouched(j)
<1> DEFINE new == [org |-> tx[c].org, mail |-> tx[c].mail,
                   status |-> "PENDING", expired |-> FALSE]
<1>1. tx[c].org \in Orgs /\ tx[c].mail \in People
  BY TxTyped DEF CommitInvite
<1>2. new \in Invite /\ new.org = tx[c].org /\ new.mail = tx[c].mail /\ new.status = "PENDING"
  BY <1>1, NewInvite
<1>3. invite'[i] = new
  BY DEF CommitInvite
<1> HIDE DEF new
<1>4. invite'[i] # NULL
  BY <1>2, <1>3, NullAssumption
<1>5. ASSUME NEW j \in Invites \ {i}, PendingFor(j, tx[c].org, tx[c].mail)
      PROVE  Closed(j)
  <2>1. invite[j] \in Invite
    BY <1>5, PendingTyped DEF PendingFor
  <2>2. invite'[j] = WithStatus(invite[j], "REVOKED")
    BY <1>5 DEF CommitInvite, Replaced
  <2>3. invite'[j] \in Invite /\ invite'[j].status = "REVOKED"
    BY <2>1, <2>2, StatusTyped DEF Statuses
  <2>4. ~Pending(j)' /\ invite'[j] # NULL
    BY <2>3, NullAssumption DEF Pending
  <2> QED BY <1>5, <2>4 DEF Closed, PendingFor
<1>6. ASSUME NEW j \in Invites \ {i}, ~PendingFor(j, tx[c].org, tx[c].mail)
      PROVE  Untouched(j)
  BY <1>6 DEF CommitInvite, Replaced, Untouched
<1>7. tx'[c] = NULL /\ \A d \in Connections \ {c} : tx'[d] = tx[d]
  BY DEF CommitInvite, SetTx, TypeOK
<1> QED
  BY <1>2, <1>3, <1>4, <1>5, <1>6, <1>7 DEF PendingFor, Pending

LEMMA CommitInviteLocks ==
  ASSUME TypeOK, LockInv, NEW c \in Connections, NEW i \in Invites, CommitInvite(c, i)
  PROVE  LockInv'
<1>1. /\ tx'[c] = NULL /\ \A d \in Connections \ {c} : tx'[d] = tx[d]
      /\ \A o \in Orgs, m \in People :
           PendingFor(i, o, m)' <=> o = tx[c].org /\ m = tx[c].mail
      /\ \A j \in Invites \ {i} :
           IF PendingFor(j, tx[c].org, tx[c].mail) THEN Closed(j) ELSE Untouched(j)
  BY InvitedRows
<1>2. tx[c] # NULL /\ tx[c].step = "INVITING" /\ invite[i] = NULL
  BY DEF CommitInvite
<1>3. HasSeats(c, tx[c].org) /\ tx[c].org \in Orgs
  BY <1>2, TxTyped DEF HasSeats
<1>4. ASSUME NEW d \in Connections \ {c}, tx[d] # NULL, tx[d].step \in {"CHECKED", "COUNTED"}
      PROVE  /\ tx[d].inv \in Invites \ {i}
             /\ invite'[tx[d].inv] = invite[tx[d].inv]
             /\ PendingFor(tx[d].inv, tx[d].org, tx[d].mail)
  <2>1. tx[d].inv \in Invites /\ PendingFor(tx[d].inv, tx[d].org, tx[d].mail)
    BY <1>4 DEF LockInv, HoldsItsInvitation
  <2>2. tx[d].inv # i
    BY <1>2, <2>1 DEF PendingFor, Pending
  <2>3. Locks(d, tx[d].inv)
    BY <1>4 DEF Locks
  <2>4. ~PendingFor(tx[d].inv, tx[c].org, tx[c].mail)
    BY <1>2, <2>1, <2>3 DEF LockInv, RowsApart, Locks
  <2> QED BY <1>1, <2>1, <2>2, <2>4 DEF Untouched
<1>5. HoldsItsInvitation'
  <2>1. SUFFICES ASSUME NEW d \in Connections, tx'[d] # NULL, tx'[d].step \in {"CHECKED", "COUNTED"}
                 PROVE  /\ tx'[d].inv \in Invites
                        /\ PendingFor(tx[d].inv, tx[d].org, tx[d].mail)'
    BY DEF HoldsItsInvitation
  <2>2. d # c /\ tx'[d] = tx[d]
    BY <1>1, <2>1
  <2> QED BY <1>4, <2>1, <2>2 DEF PendingFor, Pending
<1>6. ASSUME NEW d \in Connections, NEW j \in Invites, Locks(d, j)'
      PROVE  Locks(d, j)
  <2>1. d # c /\ tx'[d] = tx[d] /\ tx[d] # NULL
    BY <1>1, <1>6 DEF Locks
  <2>2. CASE tx[d].step # "INVITING"
    BY <1>6, <2>1, <2>2 DEF Locks
  <2>3. CASE tx[d].step = "INVITING"
    <3>1. PendingFor(j, tx[d].org, tx[d].mail)'
      BY <1>6, <2>1, <2>3 DEF Locks
    <3>2. tx[d].org \in Orgs /\ tx[d].mail \in People
      BY <2>1, TxTyped
    <3>3. j # i
      <4>1. SUFFICES ASSUME j = i PROVE FALSE
        OBVIOUS
      <4>2. tx[d].org = tx[c].org
        BY <1>1, <2>1, <3>1, <3>2, <4>1 DEF PendingFor, Pending
      <4>3. HasSeats(d, tx[c].org)
        BY <2>1, <2>3, <4>2 DEF HasSeats
      <4> QED BY <1>3, <2>1, <4>3 DEF LockInv, SeatsApart
    <3>4. Untouched(j)
      BY <1>1, <3>1, <3>3 DEF Closed, PendingFor
    <3> QED BY <2>1, <2>3, <3>1, <3>4 DEF Untouched, Locks, PendingFor, Pending
  <2> QED BY <2>2, <2>3
<1>7. RowsApart'
  BY <1>6 DEF LockInv, RowsApart
<1>8. SeatsApart'
  BY <1>1 DEF LockInv, SeatsApart, HasSeats
<1> QED BY <1>5, <1>7, <1>8 DEF LockInv

\* What the commit of an acceptance does: it closes its row and lets its user in.
LEMMA JoinedRows ==
  ASSUME TypeOK, LockInv, NEW c \in Connections, Join(c)
  PROVE  /\ tx'[c] = NULL /\ \A d \in Connections \ {c} : tx'[d] = tx[d]
         /\ tx[c].inv \in Invites
         /\ \A j \in Invites : IF j = tx[c].inv THEN Closed(j) ELSE Untouched(j)
<1>1. /\ tx[c] # NULL /\ tx[c].step = "COUNTED"
      /\ tx[c].inv \in Invites /\ Pending(tx[c].inv)
  BY DEF Join, LockInv, HoldsItsInvitation, PendingFor
<1>2. invite[tx[c].inv] \in Invite
  BY <1>1, PendingTyped
<1>3. invite'[tx[c].inv] = WithStatus(invite[tx[c].inv], "ACCEPTED")
  BY <1>1 DEF Join, TypeOK
<1>4. invite'[tx[c].inv] \in Invite /\ invite'[tx[c].inv].status = "ACCEPTED"
  BY <1>2, <1>3, StatusTyped DEF Statuses
<1>5. invite'[tx[c].inv] # NULL /\ ~(invite'[tx[c].inv].status = "PENDING")
  BY <1>4, NullAssumption
<1>6. ASSUME NEW j \in Invites, j = tx[c].inv
      PROVE  Closed(j)
  BY <1>1, <1>5, <1>6 DEF Closed, Pending
<1>7. \A j \in Invites \ {tx[c].inv} : invite'[j] = invite[j]
  BY DEF Join, TypeOK
<1>8. tx'[c] = NULL /\ \A d \in Connections \ {c} : tx'[d] = tx[d]
  BY DEF Join, SetTx, TypeOK
<1> QED BY <1>1, <1>6, <1>7, <1>8 DEF Untouched

LEMMA JoinLocks ==
  ASSUME TypeOK, LockInv, NEW c \in Connections, Join(c)
  PROVE  LockInv'
<1>1. /\ tx'[c] = NULL /\ \A d \in Connections \ {c} : tx'[d] = tx[d]
      /\ tx[c].inv \in Invites
      /\ \A j \in Invites : IF j = tx[c].inv THEN Closed(j) ELSE Untouched(j)
  BY JoinedRows
<1>2. Locks(c, tx[c].inv)
  BY DEF Join, Locks
<1>3. ASSUME NEW d \in Connections \ {c}, tx[d] # NULL, tx[d].step \in {"CHECKED", "COUNTED"}
      PROVE  /\ tx[d].inv \in Invites
             /\ invite'[tx[d].inv] = invite[tx[d].inv]
             /\ PendingFor(tx[d].inv, tx[d].org, tx[d].mail)
  <2>1. tx[d].inv \in Invites /\ PendingFor(tx[d].inv, tx[d].org, tx[d].mail)
    BY <1>3 DEF LockInv, HoldsItsInvitation
  <2>2. Locks(d, tx[d].inv)
    BY <1>3 DEF Locks
  <2>3. tx[d].inv # tx[c].inv
    BY <1>1, <1>2, <2>2 DEF LockInv, RowsApart
  <2> QED BY <1>1, <2>1, <2>3 DEF Untouched
<1>4. HoldsItsInvitation'
  <2>1. SUFFICES ASSUME NEW d \in Connections, tx'[d] # NULL, tx'[d].step \in {"CHECKED", "COUNTED"}
                 PROVE  /\ tx'[d].inv \in Invites
                        /\ PendingFor(tx[d].inv, tx[d].org, tx[d].mail)'
    BY DEF HoldsItsInvitation
  <2>2. d # c /\ tx'[d] = tx[d]
    BY <1>1, <2>1
  <2> QED BY <1>3, <2>1, <2>2 DEF PendingFor, Pending
<1>5. ASSUME NEW d \in Connections, NEW j \in Invites, Locks(d, j)'
      PROVE  Locks(d, j)
  <2>1. d # c /\ tx'[d] = tx[d] /\ tx[d] # NULL
    BY <1>1, <1>5 DEF Locks
  <2>2. CASE tx[d].step # "INVITING"
    BY <1>5, <2>1, <2>2 DEF Locks
  <2>3. CASE tx[d].step = "INVITING"
    <3>1. Untouched(j)
      BY <1>1, <1>5, <2>1, <2>3 DEF Locks, Closed, PendingFor
    <3> QED BY <1>5, <2>1, <2>3, <3>1 DEF Untouched, Locks, PendingFor, Pending
  <2> QED BY <2>2, <2>3
<1>6. RowsApart'
  BY <1>5 DEF LockInv, RowsApart
<1>7. SeatsApart'
  BY <1>1 DEF LockInv, SeatsApart, HasSeats
<1> QED BY <1>4, <1>6, <1>7 DEF LockInv

LEMMA StepLocks ==
  ASSUME TypeOK, LockInv, [Next]_vars
  PROVE  LockInv'
<1>1. CASE UNCHANGED vars
  BY <1>1 DEF vars, LockInv, HoldsItsInvitation, RowsApart, SeatsApart, Locks,
              HasSeats, PendingFor, Pending
<1>2. ASSUME NEW c \in Connections, Transaction(c)
      PROVE  LockInv'
  BY <1>2, BeginInviteLocks, ReserveLocks, CommitInviteLocks, BeginAcceptLocks, CountSeatsLocks,
     JoinLocks, RollbackLocks DEF Transaction
<1> QED BY <1>1, <1>2, AccountLocks, ExpireLocks DEF Next

\* Every state is one the program can be in, and the locks exclude one another.
THEOREM TeamTypes == Spec => [](TypeOK /\ LockInv)
<1>1. Init => TypeOK /\ LockInv
  BY InitTyped, InitLocks
<1>2. TypeOK /\ LockInv /\ [Next]_vars => TypeOK' /\ LockInv'
  BY StepTyped, StepLocks DEF LockInv
<1> QED BY <1>1, <1>2, PTL DEF Spec

-----------------------------------------------------------------------------
(* The rows of team_invitations.                                           *)

\* What any step does to a row: nothing, a date, its insertion, or its closing.
LEMMA RowStep ==
  ASSUME TypeOK, LockInv, [Next]_vars, NEW i \in Invites
  PROVE  Untouched(i) \/ Live(i) \/ invite[i] = NULL \/ Closed(i)
<1>1. CASE UNCHANGED vars
  BY <1>1 DEF vars, Untouched
<1>2. ASSUME NEW c \in Connections, Transaction(c)
      PROVE  Untouched(i) \/ invite[i] = NULL \/ Closed(i)
  <2>1. ASSUME NEW j \in Invites, CommitInvite(c, j)
        PROVE  Untouched(i) \/ invite[i] = NULL \/ Closed(i)
    BY <2>1, InvitedRows DEF CommitInvite
  <2>2. CASE Join(c)
    BY <2>2, JoinedRows
  <2> QED BY <1>2, <2>1, <2>2
          DEF Transaction, BeginInvite, Reserve, BeginAccept, CountSeats, Rollback, Untouched
<1>3. ASSUME NEW j \in Invites, Expire(j)
      PROVE  Untouched(i) \/ Live(i)
  BY <1>3 DEF Expire, Untouched, TypeOK
<1> QED BY <1>1, <1>2, <1>3, AccountRows DEF Next

\* An invitation accepted or revoked stays so, whatever meets.
THEOREM InvitationsFinal == Spec => InvitationIsFinal
<1>1. TypeOK /\ LockInv /\ [Next]_vars =>
        [\A i \in Invites : invite[i] # NULL /\ invite[i].status # "PENDING" =>
           invite'[i] # NULL /\ invite'[i].status = invite[i].status]_vars
  BY RowStep DEF Untouched, Live, Closed, Pending
<1> QED BY <1>1, TeamTypes, PTL DEF Spec, InvitationIsFinal

LEMMA StepOneOpen ==
  ASSUME TypeOK, LockInv, OneOpen, [Next]_vars
  PROVE  OneOpen'
<1>1. ASSUME NEW c \in Connections, NEW k \in Invites, CommitInvite(c, k)
      PROVE  OneOpen'
  <2>1. SUFFICES ASSUME NEW i \in Invites, NEW j \in Invites, NEW o \in Orgs, NEW m \in People,
                        PendingFor(i, o, m)', PendingFor(j, o, m)'
                 PROVE  i = j
    BY DEF OneOpen
  <2>2. ASSUME NEW h \in Invites \ {k}, PendingFor(h, o, m)'
        PROVE  PendingFor(h, o, m) /\ ~(o = tx[c].org /\ m = tx[c].mail)
    BY <1>1, <2>2, InvitedRows DEF Closed, Untouched, PendingFor, Pending
  <2>3. PendingFor(k, o, m)' => o = tx[c].org /\ m = tx[c].mail
    BY <1>1, InvitedRows
  <2> QED BY <2>1, <2>2, <2>3 DEF OneOpen
<1>2. ASSUME NEW i \in Invites, Expire(i)
      PROVE  OneOpen'
  BY <1>2, ExpireRows DEF OneOpen
<1>3. CASE \A i \in Invites : Untouched(i) \/ Closed(i)
  BY <1>3 DEF OneOpen, Untouched, Closed, PendingFor, Pending
<1>4. ASSUME NEW c \in Connections, Transaction(c), ~\E k \in Invites : CommitInvite(c, k)
      PROVE  OneOpen'
  <2>1. CASE Join(c)
    BY <1>3, <2>1, JoinedRows
  <2> QED BY <1>3, <1>4, <2>1
          DEF Transaction, BeginInvite, Reserve, BeginAccept, CountSeats, Rollback, Untouched
<1> QED BY <1>1, <1>2, <1>3, <1>4, AccountRows DEF Next, vars, Untouched

\* An address never has two links that work.
THEOREM OneLink == Spec => []OneLinkPerAddress
<1>1. Init => OneOpen
  BY DEF Init, OneOpen, PendingFor, Pending
<1>2. OneOpen => OneLinkPerAddress
  BY DEF OneOpen, OneLinkPerAddress
<1> QED BY <1>1, <1>2, StepOneOpen, TeamTypes, PTL DEF Spec

-----------------------------------------------------------------------------
(* The seats.                                                              *)

LEMMA MembersFinite ==
  ASSUME NEW o \in Orgs
  PROVE  IsFiniteSet(Members(o)) /\ IsFiniteSet(Members(o)')
<1>1. Members(o) \subseteq People /\ Members(o)' \subseteq People
  BY DEF Members
<1> QED BY <1>1, FS_Subset, TeamAssumption

\* Accounts only enter by an acceptance.
LEMMA OthersShrink ==
  ASSUME TypeOK, [Next]_vars, ~\E c \in Connections : Join(c), NEW o \in Orgs
  PROVE  Members(o)' \subseteq Members(o)
<1>1. ASSUME NEW u \in People, PersonActs(u)
      PROVE  Members(o)' \subseteq Members(o)
  <2>1. ASSUME NEW v \in People, NEW p \in Orgs, Remove(u, p, v)
        PROVE  Members(o)' \subseteq Members(o)
    BY <2>1 DEF Remove, SetRole, Members, TypeOK
  <2>2. ASSUME NEW v \in People, NEW p \in Orgs, Transfer(u, p, v)
        PROVE  Members(o)' \subseteq Members(o)
    BY <2>2 DEF Transfer, SetRole, Members, TypeOK
  <2>3. CASE Leave(u)
    BY <2>3 DEF Leave, Members, TypeOK
  <2>4. CASE FinishDelete(u)
    BY <2>4 DEF FinishDelete, Members, TypeOK
  <2> QED BY <1>1, <2>1, <2>2, <2>3, <2>4
          DEF PersonActs, Revoke, BeginDelete, Anonymize, SetPlan, Members
<1> QED BY <1>1 DEF Next, Transaction, BeginInvite, Reserve, CommitInvite, BeginAccept, CountSeats,
                    Rollback, Expire, Members, vars

\* The account that enters is one more, in one organization.
LEMMA JoinGrows ==
  ASSUME TypeOK, NEW c \in Connections, Join(c)
  PROVE  /\ tx[c].org \in Orgs
         /\ \A o \in Orgs \ {tx[c].org} : Members(o)' = Members(o)
         /\ \A o \in Orgs : o = tx[c].org =>
              Cardinality(Members(o)') = Cardinality(Members(o)) + 1
<1>1. tx[c].org \in Orgs /\ tx[c].user \in People
  BY TxTyped DEF Join
<1>2. \A o \in Orgs \ {tx[c].org} : Members(o)' = Members(o)
  BY <1>1 DEF Join, SetRole, Members, TypeOK
<1>3. ASSUME NEW o \in Orgs, o = tx[c].org
      PROVE  Cardinality(Members(o)') = Cardinality(Members(o)) + 1
  <2>1. /\ role'[o][tx[c].user] = "member"
        /\ \A u \in People \ {tx[c].user} : role'[o][u] = role[o][u]
    BY <1>1, <1>3 DEF Join, SetRole, TypeOK
  <2>2. Members(o)' = Members(o) \cup {tx[c].user} /\ tx[c].user \notin Members(o)
    BY <1>1, <1>3, <2>1 DEF Members, Join
  <2> QED BY <2>2, MembersFinite, FS_AddElement
<1> QED BY <1>1, <1>2, <1>3

LEMMA StepRoom ==
  ASSUME TypeOK, LockInv, RoomLeft, [Next]_vars
  PROVE  RoomLeft'
<1>1. SUFFICES ASSUME NEW d \in Connections, tx'[d] # NULL, tx'[d].step = "COUNTED",
                      NEW o \in Orgs, o = tx'[d].org
               PROVE  Cardinality(Members(o)') < tx'[d].cap
  <2>1. ASSUME NEW d \in Connections, tx'[d] # NULL
        PROVE  tx'[d].org \in Orgs
    BY <2>1, StepTyped DEF LockInv, TypeOK, Tx
  <2> QED BY <2>1 DEF RoomLeft, Members
<1>2. ASSUME tx'[d] = tx[d]
      PROVE  /\ Cardinality(Members(o)) < tx'[d].cap /\ tx'[d].cap \in Nat
             /\ HasSeats(d, o)
  BY <1>1, <1>2, TxTyped DEF RoomLeft, HasSeats
<1>3. ASSUME NEW c \in Connections, Join(c)
      PROVE  Cardinality(Members(o)') < tx'[d].cap
  <2>1. d # c /\ tx'[d] = tx[d]
    BY <1>1, <1>3, JoinedRows
  <2>2. HasSeats(c, tx[c].org) /\ tx[c].org \in Orgs
    BY <1>3, TxTyped DEF Join, HasSeats
  <2>3. o # tx[c].org
    BY <1>2, <2>1, <2>2 DEF LockInv, SeatsApart
  <2> QED BY <1>2, <1>3, <2>1, <2>3, JoinGrows
<1>4. ASSUME NEW c \in Connections, CountSeats(c)
      PROVE  Cardinality(Members(o)') < tx'[d].cap
  <2>1. Members(o)' = Members(o)
    BY <1>4 DEF CountSeats, Members
  <2>2. CASE d = c
    <3> DEFINE t == [step |-> "COUNTED", user |-> tx[c].user, org |-> tx[c].org,
                     mail |-> tx[c].mail, inv |-> tx[c].inv,
                     cap |-> Capacity(plan[Founder[tx[c].org]])]
    <3>1. tx'[c] = t
      BY <1>4 DEF CountSeats, SetTx, TypeOK
    <3>2. t.org = tx[c].org /\ t.cap = Capacity(plan[Founder[tx[c].org]])
      OBVIOUS
    <3> HIDE DEF t
    <3> QED BY <1>1, <1>4, <2>1, <2>2, <3>1, <3>2 DEF CountSeats
  <2>3. CASE d # c
    <3>1. tx'[d] = tx[d]
      BY <1>4, <2>3 DEF CountSeats, SetTx, TypeOK
    <3> QED BY <1>2, <2>1, <3>1
  <2> QED BY <2>2, <2>3
<1>5. ASSUME ~\E c \in Connections : Join(c) \/ CountSeats(c)
      PROVE  Cardinality(Members(o)') < tx'[d].cap
  <2>1. tx'[d] = tx[d]
    <3>1. ASSUME NEW c \in Connections, NEW t, SetTx(c, t), t = NULL \/ t.step # "COUNTED"
          PROVE  tx'[d] = tx[d]
      BY <1>1, <3>1 DEF SetTx, TypeOK
    <3>2. ASSUME NEW c \in Connections, Transaction(c)
          PROVE  tx'[d] = tx[d]
      <4>1. \A u \in People, p \in Orgs, m \in People : BeginInvite(c, u, p, m) => tx'[d] = tx[d]
        BY <3>1 DEF BeginInvite
      <4>2. \A u \in People, i \in Invites : BeginAccept(c, u, i) => tx'[d] = tx[d]
        BY <3>1 DEF BeginAccept
      <4>3. (\E i \in Invites : CommitInvite(c, i)) \/ Reserve(c) \/ Rollback(c) => tx'[d] = tx[d]
        BY <3>1 DEF CommitInvite, Reserve, Rollback
      <4> QED BY <1>5, <3>2, <4>1, <4>2, <4>3 DEF Transaction
    <3> QED BY <3>2, AccountRows, ExpireRows DEF Next, vars
  <2>2. Members(o)' \subseteq Members(o)
    BY <1>5, OthersShrink
  <2>3. Cardinality(Members(o)') <= Cardinality(Members(o))
    BY <2>2, MembersFinite, FS_Subset
  <2>4. Cardinality(Members(o)') \in Nat /\ Cardinality(Members(o)) \in Nat
    BY MembersFinite, FS_CardinalityType
  <2> QED BY <1>2, <2>1, <2>3, <2>4
<1> QED BY <1>3, <1>4, <1>5

\* A team never grows beyond the capacity read under its lock.
THEOREM SeatsNeverExceeded == Spec => SeatsKept
<1>1. Init => RoomLeft
  BY DEF Init, RoomLeft
<1>2. TypeOK /\ LockInv /\ RoomLeft /\ [Next]_vars =>
        [\A o \in Orgs : Members(o)' \ Members(o) # {} =>
           \E c \in Connections : /\ tx[c] # NULL /\ tx[c].org = o
                                  /\ Cardinality(Members(o)') <= tx[c].cap]_vars
  <2>1. SUFFICES ASSUME TypeOK, LockInv, RoomLeft, [Next]_vars,
                        NEW o \in Orgs, Members(o)' \ Members(o) # {}
                 PROVE  \E c \in Connections : /\ tx[c] # NULL /\ tx[c].org = o
                                               /\ Cardinality(Members(o)') <= tx[c].cap
    OBVIOUS
  <2>2. PICK c \in Connections : Join(c)
    BY <2>1, OthersShrink
  <2>3. tx[c].org = o
    BY <2>1, <2>2, JoinGrows
  <2>4. Cardinality(Members(o)') = Cardinality(Members(o)) + 1
    BY <2>1, <2>2, <2>3, JoinGrows
  <2>5. tx[c] # NULL /\ Cardinality(Members(o)) < tx[c].cap
    BY <2>1, <2>2, <2>3 DEF RoomLeft, Join
  <2>6. Cardinality(Members(o)) \in Nat /\ tx[c].cap \in Nat
    BY <2>1, <2>5, MembersFinite, FS_CardinalityType, TxTyped
  <2> QED BY <2>3, <2>4, <2>5, <2>6
<1> QED BY <1>1, <1>2, StepRoom, TeamTypes, PTL DEF Spec, SeatsKept

-----------------------------------------------------------------------------
(* The inductive invariant of the quotas.                                  *)

\* The advisory lock of a user, and that of a team at the count.
UserApart ==
  \A c, d \in Requests :
    /\ InTransaction(c) /\ InTransaction(d)
    /\ request[c].user = request[d].user /\ request[c].action = request[d].action
    => c = d
TeamApart ==
  \A c, d \in Requests :
    /\ request[c].step = "CHECKED" /\ request[d].step = "CHECKED"
    /\ request[c].team # NULL /\ request[c].team = request[d].team
    /\ request[c].action = request[d].action
    => c = d

\* Whoever has counted in this period still finds the room it counted.
UnitLeft ==
  \A c \in Requests : request[c].step = "CHECKED" /\ request[c].month = month =>
    Cardinality(PaidUnder(Payer(c), request[c].action)) < PlanLimit

\* A use is of the account that pays, or of a member of the team that does.
RowsOfPayers == \A i \in DOMAIN uses : uses[i].user = uses[i].payer.user

\* Work that a unit was taken for, and that has not been answered or dropped.
Underway == {"RESERVED", "WORKING", "FAILED", "RELEASING"}
Owing(u, a) ==
  {c \in Requests : request[c].step \in Underway /\ request[c].user = u /\ request[c].action = a}
UnitsCovered ==
  \A u \in Accounts, a \in QuotaActions :
    delivered[u][a] + Cardinality(Owing(u, a)) <= Cardinality(BilledUses(u, a))

\* A text that a request has paid for is PENDING, and no other request has it.
OfText(c) == request[c].step # "IDLE" /\ request[c].action = "ai_offer"
Holding(c) == OfText(c) /\ request[c].step \in {"RESERVED", "WORKING", "FAILED", "ANSWERED"}
TextsGiven == \A c \in Requests : OfText(c) => request[c].text \in Texts
TextsPending == \A c \in Requests : Holding(c) => offer[KeyOf(c)] = "PENDING"
TextsApart ==
  \A c, d \in Requests :
    Holding(c) /\ OfText(d) /\ (Holding(d) \/ InTransaction(d)) /\ KeyOf(c) = KeyOf(d) => c = d

UsageInv ==
  /\ UsageTypeOK
  /\ UserApart /\ TeamApart /\ RowsOfPayers /\ UnitLeft /\ PoolKept
  /\ UnitsCovered
  /\ TextsGiven /\ TextsPending /\ TextsApart

-----------------------------------------------------------------------------
(* Types of the quotas.                                                    *)

LEMMA UsesAre ==
  ASSUME UsageTypeOK
  PROVE  /\ Len(uses) \in Nat /\ DOMAIN uses = 1..Len(uses)
         /\ \A i \in DOMAIN uses : uses[i] \in Use /\ uses[i].month <= month
BY LenProperties, ElementOfSeq DEF UsageTypeOK

LEMMA RequestIs ==
  ASSUME UsageTypeOK, NEW c \in Requests, request[c].step # "IDLE"
  PROVE  /\ request[c] \in Request /\ request[c].month <= month /\ request[c] # NoRequest
         /\ request[c].user \in Accounts /\ request[c].org \in Workplaces /\ request[c].action \in QuotaActions
         /\ request[c].team \in Workplaces \cup {NULL} /\ request[c].month \in Nat
         /\ Payer(c) \in PoolPayers /\ Payer(c).team = request[c].team /\ Payer(c).user = request[c].user
<1>1. request[c] # NoRequest
  BY DEF NoRequest
<1>2. request[c] \in Request /\ request[c].month <= month
  BY <1>1 DEF UsageTypeOK
<1>3. /\ request[c].user \in Accounts /\ request[c].org \in Workplaces /\ request[c].action \in QuotaActions
      /\ request[c].team \in Workplaces \cup {NULL} /\ request[c].month \in Nat
  BY <1>2 DEF Request
<1>. QED
  BY <1>1, <1>2, <1>3 DEF Payer, PoolPayers

\* A request goes on, with another step, unit or mark of a call.
SameAs(r, old) ==
  /\ r.user = old.user /\ r.org = old.org /\ r.action = old.action /\ r.text = old.text
  /\ r.team = old.team /\ r.month = old.month
RequestGoesOn(c, s) ==
  \E r \in Request : request' = [request EXCEPT ![c] = r] /\ r.step = s /\ SameAs(r, request[c])

LEMMA StepsOn ==
  ASSUME UsageTypeOK, NEW c \in Requests, request[c].step # "IDLE", NEW s \in RequestSteps,
         \/ Goes(c, s)
         \/ \E n \in Nat : request' = [request EXCEPT ![c].step = s, ![c].unit = n]
         \/ \E b \in BOOLEAN : request' = [request EXCEPT ![c].step = s, ![c].called = b]
  PROVE  RequestGoesOn(c, s)
<1>. DEFINE old == request[c]
<1>1. old \in Request
  BY RequestIs
<1>2. CASE Goes(c, s)
  <2>. DEFINE r == [old EXCEPT !.step = s]
  <2>1. r \in Request /\ r.step = s /\ SameAs(r, old)
    BY <1>1 DEF Request, SameAs
  <2>2. request' = [request EXCEPT ![c] = r]
    BY <1>2 DEF Goes
  <2>. QED
    BY <2>1, <2>2 DEF RequestGoesOn
<1>3. ASSUME NEW n \in Nat, request' = [request EXCEPT ![c].step = s, ![c].unit = n]
      PROVE  RequestGoesOn(c, s)
  <2>. DEFINE r == [old EXCEPT !.step = s, !.unit = n]
  <2>1. r \in Request /\ r.step = s /\ SameAs(r, old)
    BY <1>1 DEF Request, SameAs
  <2>2. request' = [request EXCEPT ![c] = r]
    BY <1>3
  <2>. QED
    BY <2>1, <2>2 DEF RequestGoesOn
<1>4. ASSUME NEW b \in BOOLEAN, request' = [request EXCEPT ![c].step = s, ![c].called = b]
      PROVE  RequestGoesOn(c, s)
  <2>. DEFINE r == [old EXCEPT !.step = s, !.called = b]
  <2>1. r \in Request /\ r.step = s /\ SameAs(r, old)
    BY <1>1 DEF Request, SameAs
  <2>2. request' = [request EXCEPT ![c] = r]
    BY <1>4
  <2>. QED
    BY <2>1, <2>2 DEF RequestGoesOn
<1>. QED
  BY <1>2, <1>3, <1>4

\* What a request does to itself.
RequestMoves(c) ==
  /\ request' \in [Requests -> Request \cup {NoRequest}]
  /\ \A d \in Requests \ {c} : request'[d] = request[d]
  /\ \/ request'[c] = NoRequest
     \/ request'[c] \in Request /\ SameAs(request'[c], request[c]) /\ request[c].step # "IDLE"

LEMMA MovesOn ==
  ASSUME UsageTypeOK, NEW c \in Requests, NEW s, request[c].step # "IDLE", RequestGoesOn(c, s)
  PROVE  RequestMoves(c) /\ request'[c].step = s /\ SameAs(request'[c], request[c]) /\ request'[c] \in Request
<1>1. PICK r \in Request : request' = [request EXCEPT ![c] = r] /\ r.step = s /\ SameAs(r, request[c])
  BY DEF RequestGoesOn
<1>2. request \in [Requests -> Request \cup {NoRequest}]
  BY DEF UsageTypeOK
<1>3. request'[c] = r /\ request' \in [Requests -> Request \cup {NoRequest}] /\ \A d \in Requests \ {c} : request'[d] = request[d]
  BY <1>1, <1>2
<1>. QED
  BY <1>1, <1>3 DEF RequestMoves

LEMMA MovesOut ==
  ASSUME UsageTypeOK, NEW c \in Requests, Ends(c)
  PROVE  RequestMoves(c) /\ request'[c] = NoRequest /\ request'[c].step = "IDLE"
<1>1. request \in [Requests -> Request \cup {NoRequest}]
  BY DEF UsageTypeOK
<1>. QED
  BY <1>1 DEF RequestMoves, Ends, NoRequest

\* What a request begins with.
LEMMA MovesIn ==
  ASSUME UsageTypeOK, NEW c \in Requests, NEW a \in QuotaActions, NEW u \in Accounts, NEW o \in Workplaces,
         NEW t \in Texts \cup {NULL}, Begin(c, a, u, o, t)
  PROVE  /\ request' \in [Requests -> Request \cup {NoRequest}]
         /\ \A d \in Requests \ {c} : request'[d] = request[d]
         /\ request'[c] \in Request /\ request'[c].step = "LOCKED" /\ request'[c].action = a /\ request'[c].user = u
         /\ request'[c].org = o /\ request'[c].text = t /\ request'[c].month = month
         /\ request[c].step = "IDLE"
<1>. DEFINE new == [step |-> "LOCKED", action |-> a, user |-> u, org |-> o, text |-> t,
                    team |-> pool[u], month |-> month, unit |-> 0, called |-> FALSE]
<1>1. new \in Request
  BY DEF UsageTypeOK, Request, RequestSteps
<1>2. /\ new.step = "LOCKED" /\ new.action = a /\ new.user = u /\ new.org = o /\ new.text = t /\ new.month = month
  OBVIOUS
<1>3. request' = [request EXCEPT ![c] = new] /\ request[c] = NoRequest
  BY DEF Begin
<1>. HIDE DEF new
<1>4. request \in [Requests -> Request \cup {NoRequest}]
  BY DEF UsageTypeOK
<1>. QED
  BY <1>1, <1>2, <1>3, <1>4 DEF NoRequest

\* The steps of a request, one after the other.
Path(s, t) ==
  \/ s = "LOCKED" /\ t = "CHECKED"
  \/ s = "CHECKED" /\ t = "RESERVED"
  \/ s = "RESERVED" /\ t \in {"WORKING", "FAILED"}
  \/ s = "WORKING" /\ t \in {"FAILED", "ANSWERED"}
  \/ s = "FAILED" /\ t = "RELEASING"

LEMMA StepMoves ==
  ASSUME UsageTypeOK, NEW c \in Requests, Step(c)
  PROVE  /\ RequestMoves(c)
         /\ \/ request'[c] = NoRequest /\ request'[c].step = "IDLE"
            \/ /\ request'[c] \in Request /\ SameAs(request'[c], request[c])
               /\ Path(request[c].step, request'[c].step)
<1>. USE DEF Path
<1>0. Len(uses) + 1 \in Nat
  BY UsesAre
<1>1. CASE CheckPlan(c)
  BY <1>1, StepsOn, MovesOn DEF CheckPlan, RequestSteps
<1>2. CASE Refused(c)
  BY <1>2, MovesOut DEF Refused, InTransaction
<1>3. CASE Commit(c)
  <2>1. CASE Ends(c)
    BY <1>3, <2>1, MovesOut DEF Commit
  <2>2. CASE request' = [request EXCEPT ![c].step = "RESERVED", ![c].unit = Len(uses) + 1]
    <3>1. RequestGoesOn(c, "RESERVED")
      BY <1>0, <1>3, <2>2, StepsOn DEF Commit, RequestSteps
    <3>. QED
      BY <1>3, <3>1, MovesOn DEF Commit
  <2>. QED
    BY <1>3, <2>1, <2>2 DEF Commit
<1>4. CASE CallProvider(c)
  <2>1. RequestGoesOn(c, "WORKING")
    BY <1>4, StepsOn DEF CallProvider, RequestSteps
  <2>. QED
    BY <1>4, <2>1, MovesOn DEF CallProvider
<1>5. CASE PrepareFails(c)
  BY <1>5, StepsOn, MovesOn DEF PrepareFails, Ready, RequestSteps
<1>6. CASE Answers(c)
  BY <1>6, StepsOn, MovesOn DEF Answers, RequestSteps
<1>7. ASSUME NEW b \in BOOLEAN, Fails(c, b)
      PROVE  RequestGoesOn(c, "FAILED") /\ request[c].step = "WORKING"
  BY <1>7, StepsOn DEF Fails, RequestSteps
<1>8. CASE \E b \in BOOLEAN : Fails(c, b)
  BY <1>7, <1>8, MovesOn
<1>9. ASSUME NEW b \in BOOLEAN, CleanUp(c, b)
      PROVE  request[c].step = "FAILED" /\ (RequestGoesOn(c, "RELEASING") \/ Ends(c))
  BY <1>9, StepsOn DEF CleanUp, RequestSteps
<1>10. CASE \E b \in BOOLEAN : CleanUp(c, b)
  BY <1>9, <1>10, MovesOn, MovesOut
<1>11. CASE Release(c)
  BY <1>11, MovesOut DEF Release
<1>12. CASE Complete(c)
  BY <1>12, MovesOut DEF Complete
<1>13. CASE Dies(c)
  BY <1>13, MovesOut DEF Dies
<1>. QED
  BY <1>1, <1>2, <1>3, <1>4, <1>5, <1>6, <1>8, <1>10, <1>11, <1>12, <1>13 DEF Step

-----------------------------------------------------------------------------
(* Type correctness.                                                       *)

\* A unit of a request is a row of the table.
LEMMA UseTyped ==
  ASSUME UsageTypeOK, NEW c \in Requests, request[c].step # "IDLE"
  PROVE  [user |-> request[c].user, org |-> request[c].org, action |-> request[c].action,
          billable |-> TRUE, month |-> request[c].month, payer |-> Payer(c)] \in Use
BY RequestIs DEF Use

\* Rows, after a step of a request.
LEMMA RowsTyped ==
  ASSUME UsageTypeOK, NEW c \in Requests, Step(c)
  PROVE  uses' \in Seq(Use) /\ \A i \in DOMAIN uses' : uses'[i].month <= month
<1>0. uses \in Seq(Use) /\ month \in Nat /\ Len(uses) \in Nat /\ DOMAIN uses = 1..Len(uses)
      /\ \A i \in DOMAIN uses : uses[i] \in Use /\ uses[i].month <= month
  BY UsesAre DEF UsageTypeOK
<1>1. CASE Commit(c)
  <2>. DEFINE row == [user |-> request[c].user, org |-> request[c].org, action |-> request[c].action,
                      billable |-> TRUE, month |-> request[c].month, payer |-> Payer(c)]
  <2>1. row \in Use /\ row.month <= month
    BY <1>1, UseTyped, RequestIs DEF Commit
  <2>2. uses' = Append(uses, row)
    BY <1>1 DEF Commit
  <2>. HIDE DEF row
  <2>3. /\ uses' \in Seq(Use) /\ Len(uses') = Len(uses) + 1 /\ uses'[Len(uses) + 1] = row
        /\ \A i \in 1..Len(uses) : uses'[i] = uses[i]
    BY <1>0, <2>1, <2>2, AppendProperties
  <2>4. DOMAIN uses' = 1..(Len(uses) + 1)
    BY <2>3, LenProperties
  <2>. QED
    BY <1>0, <2>1, <2>3, <2>4
<1>2. CASE Release(c)
  <2>1. CASE uses' = uses
    BY <1>0, <2>1
  <2>2. ASSUME NEW i \in Newest(Releasable(c)), uses' = [uses EXCEPT ![i].billable = FALSE]
        PROVE  uses' \in Seq(Use) /\ \A j \in DOMAIN uses' : uses'[j].month <= month
    <3>. DEFINE row == [uses[i] EXCEPT !.billable = FALSE]
    <3>1. i \in 1..Len(uses)
      BY <1>0 DEF Newest, Releasable
    <3>2. row \in Use /\ row.month <= month
      BY <1>0, <3>1 DEF Use
    <3>3. uses' = [uses EXCEPT ![i] = row]
      BY <2>2
    <3>. HIDE DEF row
    <3>4. uses' \in Seq(Use) /\ Len(uses') = Len(uses) /\ \A j \in 1..Len(uses) : uses'[j] = IF j = i THEN row ELSE uses[j]
      BY <1>0, <3>1, <3>2, <3>3, ExceptSeq
    <3>5. DOMAIN uses' = 1..Len(uses)
      BY <3>4, LenProperties
    <3>. QED
      BY <1>0, <3>2, <3>4, <3>5
  <2>. QED
    BY <1>2, <2>1, <2>2 DEF Release
<1>3. CASE UNCHANGED uses
  BY <1>0, <1>3
<1>. QED
  BY <1>1, <1>2, <1>3 DEF Step, CheckPlan, Refused, CallProvider, PrepareFails, Answers, Fails, CleanUp, Complete, Dies

LEMMA OfferTyped ==
  ASSUME UsageTypeOK, NEW c \in Requests, Step(c)
  PROVE  offer' \in [Keys -> {"NONE", "PENDING", "DONE"}]
<1>1. offer \in [Keys -> {"NONE", "PENDING", "DONE"}]
  BY DEF UsageTypeOK
<1>2. \/ offer' = offer
      \/ \E s \in {"NONE", "PENDING", "DONE"} : offer' = [offer EXCEPT ![KeyOf(c)] = s]
  BY DEF Step, CheckPlan, Refused, Commit, CallProvider, PrepareFails, Answers, Fails, CleanUp, Release, Complete, Dies
<1>. QED
  BY <1>1, <1>2

LEMMA DeliveredTyped ==
  ASSUME UsageTypeOK, NEW c \in Requests, Step(c)
  PROVE  delivered' \in [Accounts -> [QuotaActions -> Nat]]
<1>1. delivered \in [Accounts -> [QuotaActions -> Nat]]
  BY DEF UsageTypeOK
<1>2. CASE Answers(c)
  <2>1. request[c].user \in Accounts /\ request[c].action \in QuotaActions
    BY <1>2, RequestIs DEF Answers
  <2>. QED
    BY <1>1, <1>2, <2>1 DEF Answers
<1>3. CASE UNCHANGED delivered
  BY <1>1, <1>3
<1>. QED
  BY <1>2, <1>3 DEF Step, CheckPlan, Refused, Commit, CallProvider, PrepareFails, Fails, CleanUp, Release, Complete, Dies

LEMMA RequestsTyped ==
  ASSUME UsageTypeOK, NEW c \in Requests, Step(c)
  PROVE  /\ request' \in [Requests -> Request \cup {NoRequest}]
         /\ \A d \in Requests : request'[d] # NoRequest => request'[d].month <= month
<1>1. RequestMoves(c)
  BY StepMoves
<1>2. \A d \in Requests : request[d] # NoRequest => request[d].month <= month
  BY DEF UsageTypeOK
<1>3. request[c].step # "IDLE" => request[c].month <= month
  BY RequestIs
<1>. QED
  BY <1>1, <1>2, <1>3 DEF RequestMoves, SameAs

LEMMA RequestStepTyped ==
  ASSUME UsageTypeOK, NEW c \in Requests, Step(c)
  PROVE  UsageTypeOK'
<1>1. pool' = pool /\ month' = month
  BY DEF Step, CheckPlan, Refused, Commit, CallProvider, PrepareFails, Answers, Fails, CleanUp, Release, Complete, Dies
<1>. QED
  BY <1>1, RowsTyped, OfferTyped, DeliveredTyped, RequestsTyped DEF UsageTypeOK

\* What the steps of UsageNext are, apart from Step.
Starts(c, a, u, o, t) ==
  /\ Begin(c, a, u, o, t)
  /\ a = "ai_offer" => t \in Texts /\ offer[<<u, o, t>>] # "PENDING" /\ OfferFree(c, <<u, o, t>>)

LEMMA NextIs ==
  ASSUME UsageNext
  PROVE  \/ \E c \in Requests, a \in QuotaActions, u \in Accounts, o \in Workplaces, t \in Texts \cup {NULL} : Starts(c, a, u, o, t)
         \/ UNCHANGED usageVars
         \/ \E c \in Requests : Step(c)
         \/ \E k \in Keys : Lapse(k)
         \/ NewMonth
         \/ \E u \in Movers : MovesTeam(u)
<1>1. ASSUME NEW c \in Requests, NEW u \in Accounts, NEW o \in Workplaces, NEW t \in Texts, BeginOffer(c, u, o, t)
      PROVE  Starts(c, "ai_offer", u, o, t)
  BY <1>1 DEF BeginOffer, Starts, InProgress
<1>2. ASSUME NEW c \in Requests, NEW u \in Accounts, NEW o \in Workplaces, BeginAnalysis(c, u, o)
      PROVE  Starts(c, "analysis", u, o, NULL)
  BY <1>2 DEF BeginAnalysis, Starts
<1>3. ASSUME NEW c \in Requests, NEW u \in Accounts, NEW o \in Workplaces, BeginDiscovery(c, u, o)
      PROVE  Starts(c, "discovery", u, o, NULL)
  BY <1>3 DEF BeginDiscovery, Starts
<1>4. "ai_offer" \in QuotaActions /\ "analysis" \in QuotaActions /\ "discovery" \in QuotaActions
  BY DEF QuotaActions
<1>5. ASSUME NEW c \in Requests, NEW u \in Accounts, NEW o \in Workplaces, NEW t \in Texts, ReadBack(c, u, o, t)
      PROVE  UNCHANGED usageVars
  BY <1>5 DEF ReadBack
<1>. QED
  BY <1>1, <1>2, <1>3, <1>4, <1>5 DEF UsageNext

LEMMA UsageTyped ==
  ASSUME UsageTypeOK, [UsageNext]_usageVars
  PROVE  UsageTypeOK'
<1>1. ASSUME NEW c \in Requests, NEW a \in QuotaActions, NEW u \in Accounts, NEW o \in Workplaces, NEW t \in Texts \cup {NULL},
             Begin(c, a, u, o, t)
      PROVE  UsageTypeOK'
  <2>1. /\ request' \in [Requests -> Request \cup {NoRequest}]
        /\ \A d \in Requests \ {c} : request'[d] = request[d]
        /\ request'[c].month = month
    BY <1>1, MovesIn
  <2>2. UNCHANGED <<uses, pool, month, offer, delivered>>
    BY <1>1 DEF Begin
  <2>3. month <= month
    BY DEF UsageTypeOK
  <2>. QED
    BY <2>1, <2>2, <2>3 DEF UsageTypeOK
<1>2. CASE \E k \in Keys : Lapse(k)
  BY <1>2 DEF UsageTypeOK, Lapse
<1>3. CASE NewMonth
  <2>1. /\ month' \in Nat /\ month' = month + 1 /\ UNCHANGED <<uses, pool, offer, request, delivered>>
    BY <1>3 DEF UsageTypeOK, NewMonth
  <2>2. \A i \in DOMAIN uses : uses[i].month <= month'
    <3>. TAKE i \in DOMAIN uses
    <3>1. uses[i].month \in Nat /\ uses[i].month <= month
      BY UsesAre DEF Use
    <3>. QED
      BY <2>1, <3>1 DEF UsageTypeOK
  <2>3. \A c \in Requests : request[c] # NoRequest => request[c].month <= month'
    <3>. SUFFICES ASSUME NEW c \in Requests, request[c] # NoRequest
         PROVE  request[c].month <= month'
      OBVIOUS
    <3>1. request[c].month \in Nat /\ request[c].month <= month
      BY DEF UsageTypeOK, Request
    <3>. QED
      BY <2>1, <3>1 DEF UsageTypeOK
  <2>. QED
    BY <2>1, <2>2, <2>3 DEF UsageTypeOK
<1>4. ASSUME NEW u \in Movers, MovesTeam(u)
      PROVE  UsageTypeOK'
  <2>1. pool' \in [Accounts -> Workplaces \cup {NULL}]
    <3>1. u \in Accounts => PoolOf[u] \in Workplaces \cup {NULL}
      BY UsageAssumption
    <3>. QED
      BY <1>4, <3>1 DEF MovesTeam, UsageTypeOK
  <2>. QED
    BY <1>4, <2>1 DEF UsageTypeOK, MovesTeam
<1>5. CASE UNCHANGED usageVars
  BY <1>5 DEF UsageTypeOK, usageVars
<1>. QED
  BY <1>1, <1>2, <1>3, <1>4, <1>5, RequestStepTyped, NextIs DEF Starts

-----------------------------------------------------------------------------
(* The locks and the count under them.                                     *)

\* A step of a request takes it into no transaction.
LEMMA TransactionsLast ==
  ASSUME UsageTypeOK, NEW c \in Requests, Step(c), NEW d \in Requests, InTransaction(d)'
  PROVE  InTransaction(d) /\ SameAs(request'[d], request[d])
<1>1. RequestMoves(c)
  BY StepMoves
<1>2. CASE d = c
  <2>1. request'[c].step # "IDLE"
    BY <1>2 DEF InTransaction
  <2>2. SameAs(request'[c], request[c]) /\ Path(request[c].step, request'[c].step)
    BY <2>1, StepMoves
  <2>. QED
    BY <1>2, <2>2 DEF InTransaction, Path
<1>3. CASE d # c
  BY <1>1, <1>3 DEF RequestMoves, InTransaction, SameAs
<1>. QED
  BY <1>2, <1>3

LEMMA UserApartKept ==
  ASSUME UsageTypeOK, UserApart, [UsageNext]_usageVars
  PROVE  UserApart'
<1>1. ASSUME NEW c \in Requests, NEW a \in QuotaActions, NEW u \in Accounts, NEW o \in Workplaces, NEW t \in Texts \cup {NULL},
             Begin(c, a, u, o, t)
      PROVE  UserApart'
  <2>1. /\ \A d \in Requests \ {c} : request'[d] = request[d]
        /\ request'[c].user = u /\ request'[c].action = a
    BY <1>1, MovesIn
  <2>2. UserFree(c, u, a)
    BY <1>1 DEF Begin
  <2>3. \A d \in Requests \ {c} : InTransaction(d)' =>
          InTransaction(d) /\ request'[d] = request[d] /\ ~(request[d].user = u /\ request[d].action = a)
    BY <2>1, <2>2 DEF InTransaction, UserFree
  <2>. QED
    BY <2>1, <2>3 DEF UserApart
<1>2. ASSUME NEW c \in Requests, Step(c)
      PROVE  UserApart'
  BY <1>2, TransactionsLast DEF UserApart, SameAs
<1>3. CASE UNCHANGED request
  BY <1>3 DEF UserApart, InTransaction
<1>. QED
  BY <1>1, <1>2, <1>3, NextIs DEF Starts, Lapse, NewMonth, MovesTeam, usageVars

\* A request is CHECKED because it was, or because it has just counted.
LEMMA CheckedLasts ==
  ASSUME UsageTypeOK, NEW c \in Requests, Step(c), NEW d \in Requests, request'[d].step = "CHECKED"
  PROVE  /\ SameAs(request'[d], request[d])
         /\ (d # c /\ request'[d] = request[d]) \/ (d = c /\ CheckPlan(c))
<1>1. RequestMoves(c)
  BY StepMoves
<1>2. CASE d = c
  <2>1. SameAs(request'[c], request[c]) /\ request[c].step = "LOCKED"
    BY <1>2, StepMoves DEF Path
  <2>2. CheckPlan(c)
    <3>1. ~Ends(c)
      BY <1>2, MovesOut
    <3>. QED
      BY <2>1, <3>1 DEF Step, Refused, Commit, CallProvider, PrepareFails, Ready, Answers, Fails, CleanUp, Release, Complete, Dies
  <2>. QED
    BY <1>2, <2>1, <2>2
<1>3. CASE d # c
  BY <1>1, <1>3 DEF RequestMoves, SameAs
<1>. QED
  BY <1>2, <1>3

LEMMA TeamApartKept ==
  ASSUME UsageTypeOK, TeamApart, [UsageNext]_usageVars
  PROVE  TeamApart'
<1>1. ASSUME NEW c \in Requests, NEW a \in QuotaActions, NEW u \in Accounts, NEW o \in Workplaces, NEW t \in Texts \cup {NULL},
             Begin(c, a, u, o, t)
      PROVE  TeamApart'
  <2>1. /\ \A d \in Requests \ {c} : request'[d] = request[d]
        /\ request'[c].step = "LOCKED"
    BY <1>1, MovesIn
  <2>. QED
    BY <2>1 DEF TeamApart
<1>2. ASSUME NEW c \in Requests, Step(c)
      PROVE  TeamApart'
  <2>. SUFFICES ASSUME NEW d \in Requests, NEW e \in Requests,
                       request'[d].step = "CHECKED", request'[e].step = "CHECKED",
                       request'[d].team # NULL, request'[d].team = request'[e].team,
                       request'[d].action = request'[e].action
       PROVE  d = e
    BY DEF TeamApart
  <2>1. /\ SameAs(request'[d], request[d]) /\ SameAs(request'[e], request[e])
        /\ (d # c /\ request'[d] = request[d]) \/ (d = c /\ CheckPlan(c))
        /\ (e # c /\ request'[e] = request[e]) \/ (e = c /\ CheckPlan(c))
    BY <1>2, CheckedLasts
  <2>2. CASE d # c /\ e # c
    BY <2>1, <2>2 DEF TeamApart
  <2>3. CASE d = c /\ e # c
    BY <2>1, <2>3 DEF CheckPlan, TeamFree, Ready, SameAs
  <2>4. CASE d # c /\ e = c
    BY <2>1, <2>4 DEF CheckPlan, TeamFree, Ready, SameAs
  <2>. QED
    BY <2>2, <2>3, <2>4
<1>3. CASE UNCHANGED request
  BY <1>3 DEF TeamApart
<1>. QED
  BY <1>1, <1>2, <1>3, NextIs DEF Starts, Lapse, NewMonth, MovesTeam, usageVars

\* The table of uses after a step: it stays, grows by a row, or a row is given back.
LEMMA AfterCommit ==
  ASSUME UsageTypeOK, NEW c \in Requests, Commit(c)
  PROVE  /\ DOMAIN uses' = DOMAIN uses \cup {Len(uses) + 1} /\ Len(uses) + 1 \notin DOMAIN uses
         /\ \A i \in DOMAIN uses : uses'[i] = uses[i]
         /\ uses'[Len(uses) + 1].user = request[c].user /\ uses'[Len(uses) + 1].action = request[c].action
         /\ uses'[Len(uses) + 1].month = request[c].month /\ uses'[Len(uses) + 1].payer = Payer(c)
         /\ uses'[Len(uses) + 1].billable
<1>. DEFINE row == [user |-> request[c].user, org |-> request[c].org, action |-> request[c].action,
                    billable |-> TRUE, month |-> request[c].month, payer |-> Payer(c)]
<1>0. uses \in Seq(Use) /\ Len(uses) \in Nat /\ DOMAIN uses = 1..Len(uses)
  BY UsesAre DEF UsageTypeOK
<1>1. row \in Use
  BY UseTyped DEF Commit
<1>2. uses' = Append(uses, row)
  BY DEF Commit
<1>3. uses'[Len(uses) + 1] = row /\ (\A i \in 1..Len(uses) : uses'[i] = uses[i]) /\ Len(uses') = Len(uses) + 1 /\ uses' \in Seq(Use)
  <2>. HIDE DEF row
  <2>. QED
    BY <1>0, <1>1, <1>2, AppendProperties
<1>4. DOMAIN uses' = 1..(Len(uses) + 1)
  BY <1>3, LenProperties
<1>5. /\ row.user = request[c].user /\ row.action = request[c].action
      /\ row.month = request[c].month /\ row.payer = Payer(c) /\ row.billable
  OBVIOUS
<1>. HIDE DEF row
<1>. QED
  BY <1>0, <1>3, <1>4, <1>5

LEMMA AfterRelease ==
  ASSUME UsageTypeOK, NEW c \in Requests, NEW i \in Newest(Releasable(c)),
         uses' = [uses EXCEPT ![i].billable = FALSE]
  PROVE  /\ DOMAIN uses' = DOMAIN uses /\ i \in DOMAIN uses
         /\ uses[i].user = request[c].user /\ uses[i].action = request[c].action /\ uses[i].billable
         /\ ~uses'[i].billable /\ uses'[i].user = uses[i].user /\ uses'[i].payer = uses[i].payer
         /\ \A j \in DOMAIN uses \ {i} : uses'[j] = uses[j]
<1>0. uses \in Seq(Use) /\ Len(uses) \in Nat /\ DOMAIN uses = 1..Len(uses) /\ \A j \in DOMAIN uses : uses[j] \in Use
  BY UsesAre DEF UsageTypeOK
<1>. DEFINE row == [uses[i] EXCEPT !.billable = FALSE]
<1>1. i \in 1..Len(uses)
  BY <1>0 DEF Newest, Releasable
<1>7. uses[i].user = request[c].user /\ uses[i].action = request[c].action /\ uses[i].billable
  BY DEF Newest, Releasable
<1>2. row \in Use
  BY <1>0, <1>1 DEF Use
<1>6. ~row.billable /\ row.user = uses[i].user /\ row.payer = uses[i].payer
  BY <1>0, <1>1 DEF Use
<1>3. uses' = [uses EXCEPT ![i] = row]
  OBVIOUS
<1>. HIDE DEF row
<1>8. uses \in Seq(Use) /\ i \in 1..Len(uses) /\ row \in Use
  BY <1>0, <1>1, <1>2
<1>9. /\ [uses EXCEPT ![i] = row] \in Seq(Use) /\ Len([uses EXCEPT ![i] = row]) = Len(uses)
      /\ \A j \in 1..Len(uses) : [uses EXCEPT ![i] = row][j] = IF j = i THEN row ELSE uses[j]
  BY <1>8, ExceptSeq
<1>4. uses' \in Seq(Use) /\ Len(uses') = Len(uses) /\ \A j \in 1..Len(uses) : uses'[j] = IF j = i THEN row ELSE uses[j]
  BY <1>3, <1>9
<1>5. DOMAIN uses' = 1..Len(uses)
  BY <1>4, LenProperties
<1>. QED
  BY <1>0, <1>1, <1>2, <1>4, <1>5, <1>6, <1>7

LEMMA RowsOfPayersKept ==
  ASSUME UsageTypeOK, RowsOfPayers, [UsageNext]_usageVars
  PROVE  RowsOfPayers'
<1>1. ASSUME NEW c \in Requests, Commit(c)
      PROVE  RowsOfPayers'
  <2>1. /\ DOMAIN uses' = DOMAIN uses \cup {Len(uses) + 1}
        /\ \A i \in DOMAIN uses : uses'[i] = uses[i]
    BY <1>1, AfterCommit
  <2>2. uses'[Len(uses) + 1].user = request[c].user /\ uses'[Len(uses) + 1].payer = Payer(c)
    BY <1>1, AfterCommit
  <2>3. Payer(c).user = request[c].user
    BY DEF Payer
  <2>. QED
    BY <2>1, <2>2, <2>3 DEF RowsOfPayers
<1>2. ASSUME NEW c \in Requests, Release(c)
      PROVE  RowsOfPayers'
  <2>1. ASSUME NEW i \in Newest(Releasable(c)), uses' = [uses EXCEPT ![i].billable = FALSE]
        PROVE  RowsOfPayers'
    BY <2>1, AfterRelease DEF RowsOfPayers
  <2>2. CASE uses' = uses
    BY <2>2 DEF RowsOfPayers
  <2>. QED
    BY <1>2, <2>1, <2>2 DEF Release
<1>3. CASE UNCHANGED uses
  BY <1>3 DEF RowsOfPayers
<1>4. ASSUME NEW c \in Requests, Step(c)
      PROVE  Commit(c) \/ Release(c) \/ UNCHANGED uses
  BY <1>4 DEF Step, CheckPlan, Refused, CallProvider, PrepareFails, Answers, Fails, CleanUp, Complete, Dies
<1>. QED
  BY <1>1, <1>2, <1>3, <1>4, NextIs DEF Starts, Begin, Lapse, NewMonth, MovesTeam, usageVars

LEMMA CountsAreFinite ==
  ASSUME UsageTypeOK, NEW S \in SUBSET DOMAIN uses
  PROVE  IsFiniteSet(S) /\ Cardinality(S) \in Nat
<1>1. Len(uses) \in Nat /\ DOMAIN uses = 1..Len(uses)
  BY UsesAre
<1>2. IsFiniteSet(1..Len(uses))
  BY <1>1, FS_Interval
<1>3. IsFiniteSet(S)
  BY <1>1, <1>2, FS_Subset
<1>. QED
  BY <1>3, FS_CardinalityType

LEMMA SmallerCounts ==
  ASSUME UsageTypeOK, NEW S \in SUBSET DOMAIN uses, NEW T \in SUBSET S
  PROVE  Cardinality(T) \in Nat /\ Cardinality(S) \in Nat /\ Cardinality(T) <= Cardinality(S)
<1>1. IsFiniteSet(S) /\ Cardinality(S) \in Nat
  BY CountsAreFinite
<1>2. IsFiniteSet(T) /\ Cardinality(T) <= Cardinality(S)
  BY <1>1, FS_Subset
<1>. QED
  BY <1>1, <1>2, FS_CardinalityType

LEMMA OneMoreCounted ==
  ASSUME NEW S, IsFiniteSet(S), NEW x
  PROVE  /\ IsFiniteSet(S \cup {x}) /\ Cardinality(S \cup {x}) \in Nat /\ Cardinality(S) \in Nat
         /\ Cardinality(S \cup {x}) <= Cardinality(S) + 1
         /\ x \notin S => Cardinality(S \cup {x}) = Cardinality(S) + 1
<1>1. IsFiniteSet(S \cup {x})
  BY FS_AddElement
<1>2. Cardinality(S \cup {x}) = IF x \in S THEN Cardinality(S) ELSE Cardinality(S) + 1
  BY FS_AddElement
<1>3. Cardinality(S) \in Nat
  BY FS_CardinalityType
<1>. QED
  BY <1>1, <1>2, <1>3

LEMMA PaidAreRows ==
  ASSUME NEW p, NEW a
  PROVE  PaidUnder(p, a) \in SUBSET DOMAIN uses /\ Used(p, a) \in SUBSET DOMAIN uses
BY DEF PaidUnder, Used

\* What is counted for a payer holds what its pool has paid.
LEMMA PaidAreCounted ==
  ASSUME RowsOfPayers, NEW p \in PoolPayers, NEW a
  PROVE  PaidUnder(p, a) \subseteq Used(p, a)
BY DEF RowsOfPayers, PaidUnder, Used, CountedFor, SamePool

LEMMA PoolsAlike ==
  ASSUME NEW p \in PoolPayers, NEW q \in PoolPayers, SamePool(p, q), NEW a
  PROVE  PaidUnder(p, a) = PaidUnder(q, a)
BY DEF SamePool, PaidUnder

\* A commit adds one row, to the pool that pays; no other step adds any.
LEMMA PaidAfterCommit ==
  ASSUME UsageTypeOK, NEW c \in Requests, Commit(c), NEW p, NEW a
  PROVE  /\ PaidUnder(p, a)' \subseteq PaidUnder(p, a) \cup {Len(uses) + 1}
         /\ Len(uses) + 1 \in PaidUnder(p, a)' =>
              a = request[c].action /\ request[c].month = month /\ SamePool(Payer(c), p)
<1>. DEFINE n == Len(uses) + 1
<1>1. month' = month
  BY DEF Commit
<1>2. /\ DOMAIN uses' = DOMAIN uses \cup {n}
      /\ \A i \in DOMAIN uses : uses'[i] = uses[i]
  BY AfterCommit
<1>3. uses'[n].action = request[c].action /\ uses'[n].month = request[c].month /\ uses'[n].payer = Payer(c)
  BY AfterCommit
<1>. HIDE DEF n
<1>4. ASSUME NEW i \in PaidUnder(p, a)', i # n
      PROVE  i \in PaidUnder(p, a)
  BY <1>1, <1>2, <1>4 DEF PaidUnder, SamePool
<1>5. ASSUME n \in PaidUnder(p, a)'
      PROVE  a = request[c].action /\ request[c].month = month /\ SamePool(Payer(c), p)
  <2>1. uses'[n].action = a /\ uses'[n].month = month' /\ SamePool(uses'[n].payer, p)
    BY <1>5 DEF PaidUnder, SamePool
  <2>. QED
    BY <1>1, <1>3, <2>1
<1>. QED
  BY <1>4, <1>5 DEF n

LEMMA PaidOtherwise ==
  ASSUME UsageTypeOK, NEW c \in Requests, Step(c), ~Commit(c), NEW p, NEW a
  PROVE  PaidUnder(p, a)' \subseteq PaidUnder(p, a)
<1>1. month' = month
  BY DEF Step, CheckPlan, Refused, CallProvider, PrepareFails, Answers, Fails, CleanUp, Release, Complete, Dies
<1>2. CASE UNCHANGED uses
  BY <1>1, <1>2 DEF PaidUnder, SamePool
<1>3. ASSUME NEW i \in Newest(Releasable(c)), uses' = [uses EXCEPT ![i].billable = FALSE]
      PROVE  PaidUnder(p, a)' \subseteq PaidUnder(p, a)
  BY <1>1, <1>3, AfterRelease DEF PaidUnder, SamePool
<1>. QED
  BY <1>2, <1>3 DEF Step, CheckPlan, Refused, CallProvider, PrepareFails, Answers, Fails, CleanUp, Release, Complete, Dies

LEMMA NothingPaidYet ==
  ASSUME UsageTypeOK, NewMonth, NEW p, NEW a
  PROVE  PaidUnder(p, a)' = {}
<1>1. month \in Nat /\ month' = month + 1 /\ uses' = uses
  BY DEF UsageTypeOK, NewMonth
<1>2. \A i \in DOMAIN uses : uses[i].month \in Nat /\ uses[i].month <= month
  BY UsesAre DEF Use
<1>3. \A i \in DOMAIN uses : uses[i].month # month'
  BY <1>1, <1>2
<1>. QED
  BY <1>1, <1>3 DEF PaidUnder

\* Two that have counted for the same pool are one.
LEMMA PayersApart ==
  ASSUME UsageTypeOK, UserApart, TeamApart, NEW c \in Requests, NEW d \in Requests,
         request[c].step = "CHECKED", request[d].step = "CHECKED",
         request[c].action = request[d].action, SamePool(Payer(c), Payer(d))
  PROVE  c = d
BY DEF SamePool, Payer, UserApart, TeamApart, InTransaction

LEMMA UnitLeftKept ==
  ASSUME UsageTypeOK, UserApart, TeamApart, RowsOfPayers, UnitLeft, [UsageNext]_usageVars
  PROVE  UnitLeft'
<1>0. PlanLimit \in Nat
  BY UsageAssumption
<1>1. ASSUME NEW c \in Requests, Step(c)
      PROVE  UnitLeft'
  <2>. SUFFICES ASSUME NEW d \in Requests, request'[d].step = "CHECKED", request'[d].month = month'
       PROVE  Cardinality(PaidUnder(Payer(d), request[d].action)') < PlanLimit
    BY DEF UnitLeft
  <2>1. month' = month
    BY <1>1 DEF Step, CheckPlan, Refused, Commit, CallProvider, PrepareFails, Answers, Fails, CleanUp, Release, Complete, Dies
  <2>2. /\ SameAs(request'[d], request[d])
        /\ (d # c /\ request'[d] = request[d]) \/ (d = c /\ CheckPlan(c))
    BY <1>1, CheckedLasts
  <2>3. request[d].step # "IDLE" /\ request[d].month = month
    BY <2>1, <2>2 DEF CheckPlan, SameAs
  <2>4. PICK p \in PoolPayers, a \in QuotaActions : p = Payer(d) /\ a = request[d].action
    BY <2>3, RequestIs
  <2>5. PaidUnder(Payer(d), request[d].action)' = PaidUnder(p, a)'
    BY <2>2, <2>4 DEF PaidUnder, SamePool, Payer, SameAs
  <2>6. CASE d = c /\ CheckPlan(c)
    <3>1. Cardinality(Used(p, a)) < PlanLimit /\ PaidUnder(p, a) \subseteq Used(p, a)
      BY <2>4, <2>6, PaidAreCounted DEF CheckPlan
    <3>2. PaidUnder(p, a)' = PaidUnder(p, a)
      BY <2>1, <2>6 DEF CheckPlan, PaidUnder, SamePool
    <3>3. Cardinality(PaidUnder(p, a)) <= Cardinality(Used(p, a)) /\ Cardinality(Used(p, a)) \in Nat /\ Cardinality(PaidUnder(p, a)) \in Nat
      BY <3>1, PaidAreRows, SmallerCounts
    <3>. QED
      BY <1>0, <2>5, <3>1, <3>2, <3>3
  <2>7. CASE d # c /\ request'[d] = request[d]
    <3>1. Cardinality(PaidUnder(p, a)) < PlanLimit
      BY <2>3, <2>4, <2>7 DEF UnitLeft
    <3>2. PaidUnder(p, a)' \subseteq PaidUnder(p, a)
      <4>1. CASE Commit(c)
        <5>1. ~(a = request[c].action /\ SamePool(Payer(c), p))
          BY <2>4, <2>7, <4>1, PayersApart DEF Commit
        <5>. QED
          BY <4>1, <5>1, PaidAfterCommit
      <4>2. CASE ~Commit(c)
        BY <1>1, <4>2, PaidOtherwise
      <4>. QED
        BY <4>1, <4>2
    <3>3. PaidUnder(p, a) \in SUBSET DOMAIN uses
      BY PaidAreRows
    <3>4. Cardinality(PaidUnder(p, a)') <= Cardinality(PaidUnder(p, a)) /\ Cardinality(PaidUnder(p, a)') \in Nat /\ Cardinality(PaidUnder(p, a)) \in Nat
      BY <3>2, <3>3, SmallerCounts
    <3>. QED
      BY <1>0, <2>5, <3>1, <3>4
  <2>. QED
    BY <2>2, <2>6, <2>7
<1>2. ASSUME NEW c \in Requests, NEW a \in QuotaActions, NEW u \in Accounts, NEW o \in Workplaces, NEW t \in Texts \cup {NULL},
             Begin(c, a, u, o, t)
      PROVE  UnitLeft'
  <2>1. /\ \A d \in Requests \ {c} : request'[d] = request[d]
        /\ request'[c].step = "LOCKED"
    BY <1>2, MovesIn
  <2>2. uses' = uses /\ month' = month
    BY <1>2 DEF Begin
  <2>. SUFFICES ASSUME NEW d \in Requests, request'[d].step = "CHECKED", request'[d].month = month'
       PROVE  Cardinality(PaidUnder(Payer(d), request[d].action)') < PlanLimit
    BY DEF UnitLeft
  <2>3. request'[d] = request[d]
    BY <2>1
  <2>4. PaidUnder(Payer(d), request[d].action)' = PaidUnder(Payer(d), request[d].action)
    BY <2>2, <2>3 DEF PaidUnder, SamePool, Payer
  <2>. QED
    BY <2>2, <2>3, <2>4 DEF UnitLeft
<1>3. CASE UNCHANGED <<uses, month, request>>
  BY <1>3 DEF UnitLeft, PaidUnder, SamePool, Payer
<1>4. CASE NewMonth
  <2>1. \A d \in Requests : request'[d].step = "CHECKED" => request'[d].month # month'
    <3>. TAKE d \in Requests
    <3>1. request' = request /\ month' = month + 1 /\ month \in Nat
      BY <1>4 DEF NewMonth, UsageTypeOK
    <3>2. request[d].step # "IDLE" => request[d].month \in Nat /\ request[d].month <= month
      BY RequestIs
    <3>. QED
      BY <3>1, <3>2
  <2>. QED
    BY <2>1 DEF UnitLeft
<1>. QED
  BY <1>1, <1>2, <1>3, <1>4, NextIs DEF Starts, Lapse, MovesTeam, usageVars

LEMMA PoolKeptKept ==
  ASSUME UsageTypeOK, UnitLeft, PoolKept, [UsageNext]_usageVars
  PROVE  PoolKept'
<1>0. PlanLimit \in Nat
  BY UsageAssumption
<1>1. ASSUME NEW c \in Requests, Step(c)
      PROVE  PoolKept'
  <2>. SUFFICES ASSUME NEW p \in PoolPayers, NEW a \in QuotaActions
       PROVE  Cardinality(PaidUnder(p, a)') <= PlanLimit
    BY DEF PoolKept
  <2>1. Cardinality(PaidUnder(p, a)) <= PlanLimit /\ PaidUnder(p, a) \in SUBSET DOMAIN uses
    BY PaidAreRows DEF PoolKept
  <2>2. CASE PaidUnder(p, a)' \subseteq PaidUnder(p, a)
    <3>1. Cardinality(PaidUnder(p, a)') <= Cardinality(PaidUnder(p, a)) /\ Cardinality(PaidUnder(p, a)') \in Nat /\ Cardinality(PaidUnder(p, a)) \in Nat
      BY <2>1, <2>2, SmallerCounts
    <3>. QED
      BY <1>0, <2>1, <3>1
  <2>3. CASE Commit(c) /\ Len(uses) + 1 \in PaidUnder(p, a)'
    <3>1. a = request[c].action /\ request[c].month = month /\ SamePool(Payer(c), p)
      BY <2>3, PaidAfterCommit
    <3>2. Payer(c) \in PoolPayers /\ request[c].step = "CHECKED"
      BY <2>3, RequestIs DEF Commit
    <3>3. Cardinality(PaidUnder(p, a)) < PlanLimit
      BY <3>1, <3>2, PoolsAlike DEF UnitLeft
    <3>4. PaidUnder(p, a)' \subseteq PaidUnder(p, a) \cup {Len(uses) + 1}
      BY <2>3, PaidAfterCommit
    <3>5. /\ IsFiniteSet(PaidUnder(p, a)) /\ Cardinality(PaidUnder(p, a)) \in Nat
      BY <2>1, CountsAreFinite
    <3>6. /\ IsFiniteSet(PaidUnder(p, a) \cup {Len(uses) + 1})
          /\ Cardinality(PaidUnder(p, a) \cup {Len(uses) + 1}) <= Cardinality(PaidUnder(p, a)) + 1
          /\ Cardinality(PaidUnder(p, a) \cup {Len(uses) + 1}) \in Nat
      BY <3>5, OneMoreCounted
    <3>7. Cardinality(PaidUnder(p, a)') <= Cardinality(PaidUnder(p, a) \cup {Len(uses) + 1}) /\ Cardinality(PaidUnder(p, a)') \in Nat
      BY <3>4, <3>6, FS_Subset, FS_CardinalityType
    <3>. QED
      BY <1>0, <3>3, <3>5, <3>6, <3>7
  <2>. QED
    BY <1>1, <2>2, <2>3, PaidAfterCommit, PaidOtherwise
<1>2. CASE UNCHANGED <<uses, month>>
  BY <1>2 DEF PoolKept, PaidUnder, SamePool
<1>3. CASE NewMonth
  <2>1. \A p \in PoolPayers, a \in QuotaActions : Cardinality(PaidUnder(p, a)') = 0
    BY <1>3, NothingPaidYet, FS_EmptySet
  <2>. QED
    BY <1>0, <2>1 DEF PoolKept
<1>4. ASSUME NEW c, NEW a, NEW u, NEW o, NEW t, Starts(c, a, u, o, t)
      PROVE  UNCHANGED <<uses, month>>
  BY <1>4 DEF Starts, Begin
<1>. QED
  BY <1>1, <1>2, <1>3, <1>4, NextIs DEF Lapse, MovesTeam, usageVars

-----------------------------------------------------------------------------
(* What is delivered, and what is owed.                                    *)

LEMMA AtLeast ==
  ASSUME NEW T, IsFiniteSet(T), NEW S \in SUBSET T
  PROVE  Cardinality(S) \in Nat /\ Cardinality(T) \in Nat /\ Cardinality(S) <= Cardinality(T)
BY FS_Subset, FS_CardinalityType

LEMMA OneLess ==
  ASSUME NEW T, IsFiniteSet(T), NEW x \in T, NEW S \in SUBSET (T \ {x})
  PROVE  Cardinality(S) \in Nat /\ Cardinality(T) \in Nat /\ Cardinality(S) + 1 <= Cardinality(T)
<1>1. IsFiniteSet(T \ {x}) /\ Cardinality(T \ {x}) = Cardinality(T) - 1
  BY FS_RemoveElement
<1>2. Cardinality(S) \in Nat /\ Cardinality(S) <= Cardinality(T \ {x}) /\ Cardinality(T \ {x}) \in Nat
  BY <1>1, AtLeast
<1>3. Cardinality(T) \in Nat
  BY FS_CardinalityType
<1>. QED
  BY <1>1, <1>2, <1>3

LEMMA OwingFinite ==
  ASSUME NEW u, NEW a
  PROVE  IsFiniteSet(Owing(u, a)) /\ IsFiniteSet(Owing(u, a)')
<1>1. Owing(u, a) \subseteq Requests /\ Owing(u, a)' \subseteq Requests
  BY DEF Owing
<1>2. IsFiniteSet(Requests)
  BY UsageAssumption
<1>. QED
  BY <1>1, <1>2, FS_Subset

LEMMA BilledFinite ==
  ASSUME UsageTypeOK, NEW u, NEW a
  PROVE  BilledUses(u, a) \in SUBSET DOMAIN uses /\ IsFiniteSet(BilledUses(u, a))
<1>1. BilledUses(u, a) \in SUBSET DOMAIN uses
  BY DEF BilledUses
<1>. QED
  BY <1>1, CountsAreFinite

\* Nothing becomes owed but by a commit.
LEMMA OwingOtherwise ==
  ASSUME UsageTypeOK, NEW c \in Requests, Step(c), NEW u, NEW a
  PROVE  /\ Owing(u, a)' \subseteq Owing(u, a) \cup {c}
         /\ c \in Owing(u, a)' => u = request[c].user /\ a = request[c].action /\ (Commit(c) \/ c \in Owing(u, a))
         /\ Answers(c) \/ Release(c) => c \notin Owing(u, a)'
<1>1. RequestMoves(c)
  BY StepMoves
<1>2. Owing(u, a)' \subseteq Owing(u, a) \cup {c}
  BY <1>1 DEF RequestMoves, Owing
<1>3. ASSUME c \in Owing(u, a)'
      PROVE  u = request[c].user /\ a = request[c].action /\ (Commit(c) \/ c \in Owing(u, a)) /\ ~Answers(c) /\ ~Release(c)
  <2>1. request'[c].step \in Underway /\ request'[c].user = u /\ request'[c].action = a
    BY <1>3 DEF Owing
  <2>2. SameAs(request'[c], request[c]) /\ Path(request[c].step, request'[c].step) /\ request'[c] # NoRequest
    BY <2>1, StepMoves DEF Underway, NoRequest
  <2>3. u = request[c].user /\ a = request[c].action
    BY <2>1, <2>2 DEF SameAs
  <2>4. ~Release(c) /\ ~Refused(c)
    BY <2>2, MovesOut DEF Release, Refused
  <2>5. ~Answers(c)
    <3>1. Answers(c) => request'[c].step = "ANSWERED"
      BY <1>1 DEF Answers, Goes, RequestMoves, UsageTypeOK
    <3>. QED
      BY <2>1, <3>1 DEF Underway
  <2>6. CASE request[c].step \in Underway
    BY <2>3, <2>4, <2>5, <2>6 DEF Owing
  <2>7. CASE request[c].step = "CHECKED"
    <3>1. Commit(c)
      <4>1. ~Ends(c)
        BY <2>2, MovesOut
      <4>. QED
        BY <2>7, <4>1 DEF Step, CheckPlan, Refused, CallProvider, PrepareFails, Ready, Answers, Fails, CleanUp, Release, Complete, Dies
    <3>. QED
      BY <2>3, <2>4, <2>5, <3>1
  <2>. QED
    BY <2>1, <2>2, <2>6, <2>7 DEF Path, Underway
<1>. QED
  BY <1>2, <1>3

LEMMA BilledAfterCommit ==
  ASSUME UsageTypeOK, NEW c \in Requests, Commit(c), NEW u, NEW a
  PROVE  /\ BilledUses(u, a) \subseteq BilledUses(u, a)' /\ IsFiniteSet(BilledUses(u, a)')
         /\ u = request[c].user /\ a = request[c].action =>
              Cardinality(BilledUses(u, a)) + 1 <= Cardinality(BilledUses(u, a)')
<1>. DEFINE n == Len(uses) + 1
<1>1. /\ DOMAIN uses' = DOMAIN uses \cup {n} /\ n \notin DOMAIN uses
      /\ \A i \in DOMAIN uses : uses'[i] = uses[i]
      /\ uses'[n].user = request[c].user /\ uses'[n].action = request[c].action /\ uses'[n].billable
  BY AfterCommit
<1>. HIDE DEF n
<1>2. BilledUses(u, a) \subseteq BilledUses(u, a)' /\ BilledUses(u, a)' \subseteq BilledUses(u, a) \cup {n}
  BY <1>1 DEF BilledUses
<1>3. IsFiniteSet(BilledUses(u, a)) /\ n \notin BilledUses(u, a)
  BY <1>1, BilledFinite
<1>4. /\ IsFiniteSet(BilledUses(u, a) \cup {n})
      /\ Cardinality(BilledUses(u, a) \cup {n}) = Cardinality(BilledUses(u, a)) + 1
      /\ Cardinality(BilledUses(u, a)) \in Nat
  BY <1>3, OneMoreCounted
<1>5. IsFiniteSet(BilledUses(u, a)')
  BY <1>2, <1>4, FS_Subset
<1>6. ASSUME u = request[c].user, a = request[c].action
      PROVE  BilledUses(u, a)' = BilledUses(u, a) \cup {n}
  BY <1>1, <1>2, <1>6 DEF BilledUses
<1>7. ASSUME u = request[c].user, a = request[c].action
      PROVE  Cardinality(BilledUses(u, a)) + 1 <= Cardinality(BilledUses(u, a)')
  <2>1. Cardinality(BilledUses(u, a)') = Cardinality(BilledUses(u, a)) + 1
    BY <1>4, <1>6, <1>7
  <2>. QED
    BY <1>4, <2>1
<1>. QED
  BY <1>2, <1>5, <1>7

LEMMA BilledAfterRelease ==
  ASSUME UsageTypeOK, NEW c \in Requests, Release(c), NEW u, NEW a
  PROVE  /\ IsFiniteSet(BilledUses(u, a)')
         /\ Cardinality(BilledUses(u, a)) <= Cardinality(BilledUses(u, a)') + 1
         /\ ~(u = request[c].user /\ a = request[c].action) => BilledUses(u, a) \subseteq BilledUses(u, a)'
<1>0. IsFiniteSet(BilledUses(u, a)) /\ Cardinality(BilledUses(u, a)) \in Nat
  BY BilledFinite, FS_CardinalityType
<1>1. CASE uses' = uses
  <2>1. BilledUses(u, a)' = BilledUses(u, a)
    BY <1>1 DEF BilledUses
  <2>. QED
    BY <1>0, <2>1
<1>2. ASSUME NEW i \in Newest(Releasable(c)), uses' = [uses EXCEPT ![i].billable = FALSE]
      PROVE  /\ BilledUses(u, a) \subseteq BilledUses(u, a)' \cup {i} /\ BilledUses(u, a)' \subseteq BilledUses(u, a)
             /\ i \in BilledUses(u, a) => u = request[c].user /\ a = request[c].action
  BY <1>2, AfterRelease DEF BilledUses
<1>3. ASSUME NEW i, BilledUses(u, a) \subseteq BilledUses(u, a)' \cup {i}, BilledUses(u, a)' \subseteq BilledUses(u, a)
      PROVE  /\ IsFiniteSet(BilledUses(u, a)')
             /\ Cardinality(BilledUses(u, a)) <= Cardinality(BilledUses(u, a)') + 1
  <2>. DEFINE old == BilledUses(u, a)  new == BilledUses(u, a)'
  <2>1. IsFiniteSet(new)
    BY <1>0, <1>3, FS_Subset
  <2>2. IsFiniteSet(new \cup {i}) /\ Cardinality(new \cup {i}) <= Cardinality(new) + 1 /\ Cardinality(new \cup {i}) \in Nat /\ Cardinality(new) \in Nat
    BY <2>1, OneMoreCounted
  <2>3. Cardinality(old) <= Cardinality(new \cup {i}) /\ Cardinality(old) \in Nat
    BY <1>3, <2>2, AtLeast
  <2>. QED
    BY <2>1, <2>2, <2>3
<1>4. ASSUME NEW i \in Newest(Releasable(c)), uses' = [uses EXCEPT ![i].billable = FALSE]
      PROVE  /\ IsFiniteSet(BilledUses(u, a)')
             /\ Cardinality(BilledUses(u, a)) <= Cardinality(BilledUses(u, a)') + 1
             /\ ~(u = request[c].user /\ a = request[c].action) => BilledUses(u, a) \subseteq BilledUses(u, a)'
  <2>1. /\ BilledUses(u, a) \subseteq BilledUses(u, a)' \cup {i} /\ BilledUses(u, a)' \subseteq BilledUses(u, a)
        /\ i \in BilledUses(u, a) => u = request[c].user /\ a = request[c].action
    BY <1>2, <1>4
  <2>. QED
    BY <1>3, <2>1
<1>. QED
  BY <1>1, <1>4 DEF Release

LEMMA UnitsCoveredKept ==
  ASSUME UsageTypeOK, UnitsCovered, [UsageNext]_usageVars
  PROVE  UnitsCovered'
<1>1. ASSUME NEW c \in Requests, Step(c)
      PROVE  UnitsCovered'
  <2>. SUFFICES ASSUME NEW u \in Accounts, NEW a \in QuotaActions
       PROVE  delivered'[u][a] + Cardinality(Owing(u, a)') <= Cardinality(BilledUses(u, a)')
    BY DEF UnitsCovered
  <2>. DEFINE d == delivered[u][a]  o == Cardinality(Owing(u, a))  b == Cardinality(BilledUses(u, a))
              newO == Cardinality(Owing(u, a)')  newB == Cardinality(BilledUses(u, a)')
              mine == u = request[c].user /\ a = request[c].action
  <2>0. d + o <= b
    BY DEF UnitsCovered
  <2>1. d \in Nat /\ o \in Nat /\ b \in Nat /\ newO \in Nat
    BY OwingFinite, BilledFinite, FS_CardinalityType DEF UsageTypeOK
  <2>2. /\ Owing(u, a)' \subseteq Owing(u, a) \cup {c}
        /\ c \in Owing(u, a)' => mine /\ (Commit(c) \/ c \in Owing(u, a))
        /\ Answers(c) \/ Release(c) => c \notin Owing(u, a)'
    BY <1>1, OwingOtherwise
  <2>3. Owing(u, a)' \subseteq Owing(u, a) => newO <= o
    BY OwingFinite, AtLeast
  <2>4. newO <= o + 1
    <3>1. IsFiniteSet(Owing(u, a) \cup {c}) /\ Cardinality(Owing(u, a) \cup {c}) <= o + 1 /\ Cardinality(Owing(u, a) \cup {c}) \in Nat
      BY OwingFinite, OneMoreCounted
    <3>2. newO <= Cardinality(Owing(u, a) \cup {c})
      BY <2>2, <3>1, AtLeast
    <3>. QED
      BY <2>1, <3>1, <3>2
  <2>5. ASSUME c \in Owing(u, a), c \notin Owing(u, a)'
        PROVE  newO + 1 <= o
    <3>1. Owing(u, a)' \in SUBSET (Owing(u, a) \ {c}) /\ IsFiniteSet(Owing(u, a))
      BY <2>2, <2>5, OwingFinite
    <3>. QED
      BY <2>5, <3>1, OneLess
  <2>6. IsFiniteSet(BilledUses(u, a)') /\ BilledUses(u, a) \subseteq BilledUses(u, a)' => b <= newB /\ newB \in Nat
    BY AtLeast
  <2>7. CASE Commit(c)
    <3>1. delivered'[u][a] = d
      BY <2>7 DEF Commit
    <3>2. /\ BilledUses(u, a) \subseteq BilledUses(u, a)' /\ IsFiniteSet(BilledUses(u, a)')
          /\ mine => b + 1 <= newB
      BY <2>7, BilledAfterCommit
    <3>3. ~mine => newO <= o
      BY <2>2, <2>3
    <3>. HIDE DEF d, o, b, newO, newB, mine
    <3>. QED
      BY <2>0, <2>1, <2>4, <2>6, <3>1, <3>2, <3>3 DEF newO, newB
  <2>8. CASE Release(c)
    <3>1. delivered'[u][a] = d
      BY <2>8 DEF Release
    <3>2. /\ IsFiniteSet(BilledUses(u, a)') /\ b <= newB + 1
          /\ ~mine => BilledUses(u, a) \subseteq BilledUses(u, a)'
      BY <2>8, BilledAfterRelease
    <3>3. mine => newO + 1 <= o
      <4>1. mine => c \in Owing(u, a)
        BY <2>8 DEF Release, Owing, Underway
      <4>. QED
        BY <2>2, <2>5, <2>8, <4>1
    <3>4. newO <= o
      BY <2>2, <2>3, <2>8
    <3>5. newB \in Nat
      BY <3>2, FS_CardinalityType
    <3>. HIDE DEF d, o, b, newO, newB, mine
    <3>. QED
      BY <2>0, <2>1, <2>6, <3>1, <3>2, <3>3, <3>4, <3>5 DEF newO, newB
  <2>9. CASE Answers(c)
    <3>1. delivered'[u][a] = IF mine THEN d + 1 ELSE d
      BY <2>9 DEF Answers, UsageTypeOK
    <3>2. newB = b
      BY <2>9 DEF Answers, BilledUses
    <3>3. mine => newO + 1 <= o
      <4>1. mine => c \in Owing(u, a)
        BY <2>9 DEF Answers, Owing, Underway
      <4>. QED
        BY <2>2, <2>5, <2>9, <4>1
    <3>4. newO <= o
      BY <2>2, <2>3, <2>9
    <3>. HIDE DEF d, o, b, newO, newB, mine
    <3>. QED
      BY <2>0, <2>1, <3>1, <3>2, <3>3, <3>4 DEF newO, newB
  <2>10. CASE UNCHANGED <<uses, delivered>> /\ ~Commit(c)
    <3>1. newB = b /\ delivered'[u][a] = d
      BY <2>10 DEF BilledUses
    <3>2. newO <= o
      BY <2>2, <2>3, <2>10
    <3>. HIDE DEF d, o, b, newO, newB, mine
    <3>. QED
      BY <2>0, <2>1, <3>1, <3>2 DEF newO, newB
  <2>. QED
    BY <1>1, <2>7, <2>8, <2>9, <2>10 DEF Step, CheckPlan, Refused, CallProvider, PrepareFails, Fails, CleanUp, Complete, Dies
<1>2. ASSUME NEW c \in Requests, NEW a \in QuotaActions, NEW u \in Accounts, NEW o \in Workplaces, NEW t \in Texts \cup {NULL},
             Begin(c, a, u, o, t)
      PROVE  UnitsCovered'
  <2>1. /\ \A d \in Requests \ {c} : request'[d] = request[d]
        /\ request'[c].step = "LOCKED" /\ request[c].step = "IDLE"
    BY <1>2, MovesIn
  <2>2. uses' = uses /\ delivered' = delivered
    BY <1>2 DEF Begin
  <2>3. \A v, b : Owing(v, b)' = Owing(v, b) /\ BilledUses(v, b)' = BilledUses(v, b)
    BY <2>1, <2>2 DEF Owing, BilledUses, Underway
  <2>. QED
    BY <2>2, <2>3 DEF UnitsCovered
<1>3. CASE UNCHANGED <<uses, delivered, request>>
  BY <1>3 DEF UnitsCovered, Owing, BilledUses
<1>. QED
  BY <1>1, <1>2, <1>3, NextIs DEF Starts, Lapse, NewMonth, MovesTeam, usageVars

-----------------------------------------------------------------------------
(* The texts of the offers.                                                *)

LEMMA TextLasts ==
  ASSUME UsageTypeOK, NEW c \in Requests, Step(c), NEW d \in Requests, OfText(d)'
  PROVE  OfText(d) /\ SameAs(request'[d], request[d]) /\ KeyOf(d)' = KeyOf(d)
<1>1. RequestMoves(c)
  BY StepMoves
<1>2. OfText(d) /\ SameAs(request'[d], request[d])
  <2>1. CASE d = c
    <3>1. SameAs(request'[c], request[c]) /\ Path(request[c].step, request'[c].step)
      BY <2>1, StepMoves DEF OfText
    <3>. QED
      BY <2>1, <3>1 DEF OfText, Path, SameAs
  <2>2. CASE d # c
    BY <1>1, <2>2 DEF RequestMoves, OfText, SameAs
  <2>. QED
    BY <2>1, <2>2
<1>. QED
  BY <1>2 DEF SameAs, KeyOf

\* A text becomes held by a commit.
LEMMA HoldingLasts ==
  ASSUME UsageTypeOK, NEW c \in Requests, Step(c), NEW d \in Requests, Holding(d)'
  PROVE  Holding(d) \/ (d = c /\ Commit(c))
<1>1. RequestMoves(c) /\ OfText(d)
  BY StepMoves, TextLasts DEF Holding
<1>2. CASE d = c
  <2>1. Path(request[c].step, request'[c].step) /\ request'[c] # NoRequest
    BY <1>2, StepMoves DEF Holding, OfText, NoRequest
  <2>2. CASE request[c].step = "CHECKED"
    <3>1. ~Ends(c)
      BY <2>1, MovesOut
    <3>2. Commit(c)
      BY <2>2, <3>1 DEF Step, CheckPlan, Refused, CallProvider, PrepareFails, Ready, Answers, Fails, CleanUp, Release, Complete, Dies
    <3>. QED
      BY <1>2, <3>2
  <2>3. CASE request[c].step # "CHECKED"
    BY <1>1, <1>2, <2>1, <2>3 DEF Holding, Path
  <2>. QED
    BY <2>2, <2>3
<1>3. CASE d # c
  BY <1>1, <1>3 DEF RequestMoves, Holding, OfText
<1>. QED
  BY <1>2, <1>3

LEMMA KeyTyped ==
  ASSUME UsageTypeOK, TextsGiven, NEW c \in Requests, OfText(c)
  PROVE  KeyOf(c) \in Keys
BY RequestIs DEF TextsGiven, OfText, KeyOf, Keys

LEMMA TextsGivenKept ==
  ASSUME UsageTypeOK, TextsGiven, [UsageNext]_usageVars
  PROVE  TextsGiven'
<1>1. ASSUME NEW c \in Requests, NEW a \in QuotaActions, NEW u \in Accounts, NEW o \in Workplaces, NEW t \in Texts \cup {NULL},
             Starts(c, a, u, o, t)
      PROVE  TextsGiven'
  <2>1. /\ \A d \in Requests \ {c} : request'[d] = request[d]
        /\ request'[c].action = a /\ request'[c].text = t
    BY <1>1, MovesIn DEF Starts
  <2>2. a = "ai_offer" => t \in Texts
    BY <1>1 DEF Starts
  <2>. QED
    BY <2>1, <2>2 DEF TextsGiven, OfText
<1>2. ASSUME NEW c \in Requests, Step(c)
      PROVE  TextsGiven'
  BY <1>2, TextLasts DEF TextsGiven, SameAs
<1>3. CASE UNCHANGED request
  BY <1>3 DEF TextsGiven, OfText
<1>. QED
  BY <1>1, <1>2, <1>3, NextIs DEF Lapse, NewMonth, MovesTeam, usageVars

LEMMA TextsPendingKept ==
  ASSUME UsageTypeOK, TextsGiven, TextsPending, TextsApart, [UsageNext]_usageVars
  PROVE  TextsPending'
<1>0. offer \in [Keys -> {"NONE", "PENDING", "DONE"}]
  BY DEF UsageTypeOK
<1>1. ASSUME NEW c \in Requests, NEW a \in QuotaActions, NEW u \in Accounts, NEW o \in Workplaces, NEW t \in Texts \cup {NULL},
             Starts(c, a, u, o, t)
      PROVE  TextsPending'
  <2>1. /\ \A d \in Requests \ {c} : request'[d] = request[d]
        /\ request'[c].step = "LOCKED" /\ offer' = offer
    BY <1>1, MovesIn DEF Starts, Begin
  <2>. QED
    BY <2>1 DEF TextsPending, Holding, OfText, KeyOf
<1>2. ASSUME NEW c \in Requests, Step(c)
      PROVE  TextsPending'
  <2>. SUFFICES ASSUME NEW d \in Requests, Holding(d)'
       PROVE  offer'[KeyOf(d)'] = "PENDING"
    BY DEF TextsPending
  <2>1. OfText(d) /\ KeyOf(d)' = KeyOf(d) /\ KeyOf(d) \in Keys
    BY <1>2, TextLasts, KeyTyped DEF Holding
  <2>2. Holding(d) \/ (d = c /\ Commit(c))
    BY <1>2, HoldingLasts
  <2>3. CASE Commit(c)
    <3>1. Holding(d) => offer[KeyOf(d)] = "PENDING"
      BY DEF TextsPending
    <3>2. CASE d = c
      <4>1. offer' = [offer EXCEPT ![KeyOf(d)] = "PENDING"]
        BY <2>1, <2>3, <3>2 DEF Commit, OfText
      <4>. QED
        BY <1>0, <2>1, <4>1
    <3>3. CASE d # c
      <4>1. offer' = offer \/ offer' = [offer EXCEPT ![KeyOf(c)] = "PENDING"]
        BY <2>3 DEF Commit
      <4>. QED
        BY <1>0, <2>1, <2>2, <3>1, <3>3, <4>1
    <3>. QED
      BY <3>2, <3>3
  <2>4. CASE ~Commit(c)
    <3>1. Holding(d) /\ offer[KeyOf(d)] = "PENDING"
      BY <2>2, <2>4 DEF TextsPending
    <3>2. ASSUME offer'[KeyOf(d)] # offer[KeyOf(d)]
          PROVE  FALSE
      <4>1. (Complete(c) \/ \E b \in BOOLEAN : CleanUp(c, b)) /\ request[c].action = "ai_offer" /\ KeyOf(c) = KeyOf(d)
        <5>1. offer' = offer \/ \E s : /\ (Complete(c) \/ \E b \in BOOLEAN : CleanUp(c, b)) /\ request[c].action = "ai_offer"
                                      /\ offer' = [offer EXCEPT ![KeyOf(c)] = s]
          BY <1>2, <2>4 DEF Step, CheckPlan, Refused, CallProvider, PrepareFails, Answers, Fails, CleanUp, Release, Complete, Dies
        <5>. QED
          BY <1>0, <2>1, <3>2, <5>1
      <4>2. Holding(c) /\ OfText(c)
        BY <4>1 DEF Complete, CleanUp, Holding, OfText
      <4>3. c = d
        BY <2>1, <3>1, <4>1, <4>2 DEF TextsApart
      <4>4. request'[c].step \in {"IDLE", "RELEASING"}
        <5>1. request[c].step \in {"FAILED", "ANSWERED"}
          BY <4>1 DEF Complete, CleanUp
        <5>. QED
          BY <1>2, <5>1, StepMoves DEF Path
      <4>. QED
        BY <4>3, <4>4 DEF Holding
    <3>. QED
      BY <2>1, <3>1, <3>2
  <2>. QED
    BY <2>3, <2>4
<1>3. ASSUME NEW k \in Keys, Lapse(k)
      PROVE  TextsPending'
  <2>. SUFFICES ASSUME NEW d \in Requests, Holding(d)'
       PROVE  offer'[KeyOf(d)'] = "PENDING"
    BY DEF TextsPending
  <2>1. request' = request /\ offer' = [offer EXCEPT ![k] = "NONE"]
    BY <1>3 DEF Lapse
  <2>2. Holding(d) /\ KeyOf(d)' = KeyOf(d) /\ offer[KeyOf(d)] = "PENDING"
    BY <2>1 DEF Holding, OfText, KeyOf, TextsPending
  <2>3. KeyOf(d) # k
    <3>1. KeyOf(d) = k => Working(k)
      BY <2>2 DEF Working, Holding, OfText, InTransaction, NoRequest
    <3>. QED
      BY <1>3, <2>2, <3>1 DEF Lapse
  <2>. QED
    BY <1>0, <2>1, <2>2, <2>3
<1>4. CASE UNCHANGED <<offer, request>>
  BY <1>4 DEF TextsPending, Holding, OfText, KeyOf
<1>. QED
  BY <1>1, <1>2, <1>3, <1>4, NextIs DEF NewMonth, MovesTeam, usageVars

LEMMA TextsApartKept ==
  ASSUME UsageTypeOK, UserApart, TextsPending, TextsApart, [UsageNext]_usageVars
  PROVE  TextsApart'
<1>1. ASSUME NEW c \in Requests, NEW a \in QuotaActions, NEW u \in Accounts, NEW o \in Workplaces, NEW t \in Texts \cup {NULL},
             Starts(c, a, u, o, t)
      PROVE  TextsApart'
  <2>1. /\ \A d \in Requests \ {c} : request'[d] = request[d]
        /\ request'[c].step = "LOCKED" /\ request'[c].action = a
        /\ request'[c].user = u /\ request'[c].org = o /\ request'[c].text = t
    BY <1>1, MovesIn DEF Starts
  <2>. SUFFICES ASSUME NEW d \in Requests, NEW e \in Requests, Holding(d)', OfText(e)',
                       (Holding(e) \/ InTransaction(e))', KeyOf(d)' = KeyOf(e)'
       PROVE  d = e
    BY DEF TextsApart
  <2>2. d # c /\ Holding(d) /\ KeyOf(d)' = KeyOf(d)
    BY <2>1 DEF Holding, OfText, KeyOf
  <2>3. CASE e = c
    <3>1. a = "ai_offer" /\ KeyOf(e)' = <<u, o, t>>
      BY <2>1, <2>3 DEF OfText, KeyOf
    <3>2. offer[<<u, o, t>>] # "PENDING"
      BY <1>1, <3>1 DEF Starts
    <3>. QED
      BY <2>2, <3>1, <3>2 DEF TextsPending
  <2>4. CASE e # c
    <3>1. OfText(e) /\ (Holding(e) \/ InTransaction(e)) /\ KeyOf(e)' = KeyOf(e)
      BY <2>1, <2>4 DEF Holding, OfText, KeyOf, InTransaction
    <3>. QED
      BY <2>2, <3>1 DEF TextsApart
  <2>. QED
    BY <2>3, <2>4
<1>2. ASSUME NEW c \in Requests, Step(c)
      PROVE  TextsApart'
  <2>. SUFFICES ASSUME NEW d \in Requests, NEW e \in Requests, Holding(d)', OfText(e)',
                       (Holding(e) \/ InTransaction(e))', KeyOf(d)' = KeyOf(e)'
       PROVE  d = e
    BY DEF TextsApart
  <2>1. OfText(d) /\ OfText(e) /\ KeyOf(d) = KeyOf(e)
    BY <1>2, TextLasts DEF Holding
  <2>2. Holding(d) \/ InTransaction(d)
    BY <1>2, HoldingLasts DEF Commit, InTransaction
  <2>3. Holding(e) \/ InTransaction(e)
    BY <1>2, HoldingLasts, TransactionsLast DEF Commit, InTransaction
  <2>4. CASE Holding(d)
    BY <2>1, <2>3, <2>4 DEF TextsApart
  <2>5. CASE Holding(e)
    BY <2>1, <2>2, <2>5 DEF TextsApart
  <2>6. CASE InTransaction(d) /\ InTransaction(e)
    BY <2>1, <2>6 DEF UserApart, OfText, KeyOf
  <2>. QED
    BY <2>2, <2>3, <2>4, <2>5, <2>6
<1>3. CASE UNCHANGED request
  BY <1>3 DEF TextsApart, Holding, OfText, KeyOf, InTransaction
<1>. QED
  BY <1>1, <1>2, <1>3, NextIs DEF Lapse, NewMonth, MovesTeam, usageVars

-----------------------------------------------------------------------------
(* The theorems of the quotas.                                             *)

LEMMA UsageInitKept == UsageInit => UsageInv
<1>. SUFFICES ASSUME UsageInit
     PROVE  UsageInv
  OBVIOUS
<1>. USE UsageAssumption
<1>1. uses \in Seq(Use) /\ DOMAIN uses = {}
  <2>1. uses = <<>>
    BY DEF UsageInit
  <2>2. <<>> \in Seq(Use) /\ Len(<<>>) = 0
    BY EmptySeq
  <2>3. DOMAIN <<>> = {}
    OBVIOUS
  <2>. QED
    BY <2>1, <2>2, <2>3
<1>2. \A c \in Requests : request[c] = NoRequest /\ request[c].step = "IDLE"
  BY DEF UsageInit, NoRequest
<1>3. UsageTypeOK
  BY <1>1, <1>2 DEF UsageInit, UsageTypeOK
<1>4. UserApart /\ TeamApart /\ UnitLeft /\ RowsOfPayers /\ TextsGiven /\ TextsPending /\ TextsApart
  BY <1>1, <1>2 DEF UserApart, TeamApart, UnitLeft, RowsOfPayers, TextsGiven, TextsPending, TextsApart,
                    InTransaction, Holding, OfText
<1>5. PoolKept
  <2>1. \A p \in PoolPayers, a \in QuotaActions : PaidUnder(p, a) = {}
    BY <1>1 DEF PaidUnder
  <2>. QED
    BY <2>1, FS_EmptySet DEF PoolKept
<1>6. UnitsCovered
  <2>. SUFFICES ASSUME NEW u \in Accounts, NEW a \in QuotaActions
       PROVE  delivered[u][a] + Cardinality(Owing(u, a)) <= Cardinality(BilledUses(u, a))
    BY DEF UnitsCovered
  <2>1. Owing(u, a) = {} /\ BilledUses(u, a) = {}
    BY <1>1, <1>2 DEF Owing, BilledUses, Underway
  <2>2. delivered[u][a] = 0
    BY DEF UsageInit
  <2>. QED
    BY <2>1, <2>2, FS_EmptySet
<1>. QED
  BY <1>3, <1>4, <1>5, <1>6 DEF UsageInv

LEMMA UsageNextKept ==
  ASSUME UsageInv, [UsageNext]_usageVars
  PROVE  UsageInv'
BY UsageTyped, UserApartKept, TeamApartKept, RowsOfPayersKept, UnitLeftKept, PoolKeptKept, UnitsCoveredKept,
   TextsGivenKept, TextsPendingKept, TextsApartKept
   DEF UsageInv

\* The inductive invariant of the quotas: the locks of the users and of the teams keep
\* transactions apart, the room counted is still there, what is under way has been paid.
THEOREM UsageInvariant == UsageSpec => []UsageInv
BY UsageInitKept, UsageNextKept, PTL DEF UsageSpec

\* Whatever the members of a team ask at the same time, the units their plan pays for in a
\* period never exceed its limit (enforce_plan_limit counts and inserts under one lock).
THEOREM PoolsAreKept == UsageSpec => []PoolKept
<1>1. UsageInv => PoolKept
  BY DEF UsageInv
<1>. QED
  BY <1>1, UsageInvariant, PTL

\* Every result handed out keeps a billable unit, though a release takes the newest unit of
\* the user and not the one its own request took (release_commercial_use).
THEOREM DeliveriesStayBilled == UsageSpec => []DeliveredIsBilled
<1>1. ASSUME UsageInv
      PROVE  DeliveredIsBilled
  <2>. SUFFICES ASSUME NEW u \in Accounts, NEW a \in QuotaActions
       PROVE  delivered[u][a] <= Cardinality(BilledUses(u, a))
    BY DEF DeliveredIsBilled
  <2>1. delivered[u][a] + Cardinality(Owing(u, a)) <= Cardinality(BilledUses(u, a))
    BY <1>1 DEF UsageInv, UnitsCovered
  <2>2. delivered[u][a] \in Nat /\ Cardinality(Owing(u, a)) \in Nat /\ Cardinality(BilledUses(u, a)) \in Nat
    BY <1>1, OwingFinite, BilledFinite, FS_CardinalityType DEF UsageInv, UsageTypeOK
  <2>. QED
    BY <2>1, <2>2
<1>. QED
  BY <1>1, UsageInvariant, PTL

\* The AI model is never called twice at a time for one text of one project, whatever is
\* retried: a row that is PENDING belongs to one request (reserve_offer_analysis).
THEOREM TextsAreCalledOnce == UsageSpec => []OneCallPerText
<1>1. UsageInv => OneCallPerText
  BY DEF UsageInv, TextsApart, OneCallPerText, Ready, Holding, OfText
<1>. QED
  BY <1>1, UsageInvariant, PTL
=============================================================================
