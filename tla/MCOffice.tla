------------------------------ MODULE MCOffice ------------------------------
(***************************************************************************)
(* Two parts that have a state of their own, for TLC: each alone, chosen   *)
(* at the start, and a third that begins from anything the engine of the   *)
(* next best action may be given.                                          *)
(***************************************************************************)
EXTENDS MCSelfOutreach, MCNextAction

VARIABLE part

OfficeInit ==
  /\ part \in {"queue", "actions", "advice"}
  /\ Init
  /\ IF part = "advice" THEN AdviceInit ELSE NextActionInit
OfficeNext ==
  /\ UNCHANGED part
  /\ \/ part = "queue"   /\ Next           /\ UNCHANGED nbaVars
     \/ part = "actions" /\ NextActionNext /\ UNCHANGED vars
     \/ part = "advice"  /\ OpenPage       /\ UNCHANGED vars
OfficeSpec == OfficeInit /\ [][OfficeNext]_<<part, vars, nbaVars>>

\* Type invariant of every part.
OfficeTypes == TypeOK /\ NextActionTypeOK

OfficeSymmetry == WorkerSymmetry \cup Permutations(Recomputes)
=============================================================================
