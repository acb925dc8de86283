------------------------------ MODULE Commons ------------------------------
(* What several modules of ProspectOS share.                               *)
CONSTANT NULL   \* no row, no value
=============================================================================
