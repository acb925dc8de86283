----------------------------- MODULE MCBilling ------------------------------
(* Instances of Billing for TLC.                                           *)
EXTENDS Billing, TLC

HandlerSymmetry == Permutations(Handlers)
AllSymmetry == HandlerSymmetry \cup Permutations(Customers) \cup Permutations(Calls)
=============================================================================
