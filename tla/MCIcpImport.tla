---------------------------- MODULE MCIcpImport -----------------------------
(* Instances of IcpImport for TLC: imports of two members.                 *)
EXTENDS IcpImport, TLC

CONSTANTS f1, f2, g1, g2

TwoImports == {f1, f2}
Authors == f1 :> g1 @@ f2 :> g2
=============================================================================
