--------------------------- MODULE MCPolicyGate ---------------------------
(***************************************************************************)
(* Finite instances for checking PolicyGate and CaseViews.                 *)
(***************************************************************************)
EXTENDS CaseViews

CONSTANTS m1, m2, o1, o2, rg, c1, c2

OneMerchant  == {m1}
TwoMerchants == {m1, m2}
TwoOrders    == {o1, o2}
OneReason    == {rg}
OneClaim     == {c1}
TwoClaims    == {c1, c2}
===========================================================================
