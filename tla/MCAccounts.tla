----------------------------- MODULE MCAccounts -----------------------------
(* The administrator and another account, three PINs: at the panel with the  *)
(* sign-in form beside it, or at the account pages of two devices.           *)
EXTENDS AccountPages, TLC

Pages4 == {"panel", "desk", "phone", "slot"}
Places == {{"panel", "slot"}, {"desk", "phone", "slot"}}
Symmetry == Permutations(Pin)
=============================================================================
