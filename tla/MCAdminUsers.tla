---------------------------- MODULE MCAdminUsers ----------------------------
(* Values of the constants of AdminUsers for TLC: two tabs, tokens that    *)
(* outlive the skew and tokens that do not.                                *)
EXTENDS AdminUsers

MCLifetimes == {3, 5}
=============================================================================
