----------------------------- MODULE MCAdminSetup -----------------------------
(***************************************************************************)
(* Small instances of AdminSetup for TLC: one role the apps define and one *)
(* the merchant made, two modules.                                         *)
(***************************************************************************)
EXTENDS AdminSetup, TLC

CONSTANTS buyer, custom, m1, m2

BothToBuyer == buyer :> {m1, m2} @@ custom :> {}
EmptyBuyer == buyer :> {} @@ custom :> None

Symmetry == Permutations(Procs) \cup Permutations(Modules)

==============================================================================
