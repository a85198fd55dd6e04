----------------------------- MODULE MCUserAdmin -----------------------------
(***************************************************************************)
(* Small instances of UserAdmin for TLC.                                   *)
(***************************************************************************)
EXTENDS UserAdmin, TLC

Symmetry == Permutations(Requests) \cup Permutations(Ids) \cup Permutations(Pairs)

=============================================================================
