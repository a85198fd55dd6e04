--------------------------- MODULE MCCachedResource ---------------------------
(***************************************************************************)
(* Small instances of CachedResource for TLC.                              *)
(***************************************************************************)
EXTENDS CachedResource, TLC

Symmetry == Permutations(Pods) \cup Permutations(Calls)

==============================================================================
