----------------------------- MODULE MCOrgSwitch -----------------------------
(***************************************************************************)
(* Small instances of OrgSwitch for TLC.                                   *)
(***************************************************************************)
EXTENDS OrgSwitch, TLC

\* addUser creates one document per cost center, so the documents themselves
\* serve as cost center ids: Costs is Records and the instances stay symmetric.
OwnCost == [r \in Records |-> r]

AnyActive == SUBSET Records

Symmetry == Permutations(Requests) \cup Permutations(Records)

==============================================================================
