----------------------------- MODULE MCSetProfile -----------------------------
(***************************************************************************)
(* Small instances of SetProfile for TLC: organization 1 with two cost     *)
(* centers, organization 2 with one, a document of the shopper for each.   *)
(***************************************************************************)
EXTENDS SetProfile, TLC

CONSTANTS o1, o2, c1, c2, c3, r1, r2, r3

TwoInOne == r1 :> o1 @@ r2 :> o1 @@ r3 :> o2
OneEach == r1 :> c1 @@ r2 :> c2 @@ r3 :> c3

\* Both cost centers of organization 1 have an address with a region.
RegionsOfOne == {o1} \X {c1, c2}

\* The two documents of organization 1, with their cost centers.
Swap == r1 :> r2 @@ r2 :> r1 @@ c1 :> c2 @@ c2 :> c1
Symmetry == {Swap}

(***************************************************************************)
(* A state without what can no longer matter: the windows and the answer   *)
(* to the Session Manager between two transforms and during one, the       *)
(* listing and the candidate once the recovery is past them.               *)
(***************************************************************************)
View ==
    <<world, session, stage, form, cachedUser, user, orgDoc, costDoc, hash, table, listed,
      cartVars, passes,
      IF stage = "idle" THEN rerun ELSE windows,
      IF stage = "candidate" THEN listing ELSE NothingListed,
      IF stage \in {"stickyOrg", "stickyRecord", "stickyCost"} THEN fallback ELSE None>>

==============================================================================
