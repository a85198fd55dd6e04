------------------------------ MODULE ServedPair ------------------------------
(***************************************************************************)
(* What a session may be told by its transforms: the organization and cost *)
(* center it holds, as the shopper and the storefront see them.  No order  *)
(* of calls, no listings, hashes or retries: only which pair a transform   *)
(* may serve, given what was the case while it ran.                        *)
(***************************************************************************)
EXTENDS Directory

VARIABLES
    held,    \* the pair the session holds, or None
    chosen,  \* the document the transform under way set out with, or None
    busy     \* is a transform under way?

pairVars == <<held, chosen, busy>>

Init ==
    /\ DirectoryInit
    /\ held = None
    /\ chosen = None
    /\ busy = FALSE

Begin ==
    /\ ~busy
    /\ busy' = TRUE
    /\ WindowsOpen
    /\ UNCHANGED <<world, held, chosen>>

\* The shopper's choice, as it is at that time.
Resolve ==
    /\ busy /\ chosen = None
    /\ choice # None
    /\ chosen' = choice
    /\ UNCHANGED <<world, windows, held, busy>>

(***************************************************************************)
(* The pair the session holds is beyond doubt: its organization is another *)
(* one and was usable all the time, its cost center and a document of the  *)
(* shopper for it were there all the time.                                 *)
(***************************************************************************)
Sound(pair) ==
    /\ pair[1] \notin down \cup {OrgOf[chosen]}
    /\ pair[2] \notin dead
    /\ \E r \in Records \ missing : PairOf(r) = pair

(***************************************************************************)
(* The shopper's choice; its organization with another cost center if the  *)
(* cost center is gone; and if the organization is unusable, the pair the  *)
(* session holds, or, only when that one is in doubt, the pair of any of   *)
(* the shopper's documents.  Always of an organization that was usable     *)
(* while the transform ran.                                                *)
(***************************************************************************)
Serve(pair) ==
    /\ busy /\ chosen # None
    /\ pair[1] \in up
    /\ \/ pair = PairOf(chosen)
       \/ pair[1] = OrgOf[chosen] /\ CostOf[chosen] \in dead
       \/ OrgOf[chosen] \in down /\ pair = held
       \/ /\ OrgOf[chosen] \in down
          /\ held # None => ~Sound(held)
          /\ \E r \in Records : pair = PairOf(r)
    /\ held' = pair
    /\ chosen' = None
    /\ busy' = FALSE

\* The transform fails or resolves nobody: the session keeps what it holds.
Keep ==
    /\ busy
    /\ held' = held
    /\ chosen' = None
    /\ busy' = FALSE

\* The shopper or the merchant has opted out.
Leave ==
    /\ busy /\ mode # "on"
    /\ held' = None
    /\ chosen' = None
    /\ busy' = FALSE

\* Ends a transform.  A failure counts as a change.
End ==
    /\ \/ \E pair \in Pairs : Serve(pair)
       \/ Keep
       \/ Leave
    /\ changes' \in {changes, changes + 1}
    /\ UNCHANGED <<usable, live, stale, present, choice, mode, windows>>

\* Calls that fail without ending the transform.
Hiccup == 
    /\ Disturb
    /\ UNCHANGED <<usable, live, stale, present, choice, mode, windows, pairVars>>

Next ==
    \/ WorldChanges /\ UNCHANGED pairVars
    \/ Begin
    \/ Resolve
    \/ End
    \/ Hiccup

Spec == Init /\ [][Next]_<<world, windows, pairVars>>

==============================================================================
