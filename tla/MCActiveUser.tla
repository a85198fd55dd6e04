---------------------------- MODULE MCActiveUser ----------------------------
(***************************************************************************)
(* Small instances of ActiveUser for TLC: the documents are numbers in the *)
(* order of their ids, and each has a cost center of its own.              *)
(***************************************************************************)
EXTENDS ActiveUser, TLC

OwnCost == [r \in Records |-> r]
ById == [r \in Records |-> r]

NoneOrFirstActive == {{}, {1}}
OneActive == {{1}}
AnyPin == Records \cup {None}
NoPin == {None}

Symmetry == Permutations(Requests)

(***************************************************************************)
(* A state without what can no longer matter: of a request that is over    *)
(* and at rest only the document it went to, and, if it is a clean `last`, *)
(* what the history says of it.                                            *)
(***************************************************************************)
Call(p) ==
    CASE ~AtRest(p) ->
            <<pc[p], caller[p], target[p], keyed[p], inflight[p], rejected[p], tries[p]>>
      [] AtRest(p) /\ pc[p] = "idle" -> <<>>
      [] OTHER ->
            IF p = last /\ clean THEN <<pc[p], caller[p], target[p], keyed[p]>>
                                 ELSE <<target[p]>>

View == <<storeVars, [p \in Requests |-> Call(p)], historyVars, readerVars, degraded>>


(***************************************************************************)
(* Two questions in one instance.  While the shopper has never chosen and  *)
(* no document is active, two sessions with any pins share the cache, all  *)
(* reads may fail, and no switch begins.  From an active document on, one  *)
(* session without a pin is followed through switches, with reads that     *)
(* succeed.                                                                *)
(***************************************************************************)
Unchosen == ~SomeActive /\ last = None
Followed == CHOOSE s \in Sessions : TRUE

FollowedReads ==
    \/ Start(Followed) \/ Hit(Followed) \/ Miss(Followed) \/ Finish(Followed)
    \/ ReadSelection(Followed) \/ Search(Followed)

MCInit == UserInit /\ (SomeActive => \A s \in Sessions : pin[s] = None)

MCNext ==
    \/ Unchosen /\ Reading /\ UNCHANGED vars
    \/ ~Unchosen /\ Switching /\ UNCHANGED readerVars
    \/ ~Unchosen /\ FollowedReads /\ UNCHANGED vars

MCSpec == MCInit /\ [][MCNext]_userVars

=============================================================================
