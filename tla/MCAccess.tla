------------------------------- MODULE MCAccess -------------------------------
(***************************************************************************)
(* A small instance of Permissions and Access for TLC.  What a shopper may *)
(* do and whether a field is guarded share no state, so that either is     *)
(* explored while the other rests.                                         *)
(***************************************************************************)
EXTENDS Permissions, Access, TLC

CONSTANTS r1, r2, f1, f2, use

MCCatalog == (r1 :> {use}) @@ (r2 :> {})

Untouched == brought = Nothing /\ \A f \in Fields : field[f] = Closed
AtRest ==
    /\ changes = 0 /\ roles = None /\ ~strict
    /\ \A e \in Emails : users[e] = None /\ roleOf[e] = None
    /\ \A q \in Requests : request[q] = Idle

\* The other role and the empty roleId come by an edit.
MCInit == Init /\ AccessInit /\ \A e \in Emails : roleOf[e] \in {r1, None}

MCNext ==
    \/ Untouched /\ Next /\ UNCHANGED accessVars
    \/ AtRest /\ AccessNext /\ UNCHANGED vars

MCSpec == MCInit /\ [][MCNext]_<<vars, accessVars>>

Symmetry == Permutations(Requests) \cup Permutations(Emails) \cup Permutations(Fields)

===============================================================================
