------------------------------ MODULE OrgSwitch ------------------------------
(***************************************************************************)
(* The organization switch: setCurrentOrganization and                     *)
(* setActiveUserByOrganization (src/node/resolvers/Mutations/Users.ts).    *)
(*                                                                         *)
(* One shopper (one email) holds several b2b_users documents, one per      *)
(* organization and cost center.  A switch marks one of them active,       *)
(* deactivates the others the search index reports as active, records the  *)
(* choice in the selection document and finally writes the cost center     *)
(* into the browser session.  None of this is a transaction: every await   *)
(* that changes something is a step of its own here, several requests      *)
(* interleave, every call may fail with or without having taken effect, a  *)
(* request may die between two awaits, and the search index trails the     *)
(* documents.                                                              *)
(*                                                                         *)
(* The documents never move between organizations or disappear here (see   *)
(* the README): of a document only its `active` flag changes.              *)
(***************************************************************************)
EXTENDS Naturals, FiniteSets

CONSTANTS
    Records,        \* the shopper's b2b_users documents
    Sessions,       \* browser sessions of the shopper
    Requests,       \* switch mutations, each called at most once
    Costs,          \* cost center ids
    CostOf,         \* the cost center a document belongs to
    None,           \* "nothing recorded"
    MaxRetry,       \* MAX_RETRY of setChangeSession
    InitialActive,  \* the sets of documents that may be active at first
    Faults          \* whether calls to other services may fail

ASSUME ShopperAssumption ==
    /\ CostOf \in [Records -> Costs]
    /\ None \notin Records \cup Sessions \cup Requests \cup Costs
    /\ InitialActive \subseteq SUBSET Records
ASSUME RetryAssumption == MaxRetry \in Nat
ASSUME FaultsAssumption == Faults \in BOOLEAN

VARIABLES
    active,      \* document -> its stored `active` flag
    index,       \* document -> the `active` flag a search sees
    selection,   \* b2bUserId of the shopper's selection document, or None
    currentCost, \* session -> public.b2bCurrentCostCenter, or None
    pc,          \* request -> where the mutation is
    caller,      \* request -> the session setCurrentOrganization writes to at the
                 \*   end, or None when the storefront called
                 \*   setActiveUserByOrganization, which writes to none
    target,      \* request -> the document to activate (`user`)
    keyed,       \* request -> did its session name the shopper (selectionKey)?
    inflight,    \* request -> deactivation writes sent and not answered yet
    rejected,    \* request -> has one of those writes failed?
    tries,       \* request -> countRetry of setChangeSession
    last,        \* history: the request that started last, or None
    clean,       \* history: `last` started alone on a settled index, no fault since
    overlap      \* history: has a request ever started while another was busy?

storeVars == <<active, index, selection, currentCost>>
callVars == <<caller, target, keyed, inflight, rejected, tries>>
historyVars == <<last, clean, overlap>>
vars == <<storeVars, pc, callVars, historyVars>>

Stages == {"idle", "lookup", "activate", "list", "deactivate", "select",
           "publish", "done", "failed"}
Ended == {"done", "failed"}

Running(p) == pc[p] \notin Ended \cup {"idle"}
AtRest(p) == ~Running(p) /\ inflight[p] = {}
SomeActive == \E r \in Records : active[r]

TypeOK ==
    /\ active \in [Records -> BOOLEAN]
    /\ index \in [Records -> BOOLEAN]
    /\ selection \in Records \cup {None}
    /\ currentCost \in [Sessions -> Costs \cup {None}]
    /\ pc \in [Requests -> Stages]
    /\ caller \in [Requests -> Sessions \cup {None}]
    /\ target \in [Requests -> Records \cup {None}]
    /\ \A p \in Requests : pc[p] # "idle" => target[p] \in Records
    /\ keyed \in [Requests -> BOOLEAN]
    /\ inflight \in [Requests -> SUBSET Records]
    /\ rejected \in [Requests -> BOOLEAN]
    /\ tries \in [Requests -> 0 .. MaxRetry]
    /\ last \in Requests \cup {None}
    /\ clean \in BOOLEAN
    /\ overlap \in BOOLEAN

------------------------------------------------------------------------------
(***************************************************************************)
(* Initially nobody has switched.  The documents may be in any state other *)
(* code leaves behind (createPermission writes them without the flag, an   *)
(* earlier race may have left several active) and the index agrees.        *)
(***************************************************************************)
Init ==
    /\ \E A \in InitialActive : active = [r \in Records |-> r \in A]
    /\ index = active
    /\ selection = None
    /\ currentCost = [s \in Sessions |-> None]
    /\ pc = [p \in Requests |-> "idle"]
    /\ caller = [p \in Requests |-> None]
    /\ target = [p \in Requests |-> None]
    /\ keyed = [p \in Requests |-> FALSE]
    /\ inflight = [p \in Requests |-> {}]
    /\ rejected = [p \in Requests |-> FALSE]
    /\ tries = [p \in Requests |-> 0]
    /\ last = None
    /\ clean = FALSE
    /\ overlap = FALSE

Goto(p, stage) == pc' = [pc EXCEPT ![p] = stage]

\* A fault: whatever happens to `last` from here on, it was not a clean switch.
Fault == Faults /\ clean' = FALSE

(***************************************************************************)
(* The storefront calls a mutation for document r.  In                     *)
(* setCurrentOrganization the caller is the session of the cookie and the  *)
(* pair (orgId, costId) has been found among the shopper's own documents;  *)
(* a call whose session has no email, or whose pair is not the shopper's,  *)
(* answers with an error before anything changes and is not modelled.      *)
(***************************************************************************)
Request(p, s, r) ==
    /\ pc[p] = "idle"
    /\ Goto(p, "lookup")
    /\ caller' = [caller EXCEPT ![p] = s]
    /\ target' = [target EXCEPT ![p] = r]
    /\ last' = p
    /\ clean' = (index = active /\ \A q \in Requests : AtRest(q))
    /\ overlap' = (overlap \/ \E q \in Requests : ~AtRest(q))
    /\ UNCHANGED <<storeVars, keyed, inflight, rejected, tries>>

(***************************************************************************)
(* getSession, then the search by email and pair, then getUser: they read  *)
(* only what does not change here.  The admin branch carries on without a  *)
(* selection key when the call brings no session, as from another server,  *)
(* or when getSession fails.                                               *)
(***************************************************************************)
Lookup(p) ==
    /\ pc[p] = "lookup"
    /\ Goto(p, "activate")
    /\ \E k \in BOOLEAN :
          /\ k \/ caller[p] = None \/ Faults
          /\ keyed' = [keyed EXCEPT ![p] = k]
    /\ UNCHANGED <<storeVars, caller, target, inflight, rejected, tries, historyVars>>

\* updateUserFields with active: true: the whole document is written back.
Activate(p) ==
    /\ pc[p] = "activate"
    /\ active' = [active EXCEPT ![target[p]] = TRUE]
    /\ Goto(p, "list")
    /\ UNCHANGED <<index, selection, currentCost, callVars, historyVars>>

\* listActiveUsers without the filter that spares the target itself.
ListedWithTarget(p) == {r \in Records : index[r]}

\* listActiveUsers cut to one document, as with a page size of one.
ListedFirstOnly(p) ==
    LET others == {r \in Records : index[r]} \ {target[p]}
    IN  IF others = {} THEN {} ELSE {CHOOSE r \in others : TRUE}

\* The documents a search reports as active, without the target.
DeactivateTargets(p) == {r \in Records : index[r]} \ {target[p]}

(***************************************************************************)
(* listActiveUsers, then all the deactivation writes leave at once.  The   *)
(* list comes from the index: it may miss a document that is active, or    *)
(* name one that is not any more.                                          *)
(***************************************************************************)
ListActive(p) ==
    /\ pc[p] = "list"
    /\ inflight' = [inflight EXCEPT ![p] = DeactivateTargets(p)]
    /\ Goto(p, "deactivate")
    /\ UNCHANGED <<storeVars, caller, target, keyed, rejected, tries, historyVars>>

(***************************************************************************)
(* One of these writes reaches Master Data.  Its request may have ended:   *)
(* Promise.all rejects with the first failure and does not wait for the    *)
(* rest.                                                                   *)
(***************************************************************************)
Deactivate(p, r) ==
    /\ r \in inflight[p]
    /\ active' = [active EXCEPT ![r] = FALSE]
    /\ inflight' = [inflight EXCEPT ![p] = @ \ {r}]
    /\ UNCHANGED <<index, selection, currentCost, pc, caller, target, keyed,
                   rejected, tries, historyVars>>

\* It fails, having taken effect or not (a timeout does not tell).
DeactivateFails(p, r) ==
    /\ Fault
    /\ r \in inflight[p]
    /\ active' \in {active, [active EXCEPT ![r] = FALSE]}
    /\ inflight' = [inflight EXCEPT ![p] = @ \ {r}]
    /\ rejected' = [rejected EXCEPT ![p] = TRUE]
    /\ UNCHANGED <<index, selection, currentCost, pc, caller, target, keyed,
                   tries, last, overlap>>

\* The writes awaited as if a rejection could not happen.
SettledNeverRejects(p) == inflight[p] = {} /\ ~rejected[p]

\* Promise.all over the writes: every one answered, or one rejected.
Settled(p) == inflight[p] = {} \/ rejected[p]

\* The rejection is caught and logged; the switch goes on either way.
AwaitDeactivation(p) ==
    /\ pc[p] = "deactivate"
    /\ Settled(p)
    /\ Goto(p, "select")
    /\ UNCHANGED <<storeVars, callVars, historyVars>>

AfterSelect(p) == IF caller[p] = None THEN "done" ELSE "publish"

\* writeActiveSelection, under the key of the shopper if the session named one.
Select(p) ==
    /\ pc[p] = "select"
    /\ selection' = IF keyed[p] THEN target[p] ELSE selection
    /\ Goto(p, AfterSelect(p))
    /\ UNCHANGED <<active, index, currentCost, callVars, historyVars>>

\* The write fails and is only logged: writeActiveSelection never throws.
SelectFails(p) ==
    /\ Fault
    /\ pc[p] = "select"
    /\ keyed[p]
    /\ selection' \in {selection, target[p]}
    /\ Goto(p, AfterSelect(p))
    /\ UNCHANGED <<active, index, currentCost, callVars, last, overlap>>

\* One attempt of setChangeSession; the mutation then answers success.
Publish(p) ==
    /\ pc[p] = "publish"
    /\ currentCost' = [currentCost EXCEPT ![caller[p]] = CostOf[target[p]]]
    /\ Goto(p, "done")
    /\ UNCHANGED <<active, index, selection, callVars, historyVars>>

\* The comparison with an attempt too many.
ExhaustedLate(p) == tries[p] > MaxRetry

Exhausted(p) == tries[p] >= MaxRetry

(***************************************************************************)
(* The attempt fails (the session may have been written all the same).     *)
(* While attempts are left it is repeated; the failure of the last one is  *)
(* swallowed and the mutation still answers success.  Only then has the    *)
(* switch ceased to be a clean one.                                        *)
(***************************************************************************)
PublishFails(p) ==
    /\ Faults
    /\ pc[p] = "publish"
    /\ currentCost' \in {currentCost,
                         [currentCost EXCEPT ![caller[p]] = CostOf[target[p]]]}
    /\ \/ /\ ~Exhausted(p)
          /\ tries' = [tries EXCEPT ![p] = @ + 1]
          /\ UNCHANGED <<pc, clean>>
       \/ /\ Exhausted(p)
          /\ Goto(p, "done")
          /\ clean' = FALSE
          /\ UNCHANGED tries
    /\ UNCHANGED <<active, index, selection, caller, target, keyed, inflight,
                   rejected, last, overlap>>

(***************************************************************************)
(* A lookup, the activation or the listing throws, or the pod dies at any  *)
(* await: the mutation ends there and nothing is undone.  A call that was  *)
(* being answered may have taken effect; writes already sent stay sent.    *)
(***************************************************************************)
Abort(p) ==
    /\ Fault
    /\ Running(p)
    /\ Goto(p, "failed")
    /\ IF pc[p] = "activate"
       THEN active' \in {active, [active EXCEPT ![target[p]] = TRUE]}
       ELSE UNCHANGED active
    /\ IF pc[p] = "select" /\ keyed[p]
       THEN selection' \in {selection, target[p]}
       ELSE UNCHANGED selection
    /\ IF pc[p] = "publish"
       THEN currentCost' \in {currentCost,
                              [currentCost EXCEPT ![caller[p]] = CostOf[target[p]]]}
       ELSE UNCHANGED currentCost
    /\ UNCHANGED <<index, callVars, last, overlap>>

\* The search index catches up with one document.
Reindex(r) ==
    /\ index[r] # active[r]
    /\ index' = [index EXCEPT ![r] = active[r]]
    /\ UNCHANGED <<active, selection, currentCost, pc, callVars, historyVars>>

------------------------------------------------------------------------------
(***************************************************************************)
(* What a request does of itself: go on, or take in the answer of a write. *)
(* Starting one, and dying, are the environment's.                         *)
(***************************************************************************)
Step(p) ==
    \/ Lookup(p)
    \/ Activate(p)
    \/ ListActive(p)
    \/ \E r \in Records : Deactivate(p, r) \/ DeactivateFails(p, r)
    \/ AwaitDeactivation(p)
    \/ Select(p)
    \/ SelectFails(p)
    \/ Publish(p)
    \/ PublishFails(p)

Next ==
    \/ \E p \in Requests :
          \/ \E s \in Sessions \cup {None}, r \in Records : Request(p, s, r)
          \/ Step(p)
          \/ Abort(p)
    \/ \E r \in Records : Reindex(r)

(***************************************************************************)
(* Every call is answered or times out, so a request that can go on does.  *)
(* Nobody has to start a switch and nothing has to fail.                   *)
(***************************************************************************)
Fairness == \A p \in Requests : WF_vars(Step(p))

Spec == Init /\ [][Next]_vars
FairSpec == Spec /\ Fairness

------------------------------------------------------------------------------
(***************************************************************************)
(* A switch that starts while no other is busy and the index is settled,   *)
(* and in which nothing fails for good, leaves exactly its own document    *)
(* active before the session hears of it, whatever mess of several or no   *)
(* active documents it found; the selection document then names it, and    *)
(* once the mutation has answered so does the session, however many        *)
(* attempts setChangeSession took.  The index may lag all along.           *)
(***************************************************************************)
CleanSwitchSettles ==
    clean /\ pc[last] \in {"publish", "done"} =>
        /\ \A r \in Records : active[r] <=> r = target[last]
        /\ keyed[last] => selection = target[last]
        /\ pc[last] = "done" /\ caller[last] # None =>
              currentCost[caller[last]] = CostOf[target[last]]

(***************************************************************************)
(* As long as switches do not overlap, no step of one, no failure, no      *)
(* crash and no write that lands after its request has ended takes the     *)
(* shopper from having an active document to having none (from which       *)
(* getActiveUserByEmail would fall back to an arbitrary organization).     *)
(***************************************************************************)
KeepsSomeActive == [][~overlap' /\ SomeActive => SomeActive']_vars

(***************************************************************************)
(* Every switch ends, with an answer or an error, and so do the writes it  *)
(* sent: neither the awaited burst of writes nor the retries of            *)
(* setChangeSession keep a mutation waiting for ever.                      *)
(***************************************************************************)
SwitchEnds == \A p \in Requests : Running(p) ~> (pc[p] \in Ended /\ inflight[p] = {})

------------------------------------------------------------------------------
(***************************************************************************)
(* The inductive invariants behind the two safety properties, proved in    *)
(* OrgSwitchProofs.                                                        *)
(***************************************************************************)

\* Writes leave only with the list, and a request that has a session to
\* publish to is the only one that publishes.
EarlyInv ==
    \A p \in Requests :
        /\ pc[p] \in {"idle", "lookup", "activate", "list"} =>
              inflight[p] = {} /\ ~rejected[p]
        /\ pc[p] = "publish" => caller[p] # None

\* While `last` is clean everybody else is at rest.
AloneInv ==
    clean => /\ last \in Requests
             /\ pc[last] \notin {"idle", "failed"}
             /\ \A q \in Requests \ {last} : AtRest(q)

\* Where a clean switch stands, documents and index relate like this: its own
\* document is never listed, and any other that is still active has a write
\* on its way.
ProgressInv ==
    clean =>
        /\ pc[last] \in {"lookup", "activate"} => index = active
        /\ pc[last] = "list" =>
              /\ active[target[last]]
              /\ \A r \in Records \ {target[last]} : index[r] = active[r]
        /\ pc[last] = "deactivate" =>
              /\ ~rejected[last]
              /\ active[target[last]]
              /\ target[last] \notin inflight[last]
              /\ \A r \in Records \ {target[last]} : active[r] => r \in inflight[last]
        /\ pc[last] \in {"select", "publish", "done"} =>
              /\ inflight[last] = {}
              /\ \A r \in Records : active[r] <=> r = target[last]

SettleInv == EarlyInv /\ AloneInv /\ ProgressInv /\ CleanSwitchSettles

\* Without overlap at most one request is busy, it never sends a write for its
\* own document, and as long as it has writes on the way, or is about to send
\* them, that document is active.
SerialInv ==
    /\ \A p \in Requests :
          /\ target[p] \notin inflight[p]
          /\ pc[p] \in {"idle", "lookup", "activate", "list"} => inflight[p] = {}
    /\ ~overlap =>
          /\ \A p, q \in Requests : p = q \/ AtRest(p) \/ AtRest(q)
          /\ \A p \in Requests :
                pc[p] = "list" \/ inflight[p] # {} => active[target[p]]

==============================================================================
