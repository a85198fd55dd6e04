------------------------------ MODULE Directory ------------------------------
(***************************************************************************)
(* What a session transform reads of one shopper: organizations and cost   *)
(* centers, which another app owns, the shopper's b2b_users documents, the *)
(* one among them the shopper has chosen, and whether the merchant and the *)
(* shopper want the transform at all.                                      *)
(*                                                                         *)
(* A transform reads these one after the other while they change, and      *)
(* organizations and cost centers through caches that all shoppers share,  *)
(* so that any recent value may still be answered.  The window variables   *)
(* remember what was the case, or was still answered, at some time since   *)
(* the transform under way began: what it serves is judged by that.        *)
(***************************************************************************)
EXTENDS FiniteSets, Naturals

CONSTANTS
    Orgs,       \* organizations
    Costs,      \* cost centers
    Records,    \* the shopper's documents
    OrgOf,      \* document -> its orgId
    CostOf,     \* document -> its costId
    None,       \* no value: an absent field, an empty answer
    Modes,      \* what may be wanted: "on", "removeB2B", "off"
    MaxChanges  \* bound: how often something changes or fails

ASSUME RecordsAssumption ==
    /\ Records # {} /\ OrgOf \in [Records -> Orgs] /\ CostOf \in [Records -> Costs]
    /\ None \notin Orgs \cup Costs \cup Records
    /\ Orgs \cap Costs = {}
    /\ "on" \in Modes
    /\ MaxChanges \in Nat

VARIABLES
    usable,   \* organization -> is it active?  An organization deleted is not.
    live,     \* cost center -> does it exist, with a name?
    stale,    \* organizations and cost centers with the opposite still cached
    present,  \* the documents that exist
    choice,   \* the document the shopper's choice resolves to, or None
    mode,     \* "on", "removeB2B" (the shopper's opt-out) or "off" (the watcher)
    changes,  \* bound: changes and failures so far
    up, down,   \* windows: organizations that read as usable, as unusable
    dead,       \* window: cost centers that read as invalid
    missing     \* window: documents that did not exist

world == <<usable, live, stale, present, choice, mode, changes>>
windows == <<up, down, dead, missing>>

Pairs == Orgs \X Costs
PairOf(r) == <<OrgOf[r], CostOf[r]>>

DirectoryTypeOK ==
    /\ usable \in [Orgs -> BOOLEAN]
    /\ live \in [Costs -> BOOLEAN]
    /\ stale \in SUBSET (Orgs \cup Costs)
    /\ present \in SUBSET Records
    /\ choice \in Records \cup {None}
    /\ mode \in Modes
    /\ changes \in 0..MaxChanges
    /\ up \in SUBSET Orgs /\ down \in SUBSET Orgs
    /\ dead \in SUBSET Costs
    /\ missing \in SUBSET Records

\* The windows of a transform that begins now hold what is the case now.
WindowsOpen ==
    /\ up' = {o \in Orgs : usable[o] \/ o \in stale}
    /\ down' = {o \in Orgs : ~usable[o] \/ o \in stale}
    /\ dead' = {c \in Costs : ~live[c]}
    /\ missing' = Records \ present

DirectoryInit ==
    /\ usable = [o \in Orgs |-> TRUE]
    /\ live = [c \in Costs |-> TRUE]
    /\ stale = {}
    /\ present = Records
    /\ choice \in Records \cup {None}
    /\ mode = "on"
    /\ changes = 0
    /\ up = Orgs /\ down = {}
    /\ dead = {}
    /\ missing = {}

Disturb == changes < MaxChanges /\ changes' = changes + 1

\* An organization is put on hold, deleted or reactivated.
OrgChanges(o) ==
    /\ Disturb
    /\ usable' = [usable EXCEPT ![o] = ~@]
    /\ stale' = stale \cup {o}
    /\ IF usable[o] THEN down' = down \cup {o} /\ up' = up
                    ELSE up' = up \cup {o} /\ down' = down
    /\ UNCHANGED <<live, present, choice, mode, dead, missing>>

\* A cost center is deleted.
CostGoes(c) ==
    /\ Disturb
    /\ live[c]
    /\ live' = [live EXCEPT ![c] = FALSE]
    /\ stale' = stale \cup {c}
    /\ dead' = dead \cup {c}
    /\ UNCHANGED <<usable, present, choice, mode, up, down, missing>>

\* The caches have forgotten what the document x was before it changed.
CacheExpires(x) ==
    /\ x \in stale
    /\ stale' = stale \ {x}
    /\ UNCHANGED <<usable, live, present, choice, mode, changes, windows>>

\* A document of the shopper is deleted.
RecordGoes(r) ==
    /\ Disturb
    /\ r \in present
    /\ present' = present \ {r}
    /\ missing' = missing \cup {r}
    /\ UNCHANGED <<usable, live, stale, choice, mode, up, down, dead>>

\* The shopper switches organization, or has no document left to resolve.
ChoiceChanges(r) ==
    /\ Disturb
    /\ choice # r
    /\ choice' = r
    /\ UNCHANGED <<usable, live, stale, present, mode, windows>>

\* The session watcher or the shopper's opt-out is set.
ModeChanges(m) ==
    /\ Disturb
    /\ mode # m
    /\ mode' = m
    /\ UNCHANGED <<usable, live, stale, present, choice, windows>>

WorldChanges ==
    \/ \E o \in Orgs : OrgChanges(o)
    \/ \E c \in Costs : CostGoes(c)
    \/ \E x \in Orgs \cup Costs : CacheExpires(x)
    \/ \E r \in Records : RecordGoes(r)
    \/ \E r \in Records \cup {None} : ChoiceChanges(r)
    \/ \E m \in Modes : ModeChanges(m)

==============================================================================
