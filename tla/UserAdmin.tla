------------------------------ MODULE UserAdmin ------------------------------
(***************************************************************************)
(* What the b2b_users documents of one shopper hold while administrators   *)
(* edit them and the shopper switches organization (src/node/resolvers/    *)
(* Mutations/Users.ts): addUser, updateUser, saveUser, deleteUser,         *)
(* deleteUserProfile, addOrganizationToUser, addCostCenterToUser,          *)
(* setCurrentPriceTable against setActiveUserByOrganization.               *)
(*                                                                         *)
(* Most of them write a document as a whole, with fields read from an      *)
(* index that trails it; none of them checks what it overwrites.  Module   *)
(* OrgSwitch has the order, the retries and the failures of a switch; here *)
(* is what its writes do to the other fields.                              *)
(***************************************************************************)
CONSTANTS
    Requests,  \* calls of a mutation
    Ids,       \* ids of documents
    Pairs,     \* organization and cost center
    Roles,     \* roleId, with what else a caller gives (name, canImpersonate, ...)
    Tables,    \* price tables of the organizations
    NoRole,    \* roleId: ''
    None       \* no document, no price table, no email and pair

Documents == [pair : Pairs \cup {None}, role : Roles \cup {NoRole},
              table : Tables \cup {None}, active : BOOLEAN]

ASSUME AdminAssumption ==
    /\ None \notin Ids \cup Documents \cup Pairs \cup Tables \cup {NoRole}
    /\ NoRole \notin Documents \cup Roles \cup Tables
    /\ Tables \cap Documents = {}

VARIABLES
    docs,      \* id -> the document, or None
    index,     \* id -> what a search answers of it
    pc,        \* request -> where it is
    target,    \* request -> the id it switches to, or None
    copy,      \* request -> the document it goes on with, or None
    sent,      \* request -> the ids its writes are under way to -> the write
    intended,  \* history: id -> the document it should be
    disputed,  \* history: ids written from, or under, an outdated copy
    certain    \* history: has every duplicate been looked for, and seen?

storeVars == <<docs, index>>
callVars == <<pc, target, copy, sent>>
historyVars == <<intended, disputed, certain>>
vars == <<storeVars, callVars, historyVars>>

Nothing == [i \in {} |-> None]

\* A write is a document, or what a partial write sets the one field to that it
\* has: no role, or a price table or none.
Patch == {NoRole}

\* The writes a request sends all at once.
Bursts == UNION {[S -> Documents \cup Patch] : S \in SUBSET Ids}

\* What a request has in hand tells where it is.
Stage(p) ==
    /\ pc[p] \in {"activate", "look", "create"} <=> copy[p] # None
    /\ pc[p] \in {"activate", "list"} <=> target[p] # None
    /\ DOMAIN sent[p] # {} => pc[p] = "done"

AdminTypeOK ==
    /\ docs \in [Ids -> Documents \cup {None}]
    /\ index \in [Ids -> Documents \cup {None}]
    /\ pc \in [Requests -> {"new", "activate", "list", "look", "create", "done"}]
    /\ target \in [Requests -> Ids \cup {None}]
    /\ copy \in [Requests -> Documents \cup {None}]
    /\ sent \in [Requests -> Bursts]
    /\ \A p \in Requests : Stage(p)
    /\ intended \in [Ids -> Documents \cup {None}]
    /\ disputed \in SUBSET Ids
    /\ certain \in BOOLEAN

Distinct(d) ==
    \A i, j \in Ids :
        i # j /\ d[i] # None /\ d[j] # None /\ d[i].pair # None => d[i].pair # d[j].pair

Init ==
    /\ docs \in [Ids -> {None} \cup [pair : Pairs, role : Roles, table : {None},
                                     active : BOOLEAN]]
    /\ Distinct(docs)
    /\ index = docs
    /\ pc = [p \in Requests |-> "new"]
    /\ target = [p \in Requests |-> None]
    /\ copy = [p \in Requests |-> None]
    /\ sent = [p \in Requests |-> Nothing]
    /\ intended = docs
    /\ disputed = {}
    /\ certain = TRUE

------------------------------------------------------------------------------
Goto(p, stage) == pc' = [pc EXCEPT ![p] = stage]

Begins(p) == pc[p] = "new"

\* createPermission: the whole document, without its active flag and price table.
Permission(pair, role) ==
    [pair |-> pair, role |-> role, table |-> None, active |-> FALSE]

\* What a partial write of a document that is not there leaves empty.
Fragment == Permission(None, NoRole)

\* A partial write w of the document d.
WithField(d, w) == IF w = NoRole THEN [d EXCEPT !.role = NoRole] ELSE [d EXCEPT !.table = w]

\* A partial write that creates a document with nothing but its field.
ApplyBare(d, w) ==
    IF w \in Documents THEN w
    ELSE IF d = None THEN [role |-> w] ELSE WithField(d, w)

\* A write applied to a document; a partial one creates it if it is not there.
Apply(d, w) ==
    IF w \in Documents THEN w
    ELSE WithField(IF d = None THEN Fragment ELSE d, w)

\* Does a switch other than p have a copy of the document i in hand?
InHand(p, i) ==
    \E q \in Requests \ {p} :
        \/ pc[q] = "activate" /\ target[q] = i
        \/ i \in DOMAIN sent[q] /\ sent[q][i] \in Documents

\* A write of p to document i lands.
Lands(p, i, w) == docs' = [docs EXCEPT ![i] = Apply(@, w)]

\* An administrator or the shopper has meant it: a whole document ends a dispute.
Meant(p, i, w) ==
    /\ intended' = [intended EXCEPT ![i] = Apply(@, w)]
    /\ disputed' = (IF w \in Documents THEN disputed \ {i} ELSE disputed)
                       \cup (IF InHand(p, i) THEN {i} ELSE {})

\* A switch that writes w has meant to make d of the document, if there is one.
SwitchMeant(p, i, w, d) ==
    /\ intended' = [intended EXCEPT ![i] = IF @ = None THEN None ELSE d]
    /\ disputed' = IF InHand(p, i) THEN disputed \cup {i} ELSE disputed
    /\ certain' = (certain /\ docs[i] # None /\ docs[i].pair = w.pair)

------------------------------------------------------------------------------
(***************************************************************************)
(* updateUser and saveUser: one write of a whole document, without a look  *)
(* at what is there; without an id it creates one.                         *)
(***************************************************************************)
UpdateUser(p, i, pair, role) ==
    /\ Begins(p)
    /\ Lands(p, i, Permission(pair, role))
    /\ Meant(p, i, Permission(pair, role))
    /\ certain' = (certain /\ docs[i] # None /\ docs[i].pair = pair)
    /\ Goto(p, "done")
    /\ UNCHANGED <<index, target, copy, sent>>

DeleteUser(p, i) ==
    /\ Begins(p)
    /\ docs[i] # None
    /\ docs' = [docs EXCEPT ![i] = None]
    /\ intended' = [intended EXCEPT ![i] = None]
    /\ disputed' = IF InHand(p, i) THEN disputed \cup {i} ELSE disputed \ {i}
    /\ Goto(p, "done")
    /\ UNCHANGED <<index, target, copy, sent, certain>>

\* setCurrentPriceTable, of the document the session names, with a table of
\* the organization or none.
SetPriceTable(p, i, t) ==
    /\ Begins(p)
    /\ Lands(p, i, t)
    /\ Meant(p, i, t)
    /\ Goto(p, "done")
    /\ UNCHANGED <<index, target, copy, sent, certain>>

\* deleteUserProfile: one partial write for each id, all at once.
DeleteUserProfile(p, S) ==
    /\ Begins(p)
    /\ sent' = [sent EXCEPT ![p] = [i \in S |-> NoRole]]
    /\ Goto(p, "done")
    /\ UNCHANGED <<storeVars, target, copy, historyVars>>

Unsent(p, i) == sent' = [sent EXCEPT ![p] = [j \in DOMAIN @ \ {i} |-> @[j]]]

PatchLands(p, i) ==
    /\ i \in DOMAIN sent[p] /\ sent[p][i] \in Patch
    /\ Lands(p, i, sent[p][i])
    /\ Meant(p, i, sent[p][i])
    /\ Unsent(p, i)
    /\ UNCHANGED <<index, pc, target, copy, certain>>

\* Of the writes sent at once any may fail, and the others land all the same.
WriteFails(p, i) ==
    /\ i \in DOMAIN sent[p]
    /\ Unsent(p, i)
    /\ UNCHANGED <<storeVars, pc, target, copy, historyVars>>

------------------------------------------------------------------------------
(***************************************************************************)
(* addUser: the pair is one of an organization with a valid cost center;   *)
(* the shopper's documents are listed, and one is created if none has the  *)
(* pair.                                                                   *)
(***************************************************************************)
AddUser(p, pair, role) ==
    /\ Begins(p)
    /\ copy' = [copy EXCEPT ![p] = Permission(pair, role)]
    /\ Goto(p, "look")
    /\ UNCHANGED <<storeVars, target, sent, historyVars>>

\* addOrganizationToUser, addCostCenterToUser: addUser with the role of the
\* document i, as the search answers it.
AddToUser(p, i, pair) == index[i] # None /\ AddUser(p, pair, index[i].role)

\* Duplicates looked for among the active documents alone.
LookAtActive(p) ==
    /\ pc[p] = "look"
    /\ LET found == \E i \in Ids : /\ index[i] # None /\ index[i].active
                                  /\ index[i].pair = copy[p].pair
       IN  /\ Goto(p, IF found THEN "done" ELSE "create")
           /\ copy' = IF found THEN [copy EXCEPT ![p] = None] ELSE copy
    /\ certain' = /\ certain
                  /\ index = docs
                  /\ \A q \in Requests : pc[q] # "create"
    /\ UNCHANGED <<storeVars, target, sent, intended, disputed>>

\* The duplicates are those the search answers.
Look(p) ==
    /\ pc[p] = "look"
    /\ LET found == \E i \in Ids : index[i] # None /\ index[i].pair = copy[p].pair
       IN  /\ Goto(p, IF found THEN "done" ELSE "create")
           /\ copy' = IF found THEN [copy EXCEPT ![p] = None] ELSE copy
    /\ certain' = /\ certain
                  /\ index = docs
                  /\ \A q \in Requests : pc[q] # "create"
    /\ UNCHANGED <<storeVars, target, sent, intended, disputed>>

\* getOrganizationsByEmail answers an error, which is not a list: no duplicate
\* is found.
LookFails(p) ==
    /\ pc[p] = "look"
    /\ Goto(p, "create")
    /\ certain' = FALSE
    /\ UNCHANGED <<storeVars, target, copy, sent, intended, disputed>>

\* The document is created, with a new id or the one the caller gave.
Create(p, i) ==
    /\ pc[p] = "create"
    /\ Lands(p, i, copy[p])
    /\ Meant(p, i, copy[p])
    /\ copy' = [copy EXCEPT ![p] = None]
    /\ Goto(p, "done")
    /\ UNCHANGED <<index, target, sent, certain>>

------------------------------------------------------------------------------
\* What a switch goes on with if the index trails is disputed.
ReadOf(S) == disputed' = disputed \cup {i \in S : index[i] # docs[i]}

\* setActiveUserByOrganization: the document to activate is read ...
Switch(p, i) ==
    /\ Begins(p)
    /\ index[i] # None
    /\ target' = [target EXCEPT ![p] = i]
    /\ copy' = [copy EXCEPT ![p] = index[i]]
    /\ ReadOf({i})
    /\ Goto(p, "activate")
    /\ UNCHANGED <<storeVars, sent, intended, certain>>

Activated(d) == [d EXCEPT !.active = TRUE]

\* ... written back whole, with the flag set ...
Activate(p) ==
    /\ pc[p] = "activate"
    /\ Lands(p, target[p], Activated(copy[p]))
    /\ SwitchMeant(p, target[p], copy[p], Activated(intended[target[p]]))
    /\ copy' = [copy EXCEPT ![p] = None]
    /\ Goto(p, "list")
    /\ UNCHANGED <<index, target, sent>>

\* A document listed without its role as well.
ListedWithoutRole(d) == [d EXCEPT !.table = None, !.role = NoRole]

\* A document as getAllUsersByEmail lists it: without its price table.
Listed(d) == [d EXCEPT !.table = None]

\* What a switch makes of a document it leaves: its price table is lost.
Left(d) == [d EXCEPT !.active = FALSE, !.table = None]

\* What it writes.
Deactivated(d) == [Listed(d) EXCEPT !.active = FALSE]

\* ... and the other active documents are listed and written back without it.
ListActive(p) ==
    /\ pc[p] = "list"
    /\ LET others == {i \in Ids \ {target[p]} : /\ index[i] # None /\ index[i].active
                                               /\ index[i].pair # None}
       IN  /\ sent' = [sent EXCEPT ![p] = [i \in others |-> Deactivated(index[i])]]
           /\ ReadOf(others)
    /\ target' = [target EXCEPT ![p] = None]
    /\ Goto(p, "done")
    /\ UNCHANGED <<storeVars, copy, intended, certain>>

DeactivationLands(p, i) ==
    /\ i \in DOMAIN sent[p] /\ sent[p][i] \in Documents
    /\ Lands(p, i, sent[p][i])
    /\ SwitchMeant(p, i, sent[p][i], Left(intended[i]))
    /\ Unsent(p, i)
    /\ UNCHANGED <<index, pc, target, copy>>

\* An awaited call fails, before or after it has had its effect, or the pod dies.
Abort(p) ==
    /\ pc[p] \notin {"new", "done"}
    /\ copy' = [copy EXCEPT ![p] = None]
    /\ target' = [target EXCEPT ![p] = None]
    /\ Goto(p, "done")
    /\ UNCHANGED <<storeVars, sent, historyVars>>

Reindex(i) ==
    /\ index[i] # docs[i]
    /\ index' = [index EXCEPT ![i] = docs[i]]
    /\ UNCHANGED <<docs, callVars, historyVars>>

Editing(p) ==
    \/ \E i \in Ids, pair \in Pairs, role \in Roles : UpdateUser(p, i, pair, role)
    \/ \E i \in Ids : DeleteUser(p, i)
    \/ \E i \in Ids, t \in Tables \cup {None} : SetPriceTable(p, i, t)
    \/ \E S \in SUBSET Ids : DeleteUserProfile(p, S)

Adding(p) ==
    \/ \E pair \in Pairs, role \in Roles : AddUser(p, pair, role)
    \/ \E i \in Ids, pair \in Pairs : AddToUser(p, i, pair)
    \/ Look(p)
    \/ LookFails(p)
    \/ \E i \in Ids : Create(p, i)

Switching(p) ==
    \/ \E i \in Ids : Switch(p, i)
    \/ Activate(p)
    \/ ListActive(p)

Landing(p) ==
    \E i \in Ids : PatchLands(p, i) \/ DeactivationLands(p, i) \/ WriteFails(p, i)

Next ==
    \/ \E p \in Requests :
          Editing(p) \/ Adding(p) \/ Switching(p) \/ Landing(p) \/ Abort(p)
    \/ \E i \in Ids : Reindex(i)

Spec == Init /\ [][Next]_vars

------------------------------------------------------------------------------
(***************************************************************************)
(* What was last made of a document stands: through switches that write it *)
(* back whole, through partial writes, failures and dead requests, its     *)
(* pair, its role, its flag and its existence are what the calls that      *)
(* reached it meant.  Except where it is disputed: changed while a switch  *)
(* had a copy of it in hand, or read by a switch before the index had seen *)
(* the last change.                                                        *)
(***************************************************************************)
EditsHold == \A i \in Ids \ disputed : docs[i] = intended[i]

\* Why it does: a switch has in hand what the document is, and a deactivation
\* under way writes what the switch makes of it.
HandInv ==
    \A p \in Requests :
        /\ pc[p] = "activate" /\ target[p] \notin disputed => copy[p] = docs[target[p]]
        /\ \A i \in DOMAIN sent[p] \ disputed :
              sent[p][i] \in Documents => docs[i] # None /\ sent[p][i] = Left(docs[i])

(***************************************************************************)
(* addUser keeps the documents of a shopper distinct ("Email already       *)
(* exists in the organization and cost center"), as long as every listing  *)
(* it relies on succeeds on a settled index with no other addition about   *)
(* to be written, and nothing else creates or moves a document.            *)
(***************************************************************************)
OnePerPair == certain => Distinct(docs)

(***************************************************************************)
(* A switch leaves the shopper's choice of a price table alone             *)
(* ("selectedPriceTable ... to persist user's price table preference",     *)
(* CHANGELOG), where nothing is disputed.                                  *)
(***************************************************************************)
PreferencePersists ==
    [][\A p \in Requests, i \in Ids \ disputed :
          (Activate(p) /\ target[p] = i) \/ DeactivationLands(p, i)
          => docs'[i].table = docs[i].table]_vars

=============================================================================
