--------------------------- MODULE UserAdminProofs ---------------------------
(***************************************************************************)
(* Proofs about UserAdmin, for any number of requests, documents, pairs,   *)
(* roles and price tables: its types, that what was last made of a         *)
(* document stands unless it is disputed, and that two additions that do   *)
(* not overlap and find the index up to date make no second document of a  *)
(* pair.                                                                   *)
(*                                                                         *)
(* EditsHold is not inductive: a switch writes documents back whole, so    *)
(* what it has in hand of a document nobody disputes has to be that        *)
(* document.  HandInv says so of the copy it activates (CopyInv) and of    *)
(* the deactivations under way (SentInv).  A change to a document another  *)
(* switch has in hand makes it disputed (InHand); a request that changes   *)
(* one has none itself in hand, which AdminTypeOK knows.                   *)
(***************************************************************************)
EXTENDS UserAdmin, TLAPS

------------------------------------------------------------------------------
(***************************************************************************)
(* What the records are made of.                                           *)
(***************************************************************************)
\* createPermission writes a document.
LEMMA PermissionIsDocument ==
    ASSUME NEW pair \in Pairs \cup {None}, NEW role \in Roles \cup {NoRole}
    PROVE  Permission(pair, role) \in Documents
BY DEF Permission, Documents

\* A partial write makes a document of a document.
LEMMA FieldSet ==
    ASSUME NEW d \in Documents, NEW w \in Patch \cup Tables \cup {None}
    PROVE  WithField(d, w) \in Documents
BY DEF WithField, Documents, Patch

\* Whatever a write is applied to, a document comes of it.
LEMMA Applied ==
    ASSUME NEW d \in Documents \cup {None},
           NEW w \in Documents \cup Patch \cup Tables \cup {None}
    PROVE  Apply(d, w) \in Documents
<1>1. Fragment \in Documents
  BY PermissionIsDocument DEF Fragment
<1> QED
  BY <1>1, FieldSet DEF Apply

\* The write of a deactivation is what the switch makes of the document it read.
LEMMA LeavesAsMeant ==
    ASSUME NEW d \in Documents
    PROVE  /\ Deactivated(d) \in Documents
           /\ Deactivated(d) = Left(d)
           /\ Activated(d) \in Documents
BY AdminAssumption DEF Deactivated, Listed, Left, Activated, Documents

\* A partial write is not taken for a document.
LEMMA PatchIsNone ==
    /\ Patch \cap Documents = {}
    /\ None \notin Documents
BY AdminAssumption DEF Patch

\* The writes under way: what is in a burst, ...
LEMMA BurstHolds ==
    ASSUME NEW b \in Bursts
    PROVE  /\ DOMAIN b \subseteq Ids
           /\ \A i \in DOMAIN b : b[i] \in Documents \cup Patch
BY DEF Bursts

\* ... what is one, ...
LEMMA BurstMade ==
    ASSUME NEW S \in SUBSET Ids, NEW b \in [S -> Documents \cup Patch]
    PROVE  b \in Bursts
BY DEF Bursts

\* ... and what is left of one.
LEMMA BurstLeft ==
    ASSUME NEW b \in Bursts, NEW i
    PROVE  [j \in DOMAIN b \ {i} |-> b[j]] \in Bursts
<1> DEFINE left == [j \in DOMAIN b \ {i} |-> b[j]]
<1>1. DOMAIN b \ {i} \in SUBSET Ids
  BY BurstHolds
<1>2. left \in [DOMAIN b \ {i} -> Documents \cup Patch]
  BY BurstHolds
<1> HIDE DEF left
<1>3. left \in Bursts
  BY <1>1, <1>2, BurstMade
<1> QED
  BY <1>3 DEF left

------------------------------------------------------------------------------
(***************************************************************************)
(* Types.                                                                  *)
(***************************************************************************)
LEMMA TypeInit == Init => AdminTypeOK
<1> SUFFICES ASSUME Init PROVE AdminTypeOK
  OBVIOUS
<1>1. docs \in [Ids -> Documents \cup {None}]
  BY DEF Init, Documents
<1>2. Nothing \in Bursts
  <2>1. Nothing \in [{} -> Documents \cup Patch]
    BY DEF Nothing
  <2> QED
    BY <2>1, BurstMade
<1>3. \A p \in Requests : Stage(p)
  BY DEF Init, Stage, Nothing
<1>4. sent \in [Requests -> Bursts]
  BY <1>2 DEF Init
<1> QED
  BY <1>1, <1>3, <1>4 DEF Init, AdminTypeOK

\* A write that lands leaves a document, ...
LEMMA LandsTyped ==
    ASSUME AdminTypeOK, NEW p \in Requests, NEW i \in Ids,
           NEW w \in Documents \cup Patch \cup Tables \cup {None}, Lands(p, i, w)
    PROVE  docs' \in [Ids -> Documents \cup {None}]
<1>1. Apply(docs[i], w) \in Documents
  BY Applied DEF AdminTypeOK
<1> QED
  BY <1>1 DEF AdminTypeOK, Lands

\* ... and so does what is meant by it.
LEMMA MeantTyped ==
    ASSUME AdminTypeOK, NEW p \in Requests, NEW i \in Ids,
           NEW w \in Documents \cup Patch \cup Tables \cup {None}, Meant(p, i, w)
    PROVE  /\ intended' \in [Ids -> Documents \cup {None}]
           /\ disputed' \in SUBSET Ids
<1>1. Apply(intended[i], w) \in Documents
  BY Applied DEF AdminTypeOK
<1> QED
  BY <1>1 DEF AdminTypeOK, Meant

LEMMA SwitchMeantTyped ==
    ASSUME AdminTypeOK, NEW p \in Requests, NEW i \in Ids, NEW w,
           NEW d, intended[i] # None => d \in Documents, SwitchMeant(p, i, w, d)
    PROVE  /\ intended' \in [Ids -> Documents \cup {None}]
           /\ disputed' \in SUBSET Ids
           /\ certain' \in BOOLEAN
BY DEF AdminTypeOK, SwitchMeant

\* The edits: one write, and the request is over.
LEMMA EditingTyped ==
    ASSUME AdminTypeOK, NEW p \in Requests, Editing(p)
    PROVE  AdminTypeOK'
<1>1. ASSUME NEW i \in Ids, NEW pair \in Pairs, NEW role \in Roles,
             UpdateUser(p, i, pair, role)
      PROVE  AdminTypeOK'
  <2>1. Permission(pair, role) \in Documents
    BY PermissionIsDocument
  <2>2. /\ docs' \in [Ids -> Documents \cup {None}]
        /\ intended' \in [Ids -> Documents \cup {None}]
        /\ disputed' \in SUBSET Ids
    BY <1>1, <2>1, LandsTyped, MeantTyped DEF UpdateUser
  <2>3. \A q \in Requests : Stage(q)'
    BY <1>1 DEF UpdateUser, Goto, Begins, AdminTypeOK, Stage
  <2> QED
    BY <1>1, <2>2, <2>3 DEF UpdateUser, Goto, AdminTypeOK
<1>2. ASSUME NEW i \in Ids, DeleteUser(p, i)
      PROVE  AdminTypeOK'
  <2>1. \A q \in Requests : Stage(q)'
    BY <1>2 DEF DeleteUser, Goto, Begins, AdminTypeOK, Stage
  <2> QED
    BY <1>2, <2>1 DEF DeleteUser, Goto, AdminTypeOK
<1>3. ASSUME NEW i \in Ids, NEW t \in Tables \cup {None}, SetPriceTable(p, i, t)
      PROVE  AdminTypeOK'
  <2>1. /\ docs' \in [Ids -> Documents \cup {None}]
        /\ intended' \in [Ids -> Documents \cup {None}]
        /\ disputed' \in SUBSET Ids
    BY <1>3, LandsTyped, MeantTyped DEF SetPriceTable
  <2>2. \A q \in Requests : Stage(q)'
    BY <1>3 DEF SetPriceTable, Goto, Begins, AdminTypeOK, Stage
  <2> QED
    BY <1>3, <2>1, <2>2 DEF SetPriceTable, Goto, AdminTypeOK
<1>4. ASSUME NEW S \in SUBSET Ids, DeleteUserProfile(p, S)
      PROVE  AdminTypeOK'
  <2>1. [i \in S |-> NoRole] \in Bursts
    <3>1. [i \in S |-> NoRole] \in [S -> Documents \cup Patch]
      BY DEF Patch
    <3> QED
      BY <3>1 DEF Bursts
  <2>2. sent' \in [Requests -> Bursts]
    BY <1>4, <2>1 DEF DeleteUserProfile, AdminTypeOK
  <2>3. \A q \in Requests : Stage(q)'
    BY <1>4 DEF DeleteUserProfile, Goto, Begins, AdminTypeOK, Stage
  <2> QED
    BY <1>4, <2>2, <2>3
    DEF DeleteUserProfile, Goto, AdminTypeOK, storeVars, historyVars
<1> QED
  BY <1>1, <1>2, <1>3, <1>4 DEF Editing

\* An addition has a document in hand until it is created or found to be there.
LEMMA AddingTyped ==
    ASSUME AdminTypeOK, NEW p \in Requests, Adding(p)
    PROVE  AdminTypeOK'
<1>1. ASSUME NEW pair \in Pairs, NEW role \in Roles \cup {NoRole}, AddUser(p, pair, role)
      PROVE  AdminTypeOK'
  <2>1. Permission(pair, role) \in Documents
    BY PermissionIsDocument
  <2>2. Permission(pair, role) # None
    BY <2>1, PatchIsNone
  <2>3. \A q \in Requests : Stage(q)'
    BY <1>1, <2>2 DEF AddUser, Goto, Begins, AdminTypeOK, Stage
  <2> QED
    BY <1>1, <2>1, <2>3 DEF AddUser, Goto, AdminTypeOK, storeVars, historyVars
<1>2. ASSUME NEW i \in Ids, NEW pair \in Pairs, AddToUser(p, i, pair)
      PROVE  AdminTypeOK'
  <2>1. index[i].role \in Roles \cup {NoRole}
    BY <1>2 DEF AddToUser, AdminTypeOK, Documents
  <2> QED
    BY <1>1, <1>2, <2>1 DEF AddToUser
<1>3. CASE Look(p)
  <2>1. \A q \in Requests : Stage(q)'
    BY <1>3 DEF Look, Goto, AdminTypeOK, Stage
  <2> QED
    BY <1>3, <2>1 DEF Look, Goto, AdminTypeOK, storeVars
<1>4. CASE LookFails(p)
  <2>1. \A q \in Requests : Stage(q)'
    BY <1>4 DEF LookFails, Goto, AdminTypeOK, Stage
  <2> QED
    BY <1>4, <2>1 DEF LookFails, Goto, AdminTypeOK, storeVars
<1>5. ASSUME NEW i \in Ids, Create(p, i)
      PROVE  AdminTypeOK'
  <2>1. copy[p] \in Documents
    BY <1>5 DEF Create, AdminTypeOK, Stage
  <2>2. /\ docs' \in [Ids -> Documents \cup {None}]
        /\ intended' \in [Ids -> Documents \cup {None}]
        /\ disputed' \in SUBSET Ids
    BY <1>5, <2>1, LandsTyped, MeantTyped DEF Create
  <2>3. \A q \in Requests : Stage(q)'
    BY <1>5 DEF Create, Goto, AdminTypeOK, Stage
  <2> QED
    BY <1>5, <2>2, <2>3 DEF Create, Goto, AdminTypeOK
<1> QED
  BY <1>1, <1>2, <1>3, <1>4, <1>5 DEF Adding

\* A switch: what it reads, activates and lists are documents.
LEMMA SwitchingTyped ==
    ASSUME AdminTypeOK, NEW p \in Requests, Switching(p)
    PROVE  AdminTypeOK'
<1>1. ASSUME NEW i \in Ids, Switch(p, i)
      PROVE  AdminTypeOK'
  <2>1. \A q \in Requests : Stage(q)'
    BY <1>1, AdminAssumption DEF Switch, Goto, Begins, AdminTypeOK, Stage
  <2> QED
    BY <1>1, <2>1 DEF Switch, ReadOf, Goto, AdminTypeOK, storeVars
<1>2. CASE Activate(p)
  <2>1. target[p] \in Ids /\ copy[p] \in Documents
    BY <1>2 DEF Activate, AdminTypeOK, Stage
  <2>2. Activated(copy[p]) \in Documents
    BY <2>1, LeavesAsMeant
  <2>3. docs' \in [Ids -> Documents \cup {None}]
    BY <1>2, <2>1, <2>2, LandsTyped DEF Activate
  <2>4. intended[target[p]] # None => Activated(intended[target[p]]) \in Documents
    BY <2>1, LeavesAsMeant DEF AdminTypeOK
  <2>5. /\ intended' \in [Ids -> Documents \cup {None}]
        /\ disputed' \in SUBSET Ids
        /\ certain' \in BOOLEAN
    BY <1>2, <2>1, <2>4, SwitchMeantTyped DEF Activate
  <2>6. \A q \in Requests : Stage(q)'
    BY <1>2 DEF Activate, Goto, AdminTypeOK, Stage
  <2> QED
    BY <1>2, <2>3, <2>5, <2>6 DEF Activate, Goto, AdminTypeOK
<1>3. CASE ListActive(p)
  <2> DEFINE others == {i \in Ids \ {target[p]} : /\ index[i] # None /\ index[i].active
                                                 /\ index[i].pair # None}
             burst == [i \in others |-> Deactivated(index[i])]
  <2>1. burst \in [others -> Documents \cup Patch]
    BY LeavesAsMeant DEF AdminTypeOK
  <2>2. others \in SUBSET Ids
    OBVIOUS
  <2>3. sent' = [sent EXCEPT ![p] = burst] /\ disputed' \subseteq disputed \cup others
    BY <1>3 DEF ListActive, ReadOf
  <2> HIDE DEF others, burst
  <2>4. burst \in Bursts
    BY <2>1, <2>2, BurstMade
  <2>5. sent' \in [Requests -> Bursts] /\ disputed' \in SUBSET Ids
    BY <2>2, <2>3, <2>4 DEF AdminTypeOK
  <2>6. \A q \in Requests : Stage(q)'
    BY <1>3, <2>3 DEF ListActive, Goto, AdminTypeOK, Stage
  <2> QED
    BY <1>3, <2>5, <2>6 DEF ListActive, Goto, AdminTypeOK, storeVars
<1> QED
  BY <1>1, <1>2, <1>3 DEF Switching

\* A write that lands or fails is no longer under way.
LEMMA UnsentTyped ==
    ASSUME AdminTypeOK, NEW p \in Requests, NEW i \in Ids, Unsent(p, i)
    PROVE  /\ sent' \in [Requests -> Bursts]
           /\ \A q \in Requests : /\ DOMAIN sent'[q] \subseteq DOMAIN sent[q]
                                 /\ \A j \in DOMAIN sent'[q] : sent'[q][j] = sent[q][j]
<1> DEFINE left == [j \in DOMAIN sent[p] \ {i} |-> sent[p][j]]
<1>1. left \in Bursts
  BY BurstLeft DEF AdminTypeOK
<1>2. DOMAIN left \subseteq DOMAIN sent[p] /\ \A j \in DOMAIN left : left[j] = sent[p][j]
  OBVIOUS
<1>3. sent' = [sent EXCEPT ![p] = left]
  BY DEF Unsent, AdminTypeOK
<1> HIDE DEF left
<1> QED
  BY <1>1, <1>2, <1>3 DEF AdminTypeOK

LEMMA LandingTyped ==
    ASSUME AdminTypeOK, NEW p \in Requests, Landing(p)
    PROVE  AdminTypeOK'
<1>1. ASSUME NEW i \in Ids, PatchLands(p, i)
      PROVE  AdminTypeOK'
  <2>1. /\ docs' \in [Ids -> Documents \cup {None}]
        /\ intended' \in [Ids -> Documents \cup {None}]
        /\ disputed' \in SUBSET Ids
    BY <1>1, LandsTyped, MeantTyped DEF PatchLands
  <2>2. /\ sent' \in [Requests -> Bursts]
        /\ \A q \in Requests : DOMAIN sent'[q] \subseteq DOMAIN sent[q]
    BY <1>1, UnsentTyped DEF PatchLands
  <2>3. \A q \in Requests : Stage(q)'
    BY <1>1, <2>2 DEF PatchLands, AdminTypeOK, Stage
  <2> QED
    BY <1>1, <2>1, <2>2, <2>3 DEF PatchLands, AdminTypeOK
<1>2. ASSUME NEW i \in Ids, DeactivationLands(p, i)
      PROVE  AdminTypeOK'
  <2>1. docs' \in [Ids -> Documents \cup {None}]
    BY <1>2, LandsTyped DEF DeactivationLands
  <2>2. intended[i] # None => Left(intended[i]) \in Documents
    BY LeavesAsMeant DEF AdminTypeOK
  <2>3. /\ intended' \in [Ids -> Documents \cup {None}]
        /\ disputed' \in SUBSET Ids
        /\ certain' \in BOOLEAN
    BY <1>2, <2>2, SwitchMeantTyped DEF DeactivationLands
  <2>4. /\ sent' \in [Requests -> Bursts]
        /\ \A q \in Requests : DOMAIN sent'[q] \subseteq DOMAIN sent[q]
    BY <1>2, UnsentTyped DEF DeactivationLands
  <2>5. \A q \in Requests : Stage(q)'
    BY <1>2, <2>4 DEF DeactivationLands, AdminTypeOK, Stage
  <2> QED
    BY <1>2, <2>1, <2>3, <2>4, <2>5 DEF DeactivationLands, AdminTypeOK
<1>3. ASSUME NEW i \in Ids, WriteFails(p, i)
      PROVE  AdminTypeOK'
  <2>1. /\ sent' \in [Requests -> Bursts]
        /\ \A q \in Requests : DOMAIN sent'[q] \subseteq DOMAIN sent[q]
    BY <1>3, UnsentTyped DEF WriteFails
  <2>2. \A q \in Requests : Stage(q)'
    BY <1>3, <2>1 DEF WriteFails, AdminTypeOK, Stage
  <2> QED
    BY <1>3, <2>1, <2>2 DEF WriteFails, AdminTypeOK, storeVars, historyVars
<1> QED
  BY <1>1, <1>2, <1>3 DEF Landing

LEMMA TypeStep == AdminTypeOK /\ [Next]_vars => AdminTypeOK'
<1> SUFFICES ASSUME AdminTypeOK, [Next]_vars PROVE AdminTypeOK'
  OBVIOUS
<1>1. ASSUME NEW p \in Requests, Abort(p) PROVE AdminTypeOK'
  <2>1. \A q \in Requests : Stage(q)'
    BY <1>1 DEF Abort, Goto, AdminTypeOK, Stage
  <2> QED
    BY <1>1, <2>1 DEF Abort, Goto, AdminTypeOK, storeVars, historyVars
<1>2. ASSUME NEW i \in Ids, Reindex(i) PROVE AdminTypeOK'
  BY <1>2 DEF Reindex, AdminTypeOK, Stage, callVars, historyVars
<1>3. CASE UNCHANGED vars
  BY <1>3 DEF vars, storeVars, callVars, historyVars, AdminTypeOK, Stage
<1> QED
  BY <1>1, <1>2, <1>3, EditingTyped, AddingTyped, SwitchingTyped, LandingTyped DEF Next

(***************************************************************************)
(* The store, the calls and the history keep their types: in particular,   *)
(* every write, partial or of a copy, leaves a whole document in the store *)
(* or in its place, for any number of calls.                               *)
(***************************************************************************)
THEOREM AdminTypeCorrect == Spec => []AdminTypeOK
BY TypeInit, TypeStep, PTL DEF Spec

------------------------------------------------------------------------------
(***************************************************************************)
(* What was last made of a document stands.                                *)
(***************************************************************************)
EditsInv == AdminTypeOK /\ EditsHold /\ HandInv

\* A step that changes the document i: it disputes i if another switch has a
\* copy of it, and the request p that takes it has none itself afterwards.
Changes(p, i) ==
    /\ docs' = [docs EXCEPT ![i] = docs'[i]]
    /\ intended' = [intended EXCEPT ![i] = intended'[i]]
    /\ i \notin disputed' => docs'[i] = intended'[i] /\ ~InHand(p, i)
    /\ \A j \in Ids \ {i} : j \in disputed => j \in disputed'
    /\ pc'[p] # "activate"
    /\ i \notin DOMAIN sent'[p]
    /\ \A q \in Requests : pc'[q] = "activate" =>
          pc[q] = "activate" /\ target'[q] = target[q] /\ copy'[q] = copy[q]
    /\ \A q \in Requests : \A j \in DOMAIN sent'[q] :
          j \in DOMAIN sent[q] /\ sent'[q][j] = sent[q][j]

LEMMA ChangesKeep ==
    ASSUME EditsInv, NEW p \in Requests, NEW i \in Ids, Changes(p, i)
    PROVE  EditsHold' /\ HandInv'
<1> USE DEF EditsInv
<1>1. \A j \in Ids : j # i => docs'[j] = docs[j] /\ intended'[j] = intended[j]
  BY DEF Changes, AdminTypeOK
<1>2. EditsHold'
  BY <1>1 DEF Changes, EditsHold
<1>3. ASSUME NEW q \in Requests, pc'[q] = "activate", target'[q] \notin disputed'
      PROVE  copy'[q] = docs'[target'[q]]
  <2>1. q # p /\ pc[q] = "activate" /\ target'[q] = target[q] /\ copy'[q] = copy[q]
    BY <1>3 DEF Changes
  <2>2. target[q] \in Ids
    BY <2>1 DEF AdminTypeOK, Stage
  <2>3. target[q] # i
    BY <1>3, <2>1 DEF Changes, InHand
  <2>4. copy[q] = docs[target[q]]
    BY <1>3, <2>1, <2>2, <2>3 DEF Changes, HandInv
  <2> QED
    BY <1>1, <2>1, <2>2, <2>3, <2>4
<1>4. ASSUME NEW q \in Requests, NEW j \in DOMAIN sent'[q], j \notin disputed',
             sent'[q][j] \in Documents
      PROVE  docs'[j] # None /\ sent'[q][j] = Left(docs'[j])
  <2>1. j \in DOMAIN sent[q] /\ sent'[q][j] = sent[q][j]
    BY DEF Changes
  <2>2. j \in Ids
    BY <2>1, BurstHolds DEF AdminTypeOK
  <2>3. j # i
    BY <1>4, <2>1 DEF Changes, InHand
  <2>4. docs[j] # None /\ sent[q][j] = Left(docs[j])
    BY <1>4, <2>1, <2>2, <2>3 DEF Changes, HandInv
  <2> QED
    BY <1>1, <2>1, <2>2, <2>3, <2>4
<1> QED
  BY <1>2, <1>3, <1>4 DEF HandInv

\* A step that changes no document, and leaves nobody more in hand but what the
\* documents are.
Keeps ==
    /\ UNCHANGED <<docs, intended>>
    /\ disputed \subseteq disputed'
    /\ \A q \in Requests : pc'[q] = "activate" /\ target'[q] \notin disputed' =>
          \/ pc[q] = "activate" /\ target'[q] = target[q] /\ copy'[q] = copy[q]
          \/ copy'[q] = docs[target'[q]]
    /\ \A q \in Requests : \A j \in DOMAIN sent'[q] \ disputed' :
          \/ j \in DOMAIN sent[q] /\ sent'[q][j] = sent[q][j]
          \/ sent'[q][j] \notin Documents
          \/ docs[j] # None /\ sent'[q][j] = Left(docs[j])

LEMMA KeepsKeep == EditsInv /\ Keeps => EditsHold' /\ HandInv'
BY DEF EditsInv, Keeps, EditsHold, HandInv

\* A write by an administrator or the shopper: to a document its writer has not
\* in hand afterwards.
LEMMA MeantChanges ==
    ASSUME EditsInv, NEW p \in Requests, NEW i \in Ids,
           NEW w \in Documents \cup Patch \cup Tables \cup {None},
           Lands(p, i, w), Meant(p, i, w)
    PROVE  /\ docs' = [docs EXCEPT ![i] = docs'[i]]
           /\ intended' = [intended EXCEPT ![i] = intended'[i]]
           /\ i \notin disputed' => docs'[i] = intended'[i] /\ ~InHand(p, i)
           /\ \A j \in Ids \ {i} : j \in disputed => j \in disputed'
<1>1. docs'[i] = Apply(docs[i], w) /\ intended'[i] = Apply(intended[i], w)
  BY DEF Lands, Meant, EditsInv, AdminTypeOK
<1>2. w \in Documents => Apply(docs[i], w) = Apply(intended[i], w)
  BY DEF Apply
<1>3. w \notin Documents /\ i \notin disputed' => docs[i] = intended[i]
  BY DEF Meant, EditsInv, EditsHold
<1> QED
  BY <1>1, <1>2, <1>3 DEF Lands, Meant, EditsInv, AdminTypeOK

\* A write by a switch: what it has in hand is the document, unless disputed.
LEMMA SwitchChanges ==
    ASSUME EditsInv, NEW p \in Requests, NEW i \in Ids, NEW w \in Documents,
           NEW c, NEW d, Lands(p, i, w), SwitchMeant(p, i, c, d),
           i \notin disputed => docs[i] # None /\ w = d
    PROVE  /\ docs' = [docs EXCEPT ![i] = docs'[i]]
           /\ intended' = [intended EXCEPT ![i] = intended'[i]]
           /\ i \notin disputed' => docs'[i] = intended'[i] /\ ~InHand(p, i)
           /\ \A j \in Ids \ {i} : j \in disputed => j \in disputed'
<1>1. docs'[i] = w
  BY DEF Lands, Apply, EditsInv, AdminTypeOK
<1>2. intended'[i] = IF intended[i] = None THEN None ELSE d
  BY DEF SwitchMeant, EditsInv, AdminTypeOK
<1>3. disputed \subseteq disputed' /\ (i \notin disputed' => ~InHand(p, i))
  BY DEF SwitchMeant
<1>4. i \notin disputed => docs[i] = intended[i]
  BY DEF EditsInv, EditsHold
<1> QED
  BY <1>1, <1>2, <1>3, <1>4 DEF Lands, SwitchMeant, EditsInv, AdminTypeOK

\* Nothing is sent by a request that is not done.
LEMMA NothingSent ==
    ASSUME AdminTypeOK, NEW p \in Requests, pc[p] # "done"
    PROVE  DOMAIN sent[p] = {}
BY DEF AdminTypeOK, Stage

LEMMA EditingKeeps ==
    ASSUME EditsInv, NEW p \in Requests, Editing(p)
    PROVE  EditsHold' /\ HandInv'
<1> USE DEF EditsInv
<1>1. pc[p] = "new" /\ DOMAIN sent[p] = {}
  BY NothingSent DEF Editing, UpdateUser, DeleteUser, SetPriceTable, DeleteUserProfile, Begins
<1>2. ASSUME NEW i \in Ids, NEW pair \in Pairs, NEW role \in Roles,
             UpdateUser(p, i, pair, role)
      PROVE  EditsHold' /\ HandInv'
  <2>1. Permission(pair, role) \in Documents
    BY PermissionIsDocument
  <2>2. Changes(p, i)
    BY <1>1, <1>2, <2>1, MeantChanges DEF UpdateUser, Changes, Goto, AdminTypeOK
  <2> QED
    BY <2>2, ChangesKeep
<1>3. ASSUME NEW i \in Ids, DeleteUser(p, i)
      PROVE  EditsHold' /\ HandInv'
  <2>1. Changes(p, i)
    BY <1>1, <1>3 DEF DeleteUser, Changes, Goto, AdminTypeOK
  <2> QED
    BY <2>1, ChangesKeep
<1>4. ASSUME NEW i \in Ids, NEW t \in Tables \cup {None}, SetPriceTable(p, i, t)
      PROVE  EditsHold' /\ HandInv'
  <2>1. Changes(p, i)
    BY <1>1, <1>4, MeantChanges DEF SetPriceTable, Changes, Goto, AdminTypeOK
  <2> QED
    BY <2>1, ChangesKeep
<1>5. ASSUME NEW S \in SUBSET Ids, DeleteUserProfile(p, S)
      PROVE  EditsHold' /\ HandInv'
  <2>1. Keeps
    BY <1>5, AdminAssumption
    DEF DeleteUserProfile, Keeps, Goto, AdminTypeOK, storeVars, historyVars
  <2> QED
    BY <2>1, KeepsKeep
<1> QED
  BY <1>2, <1>3, <1>4, <1>5 DEF Editing

LEMMA AddingKeeps ==
    ASSUME EditsInv, NEW p \in Requests, Adding(p)
    PROVE  EditsHold' /\ HandInv'
<1> USE DEF EditsInv
<1>1. ASSUME NEW pair \in Pairs, NEW role, AddUser(p, pair, role) PROVE Keeps
  BY <1>1 DEF AddUser, Keeps, Goto, AdminTypeOK, storeVars, historyVars
<1>2. CASE Look(p)
  <2>1. Keeps
    BY <1>2 DEF Look, Keeps, Goto, AdminTypeOK, storeVars
  <2> QED
    BY <2>1, KeepsKeep
<1>3. CASE LookFails(p)
  <2>1. Keeps
    BY <1>3 DEF LookFails, Keeps, Goto, AdminTypeOK, storeVars
  <2> QED
    BY <2>1, KeepsKeep
<1>4. ASSUME NEW i \in Ids, Create(p, i)
      PROVE  EditsHold' /\ HandInv'
  <2>1. copy[p] \in Documents
    BY <1>4 DEF Create, AdminTypeOK, Stage
  <2>2. DOMAIN sent[p] = {}
    BY <1>4, NothingSent DEF Create
  <2>3. Changes(p, i)
    BY <1>4, <2>1, <2>2, MeantChanges DEF Create, Changes, Goto, AdminTypeOK
  <2> QED
    BY <2>3, ChangesKeep
<1> QED
  BY <1>1, <1>2, <1>3, <1>4, KeepsKeep DEF Adding, AddToUser

LEMMA SwitchingKeeps ==
    ASSUME EditsInv, NEW p \in Requests, Switching(p)
    PROVE  EditsHold' /\ HandInv'
<1> USE DEF EditsInv
<1>1. ASSUME NEW i \in Ids, Switch(p, i)
      PROVE  EditsHold' /\ HandInv'
  <2>1. i \notin disputed' => index[i] = docs[i]
    BY <1>1 DEF Switch, ReadOf
  <2>2. Keeps
    BY <1>1, <2>1 DEF Switch, ReadOf, Keeps, Goto, AdminTypeOK, storeVars
  <2> QED
    BY <2>2, KeepsKeep
<1>2. CASE Activate(p)
  <2> DEFINE i == target[p]
  <2>1. i \in Ids /\ copy[p] \in Documents /\ DOMAIN sent[p] = {}
    BY <1>2, NothingSent DEF Activate, AdminTypeOK, Stage
  <2>2. Activated(copy[p]) \in Documents
    BY <2>1, LeavesAsMeant
  <2>3. i \notin disputed => docs[i] # None /\ Activated(copy[p]) = Activated(intended[i])
    <3>1. i \notin disputed => copy[p] = docs[i] /\ docs[i] = intended[i]
      BY <1>2, <2>1 DEF Activate, HandInv, EditsHold
    <3> QED
      BY <2>1, <3>1, PatchIsNone
  <2>4. /\ Lands(p, i, Activated(copy[p]))
        /\ SwitchMeant(p, i, copy[p], Activated(intended[i]))
    BY <1>2 DEF Activate
  <2>5. /\ docs' = [docs EXCEPT ![i] = docs'[i]]
        /\ intended' = [intended EXCEPT ![i] = intended'[i]]
        /\ i \notin disputed' => docs'[i] = intended'[i] /\ ~InHand(p, i)
        /\ \A j \in Ids \ {i} : j \in disputed => j \in disputed'
    <3> HIDE DEF i
    <3> QED
      BY <2>1, <2>2, <2>3, <2>4, SwitchChanges
  <2>6. Changes(p, i)
    BY <1>2, <2>1, <2>5 DEF Activate, Changes, Goto, AdminTypeOK
  <2> QED
    BY <2>1, <2>6, ChangesKeep
<1>3. CASE ListActive(p)
  <2> DEFINE others == {i \in Ids \ {target[p]} : /\ index[i] # None /\ index[i].active
                                                 /\ index[i].pair # None}
  <2>1. ASSUME NEW j \in others, j \notin disputed'
        PROVE  docs[j] # None /\ Deactivated(index[j]) = Left(docs[j])
    <3>1. index[j] = docs[j] /\ index[j] # None
      BY <1>3, <2>1 DEF ListActive, ReadOf
    <3> QED
      BY <3>1, LeavesAsMeant DEF AdminTypeOK
  <2>2. /\ sent' = [sent EXCEPT ![p] = [j \in others |-> Deactivated(index[j])]]
        /\ disputed \subseteq disputed'
    BY <1>3 DEF ListActive, ReadOf
  <2> HIDE DEF others
  <2>3. Keeps
    BY <1>3, <2>1, <2>2 DEF ListActive, Keeps, Goto, AdminTypeOK, storeVars
  <2> QED
    BY <2>3, KeepsKeep
<1> QED
  BY <1>1, <1>2, <1>3 DEF Switching

LEMMA LandingKeeps ==
    ASSUME EditsInv, NEW p \in Requests, Landing(p)
    PROVE  EditsHold' /\ HandInv'
<1> USE DEF EditsInv
<1>1. ASSUME NEW i \in Ids, Unsent(p, i)
      PROVE  /\ i \notin DOMAIN sent'[p]
             /\ \A q \in Requests : \A j \in DOMAIN sent'[q] :
                   j \in DOMAIN sent[q] /\ sent'[q][j] = sent[q][j]
  BY <1>1 DEF Unsent, AdminTypeOK
<1>2. ASSUME NEW i \in Ids, i \in DOMAIN sent[p] PROVE pc[p] = "done"
  BY <1>2, NothingSent
<1>3. ASSUME NEW i \in Ids, PatchLands(p, i)
      PROVE  EditsHold' /\ HandInv'
  <2>1. Changes(p, i)
    BY <1>1, <1>2, <1>3, MeantChanges DEF PatchLands, Changes
  <2> QED
    BY <2>1, ChangesKeep
<1>4. ASSUME NEW i \in Ids, DeactivationLands(p, i)
      PROVE  EditsHold' /\ HandInv'
  <2>1. i \notin disputed => docs[i] # None /\ sent[p][i] = Left(intended[i])
    BY <1>4 DEF DeactivationLands, HandInv, EditsHold
  <2>2. /\ sent[p][i] \in Documents
        /\ Lands(p, i, sent[p][i])
        /\ SwitchMeant(p, i, sent[p][i], Left(intended[i]))
    BY <1>4 DEF DeactivationLands
  <2>3. /\ docs' = [docs EXCEPT ![i] = docs'[i]]
        /\ intended' = [intended EXCEPT ![i] = intended'[i]]
        /\ i \notin disputed' => docs'[i] = intended'[i] /\ ~InHand(p, i)
        /\ \A j \in Ids \ {i} : j \in disputed => j \in disputed'
    BY <2>1, <2>2, SwitchChanges
  <2>4. Changes(p, i)
    BY <1>1, <1>2, <1>4, <2>3 DEF DeactivationLands, Changes
  <2> QED
    BY <2>4, ChangesKeep
<1>5. ASSUME NEW i \in Ids, WriteFails(p, i)
      PROVE  EditsHold' /\ HandInv'
  <2>1. Keeps
    BY <1>1, <1>5 DEF WriteFails, Keeps, storeVars, historyVars
  <2> QED
    BY <2>1, KeepsKeep
<1> QED
  BY <1>3, <1>4, <1>5 DEF Landing

LEMMA EditsStep == EditsInv /\ [Next]_vars => EditsInv'
<1> SUFFICES ASSUME EditsInv, [Next]_vars PROVE EditsHold' /\ HandInv'
  BY TypeStep DEF EditsInv
<1>1. ASSUME NEW p \in Requests, Abort(p) PROVE Keeps
  BY <1>1 DEF Abort, Keeps, Goto, EditsInv, AdminTypeOK, storeVars, historyVars
<1>2. ASSUME NEW i \in Ids, Reindex(i) PROVE Keeps
  BY <1>2 DEF Reindex, Keeps, callVars, historyVars
<1>3. CASE UNCHANGED vars
  BY <1>3 DEF vars, storeVars, callVars, historyVars, EditsInv, EditsHold, HandInv
<1> QED
  BY <1>1, <1>2, <1>3, KeepsKeep, EditingKeeps, AddingKeeps, SwitchingKeeps, LandingKeeps
  DEF Next

(***************************************************************************)
(* For any number of calls over any documents: what a switch writes back   *)
(* whole, and what administration writes in whole or in part, leaves every *)
(* document as the calls that reached it meant, except where it was        *)
(* changed while a switch had a copy of it or read before the index had    *)
(* the last change.                                                        *)
(***************************************************************************)
THEOREM EditsStand == Spec => []EditsHold
<1>1. Init => EditsInv
  BY TypeInit DEF Init, EditsInv, EditsHold, HandInv, Nothing
<1>2. EditsInv => EditsHold
  BY DEF EditsInv
<1> QED
  BY <1>1, <1>2, EditsStep, PTL DEF Spec

------------------------------------------------------------------------------
(***************************************************************************)
(* One document for a pair.                                                *)
(***************************************************************************)
\* What is about to be created has a pair; and as long as every duplicate has
\* been looked for, and seen, it is the only document about to be created, and
\* none there is has its pair.
AdditionInv ==
    \A p \in Requests :
        /\ pc[p] \in {"look", "create"} => copy[p].pair # None
        /\ certain /\ pc[p] = "create" =>
              /\ \A i \in Ids : docs[i] # None => docs[i].pair # copy[p].pair
              /\ \A q \in Requests \ {p} : pc[q] # "create"

PairInv == OnePerPair /\ AdditionInv

\* A step that moves no document to another pair, unless it is to none, and
\* begins no creation.
MovesNone ==
    /\ \A i \in Ids : docs'[i] # None =>
          \/ docs'[i].pair = None
          \/ docs[i] # None /\ docs'[i].pair = docs[i].pair
    /\ \A q \in Requests :
          \/ pc'[q] \notin {"look", "create"}
          \/ pc'[q] = pc[q] /\ copy'[q] = copy[q]
          \/ pc'[q] = "look" /\ copy'[q].pair # None

LEMMA MovesNoneKeeps ==
    ASSUME PairInv, certain' => certain /\ MovesNone,
           \A q \in Requests : pc'[q] \in {"look", "create"} =>
               (pc'[q] = pc[q] /\ copy'[q] = copy[q]) \/ copy'[q].pair # None
    PROVE  PairInv'
<1>1. \A q \in Requests : pc'[q] \in {"look", "create"} => copy'[q].pair # None
  BY DEF PairInv, AdditionInv
<1>2. CASE certain'
  <2>1. certain /\ MovesNone
    BY <1>2
  <2>2. Distinct(docs)
    BY <2>1 DEF PairInv, OnePerPair
  <2>3. Distinct(docs')
    BY <2>1, <2>2 DEF Distinct, MovesNone
  <2>4. ASSUME NEW p \in Requests, pc'[p] = "create"
        PROVE  /\ \A i \in Ids : docs'[i] # None => docs'[i].pair # copy'[p].pair
               /\ \A q \in Requests \ {p} : pc'[q] # "create"
    <3>1. pc[p] = "create" /\ copy'[p] = copy[p]
      BY <2>1, <2>4 DEF MovesNone
    <3>2. copy[p].pair # None
      BY <3>1 DEF PairInv, AdditionInv
    <3> QED
      BY <2>1, <3>1, <3>2 DEF PairInv, AdditionInv, MovesNone
  <2> QED
    BY <1>1, <2>3, <2>4 DEF PairInv, OnePerPair, AdditionInv
<1>3. CASE ~certain'
  BY <1>1, <1>3 DEF PairInv, OnePerPair, AdditionInv
<1> QED
  BY <1>2, <1>3

\* A partial write leaves the pair of a document alone, and makes one without.
LEMMA FieldKeepsPair ==
    ASSUME AdminTypeOK, NEW i \in Ids, NEW w \in Patch \cup Tables \cup {None}
    PROVE  IF docs[i] = None THEN Apply(docs[i], w).pair = None
           ELSE Apply(docs[i], w).pair = docs[i].pair
<1>1. w \notin Documents
  BY AdminAssumption DEF Patch
<1>2. \A d \in Documents : WithField(d, w).pair = d.pair
  BY DEF WithField, Documents
<1>3. Fragment \in Documents /\ Fragment.pair = None
  BY PermissionIsDocument DEF Fragment, Permission
<1> QED
  BY <1>1, <1>2, <1>3 DEF AdminTypeOK, Apply

LEMMA EditingPairs ==
    ASSUME AdminTypeOK, PairInv, NEW p \in Requests, Editing(p)
    PROVE  PairInv'
<1>1. ASSUME NEW i \in Ids, NEW pair \in Pairs, NEW role \in Roles,
             UpdateUser(p, i, pair, role)
      PROVE  PairInv'
  <2>1. docs'[i] = Permission(pair, role)
    BY <1>1, PermissionIsDocument DEF UpdateUser, Lands, Apply, AdminTypeOK
  <2>2. docs'[i].pair = pair
    BY <2>1 DEF Permission
  <2>3. \A q \in Requests : pc'[q] \in {"look", "create"} => pc'[q] = pc[q] /\ copy'[q] = copy[q]
    BY <1>1 DEF UpdateUser, Goto, AdminTypeOK
  <2>4. certain' => certain /\ MovesNone
    BY <1>1, <2>2, <2>3 DEF UpdateUser, Lands, MovesNone, AdminTypeOK
  <2> QED
    BY <2>3, <2>4, MovesNoneKeeps
<1>2. ASSUME NEW i \in Ids, DeleteUser(p, i)
      PROVE  PairInv'
  <2>1. \A q \in Requests : pc'[q] \in {"look", "create"} => pc'[q] = pc[q] /\ copy'[q] = copy[q]
    BY <1>2 DEF DeleteUser, Goto, AdminTypeOK
  <2>2. certain' => certain /\ MovesNone
    BY <1>2, <2>1 DEF DeleteUser, MovesNone, AdminTypeOK
  <2> QED
    BY <2>1, <2>2, MovesNoneKeeps
<1>3. ASSUME NEW i \in Ids, NEW t \in Tables \cup {None}, SetPriceTable(p, i, t)
      PROVE  PairInv'
  <2>1. \A q \in Requests : pc'[q] \in {"look", "create"} => pc'[q] = pc[q] /\ copy'[q] = copy[q]
    BY <1>3 DEF SetPriceTable, Goto, AdminTypeOK
  <2>2. IF docs[i] = None THEN docs'[i].pair = None ELSE docs'[i].pair = docs[i].pair
    BY <1>3, FieldKeepsPair DEF SetPriceTable, Lands, AdminTypeOK
  <2>3. certain' => certain /\ MovesNone
    BY <1>3, <2>1, <2>2 DEF SetPriceTable, Lands, MovesNone, AdminTypeOK
  <2> QED
    BY <2>1, <2>3, MovesNoneKeeps
<1>4. ASSUME NEW S \in SUBSET Ids, DeleteUserProfile(p, S)
      PROVE  PairInv'
  <2>1. \A q \in Requests : pc'[q] \in {"look", "create"} => pc'[q] = pc[q] /\ copy'[q] = copy[q]
    BY <1>4 DEF DeleteUserProfile, Goto, AdminTypeOK
  <2>2. certain' => certain /\ MovesNone
    BY <1>4, <2>1 DEF DeleteUserProfile, MovesNone, storeVars, historyVars
  <2> QED
    BY <2>1, <2>2, MovesNoneKeeps
<1> QED
  BY <1>1, <1>2, <1>3, <1>4 DEF Editing

\* A listing that is certain and finds no duplicate makes this addition the only
\* one about to be written, of a pair no document has.
LEMMA LookPairs ==
    ASSUME AdminTypeOK, PairInv, NEW p \in Requests, Look(p)
    PROVE  PairInv'
<1>1. pc[p] = "look" /\ UNCHANGED docs
  BY DEF Look, storeVars
<1>2. \A q \in Requests \ {p} : pc'[q] = pc[q] /\ copy'[q] = copy[q]
  BY DEF Look, Goto, AdminTypeOK
<1>3. \/ pc'[p] = "done"
      \/ /\ pc'[p] = "create" /\ copy'[p] = copy[p]
         /\ \A i \in Ids : index[i] # None => index[i].pair # copy[p].pair
  BY DEF Look, Goto, AdminTypeOK
<1>4. certain' => certain /\ index = docs /\ \A q \in Requests : pc[q] # "create"
  BY DEF Look
<1>5. OnePerPair'
  BY <1>1, <1>4 DEF PairInv, OnePerPair
<1>6. AdditionInv'
  BY <1>1, <1>2, <1>3, <1>4 DEF PairInv, AdditionInv
<1> QED
  BY <1>5, <1>6 DEF PairInv

\* The document created is the only one of its pair.
LEMMA CreatePairs ==
    ASSUME AdminTypeOK, PairInv, NEW p \in Requests, NEW i \in Ids, Create(p, i)
    PROVE  PairInv'
<1>1. pc[p] = "create" /\ copy[p] \in Documents
  BY DEF Create, AdminTypeOK, Stage
<1>2. docs'[i] = copy[p] /\ \A j \in Ids \ {i} : docs'[j] = docs[j]
  BY <1>1 DEF Create, Lands, Apply, AdminTypeOK
<1>3. /\ pc'[p] = "done" /\ certain' = certain
      /\ \A q \in Requests \ {p} : pc'[q] = pc[q] /\ copy'[q] = copy[q]
  BY DEF Create, Goto, AdminTypeOK
<1>4. certain => Distinct(docs)
  BY DEF PairInv, OnePerPair
<1>5. certain => /\ \A j \in Ids : docs[j] # None => docs[j].pair # copy[p].pair
                 /\ \A q \in Requests \ {p} : pc[q] # "create"
  BY <1>1 DEF PairInv, AdditionInv
<1>6. certain => Distinct(docs')
  BY <1>2, <1>4, <1>5 DEF Distinct
<1>7. AdditionInv'
  BY <1>3, <1>5 DEF PairInv, AdditionInv
<1> QED
  BY <1>3, <1>6, <1>7 DEF PairInv, OnePerPair

LEMMA AddingPairs ==
    ASSUME AdminTypeOK, PairInv, NEW p \in Requests, Adding(p)
    PROVE  PairInv'
<1>1. ASSUME NEW pair \in Pairs, NEW role, AddUser(p, pair, role) PROVE PairInv'
  <2>1. Permission(pair, role).pair # None
    BY AdminAssumption DEF Permission
  <2>2. \A q \in Requests :
           \/ pc'[q] = pc[q] /\ copy'[q] = copy[q]
           \/ pc'[q] = "look" /\ copy'[q].pair # None
    BY <1>1, <2>1 DEF AddUser, Goto, AdminTypeOK
  <2>3. certain' => certain /\ MovesNone
    BY <1>1, <2>2 DEF AddUser, MovesNone, storeVars, historyVars
  <2> QED
    BY <2>2, <2>3, MovesNoneKeeps
<1>2. CASE LookFails(p)
  <2>1. ~certain' /\ \A q \in Requests :
           pc'[q] \in {"look", "create"} => pc[q] \in {"look", "create"} /\ copy'[q] = copy[q]
    BY <1>2 DEF LookFails, Goto, AdminTypeOK
  <2>2. \A q \in Requests : pc'[q] \in {"look", "create"} => copy'[q].pair # None
    BY <2>1 DEF PairInv, AdditionInv
  <2> QED
    BY <2>1, <2>2, MovesNoneKeeps
<1> QED
  BY <1>1, <1>2, LookPairs, CreatePairs DEF Adding, AddToUser

\* A switch is certain as long as the document it writes is still of its pair.
LEMMA SwitchingPairs ==
    ASSUME AdminTypeOK, PairInv, NEW p \in Requests, Switching(p)
    PROVE  PairInv'
<1>1. \A q \in Requests : pc'[q] \in {"look", "create"} => pc'[q] = pc[q] /\ copy'[q] = copy[q]
  BY DEF Switching, Switch, Activate, ListActive, Goto, AdminTypeOK
<1>2. ASSUME NEW i \in Ids, Switch(p, i) PROVE certain' => certain /\ MovesNone
  BY <1>1, <1>2 DEF Switch, MovesNone, storeVars
<1>3. CASE ListActive(p)
  <2>1. certain' => certain /\ MovesNone
    BY <1>1, <1>3 DEF ListActive, MovesNone, storeVars
  <2> QED
    BY <1>1, <2>1, MovesNoneKeeps
<1>4. CASE Activate(p)
  <2> DEFINE i == target[p]
  <2>1. i \in Ids /\ copy[p] \in Documents
    BY <1>4 DEF Activate, AdminTypeOK, Stage
  <2>2. Activated(copy[p]) \in Documents /\ Activated(copy[p]).pair = copy[p].pair
    BY <2>1 DEF Activated, Documents
  <2>3. docs'[i] = Activated(copy[p]) /\ \A j \in Ids \ {i} : docs'[j] = docs[j]
    BY <1>4, <2>1, <2>2 DEF Activate, Lands, Apply, AdminTypeOK
  <2>4. certain' => certain /\ docs[i] # None /\ docs[i].pair = copy[p].pair
    BY <1>4 DEF Activate, SwitchMeant
  <2> HIDE DEF i
  <2>5. certain' => certain /\ MovesNone
    BY <1>1, <2>2, <2>3, <2>4 DEF MovesNone
  <2> QED
    BY <1>1, <2>5, MovesNoneKeeps
<1> QED
  BY <1>1, <1>2, <1>3, <1>4, MovesNoneKeeps DEF Switching

LEMMA LandingPairs ==
    ASSUME AdminTypeOK, PairInv, NEW p \in Requests, Landing(p)
    PROVE  PairInv'
<1>1. UNCHANGED <<pc, copy>>
  BY DEF Landing, PatchLands, DeactivationLands, WriteFails
<1>2. ASSUME NEW i \in Ids, PatchLands(p, i) PROVE certain' => certain /\ MovesNone
  <2>1. IF docs[i] = None THEN docs'[i].pair = None ELSE docs'[i].pair = docs[i].pair
    BY <1>2, FieldKeepsPair DEF PatchLands, Lands, AdminTypeOK
  <2> QED
    BY <1>1, <1>2, <2>1 DEF PatchLands, Lands, MovesNone, AdminTypeOK
<1>3. ASSUME NEW i \in Ids, DeactivationLands(p, i) PROVE certain' => certain /\ MovesNone
  <2>1. docs'[i] = sent[p][i] /\ \A j \in Ids \ {i} : docs'[j] = docs[j]
    BY <1>3 DEF DeactivationLands, Lands, Apply, AdminTypeOK
  <2> QED
    BY <1>1, <1>3, <2>1 DEF DeactivationLands, SwitchMeant, MovesNone
<1>4. ASSUME NEW i \in Ids, WriteFails(p, i) PROVE certain' => certain /\ MovesNone
  BY <1>1, <1>4 DEF WriteFails, MovesNone, storeVars, historyVars
<1> QED
  BY <1>1, <1>2, <1>3, <1>4, MovesNoneKeeps DEF Landing

LEMMA PairStep == AdminTypeOK /\ PairInv /\ [Next]_vars => PairInv'
<1> SUFFICES ASSUME AdminTypeOK, PairInv, [Next]_vars PROVE PairInv'
  OBVIOUS
<1>1. ASSUME NEW p \in Requests, Abort(p) PROVE PairInv'
  <2>1. \A q \in Requests : pc'[q] \in {"look", "create"} => pc'[q] = pc[q] /\ copy'[q] = copy[q]
    BY <1>1 DEF Abort, Goto, AdminTypeOK
  <2>2. certain' => certain /\ MovesNone
    BY <1>1, <2>1 DEF Abort, MovesNone, storeVars, historyVars
  <2> QED
    BY <2>1, <2>2, MovesNoneKeeps
<1>2. ASSUME NEW i \in Ids, Reindex(i) PROVE PairInv'
  BY <1>2 DEF Reindex, PairInv, OnePerPair, AdditionInv, callVars, historyVars
<1>3. CASE UNCHANGED vars
  BY <1>3 DEF vars, storeVars, callVars, historyVars, PairInv, OnePerPair, AdditionInv
<1> QED
  BY <1>1, <1>2, <1>3, EditingPairs, AddingPairs, SwitchingPairs, LandingPairs DEF Next

(***************************************************************************)
(* addUser keeps the documents of a shopper distinct, for any number of    *)
(* calls at once, through failures and partial writes, as long as every    *)
(* duplicate has been looked for on a settled index, with no other         *)
(* addition about to be written, and nothing else has moved a document.    *)
(***************************************************************************)
THEOREM PairsStayDistinct == Spec => []OnePerPair
<1>1. Init => PairInv
  BY DEF Init, PairInv, OnePerPair, AdditionInv
<1>2. PairInv => OnePerPair
  BY DEF PairInv
<1> QED
  BY <1>1, <1>2, TypeInit, TypeStep, PairStep, PTL DEF Spec

==============================================================================
