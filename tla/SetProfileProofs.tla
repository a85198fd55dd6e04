--------------------------- MODULE SetProfileProofs ---------------------------
(***************************************************************************)
(* Proofs about SetProfile, for any organizations, cost centers and        *)
(* documents and any number of transforms, changes and failures: its       *)
(* types, that the fields of a session belong together, that the cart does *)
(* not follow a shopper who is moved, that every behaviour of it is one of *)
(* ServedPair, that the transforms come to rest, and that what is due is   *)
(* served.                                                                 *)
(*                                                                         *)
(* The first four argue about a transform under way.  WindowInv: whatever  *)
(* a read can find was the case at some time since the transform began.    *)
(* FoundInv and RecoveryInv: so what it has found and what it has given up *)
(* on, up to the organization and the pair of the session it did not take, *)
(* was rightly so at some time.  OutInv: the pair in hand when it answers  *)
(* is therefore one ServedPair may serve.  The windows only grow, and the  *)
(* session does not change before the answer: what has once been           *)
(* established stays.                                                      *)
(*                                                                         *)
(* The last two compare a transform with the ones before it, as long as    *)
(* nothing disturbs them.  RestInv: the second works out the pair that the *)
(* first has left in the session.  DueInv: the first takes the short way   *)
(* to the choice, if that is in order, whatever it finds in the session.   *)
(***************************************************************************)
EXTENDS SetProfile, TLAPS

------------------------------------------------------------------------------
(***************************************************************************)
(* The inductive invariant.                                                *)
(***************************************************************************)
SessionTypeOK ==
    /\ session \in [organization : Orgs \cup {None}, costcenter : Costs \cup {None},
                    hash : PairsOrNone, facets : PairsOrNone,
                    sc : Orgs \cup {None}, regionId : PairsOrNone, prices : Tables]
    /\ rerun \in BOOLEAN

WorkTypeOK ==
    /\ stage \in Stages
    /\ form \in BOOLEAN
    /\ cachedUser \in Records \cup {None}
    /\ user \in [org : Orgs \cup {None}, cost : Costs \cup {None},
                 id : Records \cup {None}]
    /\ orgDoc \in Orgs \cup {None}
    /\ costDoc \in Costs \cup {None}
    /\ listing \in Listings
    /\ fallback \in Records \cup {None}
    /\ hash \in PairsOrNone
    /\ table \in Tables

KeptTypeOK ==
    /\ listed \in Listings \cup {None}
    /\ hasCart \in BOOLEAN
    /\ cart \in PairsOrNone \cup {None}
    /\ elsewhere \in BOOLEAN
    /\ spoilt \in BOOLEAN

\* A cost center never comes back; and the windows of a transform under way
\* hold whatever a read of it may find now.
WindowInv ==
    /\ \A c \in Costs : c \in stale => ~live[c]
    /\ stage # "idle" =>
          /\ \A o \in Orgs : /\ usable[o] \/ o \in stale => o \in up
                             /\ ~usable[o] \/ o \in stale => o \in down
          /\ \A c \in Costs : ~live[c] => c \in dead
          /\ Records \ present \subseteq missing

Sticky == {"stickyOrg", "stickyRecord", "stickyCost"}
Outgoing == {"adopted", "prices", "clear", "respond"}

\* Who is resolved, and while it is the document itself that is worked with.
UserInv ==
    /\ stage \in {"idle", "resolve"} <=> cachedUser = None
    /\ cachedUser # None =>
          /\ user.org \in Orgs /\ user.cost \in Costs /\ user.id \in Records
          /\ user.org = OrgOf[user.id]
    /\ stage \in {"documents", "list", "costAgain", "candidate"} \cup Sticky =>
          user.org = OrgOf[cachedUser]
    /\ stage \in {"documents", "list"} => user.cost = CostOf[cachedUser]
    /\ stage \in {"documents", "list", "costAgain"} => hash = PairOf(cachedUser)

\* What was found of its organization and cost center was the case meanwhile.
FoundInv ==
    /\ stage = "list" =>
          /\ orgDoc \in {None, user.org} /\ costDoc \in {None, user.cost}
          /\ IF orgDoc = None THEN user.org \in down ELSE user.org \in up
          /\ costDoc = None => user.cost \in dead
    /\ stage = "costAgain" =>
          orgDoc = user.org /\ user.org \in up /\ CostOf[cachedUser] \in dead

\* What the recovery has established.
RecoveryInv ==
    /\ stage \in {"candidate"} \cup Sticky => user.org \in down
    /\ stage \in Sticky =>
          /\ session.organization \notin {None, user.org}
          /\ fallback # None => OrgOf[fallback] \in up
    /\ stage \in {"stickyRecord", "stickyCost"} => session.organization \in up
    /\ stage = "stickyCost" => \E r \in Records : PairOf(r) = Pin

\* The pair the session holds is in doubt.
Doubt ==
    session.organization # None =>
        \/ session.organization \in down \cup {OrgOf[cachedUser]}
        \/ session.costcenter \in dead
        \/ \A r \in Records \ missing : PairOf(r) # Pin

\* ServedPair has nothing against the pair in hand.
MayServe ==
    \/ user.org = OrgOf[cachedUser] /\ user.cost = CostOf[cachedUser]
    \/ user.org = OrgOf[cachedUser] /\ CostOf[cachedUser] \in dead
    \/ OrgOf[cachedUser] \in down /\ session.organization # None /\ <<user.org, user.cost>> = Pin
    \/ /\ OrgOf[cachedUser] \in down
       /\ Doubt
       /\ \E r \in Records : PairOf(r) = <<user.org, user.cost>>

\* The price tables in hand are of the organization in hand.
TableFits ==
    table # NoPair =>
        table[1] = orgDoc /\ (table[2] # None => OrgOf[table[2]] = orgDoc)

OutInv ==
    /\ stage \in {"clear", "respond"} => TableFits
    /\ stage \in Outgoing =>
          orgDoc = user.org /\ user.org \in up /\ hash[1] = user.org /\ MayServe
    /\ stage \in Outgoing \ {"adopted"} => costDoc \in {None, user.cost}

\* The fields of the session; without an organization they have no hash.
SessionInv ==
    /\ OneRecord
    /\ session.organization = None => session.hash = NoPair

\* The cart: during a transform too its items are of the pair of the session,
\* and if there are any left at its end, the hash has not changed.
CartInv ==
    /\ cart # None => hasCart
    /\ stage # "idle" /\ ~form /\ cart # None => spoilt
    /\ ClearCart /\ ~spoilt /\ cart # None =>
          /\ session.organization # None => cart = Pin
          /\ stage = "respond" => session.hash = hash

\* All but the bound of the history.
Core ==
    /\ DirectoryTypeOK /\ SessionTypeOK /\ WorkTypeOK /\ KeptTypeOK
    /\ WindowInv /\ UserInv /\ FoundInv /\ RecoveryInv /\ OutInv
    /\ SessionInv /\ CartInv

ProfileInv == Core /\ passes \in 0 .. 2

LEMMA NoneIsNothing ==
    /\ None \notin Orgs /\ None \notin Costs /\ None \notin Records
    /\ \A r \in Records : OrgOf[r] \in Orgs /\ CostOf[r] \in Costs
BY RecordsAssumption

LEMMA ProfileInit == Init => ProfileInv
<1> SUFFICES ASSUME Init PROVE ProfileInv
  OBVIOUS
<1>1. DirectoryTypeOK
  BY RecordsAssumption DEF Init, DirectoryInit, DirectoryTypeOK
<1>2. SessionTypeOK /\ SessionInv
  BY NoneIsNothing
  DEF Init, EmptySession, NoPair, PairsOrNone, Tables, SessionTypeOK, SessionInv, OneRecord
<1>3. WorkTypeOK
  BY DEF Init, Nobody, NoPair, NothingListed, Listings, PairsOrNone, Tables, Stages, WorkTypeOK
<1>4. KeptTypeOK /\ CartInv
  BY DEF Init, KeptTypeOK, CartInv
<1>5. WindowInv
  BY DEF Init, DirectoryInit, WindowInv
<1>6. UserInv /\ FoundInv /\ RecoveryInv /\ OutInv
  BY DEF Init, UserInv, FoundInv, RecoveryInv, OutInv, Sticky, Outgoing
<1> QED
  BY <1>1, <1>2, <1>3, <1>4, <1>5, <1>6 DEF Init, Core, ProfileInv

LEMMA PassesTyped ==
    ASSUME passes \in 0 .. 2, Passes PROVE passes' \in 0 .. 2
<1> DEFINE disturbed == world' # world \/ listed \notin {None, listed'}
           begins == stage = "idle" /\ stage' # "idle"
<1>1. passes' = CASE disturbed -> 0
                  [] ~disturbed /\ begins /\ passes < 2 -> passes + 1
                  [] OTHER -> passes
  BY DEF Passes
<1> HIDE DEF disturbed, begins
<1>2. CASE disturbed
  BY <1>1, <1>2
<1>3. CASE ~disturbed /\ begins /\ passes < 2
  BY <1>1, <1>3
<1>4. CASE ~disturbed /\ ~(begins /\ passes < 2)
  BY <1>1, <1>4
<1> QED
  BY <1>2, <1>3, <1>4

------------------------------------------------------------------------------
(***************************************************************************)
(* The world.                                                              *)
(***************************************************************************)
LEMMA Disturbed ==
    ASSUME DirectoryTypeOK, Disturb PROVE changes' \in 0 .. MaxChanges
BY RecordsAssumption DEF DirectoryTypeOK, Disturb

\* What changes is seen by the windows, which only grow.
LEMMA WorldTyped ==
    ASSUME DirectoryTypeOK, WindowInv, WorldChanges, stage' = stage
    PROVE  /\ DirectoryTypeOK' /\ WindowInv'
           /\ up \subseteq up' /\ down \subseteq down'
           /\ dead \subseteq dead' /\ missing \subseteq missing'
<1>1. ASSUME NEW o \in Orgs, OrgChanges(o) PROVE
           /\ DirectoryTypeOK' /\ WindowInv'
           /\ up \subseteq up' /\ down \subseteq down'
           /\ dead \subseteq dead' /\ missing \subseteq missing'
  <2>1. changes' \in 0 .. MaxChanges
    BY <1>1, Disturbed DEF OrgChanges
  <2>2. DirectoryTypeOK'
    BY <1>1, <2>1 DEF OrgChanges, DirectoryTypeOK
  <2>3. o \notin Costs
    BY RecordsAssumption
  <2>4. WindowInv'
    BY <1>1, <2>3 DEF OrgChanges, WindowInv, DirectoryTypeOK
  <2> QED
    BY <1>1, <2>2, <2>4 DEF OrgChanges
<1>2. ASSUME NEW c \in Costs, CostGoes(c) PROVE
           /\ DirectoryTypeOK' /\ WindowInv'
           /\ up \subseteq up' /\ down \subseteq down'
           /\ dead \subseteq dead' /\ missing \subseteq missing'
  <2>1. changes' \in 0 .. MaxChanges
    BY <1>2, Disturbed DEF CostGoes
  <2>2. DirectoryTypeOK'
    BY <1>2, <2>1 DEF CostGoes, DirectoryTypeOK
  <2>3. c \notin Orgs
    BY RecordsAssumption
  <2>4. WindowInv'
    BY <1>2, <2>3 DEF CostGoes, WindowInv, DirectoryTypeOK
  <2> QED
    BY <1>2, <2>2, <2>4 DEF CostGoes
<1>3. ASSUME NEW x, CacheExpires(x) PROVE
           /\ DirectoryTypeOK' /\ WindowInv'
           /\ up \subseteq up' /\ down \subseteq down'
           /\ dead \subseteq dead' /\ missing \subseteq missing'
  BY <1>3 DEF CacheExpires, DirectoryTypeOK, WindowInv, windows
<1>4. ASSUME NEW r \in Records, RecordGoes(r) PROVE
           /\ DirectoryTypeOK' /\ WindowInv'
           /\ up \subseteq up' /\ down \subseteq down'
           /\ dead \subseteq dead' /\ missing \subseteq missing'
  <2>1. changes' \in 0 .. MaxChanges
    BY <1>4, Disturbed DEF RecordGoes
  <2> QED
    BY <1>4, <2>1 DEF RecordGoes, DirectoryTypeOK, WindowInv
<1>5. ASSUME NEW r \in Records \cup {None}, ChoiceChanges(r) PROVE
           /\ DirectoryTypeOK' /\ WindowInv'
           /\ up \subseteq up' /\ down \subseteq down'
           /\ dead \subseteq dead' /\ missing \subseteq missing'
  <2>1. changes' \in 0 .. MaxChanges
    BY <1>5, Disturbed DEF ChoiceChanges
  <2> QED
    BY <1>5, <2>1 DEF ChoiceChanges, DirectoryTypeOK, WindowInv, windows
<1>6. ASSUME NEW m \in Modes, ModeChanges(m) PROVE
           /\ DirectoryTypeOK' /\ WindowInv'
           /\ up \subseteq up' /\ down \subseteq down'
           /\ dead \subseteq dead' /\ missing \subseteq missing'
  <2>1. changes' \in 0 .. MaxChanges
    BY <1>6, Disturbed DEF ModeChanges
  <2> QED
    BY <1>6, <2>1 DEF ModeChanges, DirectoryTypeOK, WindowInv, windows
<1> QED
  BY <1>1, <1>2, <1>3, <1>4, <1>5, <1>6 DEF WorldChanges

\* What an operation of a transform reads was the case at some time since it began.
LEMMA ReadsSeen ==
    ASSUME DirectoryTypeOK, WindowInv, stage # "idle"
    PROVE  /\ \A o \in Orgs : /\ TRUE \in ReadsUsable(o) => o \in up
                              /\ FALSE \in ReadsUsable(o) => o \in down
           /\ \A c \in Costs : FALSE \in ReadsLive(c) => c \in dead
<1>1. ASSUME NEW o \in Orgs
      PROVE  /\ TRUE \in ReadsUsable(o) => o \in up
             /\ FALSE \in ReadsUsable(o) => o \in down
  BY DEF ReadsUsable, WindowInv, DirectoryTypeOK
<1>2. ASSUME NEW c \in Costs, FALSE \in ReadsLive(c) PROVE c \in dead
  BY <1>2 DEF ReadsLive, WindowInv, DirectoryTypeOK
<1> QED
  BY <1>1, <1>2

LEMMA FoundSeen ==
    ASSUME DirectoryTypeOK, WindowInv, stage # "idle"
    PROVE  /\ \A o \in Orgs : \A d \in FoundOrg(o) :
                 (d = None /\ o \in down) \/ (d = o /\ o \in up)
           /\ \A c \in Costs : \A d \in FoundCost(c) :
                 (d = None /\ c \in dead) \/ d = c
<1>1. ASSUME NEW o \in Orgs, NEW d \in FoundOrg(o)
      PROVE  (d = None /\ o \in down) \/ (d = o /\ o \in up)
  <2>1. PICK ok \in ReadsUsable(o) : d = IF ok THEN o ELSE None
    BY <1>1 DEF FoundOrg
  <2>2. ok \in BOOLEAN
    BY DEF ReadsUsable, DirectoryTypeOK
  <2> QED
    BY <2>1, <2>2, ReadsSeen
<1>2. ASSUME NEW c \in Costs, NEW d \in FoundCost(c)
      PROVE  (d = None /\ c \in dead) \/ d = c
  <2>1. PICK ok \in ReadsLive(c) : d = IF ok THEN c ELSE None
    BY <1>2 DEF FoundCost
  <2>2. ok \in BOOLEAN
    BY DEF ReadsLive, DirectoryTypeOK
  <2> QED
    BY <2>1, <2>2, ReadsSeen
<1> QED
  BY <1>1, <1>2

LEMMA DoubtStays ==
    ASSUME Doubt, UNCHANGED <<session, cachedUser>>,
           down \subseteq down', dead \subseteq dead', missing \subseteq missing'
    PROVE  Doubt'
BY DEF Doubt, Pin

LEMMA MayServeStays ==
    ASSUME MayServe, UNCHANGED <<session, cachedUser, user>>,
           down \subseteq down', dead \subseteq dead', missing \subseteq missing'
    PROVE  MayServe'
<1>1. Doubt => Doubt'
  BY DoubtStays
<1> QED
  BY <1>1 DEF MayServe, Pin

LEMMA WorldKeeps ==
    ASSUME Core, WorldChanges, UNCHANGED <<sessionVars, stage, workVars, listed, cartVars>>
    PROVE  Core'
<1>1. /\ UNCHANGED <<session, rerun, stage, form, cachedUser, user, orgDoc, costDoc, listing>>
      /\ UNCHANGED <<fallback, hash, table, listed, hasCart, cart, elsewhere, spoilt>>
  BY DEF sessionVars, workVars, cartVars
<1>2. /\ DirectoryTypeOK' /\ WindowInv'
      /\ up \subseteq up' /\ down \subseteq down'
      /\ dead \subseteq dead' /\ missing \subseteq missing'
  BY <1>1, WorldTyped DEF Core
<1>3. SessionTypeOK' /\ WorkTypeOK' /\ KeptTypeOK'
  BY <1>1 DEF Core, SessionTypeOK, WorkTypeOK, KeptTypeOK
<1>4. UserInv' /\ SessionInv' /\ CartInv'
  BY <1>1 DEF Core, UserInv, SessionInv, OneRecord, CartInv, Pin
<1>5. FoundInv' /\ RecoveryInv'
  BY <1>1, <1>2 DEF Core, FoundInv, RecoveryInv, Pin
<1>6. OutInv'
  <2>1. MayServe => MayServe'
    BY <1>1, <1>2, MayServeStays
  <2> QED
    BY <1>1, <1>2, <2>1 DEF Core, OutInv, TableFits
<1> QED
  BY <1>2, <1>3, <1>4, <1>5, <1>6 DEF Core

------------------------------------------------------------------------------
(***************************************************************************)
(* Steps within a transform.                                               *)
(***************************************************************************)
LEMMA GoOnKeeps ==
    ASSUME Core, stage # "idle", NEW next, next \notin {"idle", "respond"}, GoOn(next),
           WorkTypeOK', UserInv', FoundInv', RecoveryInv', OutInv'
    PROVE  Core'
<1>1. /\ UNCHANGED <<usable, live, stale, present, choice, mode, changes>>
      /\ UNCHANGED <<up, down, dead, missing, session, rerun, listed, hasCart, cart, elsewhere, spoilt>>
      /\ stage' = next /\ form' = form
  BY DEF GoOn, world, windows, sessionVars, cartVars
<1>2. DirectoryTypeOK' /\ WindowInv'
  BY <1>1 DEF Core, DirectoryTypeOK, WindowInv
<1>3. SessionTypeOK' /\ KeptTypeOK' /\ SessionInv'
  BY <1>1 DEF Core, SessionTypeOK, KeptTypeOK, SessionInv, OneRecord
<1>4. CartInv'
  BY <1>1 DEF Core, CartInv, Pin
<1> QED
  BY <1>2, <1>3, <1>4 DEF Core

LEMMA ResolveKeeps ==
    ASSUME Core, Resolve PROVE Core'
<1>1. choice \in Records /\ form \in BOOLEAN
  BY DEF Resolve, Core, DirectoryTypeOK, WorkTypeOK
<1>2. /\ stage = "resolve" /\ stage' = "documents" /\ form' = form
      /\ cachedUser' = choice
      /\ user' = [org |-> OrgOf[choice], cost |-> CostOf[choice], id |-> choice]
      /\ hash' = PairOf(choice)
      /\ UNCHANGED <<orgDoc, costDoc, listing, fallback, table>>
  BY DEF Resolve, GoOn
<1>3. WorkTypeOK'
  BY <1>1, <1>2, NoneIsNothing DEF Core, WorkTypeOK, Stages, PairOf, PairsOrNone
<1>4. UserInv'
  BY <1>1, <1>2, NoneIsNothing DEF UserInv, Sticky
<1>5. FoundInv' /\ RecoveryInv' /\ OutInv'
  BY <1>2 DEF FoundInv, RecoveryInv, OutInv, Sticky, Outgoing
<1> QED
  BY <1>2, <1>3, <1>4, <1>5, GoOnKeeps DEF Resolve

LEMMA GetDocumentsKeeps ==
    ASSUME Core, GetDocuments PROVE Core'
<1> DEFINE next == IF orgDoc' = None \/ costDoc' = None THEN "list" ELSE "prices"
<1>1. /\ stage = "documents" /\ stage' = next /\ GoOn(next) /\ form' = form
      /\ orgDoc' \in FoundOrg(user.org) /\ costDoc' \in FoundCost(user.cost)
      /\ UNCHANGED <<cachedUser, user, listing, fallback, hash, table>>
      /\ UNCHANGED <<up, down, dead, missing, session>>
  BY DEF GetDocuments, GoOn, windows, sessionVars
<1>2. /\ cachedUser \in Records /\ user.org \in Orgs /\ user.cost \in Costs
      /\ user.org = OrgOf[cachedUser] /\ user.cost = CostOf[cachedUser]
      /\ hash = PairOf(cachedUser)
  BY <1>1 DEF Core, UserInv, WorkTypeOK
<1>3. /\ (orgDoc' = None /\ user.org \in down) \/ (orgDoc' = user.org /\ user.org \in up)
      /\ (costDoc' = None /\ user.cost \in dead) \/ costDoc' = user.cost
  BY <1>1, <1>2, FoundSeen DEF Core
<1>4. WorkTypeOK'
  BY <1>1, <1>2, <1>3 DEF Core, WorkTypeOK, Stages
<1>5. UserInv'
  BY <1>1, <1>2 DEF Core, UserInv, Sticky
<1>6. FoundInv' /\ RecoveryInv'
  BY <1>1, <1>2, <1>3, NoneIsNothing DEF FoundInv, RecoveryInv, Sticky
<1>7. OutInv'
  BY <1>1, <1>2, <1>3 DEF OutInv, MayServe, Outgoing, PairOf
<1> QED
  BY <1>1, <1>4, <1>5, <1>6, <1>7, GoOnKeeps

\* The listing is in, from wherever it came.
LEMMA AfterListingKeeps ==
    ASSUME Core, stage = "list", NEW l \in Listings, AfterListing(l), listed' \in Listings \cup {None},
           UNCHANGED facts, changes' \in 0 .. MaxChanges
    PROVE  Core'
<1> DEFINE replaced == costDoc = None /\ l.cost # None
<1>1. /\ UNCHANGED <<usable, live, stale, present, choice, mode>>
      /\ UNCHANGED <<up, down, dead, missing, session, rerun, hasCart, cart, elsewhere, spoilt>>
      /\ UNCHANGED <<form, cachedUser, orgDoc, costDoc, fallback, hash, table>>
      /\ listing' = l
      /\ user' = IF replaced THEN [user EXCEPT !.cost = l.cost] ELSE user
      /\ stage' = CASE orgDoc = None -> "candidate"
                    [] orgDoc # None /\ replaced -> "costAgain"
                    [] OTHER -> "prices"
  BY DEF AfterListing, facts, windows, sessionVars, cartVars
<1>2. /\ cachedUser \in Records /\ user.org \in Orgs /\ user.cost \in Costs /\ user.id \in Records
      /\ user.org = OrgOf[user.id]
      /\ user.org = OrgOf[cachedUser] /\ user.cost = CostOf[cachedUser]
      /\ hash = PairOf(cachedUser)
  BY DEF Core, UserInv, WorkTypeOK
<1>3. /\ orgDoc \in {None, user.org} /\ costDoc \in {None, user.cost}
      /\ IF orgDoc = None THEN user.org \in down ELSE user.org \in up
      /\ costDoc = None => user.cost \in dead
  BY DEF Core, FoundInv
<1>4. l.cost \in Costs \cup {None}
  BY DEF Listings
<1>5. /\ user' \in [org : Orgs \cup {None}, cost : Costs \cup {None}, id : Records \cup {None}]
      /\ user'.org = user.org /\ user'.id = user.id
      /\ user'.cost = IF replaced THEN l.cost ELSE user.cost
  BY <1>1, <1>4 DEF Core, WorkTypeOK
<1>6. user'.cost \in Costs
  BY <1>2, <1>4, <1>5
<1> HIDE DEF replaced
<1>7. \/ orgDoc = None /\ stage' = "candidate"
      \/ orgDoc # None /\ replaced /\ stage' = "costAgain"
      \/ orgDoc # None /\ ~replaced /\ stage' = "prices"
  BY <1>1
<1>8. WorkTypeOK'
  BY <1>1, <1>5, <1>7 DEF Core, WorkTypeOK, Stages
<1>9. UserInv'
  BY <1>1, <1>2, <1>5, <1>6, <1>7 DEF Core, UserInv, Sticky
<1>10. FoundInv'
  BY <1>1, <1>2, <1>3, <1>5, <1>7 DEF FoundInv, replaced
<1>11. RecoveryInv'
  BY <1>1, <1>3, <1>5, <1>7 DEF RecoveryInv, Sticky
<1>12. OutInv'
  BY <1>1, <1>2, <1>3, <1>5, <1>7 DEF OutInv, MayServe, Outgoing, PairOf
<1>13. DirectoryTypeOK' /\ WindowInv'
  BY <1>1, <1>7 DEF Core, DirectoryTypeOK, WindowInv
<1>14. SessionTypeOK' /\ KeptTypeOK' /\ SessionInv'
  BY <1>1 DEF Core, SessionTypeOK, KeptTypeOK, SessionInv, OneRecord
<1>15. CartInv'
  BY <1>1, <1>7 DEF Core, CartInv, Pin
<1> QED
  BY <1>8, <1>9, <1>10, <1>11, <1>12, <1>13, <1>14, <1>15 DEF Core

LEMMA ListingKeeps ==
    ASSUME Core, Listing PROVE Core'
<1>1. stage = "list" /\ UNCHANGED facts /\ changes' \in 0 .. MaxChanges
  <2>1. Disturb => changes' \in 0 .. MaxChanges
    BY Disturbed DEF Core
  <2> QED
    BY <2>1 DEF Listing, ListFromCache, ListAnew, ListPartly, ListFails, facts, world,
                Core, DirectoryTypeOK
<1>2. PICK l \in Listings : AfterListing(l) /\ listed' \in Listings \cup {None}
  <2>1. CASE ListFromCache
    BY <2>1 DEF ListFromCache, Core, KeptTypeOK
  <2>2. CASE ListAnew
    BY <2>2 DEF ListAnew, ListingOf
  <2>3. CASE ListPartly
    BY <2>3 DEF ListPartly, ListingOf
  <2>4. CASE ListFails
    BY <2>4 DEF ListFails, NothingListed, Listings, Core, KeptTypeOK
  <2> QED
    BY <2>1, <2>2, <2>3, <2>4 DEF Listing
<1> QED
  BY <1>1, <1>2, AfterListingKeeps

LEMMA GetCostCenterAgainKeeps ==
    ASSUME Core, GetCostCenterAgain PROVE Core'
<1>1. /\ stage = "costAgain" /\ stage' = "prices" /\ GoOn("prices") /\ form' = form
      /\ costDoc' \in FoundCost(user.cost)
      /\ UNCHANGED <<cachedUser, user, orgDoc, listing, fallback, hash, table>>
      /\ UNCHANGED <<up, down, dead, missing, session>>
  BY DEF GetCostCenterAgain, GoOn, windows, sessionVars
<1>2. /\ cachedUser \in Records /\ user.cost \in Costs
      /\ user.org = OrgOf[cachedUser] /\ hash = PairOf(cachedUser)
      /\ orgDoc = user.org /\ user.org \in up /\ CostOf[cachedUser] \in dead
  BY <1>1 DEF Core, UserInv, FoundInv, WorkTypeOK
<1>3. costDoc' \in {None, user.cost}
  BY <1>1, <1>2, FoundSeen DEF Core
<1>4. WorkTypeOK'
  BY <1>1, <1>2, <1>3 DEF Core, WorkTypeOK, Stages
<1>5. UserInv' /\ FoundInv' /\ RecoveryInv'
  BY <1>1, <1>2 DEF Core, UserInv, FoundInv, RecoveryInv, Sticky
<1>6. OutInv'
  BY <1>1, <1>2, <1>3 DEF OutInv, MayServe, Outgoing, PairOf
<1> QED
  BY <1>1, <1>4, <1>5, <1>6, GoOnKeeps

\* A transform that ends has nothing in hand.
LEMMA OverHands ==
    ASSUME Over
    PROVE  WorkTypeOK' /\ UserInv' /\ FoundInv' /\ RecoveryInv' /\ OutInv'
<1>1. stage' = "idle" /\ cachedUser' = None
  BY DEF Over
<1>2. WorkTypeOK'
  BY DEF Over, WorkTypeOK, Stages, Nobody, NoPair, NothingListed, Listings, PairsOrNone, Tables
<1> QED
  BY <1>1, <1>2 DEF UserInv, FoundInv, RecoveryInv, OutInv, Sticky, Outgoing

\* It failed: the session keeps everything.
LEMMA FailsKeeps ==
    ASSUME Core, rerun' = FALSE, Over, changes' \in 0 .. MaxChanges,
           UNCHANGED <<facts, windows, session, listed, cartVars>>
    PROVE  Core'
<1>1. /\ UNCHANGED <<usable, live, stale, present, choice, mode>>
      /\ UNCHANGED <<up, down, dead, missing, session, listed, hasCart, cart, elsewhere, spoilt>>
      /\ stage' = "idle"
  BY DEF facts, windows, cartVars, Over
<1>2. DirectoryTypeOK' /\ WindowInv'
  BY <1>1 DEF Core, DirectoryTypeOK, WindowInv
<1>3. SessionTypeOK' /\ KeptTypeOK' /\ SessionInv'
  BY <1>1 DEF Core, SessionTypeOK, KeptTypeOK, SessionInv, OneRecord
<1>4. CartInv'
  BY <1>1 DEF Core, CartInv, Pin
<1> QED
  BY <1>2, <1>3, <1>4, OverHands DEF Core

LEMMA AdoptKeeps ==
    ASSUME Core, stage \in {"candidate"} \cup Sticky, NEW r \in Records, OrgOf[r] \in up,
           (session.organization # None /\ PairOf(r) = Pin) \/ Doubt, Adopt(r)
    PROVE  Core'
<1>1. /\ GoOn("adopted") /\ stage' = "adopted" /\ form' = form
      /\ user' = [org |-> OrgOf[r], cost |-> CostOf[r], id |-> r]
      /\ orgDoc' = OrgOf[r] /\ hash' = PairOf(r) /\ fallback' = r
      /\ UNCHANGED <<cachedUser, costDoc, listing, table>>
      /\ UNCHANGED <<up, down, dead, missing, session>>
  BY DEF Adopt, GoOn, windows, sessionVars
<1>2. /\ stage \notin {"idle", "resolve"} /\ cachedUser # None
      /\ OrgOf[cachedUser] \in down
  BY DEF Core, UserInv, RecoveryInv, Sticky
<1>3. WorkTypeOK'
  BY <1>1, NoneIsNothing DEF Core, WorkTypeOK, Stages, PairOf, PairsOrNone
<1>4. UserInv' /\ FoundInv' /\ RecoveryInv'
  BY <1>1, <1>2, NoneIsNothing DEF UserInv, FoundInv, RecoveryInv, Sticky
<1>5. /\ user'.org = OrgOf[r] /\ user'.cost = CostOf[r]
      /\ <<user'.org, user'.cost>> = PairOf(r)
  BY <1>1 DEF PairOf
<1>6. MayServe'
  <2>1. Doubt => Doubt'
    BY <1>1, DoubtStays
  <2>2. CASE Doubt
    BY <1>1, <1>2, <1>5, <2>1, <2>2 DEF MayServe, PairOf
  <2>3. CASE session.organization # None /\ PairOf(r) = Pin
    BY <1>1, <1>2, <1>5, <2>3 DEF MayServe, Pin
  <2> QED
    BY <2>2, <2>3
<1>7. OutInv'
  BY <1>1, <1>5, <1>6 DEF OutInv, Outgoing, PairOf
<1> QED
  BY <1>1, <1>2, <1>3, <1>4, <1>7, GoOnKeeps

LEMMA RecoverKeeps ==
    ASSUME Core, stage \in {"candidate"} \cup Sticky, NEW r \in Records \cup {None},
           r # None => OrgOf[r] \in up,
           (session.organization # None /\ PairOf(r) = Pin) \/ Doubt, Recover(r)
    PROVE  Core'
<1>1. CASE r # None
  BY <1>1, AdoptKeeps DEF Recover
<1>2. CASE r = None
  BY <1>2, FailsKeeps DEF Recover, facts, world, Core, DirectoryTypeOK
<1> QED
  BY <1>1, <1>2

\* Nothing is in hand but what was, and another stage is reached.
LEMMA WorkStays ==
    ASSUME Core, NEW next \in Stages, GoOn(next), UNCHANGED workVars
    PROVE  WorkTypeOK' /\ UNCHANGED <<cachedUser, user, orgDoc, costDoc, listing, fallback, hash, table>>
BY DEF Core, WorkTypeOK, GoOn, workVars

LEMMA CandidateKeeps ==
    ASSUME Core, GetCandidate PROVE Core'
<1>1. stage = "candidate"
  BY DEF GetCandidate
<1>2. /\ cachedUser \in Records /\ user.org = OrgOf[cachedUser] /\ user.org \in down
      /\ listing.record \in Records \cup {None}
  BY <1>1 DEF Core, UserInv, RecoveryInv, WorkTypeOK, Listings
<1>3. PICK r \in Records \cup {None} : WithCandidate(r) /\ (r # None => OrgOf[r] \in up)
  <2>1. CASE WithCandidate(None)
    BY <2>1
  <2>2. CASE listing.record # None
    <3>1. PICK o \in FoundOrg(OrgOf[listing.record]) :
             WithCandidate(IF o # None THEN listing.record ELSE None)
      BY <2>2 DEF GetCandidate
    <3>2. o # None => OrgOf[listing.record] \in up
      BY <1>1, <1>2, <2>2, NoneIsNothing, FoundSeen DEF Core
    <3> QED
      BY <1>2, <3>1, <3>2
  <2> QED
    BY <2>1, <2>2 DEF GetCandidate
<1>4. CASE HasSticky
  <2>1. /\ GoOn("stickyOrg") /\ stage' = "stickyOrg" /\ form' = form /\ fallback' = r
        /\ UNCHANGED <<cachedUser, user, orgDoc, costDoc, listing, hash, table>>
        /\ UNCHANGED <<up, down, dead, missing, session>>
    BY <1>3, <1>4 DEF WithCandidate, GoOn, windows, sessionVars
  <2>2. WorkTypeOK'
    BY <2>1 DEF Core, WorkTypeOK, Stages
  <2>3. UserInv' /\ FoundInv' /\ OutInv'
    BY <1>1, <2>1 DEF Core, UserInv, FoundInv, OutInv, Sticky, Outgoing
  <2>4. RecoveryInv'
    BY <1>2, <1>3, <1>4, <2>1 DEF RecoveryInv, HasSticky, Sticky
  <2> QED
    BY <1>1, <2>1, <2>2, <2>3, <2>4, GoOnKeeps
<1>5. CASE ~HasSticky
  <2>1. Doubt
    BY <1>2, <1>5 DEF HasSticky, Doubt
  <2> QED
    BY <1>1, <1>3, <1>5, <2>1, RecoverKeeps DEF WithCandidate
<1> QED
  BY <1>4, <1>5

LEMMA StickyOrganizationKeeps ==
    ASSUME Core, GetStickyOrganization PROVE Core'
<1>1. stage = "stickyOrg" /\ stage \in Sticky
  BY DEF GetStickyOrganization, Sticky
<1>2. /\ session.organization \in Orgs /\ fallback \in Records \cup {None}
      /\ fallback # None => OrgOf[fallback] \in up
  BY <1>1 DEF Core, RecoveryInv, SessionTypeOK, WorkTypeOK
<1>3. PICK ok \in ReadsUsable(session.organization) :
         \/ ok /\ GoOn("stickyRecord") /\ UNCHANGED workVars
         \/ ~ok /\ Recover(fallback)
  BY DEF GetStickyOrganization
<1>4. ok \in BOOLEAN
  BY <1>2 DEF ReadsUsable, Core, DirectoryTypeOK
<1>5. /\ ok => session.organization \in up
      /\ ~ok => session.organization \in down
  BY <1>1, <1>2, <1>3, <1>4, ReadsSeen DEF Core
<1>6. CASE ok
  <2>1. GoOn("stickyRecord") /\ UNCHANGED workVars /\ "stickyRecord" \in Stages
    BY <1>3, <1>6 DEF Stages
  <2>2. /\ stage' = "stickyRecord"
        /\ UNCHANGED <<up, down, dead, missing, session>>
    BY <2>1 DEF GoOn, windows, sessionVars
  <2>3. WorkTypeOK' /\ UNCHANGED <<cachedUser, user, orgDoc, costDoc, listing, fallback, hash, table>>
    BY <2>1, WorkStays
  <2>4. UserInv' /\ FoundInv' /\ RecoveryInv' /\ OutInv'
    BY <1>1, <1>5, <1>6, <2>2, <2>3
    DEF Core, UserInv, FoundInv, RecoveryInv, OutInv, Sticky, Outgoing
  <2> QED
    BY <1>1, <2>1, <2>3, <2>4, GoOnKeeps
<1>7. CASE ~ok
  <2>1. Doubt
    BY <1>5, <1>7 DEF Doubt
  <2> QED
    BY <1>1, <1>2, <1>3, <1>7, <2>1, RecoverKeeps
<1> QED
  BY <1>4, <1>6, <1>7

LEMMA StickyRecordKeeps ==
    ASSUME Core, GetStickyRecord PROVE Core'
<1>1. stage = "stickyRecord" /\ stage \in Sticky
  BY DEF GetStickyRecord, Sticky
<1>2. /\ fallback \in Records \cup {None} /\ present \subseteq Records
      /\ fallback # None => OrgOf[fallback] \in up
  BY <1>1 DEF Core, RecoveryInv, WorkTypeOK, DirectoryTypeOK
<1>3. CASE \E r \in present : PairOf(r) = Pin
  <2>1. GoOn("stickyCost") /\ UNCHANGED workVars /\ "stickyCost" \in Stages
    BY <1>3 DEF GetStickyRecord, Stages
  <2>2. /\ stage' = "stickyCost" /\ Pin' = Pin
        /\ UNCHANGED <<up, down, dead, missing, session>>
    BY <2>1 DEF GoOn, windows, sessionVars, Pin
  <2>3. WorkTypeOK' /\ UNCHANGED <<cachedUser, user, orgDoc, costDoc, listing, fallback, hash, table>>
    BY <2>1, WorkStays
  <2>4. RecoveryInv'
    BY <1>1, <1>2, <1>3, <2>2, <2>3 DEF Core, RecoveryInv, Sticky
  <2>5. UserInv' /\ FoundInv' /\ OutInv'
    BY <1>1, <2>2, <2>3 DEF Core, UserInv, FoundInv, OutInv, Sticky, Outgoing
  <2> QED
    BY <1>1, <2>1, <2>3, <2>4, <2>5, GoOnKeeps
<1>4. CASE ~ \E r \in present : PairOf(r) = Pin
  <2>1. Records \ missing \subseteq present
    BY <1>1 DEF Core, WindowInv
  <2>2. Doubt
    BY <1>4, <2>1 DEF Doubt
  <2> QED
    BY <1>1, <1>2, <1>4, <2>2, RecoverKeeps DEF GetStickyRecord
<1> QED
  BY <1>3, <1>4

LEMMA StickyCostCenterKeeps ==
    ASSUME Core, GetStickyCostCenter PROVE Core'
<1>1. stage = "stickyCost" /\ stage \in Sticky
  BY DEF GetStickyCostCenter, Sticky
<1>2. /\ session.organization # None /\ session.organization \in up
      /\ fallback \in Records \cup {None}
      /\ fallback # None => OrgOf[fallback] \in up
      /\ \E r \in Records : PairOf(r) = Pin
  BY <1>1 DEF Core, RecoveryInv, WorkTypeOK
<1>3. session.costcenter \in Costs
  BY <1>2, NoneIsNothing DEF PairOf, Pin
<1>4. PICK valid \in ReadsLive(session.costcenter) :
         \/ valid /\ \E r \in Records : PairOf(r) = Pin /\ Recover(r)
         \/ ~valid /\ Recover(fallback)
  BY DEF GetStickyCostCenter
<1>5. valid \in BOOLEAN /\ (~valid => session.costcenter \in dead)
  <2>1. valid \in BOOLEAN
    BY <1>3 DEF ReadsLive, Core, DirectoryTypeOK
  <2> QED
    BY <1>1, <1>3, <1>4, <2>1, ReadsSeen DEF Core
<1>6. CASE valid
  <2>1. PICK r \in Records : PairOf(r) = Pin /\ Recover(r)
    BY <1>4, <1>6
  <2>2. OrgOf[r] \in up
    BY <1>2, <2>1 DEF PairOf, Pin
  <2> QED
    BY <1>1, <1>2, <2>1, <2>2, RecoverKeeps
<1>7. CASE ~valid
  <2>1. Doubt
    BY <1>5, <1>7 DEF Doubt
  <2> QED
    BY <1>1, <1>2, <1>4, <1>7, <2>1, RecoverKeeps
<1> QED
  BY <1>5, <1>6, <1>7

LEMMA AdoptedCostCenterKeeps ==
    ASSUME Core, GetAdoptedCostCenter PROVE Core'
<1>1. /\ stage = "adopted" /\ stage' = "prices" /\ GoOn("prices") /\ form' = form
      /\ costDoc' \in FoundCost(user.cost)
      /\ UNCHANGED <<cachedUser, user, orgDoc, listing, fallback, hash, table>>
      /\ UNCHANGED <<up, down, dead, missing, session>>
  BY DEF GetAdoptedCostCenter, GoOn, windows, sessionVars
<1>2. user.cost \in Costs
  BY <1>1 DEF Core, UserInv
<1>3. costDoc' \in {None, user.cost}
  BY <1>1, <1>2, FoundSeen DEF Core
<1>4. WorkTypeOK'
  BY <1>1, <1>2, <1>3 DEF Core, WorkTypeOK, Stages
<1>5. UserInv' /\ FoundInv' /\ RecoveryInv'
  BY <1>1, <1>2 DEF Core, UserInv, FoundInv, RecoveryInv, Sticky
<1>6. MayServe'
  BY <1>1, MayServeStays DEF Core, OutInv, Outgoing
<1>7. OutInv'
  BY <1>1, <1>3, <1>6 DEF Core, OutInv, Outgoing
<1> QED
  BY <1>1, <1>4, <1>5, <1>7, GoOnKeeps

\* The price tables are the document's, or the organization's.
LEMMA TablesFound ==
    ASSUME Core, GetPrices
    PROVE  /\ table' \in Tables
           /\ \/ table' = NoPair
              \/ table' = <<orgDoc, None>>
              \/ table' = <<orgDoc, user.id>>
<1>1. /\ stage = "prices" /\ orgDoc \in Orgs \cup {None}
      /\ \/ table' = TableInHand
         \/ table' = <<orgDoc, None>>
  BY DEF GetPrices, Core, WorkTypeOK
<1>2. user.id \in Records
  BY <1>1 DEF Core, UserInv
<1>3. table' \in {NoPair, <<orgDoc, None>>, <<orgDoc, user.id>>}
  BY <1>1 DEF TableInHand
<1> QED
  BY <1>1, <1>2, <1>3 DEF Tables, NoPair

LEMMA PricesKeeps ==
    ASSUME Core, GetPrices PROVE Core'
<1> DEFINE next == IF HashChanged /\ form /\ ClearCart THEN "clear" ELSE "respond"
<1>1. /\ UNCHANGED <<usable, live, stale, present, choice, mode>>
      /\ UNCHANGED <<up, down, dead, missing, session, rerun, listed, hasCart, cart, elsewhere, spoilt>>
      /\ UNCHANGED <<form, cachedUser, user, orgDoc, costDoc, listing, fallback, hash>>
      /\ stage = "prices" /\ stage' = next
  BY DEF GetPrices, facts, windows, sessionVars, cartVars
<1>2. changes' \in 0 .. MaxChanges
  BY Disturbed DEF GetPrices, Core, DirectoryTypeOK
<1>3. next \in {"clear", "respond"} /\ (next = "respond" => ~(HashChanged /\ form /\ ClearCart))
  OBVIOUS
<1> HIDE DEF next
<1>4. WorkTypeOK'
  BY <1>1, <1>3, TablesFound DEF Core, WorkTypeOK, Stages
<1>5. UserInv' /\ FoundInv' /\ RecoveryInv'
  BY <1>1, <1>3 DEF Core, UserInv, FoundInv, RecoveryInv, Sticky
<1>6. MayServe'
  BY <1>1, MayServeStays DEF Core, OutInv, Outgoing
<1>7. TableFits'
  <2>1. orgDoc = OrgOf[user.id] /\ orgDoc' = orgDoc
    BY <1>1 DEF Core, UserInv, OutInv, Outgoing
  <2> QED
    BY <2>1, TablesFound DEF TableFits
<1>8. OutInv'
  BY <1>1, <1>3, <1>6, <1>7 DEF Core, OutInv, Outgoing
<1>9. CartInv'
  BY <1>1, <1>3 DEF Core, CartInv, HashChanged, Pin
<1>10. DirectoryTypeOK' /\ WindowInv'
  BY <1>1, <1>2, <1>3 DEF Core, DirectoryTypeOK, WindowInv
<1>11. SessionTypeOK' /\ KeptTypeOK' /\ SessionInv'
  BY <1>1 DEF Core, SessionTypeOK, KeptTypeOK, SessionInv, OneRecord
<1> QED
  BY <1>4, <1>5, <1>8, <1>9, <1>10, <1>11 DEF Core

------------------------------------------------------------------------------
(***************************************************************************)
(* The cart, the listing that is forgotten, and a transform that begins.   *)
(***************************************************************************)
\* Only the cart, the caches and the bound of the world have moved, or the
\* transform has gone from clearing the cart to its response.
LEMMA CartStepKeeps ==
    ASSUME Core, UNCHANGED <<facts, windows, sessionVars, workVars>>,
           changes' \in 0 .. MaxChanges, KeptTypeOK', CartInv',
           stage' = stage \/ (stage = "clear" /\ stage' = "respond")
    PROVE  Core'
<1>1. /\ UNCHANGED <<usable, live, stale, present, choice, mode>>
      /\ UNCHANGED <<up, down, dead, missing, session, rerun>>
      /\ UNCHANGED <<form, cachedUser, user, orgDoc, costDoc, listing, fallback, hash, table>>
  BY DEF facts, windows, sessionVars, workVars
<1>2. DirectoryTypeOK' /\ WindowInv'
  BY <1>1 DEF Core, DirectoryTypeOK, WindowInv
<1>3. SessionTypeOK' /\ SessionInv'
  BY <1>1 DEF Core, SessionTypeOK, SessionInv, OneRecord
<1>4. WorkTypeOK' /\ UserInv' /\ FoundInv' /\ RecoveryInv'
  BY <1>1 DEF Core, WorkTypeOK, Stages, UserInv, FoundInv, RecoveryInv, Sticky, Pin
<1>5. MayServe => MayServe'
  BY <1>1, MayServeStays
<1>6. OutInv'
  BY <1>1, <1>5 DEF Core, OutInv, TableFits, Outgoing
<1> QED
  BY <1>2, <1>3, <1>4, <1>6 DEF Core

LEMMA CartKeeps ==
    ASSUME Core, CartCleared \/ CartNotCleared \/ AddItem \/ OverwriteChanges \/ ListExpires
    PROVE  Core'
<1>1. CASE CartCleared
  <2>1. KeptTypeOK' /\ CartInv'
    BY <1>1 DEF CartCleared, Core, KeptTypeOK, CartInv
  <2> QED
    BY <1>1, <2>1, CartStepKeeps DEF CartCleared, world, facts, Core, DirectoryTypeOK
<1>2. CASE CartNotCleared
  <2>1. /\ spoilt' = (cart # None) /\ UNCHANGED <<listed, hasCart, cart, elsewhere>>
        /\ changes' \in 0 .. MaxChanges
    BY <1>2, Disturbed DEF CartNotCleared, Core
  <2>2. spoilt' \in BOOLEAN /\ (cart' # None => spoilt')
    BY <2>1
  <2>3. KeptTypeOK'
    BY <2>1, <2>2 DEF Core, KeptTypeOK
  <2>4. CartInv'
    BY <2>1, <2>2 DEF Core, CartInv
  <2> QED
    BY <1>2, <2>1, <2>3, <2>4, CartStepKeeps DEF CartNotCleared
<1>3. CASE AddItem
  <2>1. /\ cart = None /\ hasCart' = TRUE /\ cart' = Pin
        /\ spoilt' = (stage = "respond" \/ (stage # "idle" /\ ~form))
        /\ UNCHANGED <<stage, listed, elsewhere>>
        /\ changes' \in 0 .. MaxChanges
    BY <1>3, Disturbed DEF AddItem, Core
  <2>2. UNCHANGED <<session, form, hash>>
    BY <1>3 DEF AddItem, sessionVars, workVars
  <2>3. Pin \in PairsOrNone
    BY DEF Core, SessionTypeOK, Pin, PairsOrNone
  <2>4. spoilt' \in BOOLEAN
    BY <2>1
  <2>5. KeptTypeOK'
    BY <2>1, <2>3, <2>4 DEF Core, KeptTypeOK
  <2>6. CartInv'
    BY <2>1, <2>2 DEF CartInv, Pin
  <2> QED
    BY <1>3, <2>1, <2>5, <2>6, CartStepKeeps DEF AddItem
<1>4. CASE ListExpires
  <2>1. KeptTypeOK' /\ CartInv'
    BY <1>4 DEF ListExpires, sessionVars, workVars, cartVars, Core, KeptTypeOK, CartInv, Pin
  <2> QED
    BY <1>4, <2>1, CartStepKeeps DEF ListExpires, world, facts, Core, DirectoryTypeOK
<1>5. CASE OverwriteChanges
  <2>1. /\ elsewhere' = ~elsewhere /\ UNCHANGED <<stage, listed, hasCart, cart, spoilt>>
        /\ UNCHANGED <<session, form, hash>>
        /\ changes' \in 0 .. MaxChanges
    BY <1>5, Disturbed DEF OverwriteChanges, Core, sessionVars, workVars
  <2>2. elsewhere' \in BOOLEAN
    BY <2>1
  <2>3. KeptTypeOK'
    BY <2>1, <2>2 DEF Core, KeptTypeOK
  <2>4. CartInv'
    BY <2>1 DEF Core, CartInv, Pin
  <2> QED
    BY <1>5, <2>1, <2>3, <2>4, CartStepKeeps DEF OverwriteChanges
<1> QED
  BY <1>1, <1>2, <1>3, <1>4, <1>5

LEMMA StartKeeps ==
    ASSUME Core, Start PROVE Core'
<1>1. /\ UNCHANGED <<usable, live, stale, present, choice, mode, changes, session, rerun>>
      /\ UNCHANGED <<cachedUser, user, orgDoc, costDoc, listing, fallback, hash, table>>
      /\ UNCHANGED <<listed, hasCart, cart, elsewhere, spoilt>>
      /\ stage = "idle" /\ stage' = "resolve" /\ form' = hasCart
      /\ WindowsOpen
  BY DEF Start, world, sessionVars, cartVars
<1>2. DirectoryTypeOK'
  BY <1>1 DEF Core, DirectoryTypeOK, WindowsOpen
<1>3. WindowInv'
  BY <1>1 DEF Core, WindowInv, WindowsOpen
<1>4. SessionTypeOK' /\ KeptTypeOK' /\ SessionInv'
  BY <1>1 DEF Core, SessionTypeOK, KeptTypeOK, SessionInv, OneRecord
<1>5. WorkTypeOK'
  BY <1>1 DEF Core, WorkTypeOK, KeptTypeOK, Stages
<1>6. UserInv' /\ FoundInv' /\ RecoveryInv' /\ OutInv'
  BY <1>1 DEF Core, UserInv, FoundInv, RecoveryInv, OutInv, Sticky, Outgoing
<1>7. CartInv'
  BY <1>1 DEF Core, CartInv, Pin
<1> QED
  BY <1>2, <1>3, <1>4, <1>5, <1>6, <1>7 DEF Core

------------------------------------------------------------------------------
(***************************************************************************)
(* What the Session Manager writes.                                        *)
(***************************************************************************)
Fields == {"organization", "costcenter", "hash", "facets", "sc", "regionId", "prices"}

SessionShape == [organization : Orgs \cup {None}, costcenter : Costs \cup {None},
                 hash : PairsOrNone, facets : PairsOrNone,
                 sc : Orgs \cup {None}, regionId : PairsOrNone, prices : Tables]

\* A response that is omitted where it is unchanged is written all the same,
\* except facets, a sales channel or a region that are empty.
LEMMA WrittenInFull ==
    ASSUME Core, NEW resp \in SessionShape, Answer(OmitUnchanged(resp))
    PROVE  /\ session' \in SessionShape /\ rerun' \in BOOLEAN
           /\ session'.organization = resp.organization
           /\ session'.costcenter = resp.costcenter
           /\ session'.hash = resp.hash
           /\ session'.prices = resp.prices
           /\ session'.facets = IF resp.facets = NoPair THEN session.facets ELSE resp.facets
           /\ session'.sc = IF resp.sc = None THEN session.sc ELSE resp.sc
           /\ session'.regionId =
                 IF resp.regionId = NoPair THEN session.regionId ELSE resp.regionId
<1> DEFINE out == OmitUnchanged(resp)
<1>1. DOMAIN session = Fields /\ DOMAIN resp = Fields
  BY DEF Core, SessionTypeOK, SessionShape, Fields
<1>2. /\ session' = [f \in Fields |-> IF f \in DOMAIN out THEN out[f] ELSE session[f]]
      /\ rerun' = (DOMAIN out \cap Inputs # {})
  BY <1>1 DEF Answer
<1>3. /\ DOMAIN out = {f \in Fields : f = "prices" \/ resp[f] # Received(f)}
      /\ \A f \in DOMAIN out : out[f] = resp[f]
  BY <1>1 DEF OmitUnchanged
<1> HIDE DEF out
<1>4. \A f \in Fields :
         session'[f] = IF f = "prices" \/ resp[f] # Received(f) THEN resp[f] ELSE session[f]
  BY <1>2, <1>3
<1>5. /\ Received("organization") = session["organization"]
      /\ Received("costcenter") = session["costcenter"]
      /\ Received("hash") = session["hash"]
      /\ Received("facets") = NoPair
      /\ Received("sc") = None /\ Received("regionId") = NoPair
  BY DEF Received, Inputs, EmptySession
<1>6. /\ session'["organization"] = resp["organization"]
      /\ session'["costcenter"] = resp["costcenter"]
      /\ session'["hash"] = resp["hash"]
      /\ session'["prices"] = resp["prices"]
      /\ session'["facets"] = IF resp["facets"] = NoPair THEN session["facets"] ELSE resp["facets"]
      /\ session'["sc"] = IF resp["sc"] = None THEN session["sc"] ELSE resp["sc"]
      /\ session'["regionId"] =
            IF resp["regionId"] = NoPair THEN session["regionId"] ELSE resp["regionId"]
  BY <1>4, <1>5 DEF Fields
<1>7. session \in SessionShape
  BY DEF Core, SessionTypeOK, SessionShape
<1>8. session' \in SessionShape
  <2>1. session' = [organization |-> session'["organization"],
                    costcenter |-> session'["costcenter"], hash |-> session'["hash"],
                    facets |-> session'["facets"], sc |-> session'["sc"],
                    regionId |-> session'["regionId"], prices |-> session'["prices"]]
    BY <1>2 DEF Fields
  <2> QED
    BY <1>6, <1>7, <2>1 DEF SessionShape
<1>9. rerun' \in BOOLEAN
  BY <1>2
<1> QED
  BY <1>6, <1>8, <1>9

\* The response of a transform that resolved nobody empties the price table.
LEMMA WrittenUnresolved ==
    ASSUME Core, Answer(OmitUnchanged(NoPinFields))
    PROVE  /\ session' \in SessionShape /\ rerun' \in BOOLEAN
           /\ session'.organization = session.organization
           /\ session'.costcenter = session.costcenter
           /\ session'.hash = session.hash
           /\ session'.facets = session.facets
           /\ session'.prices = NoPair
<1> DEFINE out == OmitUnchanged(NoPinFields)
<1>1. /\ DOMAIN session = Fields
      /\ DOMAIN NoPinFields = {"facets", "sc", "regionId", "prices"}
      /\ NoPinFields["facets"] = NoPair /\ NoPinFields["prices"] = NoPair
      /\ NoPinFields["sc"] = None /\ NoPinFields["regionId"] = NoPair
  BY DEF Core, SessionTypeOK, Fields, NoPinFields, EmptySession
<1>2. Received("facets") = NoPair /\ Received("sc") = None /\ Received("regionId") = NoPair
  BY DEF Received, Inputs, EmptySession
<1>3. /\ DOMAIN out = {f \in {"facets", "sc", "regionId", "prices"} :
                            f = "prices" \/ NoPinFields[f] # Received(f)}
      /\ \A f \in DOMAIN out : out[f] = NoPinFields[f]
  BY <1>1 DEF OmitUnchanged
<1>4. DOMAIN out = {"prices"} /\ out["prices"] = NoPair
  BY <1>1, <1>2, <1>3
<1>5. /\ session' = [f \in Fields |-> IF f \in DOMAIN out THEN out[f] ELSE session[f]]
      /\ rerun' = (DOMAIN out \cap Inputs # {})
  BY <1>1 DEF Answer
<1> HIDE DEF out
<1>6. /\ session'["organization"] = session["organization"]
      /\ session'["costcenter"] = session["costcenter"]
      /\ session'["hash"] = session["hash"]
      /\ session'["facets"] = session["facets"]
      /\ session'["sc"] = session["sc"]
      /\ session'["regionId"] = session["regionId"]
      /\ session'["prices"] = NoPair
  BY <1>4, <1>5 DEF Fields
<1>7. session \in SessionShape
  BY DEF Core, SessionTypeOK, SessionShape
<1>8. session' \in SessionShape
  <2>1. session' = [organization |-> session'["organization"],
                    costcenter |-> session'["costcenter"], hash |-> session'["hash"],
                    facets |-> session'["facets"], sc |-> session'["sc"],
                    regionId |-> session'["regionId"], prices |-> session'["prices"]]
    BY <1>5 DEF Fields
  <2> QED
    BY <1>6, <1>7, <2>1 DEF SessionShape, Tables, NoPair
<1>9. rerun' \in BOOLEAN
  BY <1>5
<1> QED
  BY <1>6, <1>8, <1>9

\* A transform that ends leaves the session whole.
LEMMA EndKeeps ==
    ASSUME Core, Over, UNCHANGED <<facts, windows, listed>>, changes' \in 0 .. MaxChanges,
           session' \in SessionShape, rerun' \in BOOLEAN,
           SessionInv', KeptTypeOK', CartInv'
    PROVE  Core'
<1>1. /\ UNCHANGED <<usable, live, stale, present, choice, mode>>
      /\ UNCHANGED <<up, down, dead, missing>>
      /\ stage' = "idle"
  BY DEF facts, windows, Over
<1>2. DirectoryTypeOK' /\ WindowInv'
  BY <1>1 DEF Core, DirectoryTypeOK, WindowInv
<1>3. SessionTypeOK'
  BY DEF SessionTypeOK, SessionShape
<1> QED
  BY <1>2, <1>3, OverHands DEF Core

LEMMA OptedOutKeeps ==
    ASSUME Core, OptedOut
    PROVE  Core' /\ session'.organization = None
<1>1. EmptySession \in SessionShape /\ NoPair \in PairsOrNone
  BY DEF EmptySession, SessionShape, NoPair, PairsOrNone, Tables
<1>2. /\ Over /\ stage' = "idle"
      /\ UNCHANGED <<facts, windows, changes, listed, hasCart, cart, elsewhere, spoilt>>
  BY DEF OptedOut, Over, world, facts, cartVars
<1>3. /\ session' \in SessionShape /\ rerun' \in BOOLEAN
      /\ session'.organization = None /\ session'.hash = NoPair
  <2>1. CASE Answer(OmitUnchanged(EmptySession))
    BY <1>1, <2>1, WrittenInFull DEF EmptySession
  <2>2. CASE Answer(EmptySession)
    <3>1. DOMAIN session = Fields /\ DOMAIN EmptySession = Fields
      BY DEF Core, SessionTypeOK, EmptySession, Fields
    <3>2. session' = [f \in Fields |-> EmptySession[f]]
      BY <2>2, <3>1 DEF Answer
    <3>3. session' = EmptySession
      BY <3>1, <3>2 DEF EmptySession
    <3> QED
      BY <1>1, <2>2, <3>3 DEF Answer, EmptySession
  <2> QED
    BY <2>1, <2>2 DEF OptedOut
<1>4. SessionInv'
  BY <1>3 DEF SessionInv, OneRecord
<1>5. KeptTypeOK' /\ CartInv'
  BY <1>2, <1>3 DEF Core, KeptTypeOK, CartInv
<1> QED
  BY <1>2, <1>3, <1>4, <1>5, EndKeeps DEF Core, DirectoryTypeOK

LEMMA UnresolvedKeeps ==
    ASSUME Core, Unresolved
    PROVE  Core' /\ session'.organization = session.organization
                 /\ session'.costcenter = session.costcenter
<1>1. /\ Over /\ stage' = "idle" /\ UNCHANGED <<facts, windows, listed, hasCart, cart, elsewhere, spoilt>>
  BY DEF Unresolved, Over, cartVars
<1>2. changes' \in 0 .. MaxChanges
  BY Disturbed DEF Unresolved, Core, DirectoryTypeOK
<1>3. /\ session' \in SessionShape /\ rerun' \in BOOLEAN
      /\ session'.organization = session.organization
      /\ session'.costcenter = session.costcenter
      /\ session'.hash = session.hash
      /\ session'.facets = session.facets
      /\ session'.prices = NoPair
  BY WrittenUnresolved DEF Unresolved
<1>4. SessionInv'
  BY <1>3 DEF Core, SessionInv, OneRecord
<1>5. KeptTypeOK' /\ CartInv'
  BY <1>1, <1>3 DEF Core, KeptTypeOK, CartInv, Pin
<1> QED
  BY <1>1, <1>2, <1>3, <1>4, <1>5, EndKeeps

\* What a transform answers: the region is the one looked up, or none.
LEMMA ResponseShaped ==
    ASSUME Core, NEW region \in {Region, NoPair}
    PROVE  Response(region) \in SessionShape
<1>1. /\ user.org \in Orgs \cup {None} /\ user.cost \in Costs \cup {None}
      /\ orgDoc \in Orgs \cup {None} /\ costDoc \in Costs \cup {None}
      /\ hash \in PairsOrNone /\ table \in Tables
  BY DEF Core, WorkTypeOK
<1>2. <<orgDoc, costDoc>> \in PairsOrNone /\ SalesChannel \in Orgs \cup {None}
  BY <1>1 DEF PairsOrNone, SalesChannel
<1>3. region \in PairsOrNone
  BY <1>2 DEF Region, NoPair, PairsOrNone
<1> QED
  BY <1>1, <1>2, <1>3 DEF Response, SessionShape

LEMMA RespondKeeps ==
    ASSUME Core, Respond
    PROVE  Core' /\ session'.organization = user.org /\ session'.costcenter = user.cost
<1>1. /\ stage = "respond" /\ Over /\ stage' = "idle"
      /\ spoilt' = (spoilt \/ (CostReplaced /\ cart # None))
      /\ UNCHANGED <<facts, windows, listed, hasCart, cart, elsewhere>>
      /\ changes' \in 0 .. MaxChanges
  BY Disturbed DEF Respond, Over, Core, DirectoryTypeOK
<1>2. /\ user.org \in Orgs /\ user.cost \in Costs /\ user.id \in Records
      /\ user.org = OrgOf[user.id]
      /\ orgDoc = user.org /\ costDoc \in {None, user.cost}
      /\ hash \in PairsOrNone /\ hash[1] = user.org /\ TableFits
  BY <1>1 DEF Core, UserInv, OutInv, Outgoing, WorkTypeOK
<1>3. PICK region \in {Region, NoPair} : Answer(OmitUnchanged(Response(region)))
  BY DEF Respond
<1>4. /\ Response(region).organization = user.org /\ Response(region).costcenter = user.cost
      /\ Response(region).hash = hash /\ Response(region).prices = table
      /\ Response(region).facets = <<orgDoc, costDoc>>
  BY DEF Response
<1>5. <<orgDoc, costDoc>> # NoPair
  BY <1>2, NoneIsNothing DEF NoPair
<1>6. /\ session' \in SessionShape /\ rerun' \in BOOLEAN
      /\ session'.organization = user.org /\ session'.costcenter = user.cost
      /\ session'.hash = hash /\ session'.prices = table
      /\ session'.facets = <<orgDoc, costDoc>>
  BY <1>3, <1>4, <1>5, ResponseShaped, WrittenInFull
<1>7. SessionInv'
  BY <1>2, <1>6, NoneIsNothing DEF SessionInv, OneRecord, TableFits
<1>8. spoilt' \in BOOLEAN
  BY <1>1, Zenon DEF Core, KeptTypeOK
<1>9. KeptTypeOK'
  BY <1>1, <1>8 DEF Core, KeptTypeOK
<1>10. ASSUME ClearCart, ~spoilt', cart # None PROVE cart = <<user.org, user.cost>>
  <2>1. ~spoilt /\ ~CostReplaced
    BY <1>1, <1>10
  <2>2. /\ session.hash = hash
        /\ session.organization # None => cart = Pin
    BY <1>1, <1>10, <2>1 DEF Core, CartInv
  <2>3. session.organization # None
    BY <1>2, <2>2, NoneIsNothing DEF Core, SessionInv, NoPair
  <2>4. session.organization = user.org
    BY <1>2, <2>2, <2>3 DEF Core, SessionInv, OneRecord
  <2>5. user.cost = session.costcenter
    BY <2>1, <2>2, <2>4 DEF CostReplaced, HashChanged
  <2> QED
    BY <2>2, <2>3, <2>4, <2>5 DEF Pin
<1>11. CartInv'
  BY <1>1, <1>6, <1>10 DEF Core, CartInv, Pin
<1> QED
  BY <1>1, <1>6, <1>7, <1>9, <1>11, EndKeeps

LEMMA StepKeeps ==
    ASSUME Core, Step PROVE Core'
<1>1. CASE Fails
  <2>1. changes' \in 0 .. MaxChanges
    BY <1>1, Disturbed DEF Fails, Core
  <2> QED
    BY <1>1, <2>1, FailsKeeps DEF Fails
<1>2. CASE Recovery
  BY <1>2, CandidateKeeps, StickyOrganizationKeeps, StickyRecordKeeps, StickyCostCenterKeeps,
     AdoptedCostCenterKeeps DEF Recovery
<1>3. CASE Transforming
  BY <1>1, <1>2, <1>3, OptedOutKeeps, ResolveKeeps, UnresolvedKeeps, GetDocumentsKeeps,
     ListingKeeps, GetCostCenterAgainKeeps, PricesKeeps, CartKeeps, RespondKeeps
  DEF Transforming
<1> QED
  BY <1>3, StartKeeps, WorldKeeps, CartKeeps DEF Step

LEMMA ProfileNext == ProfileInv /\ [Next]_vars => ProfileInv'
<1> SUFFICES ASSUME Core, passes \in 0 .. 2, [Next]_vars PROVE Core' /\ passes' \in 0 .. 2
  BY DEF ProfileInv
<1>1. CASE Next
  BY <1>1, StepKeeps, PassesTyped DEF Next
<1>2. CASE UNCHANGED vars
  <2>1. /\ UNCHANGED <<usable, live, stale, present, choice, mode, changes>>
        /\ UNCHANGED <<up, down, dead, missing, session, rerun, stage, passes>>
        /\ UNCHANGED <<form, cachedUser, user, orgDoc, costDoc, listing, fallback, hash, table>>
        /\ UNCHANGED <<listed, hasCart, cart, elsewhere, spoilt>>
    BY <1>2 DEF vars, world, windows, sessionVars, workVars, cartVars
  <2>2. DirectoryTypeOK' /\ WindowInv' /\ SessionTypeOK' /\ WorkTypeOK' /\ KeptTypeOK'
    BY <2>1 DEF Core, DirectoryTypeOK, WindowInv, SessionTypeOK, WorkTypeOK, KeptTypeOK
  <2>3. UserInv' /\ FoundInv' /\ RecoveryInv' /\ SessionInv' /\ CartInv'
    BY <2>1 DEF Core, UserInv, FoundInv, RecoveryInv, SessionInv, OneRecord, CartInv, Pin
  <2>4. OutInv'
    BY <2>1, MayServeStays DEF Core, OutInv, TableFits
  <2> QED
    BY <2>1, <2>2, <2>3, <2>4 DEF Core
<1> QED
  BY <1>1, <1>2

------------------------------------------------------------------------------
(***************************************************************************)
(* What follows of every session.                                          *)
(***************************************************************************)
LEMMA ProfileHolds == ProfileInv => ProfileTypeOK /\ OneRecord /\ CartFollowsPair
<1> SUFFICES ASSUME Core, passes \in 0 .. 2 PROVE ProfileTypeOK /\ OneRecord /\ CartFollowsPair
  BY DEF ProfileInv
<1>1. /\ stage \notin {"idle", "resolve"} => user.org # None /\ user.cost # None
      /\ stage \in {"adopted", "prices", "clear", "respond"} => orgDoc = user.org
  BY NoneIsNothing DEF Core, UserInv, OutInv, Outgoing
<1>2. ProfileTypeOK
  BY <1>1 DEF Core, ProfileTypeOK, SessionTypeOK, WorkTypeOK, KeptTypeOK
<1>3. OneRecord /\ CartFollowsPair
  BY DEF Core, SessionInv, CartInv, CartFollowsPair
<1> QED
  BY <1>2, <1>3

\* Every variable of SetProfile keeps its type; past the lookup a transform has
\* an organization and a cost center, and the document of the one it serves.
THEOREM ProfileTypeCorrect == Spec => []ProfileTypeOK
BY ProfileInit, ProfileNext, ProfileHolds, PTL DEF Spec

\* setProfile: facets, price tables and hash of a session are of the organization it
\* names, and the facets of its cost center, whatever was recovered or omitted.
THEOREM FieldsBelongTogether == Spec => []OneRecord
BY ProfileInit, ProfileNext, ProfileHolds, PTL DEF Spec

\* The cart of a shopper who is moved does not come along, but for what
\* `spoilt` records.
THEOREM CartStays == Spec => []CartFollowsPair
BY ProfileInit, ProfileNext, ProfileHolds, PTL DEF Spec

------------------------------------------------------------------------------
(***************************************************************************)
(* Every transform is one of ServedPair.                                   *)
(***************************************************************************)
Held == IF session.organization = None THEN None ELSE Pin

pairView == <<world, windows, Held, cachedUser, stage # "idle">>

LEMMA PairInit == Init => Pair!Init
BY DEF Init, EmptySession, DirectoryInit, Pair!Init, Pair!DirectoryInit

LEMMA PairWorld ==
    ASSUME WorldChanges PROVE Pair!WorldChanges
BY DEF WorldChanges, OrgChanges, CostGoes, CacheExpires, RecordGoes, ChoiceChanges, ModeChanges,
       Disturb, windows,
       Pair!WorldChanges, Pair!OrgChanges, Pair!CostGoes, Pair!CacheExpires, Pair!RecordGoes,
       Pair!ChoiceChanges, Pair!ModeChanges, Pair!Disturb, Pair!windows

\* The variables of ServedPair stay as they are.
LEMMA PairVarsStay ==
    ASSUME Held' = Held, UNCHANGED cachedUser, stage # "idle" <=> stage' # "idle"
    PROVE  UNCHANGED Pair!pairVars
<1>1. (stage # "idle") = (stage' # "idle")
  OBVIOUS
<1> QED
  BY <1>1 DEF Held, Pair!pairVars

LEMMA HeldStays ==
    ASSUME UNCHANGED session PROVE Held' = Held
BY DEF Held, Pin

LEMMA PairStutters ==
    ASSUME UNCHANGED <<world, windows, session, cachedUser>>, stage # "idle" <=> stage' # "idle"
    PROVE  UNCHANGED <<Pair!world, Pair!windows, Pair!pairVars>>
<1>1. UNCHANGED Pair!pairVars
  BY PairVarsStay, HeldStays
<1> QED
  BY <1>1 DEF world, windows, Pair!world, Pair!windows

LEMMA PairHiccups ==
    ASSUME Disturb, UNCHANGED <<facts, windows, session, cachedUser>>,
           stage # "idle" <=> stage' # "idle"
    PROVE  Pair!Next
<1>1. UNCHANGED Pair!pairVars
  BY PairVarsStay, HeldStays
<1>2. Pair!Hiccup
  BY <1>1 DEF Disturb, facts, windows, Pair!Hiccup, Pair!Disturb, Pair!windows
<1> QED
  BY <1>2 DEF Pair!Next

LEMMA PairKeeps ==
    ASSUME stage # "idle", Over, changes' \in {changes, changes + 1},
           UNCHANGED <<facts, windows>>, Held' = Held
    PROVE  Pair!Next
<1>1. Pair!Keep
  BY DEF Over, Held, Pair!Keep
<1>2. Pair!End
  BY <1>1 DEF facts, windows, Pair!End, Pair!windows
<1> QED
  BY <1>2 DEF Pair!Next

LEMMA PairBegins ==
    ASSUME Start PROVE Pair!Next
<1>1. Pair!Begin
  BY HeldStays
  DEF Start, WindowsOpen, world, sessionVars, Held, Pair!Begin, Pair!WindowsOpen, Pair!world
<1> QED
  BY <1>1 DEF Pair!Next

LEMMA PairResolves ==
    ASSUME Core, Resolve PROVE Pair!Next
<1>1. /\ stage = "resolve" /\ stage' = "documents" /\ choice # None /\ cachedUser' = choice
      /\ UNCHANGED <<world, windows, session>>
  BY DEF Resolve, GoOn, sessionVars
<1>2. cachedUser = None
  BY <1>1 DEF Core, UserInv
<1>3. (stage # "idle") = (stage' # "idle")
  BY <1>1
<1>4. Pair!Resolve
  BY <1>1, <1>2, <1>3, HeldStays
  DEF world, windows, Held, Pair!Resolve, Pair!world, Pair!windows
<1> QED
  BY <1>4 DEF Pair!Next

LEMMA PairLeaves ==
    ASSUME Core, OptedOut PROVE Pair!Next
<1>1. /\ stage = "resolve" /\ mode # "on" /\ Over
      /\ UNCHANGED <<facts, changes, windows>>
  BY DEF OptedOut, world, facts
<1>2. session'.organization = None
  BY OptedOutKeeps
<1>3. Pair!Leave
  BY <1>1, <1>2 DEF Over, Pair!Leave
<1>4. Pair!End
  BY <1>1, <1>3 DEF facts, windows, Pair!End, Pair!windows
<1> QED
  BY <1>4 DEF Pair!Next

\* The response of a transform is one ServedPair allows.
LEMMA PairServes ==
    ASSUME Core, Respond PROVE Pair!Next
<1> DEFINE pair == <<user.org, user.cost>>
<1>1. /\ stage = "respond" /\ Over /\ UNCHANGED <<facts, windows>>
      /\ changes' \in {changes, changes + 1}
  BY DEF Respond, Disturb
<1>2. /\ cachedUser # None /\ user.org \in Orgs /\ user.cost \in Costs
      /\ user.org \in up /\ MayServe
  BY <1>1 DEF Core, UserInv, OutInv, Outgoing
<1>3. session'.organization = user.org /\ session'.costcenter = user.cost
  BY RespondKeeps
<1>4. Held' = pair
  BY <1>2, <1>3, NoneIsNothing DEF Held, Pin
<1>5. pair \in Pair!Pairs /\ pair[1] = user.org
  BY <1>2 DEF Pair!Pairs
<1>6. \A r : Pair!PairOf(r) = PairOf(r)
  BY DEF PairOf, Pair!PairOf
<1>7. Doubt => (Held # None => ~Pair!Sound(Held))
  <2>1. CASE session.organization = None
    BY <2>1 DEF Held
  <2>2. CASE session.organization # None
    <3>1. Held = Pin /\ Pin[1] = session.organization /\ Pin[2] = session.costcenter
      BY <2>2 DEF Held, Pin
    <3>2. Doubt => ~Pair!Sound(Pin)
      BY <1>6, <2>2, <3>1 DEF Doubt, Pair!Sound
    <3> QED
      BY <3>1, <3>2
  <2> QED
    BY <2>1, <2>2
<1>8. \/ pair = Pair!PairOf(cachedUser)
      \/ pair[1] = OrgOf[cachedUser] /\ CostOf[cachedUser] \in dead
      \/ OrgOf[cachedUser] \in down /\ pair = Held
      \/ /\ OrgOf[cachedUser] \in down
         /\ Held # None => ~Pair!Sound(Held)
         /\ \E r \in Records : pair = Pair!PairOf(r)
  <2>1. CASE user.org = OrgOf[cachedUser] /\ user.cost = CostOf[cachedUser]
    BY <2>1 DEF Pair!PairOf
  <2>2. CASE user.org = OrgOf[cachedUser] /\ CostOf[cachedUser] \in dead
    BY <1>5, <2>2
  <2>3. CASE OrgOf[cachedUser] \in down /\ session.organization # None /\ pair = Pin
    BY <2>3 DEF Held
  <2>4. CASE OrgOf[cachedUser] \in down /\ Doubt /\ \E r \in Records : PairOf(r) = pair
    BY <1>6, <1>7, <2>4
  <2> QED
    BY <1>2, <2>1, <2>2, <2>3, <2>4 DEF MayServe
<1>9. stage # "idle" /\ pair[1] \in up /\ cachedUser' = None /\ ~(stage' # "idle")
  BY <1>1, <1>2, <1>5 DEF Over
<1> HIDE DEF pair
<1>10. Pair!Serve(pair)
  BY <1>2, <1>4, <1>8, <1>9 DEF Pair!Serve, Held
<1>11. Pair!End
  BY <1>1, <1>5, <1>10 DEF facts, windows, Pair!End, Pair!windows
<1> QED
  BY <1>11 DEF Pair!Next

LEMMA PairRecovers ==
    ASSUME Recovery
    PROVE  /\ stage # "idle" /\ UNCHANGED <<world, windows, session>>
           /\ Over \/ (stage' # "idle" /\ UNCHANGED cachedUser)
<1>1. \A r : Recover(r) => /\ UNCHANGED <<world, windows, session>>
                           /\ Over \/ (stage' # "idle" /\ UNCHANGED cachedUser)
  BY DEF Recover, Adopt, GoOn, sessionVars
<1>2. \A r : WithCandidate(r) => /\ UNCHANGED <<world, windows, session>>
                                 /\ Over \/ (stage' # "idle" /\ UNCHANGED cachedUser)
  BY <1>1 DEF WithCandidate, GoOn, sessionVars
<1>3. \A next : next # "idle" /\ GoOn(next) /\ UNCHANGED workVars
                   => /\ UNCHANGED <<world, windows, session>>
                      /\ stage' # "idle" /\ UNCHANGED cachedUser
  BY DEF GoOn, sessionVars, workVars
<1>4. CASE GetCandidate
  BY <1>2, <1>4 DEF GetCandidate
<1>5. CASE GetStickyOrganization
  BY <1>1, <1>3, <1>5 DEF GetStickyOrganization
<1>6. CASE GetStickyRecord
  BY <1>1, <1>3, <1>6 DEF GetStickyRecord
<1>7. CASE GetStickyCostCenter
  BY <1>1, <1>7 DEF GetStickyCostCenter
<1>8. CASE GetAdoptedCostCenter
  BY <1>8 DEF GetAdoptedCostCenter, GoOn, sessionVars
<1> QED
  BY <1>4, <1>5, <1>6, <1>7, <1>8 DEF Recovery

LEMMA PairLists ==
    ASSUME Listing
    PROVE  /\ UNCHANGED <<facts, windows, session, cachedUser>>
           /\ stage # "idle" /\ stage' # "idle"
           /\ UNCHANGED world \/ Disturb
<1>1. \A l : AfterListing(l) => UNCHANGED <<windows, session, cachedUser>> /\ stage' # "idle"
  BY DEF AfterListing, sessionVars
<1>2. stage = "list" /\ \E l : AfterListing(l)
  BY DEF Listing, ListFromCache, ListAnew, ListPartly, ListFails
<1>3. UNCHANGED facts /\ (UNCHANGED world \/ Disturb)
  BY DEF Listing, ListFromCache, ListAnew, ListPartly, ListFails, world, facts
<1> QED
  BY <1>1, <1>2, <1>3

LEMMA PairNext ==
    Core /\ [Next]_vars => [Pair!Next]_<<Pair!world, Pair!windows, Pair!pairVars>>
<1> SUFFICES ASSUME Core, [Next]_vars
             PROVE  Pair!Next \/ UNCHANGED <<Pair!world, Pair!windows, Pair!pairVars>>
  OBVIOUS
<1> DEFINE Implemented == Pair!Next \/ UNCHANGED <<Pair!world, Pair!windows, Pair!pairVars>>
<1>1. CASE UNCHANGED vars
  BY <1>1, PairStutters DEF vars, sessionVars, workVars
<1>2. CASE WorldChanges /\ UNCHANGED <<sessionVars, stage, workVars, listed, cartVars>>
  <2>1. UNCHANGED Pair!pairVars
    BY <1>2, HeldStays, PairVarsStay DEF sessionVars, workVars
  <2> QED
    BY <1>2, <2>1, PairWorld DEF Pair!Next
<1>3. CASE Start
  BY <1>3, PairBegins
<1>4. CASE AddItem \/ OverwriteChanges \/ CartNotCleared
  BY <1>4, PairHiccups DEF AddItem, OverwriteChanges, CartNotCleared, sessionVars, workVars
<1>5. CASE ListExpires \/ CartCleared
  BY <1>5, PairStutters DEF ListExpires, CartCleared, sessionVars, workVars
<1>6. CASE OptedOut \/ Resolve \/ Respond
  BY <1>6, PairLeaves, PairResolves, PairServes
<1>7. CASE Unresolved
  <2>1. Held' = Held
    BY <1>7, UnresolvedKeeps DEF Held, Pin
  <2> QED
    BY <1>7, <2>1, PairKeeps DEF Unresolved, Disturb
<1>8. CASE Fails
  BY <1>8, HeldStays, PairKeeps DEF Fails, Reading, Disturb
<1>9. CASE GetDocuments \/ GetCostCenterAgain
  BY <1>9, PairStutters DEF GetDocuments, GetCostCenterAgain, GoOn, sessionVars
<1>10. CASE Listing
  BY <1>10, PairLists, PairStutters, PairHiccups
<1>11. CASE Recovery
  <2>1. CASE Over
    BY <1>11, <2>1, PairRecovers, HeldStays, PairKeeps DEF world, facts
  <2>2. CASE stage' # "idle" /\ UNCHANGED cachedUser
    BY <1>11, <2>2, PairRecovers, PairStutters
  <2> QED
    BY <1>11, <2>1, <2>2, PairRecovers
<1>12. CASE GetPrices
  <2>1. /\ UNCHANGED <<facts, windows, session, cachedUser>>
        /\ stage # "idle" /\ stage' # "idle"
        /\ changes' = changes \/ Disturb
    BY <1>12 DEF GetPrices, sessionVars
  <2> QED
    BY <2>1, PairStutters, PairHiccups DEF world, facts
<1> QED
  BY <1>1, <1>2, <1>3, <1>4, <1>5, <1>6, <1>7, <1>8, <1>9, <1>10, <1>11, <1>12
  DEF Next, Step, Transforming

\* setProfile: whatever is stale, failing, recovered or deleted in between, a
\* session is told only what ServedPair allows.
THEOREM TransformsServeAsPromised == Spec => ServesAsPromised
<1>1. ProfileInv => Core
  BY DEF ProfileInv
<1>2. Spec => Pair!Init /\ [][Pair!Next]_<<Pair!world, Pair!windows, Pair!pairVars>>
  BY <1>1, ProfileInit, ProfileNext, PairInit, PairNext, PTL DEF Spec
<1> QED
  BY <1>2 DEF ServesAsPromised, Pair!Spec

------------------------------------------------------------------------------
(***************************************************************************)
(* A session comes to rest.  Undisturbed, a transform works out the same   *)
(* pair as the one before it, if a session that holds that pair leads to   *)
(* it again: LeadsTo says what a transform works out, Settled that the     *)
(* session holds just that, and RestInv follows a transform on its way     *)
(* there.                                                                  *)
(***************************************************************************)
\* ComesToRest speaks of this session, and the transform under way, or the last
\* one, has begun since anything changed.
Undisturbed ==
    /\ passes # 0 /\ stale = {} /\ mode # "off"
    /\ choice # None => live[CostOf[choice]]

ChosenUp == usable[OrgOf[choice]]

\* The document the cached listing nominates, if its organization is usable.
Nominee ==
    IF listed.record # None /\ usable[OrgOf[listed.record]] THEN listed.record ELSE None

\* The pair of the session is one the recovery keeps.
KeepsPin ==
    /\ session.organization \notin {None, OrgOf[choice]}
    /\ usable[session.organization]
    /\ \E r \in present : PairOf(r) = Pin
    /\ live[session.costcenter]

\* A transform of the session with the document `choice` ends in this pair.
LeadsTo(pair) ==
    IF ChosenUp THEN pair = PairOf(choice)
    ELSE IF KeepsPin THEN pair = Pin
    ELSE Nominee # None /\ pair = PairOf(Nominee)

\* The session holds what a transform of it ends in; the listing it depends on is
\* cached.
Settled ==
    /\ mode = "removeB2B" =>
          session.organization = None /\ session.costcenter = None /\ session.hash = NoPair
    /\ mode = "on" /\ choice # None =>
          /\ ChosenUp \/ listed # None
          /\ \A pair \in Orgs \X Costs :
                LeadsTo(pair) => Pin = pair /\ session.hash = pair

\* The transform under way works with the choice, and has found what is the case.
OnItsWay ==
    /\ mode = "on" /\ choice # None /\ cachedUser = choice
    /\ stage # "costAgain"
    /\ stage = "list" => ~ChosenUp /\ orgDoc = None /\ costDoc # None
    /\ stage \in {"candidate"} \cup Sticky => ~ChosenUp /\ listed # None
    /\ stage = "candidate" => listing = listed
    /\ stage \in Sticky => fallback = Nominee
    /\ stage \in {"stickyRecord", "stickyCost"} => usable[session.organization]
    /\ stage = "stickyCost" => \E r \in present : PairOf(r) = Pin
    /\ stage \in Outgoing =>
          /\ ChosenUp \/ listed # None
          /\ LeadsTo(<<user.org, user.cost>>) /\ hash = <<user.org, user.cost>>

RestParts ==
    /\ stage \notin {"idle", "resolve"} => OnItsWay
    /\ stage = "idle" \/ passes = 2 => Settled
    /\ stage = "idle" /\ passes = 2 => ~rerun

RestInv == Undisturbed => RestParts

\* A step that nothing disturbs, and that is not the beginning of a transform.
Within ==
    /\ UNCHANGED <<facts, passes>>
    /\ listed \in {None, listed'}

LEMMA RestInit == Init => RestInv
BY DEF Init, RestInv, Undisturbed

\* Without a stale cache a read finds what is the case.
LEMMA ReadsTrue ==
    ASSUME stale = {}
    PROVE  /\ \A o : ReadsUsable(o) = {usable[o]} /\ FoundOrg(o) = {IF usable[o] THEN o ELSE None}
           /\ \A c : ReadsLive(c) = {live[c]} /\ FoundCost(c) = {IF live[c] THEN c ELSE None}
BY DEF ReadsUsable, ReadsLive, FoundOrg, FoundCost

\* A session at rest stays so while it holds what it held; a listing may come in
\* only where nothing depends on it.
LEMMA SettledStays ==
    ASSUME Settled, Within, UNCHANGED session PROVE Settled'
<1>1. UNCHANGED <<usable, live, present, choice, mode>>
  BY DEF Within, facts
<1>2. ASSUME mode = "on", choice # None
      PROVE  /\ ChosenUp' \/ listed' # None
             /\ \A pair \in Orgs \X Costs : LeadsTo(pair)' => LeadsTo(pair)
  <2>1. ChosenUp \/ listed # None
    BY <1>2 DEF Settled
  <2>2. CASE ChosenUp
    BY <1>1, <2>2 DEF LeadsTo, ChosenUp, PairOf
  <2>3. CASE listed # None
    BY <1>1, <2>3 DEF Within, LeadsTo, ChosenUp, KeepsPin, Nominee, Pin, PairOf
  <2> QED
    BY <2>1, <2>2, <2>3
<1>3. Pin' = Pin
  BY DEF Pin
<1> QED
  BY <1>1, <1>2, <1>3 DEF Settled

\* A transform goes on.
LEMMA RestGoesOn ==
    ASSUME RestParts, Within, UNCHANGED session, stage # "idle", stage' # "idle",
           OnItsWay'
    PROVE  RestParts'
<1>1. UNCHANGED passes
  BY DEF Within
<1> QED
  BY <1>1, SettledStays DEF RestParts

\* It ends without an answer: there is no pair that it would have led to.
LEMMA RestFails ==
    ASSUME RestParts, OnItsWay, Within, UNCHANGED <<session, listed>>, stage' = "idle",
           rerun' = FALSE, ChosenUp \/ listed # None,
           \A pair \in Orgs \X Costs : ~LeadsTo(pair)
    PROVE  RestParts'
<1>1. Settled
  BY DEF OnItsWay, Settled
<1> QED
  BY <1>1, SettledStays DEF RestParts

\* Nothing is written to an input that it holds already.
LEMMA NoRerun ==
    ASSUME NEW resp, Answer(OmitUnchanged(resp)),
           \A f \in DOMAIN resp \cap Inputs : resp[f] = session[f]
    PROVE  rerun' = FALSE
<1> DEFINE out == OmitUnchanged(resp)
<1>1. DOMAIN out = {f \in DOMAIN resp : f = "prices" \/ resp[f] # Received(f)}
  BY DEF OmitUnchanged
<1>2. DOMAIN out \cap Inputs = {}
  BY <1>1 DEF Received, Inputs
<1>3. rerun' = (DOMAIN out \cap Inputs # {})
  BY DEF Answer
<1> QED
  BY <1>2, <1>3

------------------------------------------------------------------------------
(***************************************************************************)
(* The steps of an undisturbed transform.                                  *)
(***************************************************************************)
LEMMA RestOptedOut ==
    ASSUME Core, Undisturbed, RestParts, Within, OptedOut PROVE RestParts'
<1>1. /\ stage = "resolve" /\ stage' = "idle" /\ mode = "removeB2B" /\ mode' = mode
      /\ Answer(OmitUnchanged(EmptySession)) /\ passes' = passes
  BY DEF OptedOut, Over, Undisturbed, Within, facts
<1>2. EmptySession \in SessionShape
  BY DEF EmptySession, SessionShape, NoPair, PairsOrNone, Tables
<1>3. /\ session'.organization = None /\ session'.costcenter = None
      /\ session'.hash = NoPair
  BY <1>1, <1>2, WrittenInFull DEF EmptySession
<1>4. passes = 2 => ~rerun'
  <2> SUFFICES ASSUME passes = 2 PROVE ~rerun'
    OBVIOUS
  <2>1. session.organization = None /\ session.costcenter = None /\ session.hash = NoPair
    BY <1>1 DEF RestParts, Settled
  <2>2. \A f \in Inputs : EmptySession[f] = session[f]
    BY <2>1 DEF Inputs, EmptySession
  <2> QED
    BY <1>1, <2>2, NoRerun
<1> QED
  BY <1>1, <1>3, <1>4 DEF RestParts, Settled

LEMMA RestResolves ==
    ASSUME Core, RestParts, Within, Resolve PROVE RestParts'
<1>1. /\ stage = "resolve" /\ stage' = "documents" /\ mode = "on" /\ choice # None
      /\ cachedUser' = choice /\ UNCHANGED <<session, mode, choice>>
  BY DEF Resolve, GoOn, sessionVars, Within, facts
<1>2. OnItsWay'
  BY <1>1 DEF OnItsWay, Sticky, Outgoing
<1> QED
  BY <1>1, <1>2, RestGoesOn

\* Nobody to resolve: the response has no input of the transform.
LEMMA RestUnresolved ==
    ASSUME Core, Undisturbed, RestParts, Within, Unresolved, choice = None
    PROVE  RestParts'
<1>1. /\ stage = "resolve" /\ stage' = "idle" /\ mode' = "on" /\ choice' = None
      /\ passes' = passes /\ Answer(OmitUnchanged(NoPinFields))
  BY DEF Unresolved, Over, Within, facts
<1>2. ~rerun'
  BY <1>1, NoRerun DEF NoPinFields, Inputs
<1> QED
  BY <1>1, <1>2 DEF RestParts, Settled

LEMMA RestDocuments ==
    ASSUME Core, Undisturbed, RestParts, Within, GetDocuments PROVE RestParts'
<1>1. /\ stage = "documents" /\ orgDoc' \in FoundOrg(user.org) /\ costDoc' \in FoundCost(user.cost)
      /\ stage' = IF orgDoc' = None \/ costDoc' = None THEN "list" ELSE "prices"
      /\ UNCHANGED <<session, cachedUser, user, hash>>
      /\ UNCHANGED <<usable, live, present, choice, mode>>
  BY DEF GetDocuments, GoOn, sessionVars, Within, facts
<1>2. mode = "on" /\ choice # None /\ cachedUser = choice
  BY <1>1 DEF RestParts, OnItsWay
<1>3. /\ user.org = OrgOf[choice] /\ user.cost = CostOf[choice] /\ hash = PairOf(choice)
      /\ choice \in Records
  BY <1>1, <1>2 DEF Core, UserInv, DirectoryTypeOK
<1>4. /\ orgDoc' = IF usable[OrgOf[choice]] THEN OrgOf[choice] ELSE None
      /\ costDoc' = CostOf[choice]
  BY <1>1, <1>2, <1>3, ReadsTrue DEF Undisturbed
<1>5. \/ ~ChosenUp /\ stage' = "list" /\ orgDoc' = None /\ costDoc' # None
      \/ ChosenUp /\ stage' = "prices"
  BY <1>1, <1>3, <1>4, NoneIsNothing DEF ChosenUp
<1>6. OnItsWay'
  BY <1>1, <1>2, <1>3, <1>5 DEF OnItsWay, ChosenUp, LeadsTo, PairOf, Sticky, Outgoing
<1> QED
  BY <1>1, <1>5, <1>6, RestGoesOn

\* A step of a transform that begins nothing.
LEMMA TransformsBusy ==
    ASSUME Transforming PROVE stage # "idle"
BY DEF Transforming, OptedOut, Resolve, Unresolved, Fails, Reading, GetDocuments,
       Listing, ListFromCache, ListAnew, ListPartly, ListFails, GetCostCenterAgain,
       Recovery, GetCandidate, GetStickyOrganization, GetStickyRecord,
       GetStickyCostCenter, GetAdoptedCostCenter, GetPrices, CartCleared,
       CartNotCleared, Respond

\* It changes neither what it received of the order form and the shopper's
\* address, nor those themselves.
FormKept == UNCHANGED <<hasCart, elsewhere>> /\ (stage' = "idle" \/ form' = form)

LEMMA TransformKeepsForm ==
    ASSUME Transforming PROVE FormKept
<1>1. \A next : GoOn(next) => FormKept
  BY DEF GoOn, cartVars, FormKept
<1>2. \A l : AfterListing(l) => FormKept
  BY DEF AfterListing, cartVars, FormKept
<1>3. \A r : Recover(r) => FormKept
  BY <1>1 DEF Recover, Adopt, Over, cartVars, FormKept
<1>4. \A r : WithCandidate(r) => FormKept
  BY <1>1, <1>3 DEF WithCandidate
<1>5. CASE OptedOut \/ Unresolved \/ Fails
  BY <1>5 DEF OptedOut, Unresolved, Fails, Over, cartVars, FormKept
<1>6. CASE Resolve \/ GetDocuments \/ GetCostCenterAgain
  BY <1>1, <1>6 DEF Resolve, GetDocuments, GetCostCenterAgain
<1>7. CASE Listing
  BY <1>2, <1>7 DEF Listing, ListFromCache, ListAnew, ListPartly, ListFails
<1>8. CASE Recovery
  BY <1>1, <1>3, <1>4, <1>8
  DEF Recovery, GetCandidate, GetStickyOrganization, GetStickyRecord, GetStickyCostCenter,
      GetAdoptedCostCenter
<1>9. CASE GetPrices \/ CartCleared \/ CartNotCleared \/ Respond
  BY <1>9 DEF GetPrices, CartCleared, CartNotCleared, Respond, Over, workVars, cartVars, FormKept
<1> QED
  BY <1>5, <1>6, <1>7, <1>8, <1>9 DEF Transforming

\* The organization is unusable and the cost center valid: the listing decides.
LEMMA RestLists ==
    ASSUME Core, Undisturbed, RestParts, Within, Listing, changes' = changes
    PROVE  RestParts'
<1>1. ~Disturb
  BY DEF Disturb, Core, DirectoryTypeOK
<1>2. ListFromCache \/ ListAnew
  BY <1>1 DEF Listing, ListPartly, ListFails
<1>3. PICK l \in Listings : AfterListing(l) /\ listed' = l
  <2>1. CASE ListFromCache
    BY <2>1 DEF ListFromCache, Core, KeptTypeOK
  <2>2. CASE ListAnew
    BY <2>2 DEF ListAnew, ListingOf
  <2> QED
    BY <1>2, <2>1, <2>2
<1>4. stage = "list"
  BY <1>2 DEF ListFromCache, ListAnew
<1>5. /\ mode = "on" /\ choice # None /\ cachedUser = choice /\ ~ChosenUp
      /\ orgDoc = None
  BY <1>4 DEF RestParts, OnItsWay
<1>6. /\ stage' = "candidate" /\ listing' = l
      /\ UNCHANGED <<session, cachedUser, usable, choice, mode>>
  BY <1>3, <1>5 DEF AfterListing, sessionVars, Within, facts
<1>7. l # None
  BY <1>3, ListingsAssumption
<1>8. OnItsWay'
  BY <1>3, <1>5, <1>6, <1>7 DEF OnItsWay, ChosenUp, Sticky, Outgoing
<1> QED
  BY <1>4, <1>6, <1>8, RestGoesOn

\* The recovery has decided.
LEMMA RestRecovers ==
    ASSUME Core, RestParts, Within, stage \in {"candidate"} \cup Sticky,
           NEW r \in Records \cup {None}, Recover(r),
           r # None => LeadsTo(PairOf(r)),
           r = None => \A pair \in Orgs \X Costs : ~LeadsTo(pair)
    PROVE  RestParts'
<1>1. /\ mode = "on" /\ choice # None /\ cachedUser = choice /\ ~ChosenUp
      /\ listed # None
  BY DEF RestParts, OnItsWay, Sticky
<1>2. CASE r = None
  <2>1. stage' = "idle" /\ rerun' = FALSE /\ UNCHANGED <<session, listed>>
    BY <1>2 DEF Recover, Over
  <2>2. OnItsWay
    BY DEF RestParts, Sticky
  <2> QED
    BY <1>1, <1>2, <2>1, <2>2, RestFails
<1>3. CASE r # None
  <2>1. /\ user' = [org |-> OrgOf[r], cost |-> CostOf[r], id |-> r] /\ hash' = PairOf(r)
        /\ stage' = "adopted"
        /\ UNCHANGED <<session, listed, cachedUser, usable, live, present, choice, mode>>
    BY <1>3 DEF Recover, Adopt, GoOn, sessionVars, Within, facts
  <2>2. <<user.org, user.cost>>' = PairOf(r)
    BY <2>1 DEF PairOf
  <2>3. LeadsTo(<<user.org, user.cost>>)'
    BY <1>3, <2>1, <2>2 DEF LeadsTo, ChosenUp, KeepsPin, Nominee, Pin, PairOf
  <2>4. OnItsWay'
    BY <1>1, <2>1, <2>2, <2>3 DEF OnItsWay, Sticky, Outgoing
  <2> QED
    BY <2>1, <2>4, RestGoesOn DEF Sticky
<1> QED
  BY <1>2, <1>3

\* What the recovery comes to if the pair of the session is not kept.
LEMMA NomineeNext ==
    ASSUME Core, ~ChosenUp, ~KeepsPin, listed # None
    PROVE  /\ Nominee \in Records \cup {None}
           /\ Nominee # None => LeadsTo(PairOf(Nominee))
           /\ Nominee = None => \A pair \in Orgs \X Costs : ~LeadsTo(pair)
BY DEF LeadsTo, Nominee, Core, KeptTypeOK, Listings

LEMMA RestCandidate ==
    ASSUME Core, Undisturbed, RestParts, Within, GetCandidate PROVE RestParts'
<1>1. stage = "candidate"
  BY DEF GetCandidate
<1>2. /\ mode = "on" /\ choice # None /\ cachedUser = choice /\ ~ChosenUp
      /\ listed # None /\ listing = listed /\ user.org = OrgOf[choice]
  BY <1>1 DEF RestParts, OnItsWay, Core, UserInv
<1>3. WithCandidate(Nominee)
  <2>1. CASE listing.record = None
    BY <1>2, <2>1 DEF GetCandidate, Nominee
  <2>2. CASE listing.record # None
    <3>1. PICK o \in FoundOrg(OrgOf[listing.record]) :
             WithCandidate(IF o # None THEN listing.record ELSE None)
      BY <2>2 DEF GetCandidate
    <3>2. OrgOf[listing.record] \in Orgs
      BY <2>2, NoneIsNothing DEF Core, WorkTypeOK, Listings
    <3>3. o = IF usable[OrgOf[listing.record]] THEN OrgOf[listing.record] ELSE None
      BY <3>1, ReadsTrue DEF Undisturbed
    <3>4. Nominee = IF o # None THEN listing.record ELSE None
      BY <1>2, <2>2, <3>2, <3>3, NoneIsNothing DEF Nominee
    <3> QED
      BY <3>1, <3>4
  <2> QED
    BY <2>1, <2>2
<1>4. CASE HasSticky
  <2>1. /\ stage' = "stickyOrg" /\ fallback' = Nominee
        /\ UNCHANGED <<session, listed, cachedUser, usable, choice, mode>>
    BY <1>3, <1>4 DEF WithCandidate, GoOn, sessionVars, Within, facts
  <2>2. OnItsWay'
    BY <1>2, <2>1 DEF OnItsWay, ChosenUp, Nominee, Sticky, Outgoing
  <2> QED
    BY <1>1, <2>1, <2>2, RestGoesOn
<1>5. CASE ~HasSticky
  <2>1. ~KeepsPin
    BY <1>2, <1>5 DEF HasSticky, KeepsPin
  <2>2. Recover(Nominee)
    BY <1>3, <1>5 DEF WithCandidate
  <2> QED
    BY <1>1, <1>2, <2>1, <2>2, NomineeNext, RestRecovers
<1> QED
  BY <1>4, <1>5

\* One check of the session's own pair holds, and the next is made.
LEMMA RestChecks ==
    ASSUME Core, RestParts, Within, stage \in Sticky, UNCHANGED workVars,
           NEW next \in {"stickyRecord", "stickyCost"}, GoOn(next),
           usable[session.organization],
           next = "stickyCost" => \E r \in present : PairOf(r) = Pin
    PROVE  RestParts'
<1>1. /\ stage' = next
      /\ UNCHANGED <<session, listed, cachedUser, fallback, usable, live, present, choice, mode>>
  BY DEF GoOn, sessionVars, workVars, Within, facts
<1>2. /\ mode = "on" /\ choice # None /\ cachedUser = choice /\ ~ChosenUp
      /\ listed # None /\ fallback = Nominee
  BY DEF RestParts, OnItsWay, Sticky
<1>3. OnItsWay'
  BY <1>1, <1>2 DEF OnItsWay, ChosenUp, Nominee, Pin, PairOf, Sticky, Outgoing
<1> QED
  BY <1>1, <1>3, RestGoesOn DEF Sticky

LEMMA RestSticky ==
    ASSUME Core, Undisturbed, RestParts, Within,
           GetStickyOrganization \/ GetStickyRecord \/ GetStickyCostCenter
    PROVE  RestParts'
<1>1. stage \in Sticky
  BY DEF GetStickyOrganization, GetStickyRecord, GetStickyCostCenter, Sticky
<1>2. /\ cachedUser = choice /\ ~ChosenUp /\ listed # None /\ fallback = Nominee
      /\ user.org = OrgOf[choice] /\ session.organization \notin {None, user.org}
  BY <1>1 DEF RestParts, OnItsWay, Sticky, Core, UserInv, RecoveryInv
<1>3. ASSUME ~KeepsPin, Recover(fallback) PROVE RestParts'
  BY <1>1, <1>2, <1>3, NomineeNext, RestRecovers
<1>4. CASE GetStickyOrganization
  <2>1. \/ usable[session.organization] /\ GoOn("stickyRecord") /\ UNCHANGED workVars
        \/ ~usable[session.organization] /\ Recover(fallback)
    BY <1>4, ReadsTrue DEF GetStickyOrganization, Undisturbed
  <2> QED
    BY <1>1, <1>3, <2>1, RestChecks DEF KeepsPin
<1>5. CASE GetStickyRecord
  <2>1. usable[session.organization]
    BY <1>5 DEF GetStickyRecord, RestParts, OnItsWay
  <2>2. \/ (\E r \in present : PairOf(r) = Pin) /\ GoOn("stickyCost") /\ UNCHANGED workVars
        \/ (~ \E r \in present : PairOf(r) = Pin) /\ Recover(fallback)
    BY <1>5 DEF GetStickyRecord
  <2> QED
    BY <1>1, <1>3, <2>1, <2>2, RestChecks DEF KeepsPin
<1>6. CASE GetStickyCostCenter
  <2>1. usable[session.organization] /\ \E r \in present : PairOf(r) = Pin
    BY <1>6 DEF GetStickyCostCenter, RestParts, OnItsWay
  <2>2. \/ live[session.costcenter] /\ \E r \in Records : PairOf(r) = Pin /\ Recover(r)
        \/ ~live[session.costcenter] /\ Recover(fallback)
    BY <1>6, ReadsTrue DEF GetStickyCostCenter, Undisturbed
  <2>3. CASE live[session.costcenter]
    <3>1. PICK r \in Records : PairOf(r) = Pin /\ Recover(r)
      BY <2>2, <2>3
    <3>2. KeepsPin
      BY <1>2, <2>1, <2>3 DEF KeepsPin
    <3>3. LeadsTo(PairOf(r))
      BY <1>2, <3>1, <3>2 DEF LeadsTo
    <3> QED
      BY <1>1, <3>1, <3>3, NoneIsNothing, RestRecovers
  <2>4. CASE ~live[session.costcenter]
    BY <1>3, <2>2, <2>4 DEF KeepsPin
  <2> QED
    BY <2>3, <2>4
<1> QED
  BY <1>4, <1>5, <1>6

\* The pair is settled; it is carried to the response.
LEMMA RestCarries ==
    ASSUME Core, RestParts, Within, stage \in Outgoing, stage' \in Outgoing,
           UNCHANGED <<session, listed, cachedUser, user, hash>>
    PROVE  RestParts'
<1>1. UNCHANGED <<usable, live, present, choice, mode>>
  BY DEF Within, facts
<1>2. OnItsWay
  BY DEF RestParts, Outgoing
<1>3. OnItsWay'
  BY <1>1, <1>2
  DEF OnItsWay, LeadsTo, ChosenUp, KeepsPin, Nominee, Pin, PairOf, Sticky, Outgoing
<1> QED
  BY <1>3, RestGoesOn DEF Outgoing

\* The session that takes up the pair leads to it again; one that held it already
\* is written nothing.
LEMMA RestResponds ==
    ASSUME Core, RestParts, Within, Respond PROVE RestParts'
<1> DEFINE pair == <<user.org, user.cost>>
<1>1. /\ stage = "respond" /\ stage' = "idle"
      /\ UNCHANGED <<passes, listed, usable, live, present, choice, mode>>
  BY DEF Respond, Over, Within, facts
<1>2. /\ mode = "on" /\ choice # None /\ (ChosenUp \/ listed # None)
      /\ LeadsTo(pair) /\ hash = pair
  BY <1>1 DEF RestParts, OnItsWay, Outgoing
<1>3. user.org \in Orgs /\ user.cost \in Costs /\ choice \in Records
  BY <1>1, <1>2 DEF Core, UserInv, DirectoryTypeOK
<1>4. PICK region \in {Region, NoPair} : Answer(OmitUnchanged(Response(region)))
  BY DEF Respond
<1>5. /\ session'.organization = user.org /\ session'.costcenter = user.cost
      /\ session'.hash = pair
  BY <1>2, <1>4, ResponseShaped, WrittenInFull DEF Response
<1>6. Pin' = pair
  BY <1>5 DEF Pin
<1>7. \A q \in Orgs \X Costs : LeadsTo(q)' => q = pair
  <2> SUFFICES ASSUME NEW q \in Orgs \X Costs, LeadsTo(q)' PROVE q = pair
    OBVIOUS
  <2>1. CASE ChosenUp
    BY <1>1, <1>2, <2>1 DEF LeadsTo, ChosenUp, PairOf
  <2>2. CASE ~ChosenUp /\ KeepsPin'
    BY <1>1, <1>6, <2>2 DEF LeadsTo, ChosenUp
  <2>3. CASE ~ChosenUp /\ ~KeepsPin'
    <3>1. Nominee' = Nominee /\ q = PairOf(Nominee)
      BY <1>1, <2>3 DEF LeadsTo, ChosenUp, Nominee, PairOf
    <3>2. ~KeepsPin
      <4>1. KeepsPin => pair = Pin
        BY <1>2, <2>3 DEF LeadsTo
      <4>2. KeepsPin /\ pair = Pin => KeepsPin'
        BY <1>1, <1>5, <1>6 DEF KeepsPin, PairOf, Pin
      <4> QED
        BY <2>3, <4>1, <4>2
    <3> QED
      BY <1>2, <2>3, <3>1, <3>2 DEF LeadsTo
  <2> QED
    BY <2>1, <2>2, <2>3
<1>8. Settled'
  BY <1>1, <1>2, <1>5, <1>6, <1>7 DEF Settled, ChosenUp
<1>9. passes = 2 => ~rerun'
  <2> SUFFICES ASSUME passes = 2 PROVE ~rerun'
    OBVIOUS
  <2>1. Pin = pair /\ session.hash = pair
    BY <1>2, <1>3 DEF RestParts, Settled
  <2>2. \A f \in Inputs : Response(region)[f] = session[f]
    BY <1>2, <2>1 DEF Inputs, Response, Pin
  <2> QED
    BY <1>4, <2>2, NoRerun
<1> QED
  BY <1>1, <1>8, <1>9 DEF RestParts

\* A transform begins: undisturbed, from a session at rest if one went before it.
LEMMA RestBegins ==
    ASSUME Start, UNCHANGED facts, RestInv, Undisturbed', passes \in 0 .. 2,
           passes' = IF passes < 2 THEN passes + 1 ELSE passes
    PROVE  RestParts'
<1>1. /\ stage = "idle" /\ stage' = "resolve" /\ UNCHANGED <<session, listed>>
      /\ UNCHANGED <<usable, live, stale, present, choice, mode>>
  BY DEF Start, sessionVars, facts
<1>2. ASSUME passes' = 2 PROVE Settled'
  <2>1. passes # 0
    BY <1>2
  <2>2. Undisturbed
    BY <1>1, <2>1 DEF Undisturbed
  <2>3. Settled
    BY <1>1, <2>2 DEF RestInv, RestParts
  <2> QED
    BY <1>1, <2>3 DEF Settled, LeadsTo, ChosenUp, KeepsPin, Nominee, Pin, PairOf
<1> QED
  BY <1>1, <1>2 DEF RestParts

LEMMA RestStays ==
    ASSUME RestParts, Within, UNCHANGED <<sessionVars, stage, workVars, listed>>
    PROVE  RestParts'
<1>1. /\ UNCHANGED <<usable, live, stale, present, choice, mode, passes>>
      /\ UNCHANGED <<session, rerun, stage, cachedUser, user, orgDoc, costDoc, listing>>
      /\ UNCHANGED <<fallback, hash, listed>>
  BY DEF Within, facts, sessionVars, workVars
<1>2. OnItsWay => OnItsWay'
  BY <1>1
  DEF OnItsWay, LeadsTo, ChosenUp, KeepsPin, Nominee, Pin, PairOf, Sticky, Outgoing
<1>3. Settled => Settled'
  BY <1>1, SettledStays
<1> QED
  BY <1>1, <1>2, <1>3 DEF RestParts

LEMMA RestTransforms ==
    ASSUME Core, Undisturbed, RestParts, Within, changes' = changes, Transforming
    PROVE  RestParts'
<1>1. ~Disturb
  BY DEF Disturb, Core, DirectoryTypeOK
<1>2. CASE OptedOut \/ Resolve \/ Respond
  BY <1>2, RestOptedOut, RestResolves, RestResponds
<1>3. CASE Unresolved
  BY <1>1, <1>3, RestUnresolved DEF Unresolved
<1>4. CASE Fails
  BY <1>1, <1>4 DEF Fails
<1>5. CASE GetDocuments
  BY <1>5, RestDocuments
<1>6. CASE Listing
  BY <1>6, RestLists
<1>7. CASE GetCostCenterAgain
  BY <1>7 DEF GetCostCenterAgain, RestParts, OnItsWay
<1>8. CASE Recovery
  <2>1. CASE GetAdoptedCostCenter
    BY <2>1, RestCarries DEF GetAdoptedCostCenter, GoOn, sessionVars, Outgoing
  <2> QED
    BY <1>8, <2>1, RestCandidate, RestSticky DEF Recovery
<1>9. CASE GetPrices
  <2>1. stage = "prices" /\ stage' \in {"clear", "respond"}
        /\ UNCHANGED <<session, listed, cachedUser, user, hash>>
    BY <1>9 DEF GetPrices, sessionVars
  <2> QED
    BY <2>1, RestCarries DEF Outgoing
<1>10. CASE CartCleared \/ CartNotCleared
  BY <1>10, RestCarries DEF CartCleared, CartNotCleared, sessionVars, workVars, Outgoing
<1> QED
  BY <1>2, <1>3, <1>4, <1>5, <1>6, <1>7, <1>8, <1>9, <1>10 DEF Transforming

\* Nothing is disturbed: a transform begins, or goes on, or nothing happens to it.
LEMMA Undisturbing ==
    ASSUME Core, passes \in 0 .. 2, Next, passes' # 0
    PROVE  /\ UNCHANGED <<facts, changes, hasCart, elsewhere>>
           /\ \/ Start /\ passes' = IF passes < 2 THEN passes + 1 ELSE passes
              \/ Within /\ Transforming
              \/ Within /\ UNCHANGED <<sessionVars, stage, workVars, listed>>
<1> DEFINE disturbed == world' # world \/ listed \notin {None, listed'}
           begins == stage = "idle" /\ stage' # "idle"
<1>1. /\ ~disturbed
      /\ passes' = IF begins /\ passes < 2 THEN passes + 1 ELSE passes
  <2>1. passes' = CASE disturbed -> 0
                    [] ~disturbed /\ begins /\ passes < 2 -> passes + 1
                    [] OTHER -> passes
    BY DEF Next, Passes
  <2> HIDE DEF disturbed, begins
  <2> QED
    BY <2>1
<1>2. UNCHANGED <<facts, changes>> /\ listed \in {None, listed'}
  BY <1>1 DEF world, facts
<1>3. ~Disturb
  BY <1>2 DEF Disturb, Core, DirectoryTypeOK
<1>4. begins <=> Start
  <2>1. Start => begins
    BY DEF Start
  <2>2. Step /\ ~Start => ~begins
    BY <1>2, <1>3, TransformsBusy DEF Step, AddItem, OverwriteChanges, ListExpires
  <2> QED
    BY <2>1, <2>2 DEF Next
<1>5. UNCHANGED <<hasCart, elsewhere>>
  <2>1. CASE Transforming
    BY <2>1, TransformKeepsForm DEF FormKept
  <2>2. CASE Start \/ ListExpires
    BY <2>2 DEF Start, ListExpires, cartVars
  <2>3. CASE WorldChanges /\ UNCHANGED <<sessionVars, stage, workVars, listed, cartVars>>
    BY <2>3 DEF cartVars
  <2>4. CASE AddItem \/ OverwriteChanges
    BY <1>3, <2>4 DEF AddItem, OverwriteChanges
  <2> QED
    BY <2>1, <2>2, <2>3, <2>4 DEF Next, Step
<1> HIDE DEF begins
<1>6. CASE Start
  BY <1>1, <1>2, <1>4, <1>5, <1>6
<1>7. CASE ~Start
  <2>1. Within
    BY <1>1, <1>2, <1>4, <1>7 DEF Within
  <2>2. CASE Transforming
    BY <1>2, <1>5, <2>1, <2>2
  <2>3. CASE WorldChanges /\ UNCHANGED <<sessionVars, stage, workVars, listed, cartVars>>
    BY <1>2, <1>5, <2>1, <2>3
  <2>4. CASE AddItem \/ OverwriteChanges
    BY <1>3, <2>4 DEF AddItem, OverwriteChanges
  <2>5. CASE ListExpires
    BY <1>2, <2>5 DEF ListExpires
  <2> QED
    BY <1>7, <2>2, <2>3, <2>4, <2>5 DEF Next, Step
<1> QED
  BY <1>6, <1>7

LEMMA RestNext ==
    ASSUME Core, passes \in 0 .. 2, RestInv, [Next]_vars PROVE RestInv'
<1> SUFFICES ASSUME Undisturbed' PROVE RestParts'
  BY DEF RestInv
<1>1. CASE UNCHANGED vars
  <2>1. Within /\ UNCHANGED <<sessionVars, stage, workVars, listed>>
    BY <1>1 DEF vars, Within, world, facts
  <2>2. Undisturbed
    BY <1>1 DEF vars, world, Undisturbed
  <2> QED
    BY <2>1, <2>2, RestStays DEF RestInv
<1>2. CASE Next
  <2>1. passes' # 0
    BY DEF Undisturbed
  <2>2. UNCHANGED <<facts, changes>>
    BY <1>2, <2>1, Undisturbing
  <2>3. CASE Start /\ passes' = IF passes < 2 THEN passes + 1 ELSE passes
    BY <2>2, <2>3, RestBegins
  <2>4. ASSUME Within PROVE RestParts
    BY <2>2, <2>4 DEF Within, facts, Undisturbed, RestInv
  <2>5. ASSUME Within PROVE Undisturbed
    BY <2>2, <2>5 DEF Within, facts, Undisturbed
  <2>6. CASE Within /\ Transforming
    BY <2>2, <2>4, <2>5, <2>6, RestTransforms
  <2>7. CASE Within /\ UNCHANGED <<sessionVars, stage, workVars, listed>>
    BY <2>4, <2>7, RestStays
  <2> QED
    BY <1>2, <2>1, <2>3, <2>6, <2>7, Undisturbing
<1> QED
  BY <1>1, <1>2

(***************************************************************************)
(* setProfile, omitUnchangedSetProfileFields: for any organizations, cost  *)
(* centers and documents, the second transform of a session that nothing   *)
(* disturbs writes no input of the transform, so that the Session Manager  *)
(* does not run it again; with the exceptions ComesToRest names.           *)
(***************************************************************************)
THEOREM SessionsComeToRest == Spec => []ComesToRest
<1>1. Spec => [](ProfileInv /\ RestInv)
  BY ProfileInit, ProfileNext, RestInit, RestNext, PTL DEF Spec, ProfileInv
<1>2. RestInv => ComesToRest
  BY DEF RestInv, RestParts, Undisturbed, ComesToRest
<1> QED
  BY <1>1, <1>2, PTL

------------------------------------------------------------------------------
(***************************************************************************)
(* What is due is served by the first transform that nothing disturbs.     *)
(***************************************************************************)
InOrder == mode = "on" /\ stale = {} /\ choice # None /\ CanAdopt(choice)

Due ==
    /\ mode \in {"removeB2B", "off"} =>
          \A f \in Inputs \cup {"prices"} : session[f] = EmptySession[f]
    /\ InOrder => Serves(choice)

\* The price tables of the choice.
DueTable ==
    IF OrgOf[choice] \in Tabled
    THEN <<OrgOf[choice], IF choice \in present THEN choice ELSE None>>
    ELSE NoPair

\* With the document of the choice and both its documents found, the transform
\* takes the short way.
ShortWay ==
    /\ stage \in {"documents", "prices", "clear", "respond"} /\ cachedUser = choice
    /\ user = [org |-> OrgOf[choice], cost |-> CostOf[choice], id |-> choice]
    /\ hash = PairOf(choice)
    /\ stage # "documents" => orgDoc = OrgOf[choice] /\ costDoc = CostOf[choice]
    /\ stage \in {"clear", "respond"} => table = DueTable

DueParts ==
    /\ stage = "idle" => Due
    /\ stage \notin {"idle", "resolve"} => mode = "on" /\ (InOrder => ShortWay)

\* The transform knows the order form of the session.
FormDue == stage # "idle" => form = hasCart

DueInv == passes # 0 => DueParts /\ FormDue

LEMMA DueInit == Init => DueInv
BY DEF Init, DueInv

LEMMA InOrderStays ==
    ASSUME UNCHANGED facts PROVE InOrder' <=> InOrder
BY DEF facts, InOrder, CanAdopt

LEMMA DueOptedOut ==
    ASSUME Core, Within, OptedOut PROVE DueParts'
<1>1. stage' = "idle" /\ mode # "on" /\ UNCHANGED mode
  BY DEF OptedOut, Over, Within, facts
<1>2. EmptySession \in SessionShape
  BY DEF EmptySession, SessionShape, NoPair, PairsOrNone, Tables
<1>3. \A f \in Inputs \cup {"prices"} : session'[f] = EmptySession[f]
  <2>1. CASE Answer(OmitUnchanged(EmptySession))
    BY <1>2, <2>1, WrittenInFull DEF Inputs
  <2>2. CASE Answer(EmptySession)
    <3>1. DOMAIN session = Fields /\ DOMAIN EmptySession = Fields
      BY DEF Core, SessionTypeOK, EmptySession, Fields
    <3>2. session' = [f \in Fields |-> EmptySession[f]]
      BY <2>2, <3>1 DEF Answer
    <3> QED
      BY <3>2 DEF Inputs, Fields
  <2> QED
    BY <2>1, <2>2 DEF OptedOut
<1> QED
  BY <1>1, <1>3 DEF DueParts, Due, InOrder

LEMMA DueResolves ==
    ASSUME Within, Resolve PROVE DueParts'
<1>1. /\ stage' = "documents" /\ mode' = "on" /\ choice' = choice /\ cachedUser' = choice
      /\ user' = [org |-> OrgOf[choice], cost |-> CostOf[choice], id |-> choice]
      /\ hash' = PairOf(choice)
  BY DEF Resolve, GoOn, Within, facts
<1> QED
  BY <1>1 DEF DueParts, ShortWay, PairOf

\* A transform of a shopper whose choice is not in order owes nothing.
LEMMA NothingDue ==
    ASSUME Within, mode = "on", ~InOrder PROVE DueParts'
<1>1. mode' = "on" /\ ~InOrder'
  BY InOrderStays DEF Within, facts
<1> QED
  BY <1>1 DEF DueParts, Due

LEMMA DueDocuments ==
    ASSUME Core, InOrder, ShortWay, Within, GetDocuments PROVE DueParts'
<1>1. /\ stage = "documents" /\ orgDoc' \in FoundOrg(user.org) /\ costDoc' \in FoundCost(user.cost)
      /\ stage' = IF orgDoc' = None \/ costDoc' = None THEN "list" ELSE "prices"
      /\ UNCHANGED <<cachedUser, user, hash, mode, choice>>
  BY DEF GetDocuments, GoOn, Within, facts
<1>2. orgDoc' = OrgOf[choice] /\ costDoc' = CostOf[choice]
  BY <1>1, ReadsTrue DEF InOrder, CanAdopt, ShortWay
<1>3. choice \in Records
  BY DEF InOrder, Core, DirectoryTypeOK
<1>4. stage' = "prices"
  BY <1>1, <1>2, <1>3, NoneIsNothing
<1> QED
  BY <1>1, <1>2, <1>4 DEF DueParts, ShortWay, InOrder, PairOf

LEMMA DueTableStays ==
    ASSUME UNCHANGED <<choice, present>> PROVE DueTable' = DueTable
BY DEF DueTable

LEMMA DuePrices ==
    ASSUME InOrder, ShortWay, Within, changes' # changes + 1, GetPrices PROVE DueParts'
<1>1. /\ stage = "prices" /\ stage' \in {"clear", "respond"} /\ table' = TableInHand
      /\ UNCHANGED <<cachedUser, user, hash, orgDoc, costDoc, mode, choice, present>>
  BY DEF GetPrices, Disturb, facts
<1>2. orgDoc = OrgOf[choice] /\ user.id = choice
  BY <1>1 DEF ShortWay
<1>3. TableInHand = DueTable
  BY <1>2 DEF TableInHand, DueTable
<1> QED
  BY <1>1, <1>3, DueTableStays DEF DueParts, ShortWay, InOrder, PairOf

LEMMA DueClears ==
    ASSUME InOrder, ShortWay, Within, CartCleared \/ CartNotCleared PROVE DueParts'
<1>1. /\ stage = "clear" /\ stage' = "respond"
      /\ UNCHANGED <<cachedUser, user, hash, orgDoc, costDoc, table, mode, choice, present>>
  BY DEF CartCleared, CartNotCleared, workVars, Within, facts
<1> QED
  BY <1>1, DueTableStays DEF DueParts, ShortWay, InOrder, PairOf

LEMMA DueResponds ==
    ASSUME Core, InOrder, ShortWay, FormDue, Within, changes' # changes + 1, Respond
    PROVE  DueParts'
<1>1. /\ stage = "respond" /\ stage' = "idle" /\ Answer(OmitUnchanged(Response(Region)))
      /\ UNCHANGED <<mode, choice, present, hasCart, elsewhere>>
  BY DEF Respond, Disturb, Over, facts
<1>2. choice \in Records /\ OrgOf[choice] \in Orgs /\ CostOf[choice] \in Costs
  BY NoneIsNothing DEF InOrder, Core, DirectoryTypeOK
<1>3. /\ user.org = OrgOf[choice] /\ user.cost = CostOf[choice] /\ hash = PairOf(choice)
      /\ orgDoc = OrgOf[choice] /\ costDoc = CostOf[choice] /\ table = DueTable
      /\ <<orgDoc, costDoc>> = PairOf(choice)
  BY <1>1 DEF ShortWay, PairOf
<1>4. /\ session'.organization = user.org /\ session'.costcenter = user.cost
      /\ session'.hash = hash /\ session'.prices = table
      /\ session'.facets =
            IF <<orgDoc, costDoc>> = NoPair THEN session.facets ELSE <<orgDoc, costDoc>>
      /\ session'.sc = IF SalesChannel = None THEN session.sc ELSE SalesChannel
      /\ session'.regionId = IF Region = NoPair THEN session.regionId ELSE Region
  BY <1>1, ResponseShaped, WrittenInFull DEF Response
<1>5. PairOf(choice) # NoPair /\ OrgOf[choice] # None
  BY <1>2, NoneIsNothing DEF PairOf, NoPair
<1>6. Pin' = PairOf(choice) /\ session'.hash = PairOf(choice) /\ session'.facets = PairOf(choice)
  BY <1>3, <1>4, <1>5 DEF Pin, PairOf
<1>7. OrgOf[choice] \in Channeled => session'.sc = OrgOf[choice]
  BY <1>3, <1>4, <1>5 DEF SalesChannel
<1>8. PairOf(choice) \in Regional /\ hasCart /\ ~elsewhere => session'.regionId = PairOf(choice)
  BY <1>1, <1>3, <1>4, <1>5 DEF Region, FormDue
<1>9. Serves(choice)'
  BY <1>1, <1>3, <1>4, <1>6, <1>7, <1>8 DEF Serves, DueTable, PairOf
<1> QED
  BY <1>1, <1>9 DEF DueParts, Due, InOrder

LEMMA DueTransforms ==
    ASSUME Core, DueParts, FormDue, Within, changes' = changes, Transforming PROVE DueParts'
<1>1. ~Disturb /\ changes' # changes + 1
  BY DEF Disturb, Core, DirectoryTypeOK
<1>2. CASE OptedOut \/ Resolve
  BY <1>2, DueOptedOut, DueResolves
<1>3. CASE Unresolved
  <2>1. mode = "on" /\ ~InOrder
    BY <1>1, <1>3 DEF Unresolved, InOrder
  <2> QED
    BY <2>1, NothingDue
<1>4. CASE Fails
  BY <1>1, <1>4 DEF Fails
<1>5. ASSUME stage \notin {"idle", "resolve"}
      PROVE  mode = "on" /\ (InOrder => ShortWay)
  BY <1>5 DEF DueParts
<1>6. CASE Listing \/ GetCostCenterAgain \/ Recovery
  <2>1. stage \in {"list", "costAgain", "candidate", "adopted"} \cup Sticky
    BY <1>6
    DEF Listing, ListFromCache, ListAnew, ListPartly, ListFails, GetCostCenterAgain, Recovery,
        GetCandidate, GetStickyOrganization, GetStickyRecord, GetStickyCostCenter,
        GetAdoptedCostCenter, Sticky
  <2>2. mode = "on" /\ ~InOrder
    BY <1>5, <2>1 DEF ShortWay, Sticky
  <2> QED
    BY <2>2, NothingDue
<1>7. CASE GetDocuments
  <2>1. stage = "documents"
    BY <1>7 DEF GetDocuments
  <2> QED
    BY <1>5, <1>7, <2>1, DueDocuments, NothingDue
<1>8. CASE GetPrices \/ CartCleared \/ CartNotCleared
  <2>1. stage \in {"prices", "clear"}
    BY <1>8 DEF GetPrices, CartCleared, CartNotCleared
  <2> QED
    BY <1>1, <1>5, <1>8, <2>1, DuePrices, DueClears, NothingDue
<1>9. CASE Respond
  <2>1. stage = "respond"
    BY <1>9 DEF Respond
  <2> QED
    BY <1>1, <1>5, <1>9, <2>1, DueResponds, NothingDue
<1> QED
  BY <1>2, <1>3, <1>4, <1>6, <1>7, <1>8, <1>9 DEF Transforming

LEMMA DueStays ==
    ASSUME DueParts, UNCHANGED <<facts, sessionVars, stage, workVars, hasCart, elsewhere>>
    PROVE  DueParts'
<1>1. /\ UNCHANGED <<usable, live, stale, present, choice, mode, session, stage>>
      /\ UNCHANGED <<cachedUser, user, hash, orgDoc, costDoc, table, hasCart, elsewhere>>
  BY DEF facts, sessionVars, workVars
<1>2. Due => Due'
  BY <1>1 DEF Due, InOrder, CanAdopt, Serves, Pin, PairOf
<1>3. ShortWay => ShortWay'
  BY <1>1, DueTableStays DEF ShortWay, PairOf
<1> QED
  BY <1>1, <1>2, <1>3, InOrderStays DEF DueParts

LEMMA DueNext ==
    ASSUME Core, passes \in 0 .. 2, DueInv, [Next]_vars PROVE DueInv'
<1> SUFFICES ASSUME passes' # 0 PROVE DueParts' /\ FormDue'
  BY DEF DueInv
<1>1. CASE UNCHANGED vars
  <2>1. /\ passes # 0 /\ UNCHANGED <<facts, sessionVars, stage, workVars, hasCart, elsewhere>>
        /\ UNCHANGED <<stage, form, hasCart>>
    BY <1>1 DEF vars, world, facts, workVars, cartVars
  <2> QED
    BY <2>1, DueStays DEF DueInv, FormDue
<1>2. CASE Next /\ Start
  <2>1. stage' = "resolve" /\ form' = hasCart /\ hasCart' = hasCart
    BY <1>2 DEF Start, cartVars
  <2> QED
    BY <2>1 DEF DueParts, FormDue
<1>3. CASE Next /\ Within
  <2>1. /\ DueParts /\ FormDue /\ UNCHANGED <<changes, hasCart, elsewhere>>
    BY <1>3, Undisturbing DEF Within, DueInv
  <2>2. CASE Transforming
    <3>1. stage # "idle" /\ (stage' = "idle" \/ form' = form)
      BY <2>2, TransformsBusy, TransformKeepsForm DEF FormKept
    <3> QED
      BY <1>3, <2>1, <2>2, <3>1, DueTransforms DEF FormDue
  <2>3. CASE UNCHANGED <<sessionVars, stage, workVars, listed>>
    <3>1. UNCHANGED <<stage, form>>
      BY <2>3 DEF workVars
    <3> QED
      BY <1>3, <2>1, <2>3, <3>1, DueStays DEF Within, FormDue
  <2>4. CASE Start
    BY <1>2, <1>3, <2>4
  <2> QED
    BY <1>3, <2>2, <2>3, <2>4, Undisturbing
<1> QED
  BY <1>1, <1>2, <1>3, Undisturbing

(***************************************************************************)
(* setProfile: for any organizations, cost centers and documents, the      *)
(* first transform that nothing disturbs, of a session left behind by any  *)
(* recoveries and failures, serves the choice as a whole if it is in order *)
(* and nothing if the shopper or the merchant has opted out.               *)
(***************************************************************************)
THEOREM WhatIsDueIsServed == Spec => []ServesWhatIsDue
<1>1. Spec => [](ProfileInv /\ DueInv)
  BY ProfileInit, ProfileNext, DueInit, DueNext, PTL DEF Spec, ProfileInv
<1>2. DueInv => ServesWhatIsDue
  BY DEF DueInv, DueParts, Due, InOrder, ServesWhatIsDue
<1> QED
  BY <1>1, <1>2, PTL

==============================================================================
