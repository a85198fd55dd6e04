--------------------------- MODULE AdminSetupProofs ---------------------------
(***************************************************************************)
(* Proofs about AdminSetup, for any number of requests, roles and apps and *)
(* any features these define: its types, that the watcher stays as it was  *)
(* set, and that any number of syncRoles only add.                         *)
(*                                                                         *)
(* Both properties speak of one document; why they hold is what the        *)
(* requests have in hand of it.  FlipInv: the settings a request is about  *)
(* to save have the flag the document has.  SyncInv: every list of roles   *)
(* that was read, however long ago, and every role that is to be put into  *)
(* one, is one that syncRoles may have made of the roles of the base; an   *)
(* edit that runs alone writes a base of its own.                          *)
(***************************************************************************)
EXTENDS AdminSetup, TLAPS

------------------------------------------------------------------------------
(***************************************************************************)
(* What a request has in hand.                                             *)
(***************************************************************************)
LEMMA BurstHolds ==
    ASSUME NEW b \in Bursts
    PROVE  /\ DOMAIN b \in SUBSET Slugs
           /\ b = [s \in DOMAIN b |-> b[s]]
           /\ \A s \in DOMAIN b : /\ b[s] \in Saves
                                  /\ b[s].to \in {None} \cup SUBSET Modules
                                  /\ b[s].copy \in {None} \cup Roles
BY DEF Bursts, Saves

LEMMA BurstMade ==
    ASSUME NEW S \in SUBSET Slugs, NEW b \in [S -> Saves]
    PROVE  b \in Bursts
BY DEF Bursts

\* The document, or what stands in for it, is a list of roles.
LEMMA RolesFound ==
    ASSUME SetupTypeOK PROVE SearchRoles(roles) \in Roles
BY SetupAssumption DEF SetupTypeOK, SearchRoles

\* None is no list and no settings.
LEMMA NoneIsNothing == None \notin Roles /\ None \notin Settings /\ None \notin SUBSET Modules
BY SetupAssumption

\* One of the saves has read, ...
LEMMA ReadShape ==
    ASSUME SetupTypeOK, NEW p \in Procs, NEW s, ReadRoles(p, s)
    PROVE  /\ saves' \in [Procs -> Bursts]
           /\ \A q \in Procs : DOMAIN saves'[q] = DOMAIN saves[q]
           /\ \A q \in Procs : \A t \in DOMAIN saves[q] :
                 /\ saves'[q][t].to = saves[q][t].to
                 /\ saves'[q][t].copy =
                       IF q = p /\ t = s THEN SearchRoles(roles) ELSE saves[q][t].copy
<1> DEFINE c == SearchRoles(roles)
           one == [saves[p][s] EXCEPT !.copy = c]
           b == [saves[p] EXCEPT ![s] = one]
<1> c \in Roles /\ s \in DOMAIN saves[p]
  BY RolesFound DEF ReadRoles
<1>0. saves' = [saves EXCEPT ![p][s].copy = c]
  BY DEF ReadRoles
<1> HIDE DEF c
<1>1. saves[p] \in Bursts
  BY DEF SetupTypeOK
<1>2. saves[p][s] \in Saves
  BY <1>1, BurstHolds
<1>3. one \in Saves /\ one.to = saves[p][s].to /\ one.copy = c
  BY <1>2 DEF Saves
<1>4. saves' = [saves EXCEPT ![p] = b]
  BY <1>0
<1> HIDE DEF one
<1>5. /\ DOMAIN b = DOMAIN saves[p]
      /\ \A t \in DOMAIN b : b[t] = IF t = s THEN one ELSE saves[p][t]
  BY <1>1, BurstHolds
<1>6. b \in Bursts
  <2>1. b \in [DOMAIN saves[p] -> Saves]
    BY <1>1, <1>3, BurstHolds
  <2> QED
    BY <1>1, <2>1, BurstHolds, BurstMade
<1> HIDE DEF b
<1> QED
  BY <1>3, <1>4, <1>5, <1>6 DEF SetupTypeOK, c

\* ... or is over.
LEMMA DropShape ==
    ASSUME SetupTypeOK, NEW p \in Procs, NEW s, saves' = Drop(p, s)
    PROVE  /\ saves' \in [Procs -> Bursts]
           /\ \A q \in Procs :
                 /\ DOMAIN saves'[q] = IF q = p THEN DOMAIN saves[q] \ {s} ELSE DOMAIN saves[q]
                 /\ \A t \in DOMAIN saves'[q] : saves'[q][t] = saves[q][t]
<1> DEFINE S == DOMAIN saves[p] \ {s}
           b == [t \in S |-> saves[p][t]]
<1>1. saves[p] \in Bursts
  BY DEF SetupTypeOK
<1>2. b \in Bursts
  <2>1. S \in SUBSET Slugs /\ b \in [S -> Saves]
    BY <1>1, BurstHolds
  <2> HIDE DEF S, b
  <2> QED
    BY <2>1, BurstMade
<1>3. saves' = [saves EXCEPT ![p] = b]
  BY DEF Drop
<1>4. DOMAIN b = S /\ \A t \in S : b[t] = saves[p][t]
  OBVIOUS
<1> HIDE DEF b
<1> QED
  BY <1>2, <1>3, <1>4 DEF SetupTypeOK

------------------------------------------------------------------------------
(***************************************************************************)
(* Types.                                                                  *)
(***************************************************************************)
LEMMA TypeInit == Init => SetupTypeOK
<1> SUFFICES ASSUME Init PROVE SetupTypeOK
  OBVIOUS
<1>1. EmptyBurst \in Bursts /\ DOMAIN EmptyBurst = {}
  <2>1. EmptyBurst \in [{} -> Saves] /\ DOMAIN EmptyBurst = {}
    BY DEF EmptyBurst
  <2> QED
    BY <2>1, BurstMade
<1>2. saves \in [Procs -> Bursts] /\ \A p \in Procs : DOMAIN saves[p] = {}
  BY <1>1 DEF Init
<1>3. NoSettings \in Settings
  BY DEF NoSettings, Settings
<1>4. roles \in {None} \cup Roles /\ base \in Roles
  BY SetupAssumption DEF Init, SearchRoles
<1>5. ops \in 0 .. MaxOps
  BY SetupAssumption DEF Init
<1> QED
  BY <1>2, <1>3, <1>4, <1>5 DEF Init, SetupTypeOK

LEMMA Counted ==
    ASSUME SetupTypeOK, Count PROVE ops' \in 0 .. MaxOps
<1>1. ops \in 0 .. MaxOps
  BY DEF SetupTypeOK
<1> QED
  BY <1>1, SetupAssumption DEF Count

\* The roles: an edit begins, its saves read and write.
LEMMA EditsTyped ==
    ASSUME SetupTypeOK, NEW p \in Procs, Edits(p)
    PROVE  SetupTypeOK'
<1> PICK s \in Slugs, f \in {None} \cup SUBSET Modules : BeginEdit(p, s, f)
  BY DEF Edits
<1> DEFINE b == [t \in {s} |-> [to |-> f, copy |-> None]]
<1>1. b \in Bursts
  <2>1. {s} \in SUBSET Slugs /\ b \in [{s} -> Saves]
    BY DEF Saves
  <2> HIDE DEF b
  <2> QED
    BY <2>1, BurstMade
<1>2. saves' = [saves EXCEPT ![p] = b] /\ pc' = [pc EXCEPT ![p] = "edit"]
  BY DEF BeginEdit, Goto
<1> HIDE DEF b
<1>3. saves' \in [Procs -> Bursts]
  BY <1>1, <1>2 DEF SetupTypeOK
<1>4. \A q \in Procs : DOMAIN saves'[q] # {} => pc'[q] \in {"edit", "sync"}
  BY <1>2 DEF SetupTypeOK
<1>5. ops' \in 0 .. MaxOps
  BY Counted DEF BeginEdit
<1> QED
  BY <1>2, <1>3, <1>4, <1>5 DEF BeginEdit, SetupTypeOK, docVars, flagHistory

LEMMA SavingTyped ==
    ASSUME SetupTypeOK, NEW p \in Procs, Saving(p)
    PROVE  SetupTypeOK'
<1> PICK s \in Slugs :
       ReadRoles(p, s) \/ ReadRolesFails(p, s) \/ WriteRoles(p, s) \/ WriteRolesFails(p, s)
  BY DEF Saving
<1>1. s \in DOMAIN saves[p]
  BY DEF ReadRoles, ReadRolesFails, WriteRoles, WriteRolesFails
<1>2. CASE ReadRoles(p, s)
  <2>1. /\ saves' \in [Procs -> Bursts]
        /\ \A q \in Procs : DOMAIN saves'[q] = DOMAIN saves[q]
    BY <1>2, ReadShape
  <2> QED
    BY <1>2, <2>1 DEF ReadRoles, SetupTypeOK, docVars, rolesHistory, flagHistory
<1>3. ASSUME saves' = Drop(p, s)
      PROVE  /\ saves' \in [Procs -> Bursts]
             /\ \A q \in Procs : DOMAIN saves'[q] # {} => pc[q] \in {"edit", "sync"}
  BY <1>3, DropShape DEF SetupTypeOK
<1>4. CASE ReadRolesFails(p, s) \/ WriteRolesFails(p, s)
  <2>1. ops' \in 0 .. MaxOps
    BY <1>4, Counted DEF ReadRolesFails, WriteRolesFails
  <2> QED
    BY <1>3, <1>4, <2>1
    DEF ReadRolesFails, WriteRolesFails, SetupTypeOK, docVars, rolesHistory, flagHistory
<1>5. CASE WriteRoles(p, s)
  <2>1. saves[p][s].copy \in Roles /\ saves[p][s].to \in {None} \cup SUBSET Modules
    BY <1>1, <1>5, BurstHolds DEF WriteRoles, SetupTypeOK
  <2>2. roles' \in Roles
    BY <1>5, <2>1 DEF WriteRoles, Roles
  <2>3. base' \in Roles
    BY <1>5, <2>1 DEF WriteRoles, SetupTypeOK, Roles
  <2> QED
    BY <1>3, <1>5, <2>2, <2>3 DEF WriteRoles, SetupTypeOK, flagHistory
<1> QED
  BY <1>2, <1>4, <1>5

\* syncRoles: what it saves.
LEMMA MergedShape ==
    ASSUME NEW list \in Roles
    PROVE  /\ DOMAIN Merged(list) \in SUBSET Slugs
           /\ \A s \in DOMAIN Merged(list) :
                 /\ Merged(list)[s] \in SUBSET Modules
                 /\ Merged(list)[s] = IF list[s] = None THEN Features[s]
                                      ELSE list[s] \cup Features[s]
           /\ \A s \in Slugs : s \in DOMAIN Merged(list) <=> list[s] # None \/ Features[s] # {}
BY SetupAssumption DEF Merged, Roles

LEMMA SyncShape ==
    ASSUME SetupTypeOK, NEW p \in Procs, SyncRoles(p)
    PROVE  /\ saves' \in [Procs -> Bursts]
           /\ \A q \in Procs : q # p => saves'[q] = saves[q]
           /\ DOMAIN saves'[p] = DOMAIN Merged(SearchRoles(roles))
           /\ \A s \in DOMAIN saves'[p] :
                 /\ saves'[p][s].to = Merged(SearchRoles(roles))[s]
                 /\ saves'[p][s].copy = None
<1> DEFINE m == Merged(SearchRoles(roles))
           b == [s \in DOMAIN m |-> [to |-> m[s], copy |-> None]]
<1>1. saves' = [saves EXCEPT ![p] = b]
  BY DEF SyncRoles
<1>2. DOMAIN m \in SUBSET Slugs /\ \A s \in DOMAIN m : m[s] \in SUBSET Modules
  BY RolesFound, MergedShape
<1> HIDE DEF m
<1>3. b \in [DOMAIN m -> Saves]
  BY <1>2 DEF Saves
<1>4. DOMAIN b = DOMAIN m /\ \A s \in DOMAIN m : b[s].to = m[s] /\ b[s].copy = None
  OBVIOUS
<1> HIDE DEF b
<1>5. b \in Bursts
  BY <1>2, <1>3, BurstMade
<1> QED
  BY <1>1, <1>4, <1>5 DEF SetupTypeOK, m

LEMMA SyncTyped ==
    ASSUME SetupTypeOK, NEW p \in Procs, SyncRoles(p) \/ Done(p)
    PROVE  SetupTypeOK'
<1>1. CASE SyncRoles(p)
  <2>1. saves' \in [Procs -> Bursts]
    BY <1>1, SyncShape
  <2>2. \A q \in Procs : DOMAIN saves'[q] # {} => pc'[q] \in {"edit", "sync"}
    BY <1>1, SyncShape DEF SyncRoles, Goto, SetupTypeOK
  <2> QED
    BY <1>1, <2>1, <2>2 DEF SyncRoles, Goto, SetupTypeOK, docVars, flagHistory
<1>2. CASE Done(p)
  <2>1. base' \in Roles /\ era' \in {"syncs", "edit", "mixed"}
    BY <1>2, RolesFound DEF Done, Afresh, SetupTypeOK, rolesHistory
  <2> QED
    BY <1>2, <2>1 DEF Done, Goto, SetupTypeOK, docVars, flagHistory
<1> QED
  BY <1>1, <1>2

\* The settings.
SettingsSteps(p) ==
    \/ BeginSetup(p) \/ ReadSettings(p) \/ UpdateSchemas(p) \/ SaveSettings(p)
    \/ SetupFails(p) \/ SaveFlip(p)
    \/ \E active \in BOOLEAN : BeginFlip(p, active)

LEMMA SettingsTyped ==
    ASSUME SetupTypeOK, NEW p \in Procs, SettingsSteps(p)
    PROVE  SetupTypeOK'
<1>1. \A q \in Procs : pc[q] \notin {"edit", "sync"} => DOMAIN saves[q] = {}
  BY DEF SetupTypeOK
<1>2. settings # None
  BY SetupAssumption DEF SetupTypeOK
<1>3. CASE BeginSetup(p) \/ UpdateSchemas(p)
  BY <1>1, <1>3
  DEF BeginSetup, UpdateSchemas, Goto, SetupTypeOK, docVars, rolesHistory, flagHistory
<1>4. CASE ReadSettings(p)
  BY <1>1, <1>2, <1>4 DEF ReadSettings, Goto, SetupTypeOK, docVars, rolesHistory, flagHistory
<1>5. CASE SaveSettings(p)
  <2>1. view[p] \in Settings
    BY <1>5 DEF SaveSettings, SetupTypeOK
  <2>2. settings' \in Settings
    BY <1>5, <2>1 DEF SaveSettings, Settings
  <2> QED
    BY <1>1, <1>5, <2>2 DEF SaveSettings, Goto, SetupTypeOK, rolesHistory
<1>6. CASE SetupFails(p)
  <2>1. ops' \in 0 .. MaxOps
    BY <1>6, Counted DEF SetupFails
  <2> QED
    BY <1>1, <1>6, <2>1 DEF SetupFails, Goto, SetupTypeOK, docVars, rolesHistory, flagHistory
<1>7. CASE SaveFlip(p)
  <2>1. view[p] \in Settings /\ flag[p] \in BOOLEAN
    BY <1>7 DEF SaveFlip, SetupTypeOK
  <2>2. settings' \in Settings
    BY <1>7, <2>1 DEF SaveFlip, Settings
  <2>3. disputed' \in BOOLEAN
    BY <1>7, Zenon DEF SaveFlip, Outdates
  <2> QED
    BY <1>1, <1>7, <2>1, <2>2, <2>3 DEF SaveFlip, Goto, SetupTypeOK, rolesHistory
<1>8. ASSUME NEW active \in BOOLEAN, BeginFlip(p, active)
      PROVE  SetupTypeOK'
  <2>1. ops' \in 0 .. MaxOps
    BY <1>8, Counted DEF BeginFlip
  <2> QED
    BY <1>1, <1>8, <2>1 DEF BeginFlip, Goto, SetupTypeOK, docVars, rolesHistory, flagHistory
<1> QED
  BY <1>3, <1>4, <1>5, <1>6, <1>7, <1>8 DEF SettingsSteps

LEMMA TypeNext == SetupTypeOK /\ [Next]_vars => SetupTypeOK'
<1> SUFFICES ASSUME SetupTypeOK, [Next]_vars PROVE SetupTypeOK'
  OBVIOUS
<1>1. CASE Next
  BY <1>1, EditsTyped, SavingTyped, SyncTyped, SettingsTyped DEF Next, SettingsSteps
<1>2. CASE UNCHANGED vars
  BY <1>2 DEF vars, docVars, callVars, rolesHistory, flagHistory, SetupTypeOK
<1> QED
  BY <1>1, <1>2

\* Every variable of AdminSetup keeps its type; settings are in hand exactly
\* while they are to be saved, and roles only while some are edited or synced.
THEOREM SetupTypeCorrect == Spec => []SetupTypeOK
BY TypeInit, TypeNext, PTL DEF Spec

------------------------------------------------------------------------------
(***************************************************************************)
(* The watcher.                                                            *)
(***************************************************************************)
\* As long as no two requests had settings in hand, whoever has some has the
\* flag of the document, which is the one last set.
FlipInv ==
    ~disputed => /\ settings.watcher = intended
                 /\ \A q \in Procs : view[q] # None => view[q].watcher = settings.watcher

LEMMA FlipInit == Init => FlipInv
BY DEF Init, FlipInv, NoSettings

LEMMA FlipStep ==
    ASSUME SetupTypeOK, FlipInv, NEW p \in Procs, SettingsSteps(p)
    PROVE  FlipInv'
<1>1. \A q \in Procs : view[q] \in {None} \cup Settings
  BY DEF SetupTypeOK
<1>2. CASE BeginSetup(p) \/ UpdateSchemas(p) \/ \E active \in BOOLEAN : BeginFlip(p, active)
  BY <1>2 DEF BeginSetup, UpdateSchemas, BeginFlip, FlipInv, docVars, flagHistory
<1>3. CASE ReadSettings(p)
  BY <1>3 DEF ReadSettings, FlipInv, SetupTypeOK, docVars, flagHistory
<1>4. CASE SetupFails(p)
  BY <1>4 DEF SetupFails, FlipInv, SetupTypeOK, docVars, flagHistory
<1>5. CASE SaveSettings(p)
  <2>1. view[p] \in Settings /\ view[p] # None
    BY <1>5, SetupAssumption DEF SaveSettings, SetupTypeOK
  <2>2. settings'.watcher = view[p].watcher
    BY <1>5, <2>1 DEF SaveSettings, Settings
  <2>3. \A q \in Procs : view'[q] # None => q # p /\ view'[q] = view[q]
    BY <1>5 DEF SaveSettings, SetupTypeOK
  <2>4. disputed' <=> disputed \/ Outdates(p)
    BY <1>5 DEF SaveSettings
  <2>5. intended' = intended
    BY <1>5 DEF SaveSettings
  <2> QED
    BY <2>1, <2>2, <2>3, <2>4, <2>5 DEF FlipInv
<1>6. CASE SaveFlip(p)
  <2>1. view[p] \in Settings
    BY <1>6 DEF SaveFlip, SetupTypeOK
  <2>2. settings'.watcher = flag[p] /\ intended' = flag[p]
    BY <1>6, <2>1 DEF SaveFlip, Settings
  <2>3. \A q \in Procs : view'[q] # None => q # p /\ view'[q] = view[q]
    BY <1>6 DEF SaveFlip, SetupTypeOK
  <2>4. ~disputed' => \A q \in Procs \ {p} : view[q] = None
    BY <1>6 DEF SaveFlip, Outdates
  <2> QED
    BY <2>2, <2>3, <2>4 DEF FlipInv
<1> QED
  BY <1>2, <1>3, <1>4, <1>5, <1>6 DEF SettingsSteps

LEMMA FlipNext == SetupTypeOK /\ FlipInv /\ [Next]_vars => FlipInv'
<1> SUFFICES ASSUME SetupTypeOK, FlipInv, [Next]_vars PROVE FlipInv'
  OBVIOUS
<1>1. ASSUME NEW p \in Procs, SettingsSteps(p) PROVE FlipInv'
  BY <1>1, FlipStep
<1>2. ASSUME UNCHANGED <<settings, view, flagHistory>> PROVE FlipInv'
  BY <1>2 DEF FlipInv, flagHistory
<1>3. ASSUME NEW p \in Procs, Edits(p) \/ Saving(p) \/ Done(p) \/ SyncRoles(p)
      PROVE  UNCHANGED <<settings, view, flagHistory>>
  BY <1>3 DEF Edits, BeginEdit, Saving, ReadRoles, ReadRolesFails, WriteRoles, WriteRolesFails,
              Done, SyncRoles, docVars
<1>4. CASE Next
  BY <1>1, <1>2, <1>3, <1>4 DEF Next, SettingsSteps
<1>5. CASE UNCHANGED vars
  BY <1>2, <1>5 DEF vars, docVars, callVars
<1> QED
  BY <1>4, <1>5

\* sessionWatcher and getAppSettings: through failures and schema updates the
\* watcher is what it was last set to, unless two requests had the settings in
\* hand at once.
THEOREM WatcherHolds == Spec => []FlipHolds
<1>1. FlipInv => FlipHolds
  BY DEF FlipInv, FlipHolds
<1> QED
  BY <1>1, TypeInit, TypeNext, FlipInit, FlipNext, PTL DEF Spec

------------------------------------------------------------------------------
(***************************************************************************)
(* The roles.                                                              *)
(***************************************************************************)
LEMMA GrownRefl ==
    ASSUME NEW s, NEW a PROVE Grown(s, a, a)
BY DEF Grown

LEMMA GrownTrans ==
    ASSUME NEW s \in Slugs, NEW a, NEW b, NEW c, Grown(s, a, b), Grown(s, b, c)
    PROVE  Grown(s, a, c)
<1>1. CASE c = None
  BY <1>1 DEF Grown
<1>2. CASE c # None /\ b = None
  BY <1>2 DEF Grown
<1>3. CASE c # None /\ b # None /\ a = None
  BY <1>3 DEF Grown
<1>4. CASE c # None /\ b # None /\ a # None
  BY <1>4 DEF Grown
<1> QED
  BY <1>1, <1>2, <1>3, <1>4

\* What syncRoles saves of a list it read is what it may make of it.
LEMMA MergedGrown ==
    ASSUME NEW list \in Roles, NEW s \in DOMAIN Merged(list)
    PROVE  s \in Slugs /\ Grown(s, list[s], Merged(list)[s])
<1>1. s \in Slugs /\ (list[s] # None \/ Features[s] # {})
  BY MergedShape
<1>2. Merged(list)[s] \in SUBSET Modules
  BY MergedShape
<1>3. Merged(list)[s] # None
  BY <1>2, SetupAssumption
<1>4. CASE list[s] = None
  BY <1>1, <1>3, <1>4, MergedShape DEF Grown
<1>5. CASE list[s] # None
  BY <1>1, <1>3, <1>5, MergedShape DEF Grown
<1> QED
  BY <1>1, <1>4, <1>5

GrownFrom(was, list) == \A s \in Slugs : Grown(s, was[s], list[s])

\* Nobody has roles in hand: no edit to wait for.
RestInv == Editing = {} => era = "syncs"

\* The one request of the era of an edit saves one role, if any still.
LoneInv ==
    era = "edit" => \E p \in Procs, s \in Slugs : Editing = {p} /\ DOMAIN saves[p] \subseteq {s}

\* The document, and each copy of it ...
ListsInv ==
    era # "mixed" =>
        /\ GrownFrom(base, SearchRoles(roles))
        /\ \A q \in Procs : \A t \in DOMAIN saves[q] :
              saves[q][t].copy # None => GrownFrom(base, saves[q][t].copy)

\* ... and each role to be saved into one.
TargetsInv ==
    era = "syncs" =>
        \A q \in Procs : \A t \in DOMAIN saves[q] : Grown(t, base[t], saves[q][t].to)

SyncInv == RestInv /\ LoneInv /\ ListsInv /\ TargetsInv

LEMMA SyncInit == Init => SyncInv
<1> SUFFICES ASSUME Init PROVE SyncInv
  OBVIOUS
<1>1. era = "syncs" /\ base = SearchRoles(roles)
  BY DEF Init
<1>2. \A q \in Procs : DOMAIN saves[q] = {}
  BY DEF Init, EmptyBurst
<1>3. GrownFrom(base, SearchRoles(roles))
  BY <1>1, GrownRefl DEF GrownFrom
<1> QED
  BY <1>1, <1>2, <1>3 DEF SyncInv, RestInv, LoneInv, ListsInv, TargetsInv

\* Who has no roles in hand has no save under way.
LEMMA IdleHands ==
    ASSUME SetupTypeOK, NEW q \in Procs, q \notin Editing PROVE DOMAIN saves[q] = {}
BY DEF SetupTypeOK, Editing

LEMMA EditsSync ==
    ASSUME SetupTypeOK, SyncInv, NEW p \in Procs, Edits(p)
    PROVE  SyncInv'
<1> PICK s \in Slugs, f \in {None} \cup SUBSET Modules : BeginEdit(p, s, f)
  BY DEF Edits
<1> DEFINE b == [t \in {s} |-> [to |-> f, copy |-> None]]
<1>1. /\ saves' = [saves EXCEPT ![p] = b]
      /\ pc' = [pc EXCEPT ![p] = "edit"]
      /\ era' = IF Editing = {} THEN "edit" ELSE "mixed"
      /\ base' = base /\ roles' = roles
  BY DEF BeginEdit, Goto, docVars
<1>2. DOMAIN b = {s} /\ b[s].copy = None
  OBVIOUS
<1> HIDE DEF b
<1>3. /\ saves'[p] = b
      /\ \A q \in Procs : q # p => saves'[q] = saves[q]
  BY <1>1 DEF SetupTypeOK
<1>4. Editing' = Editing \cup {p}
  BY <1>1 DEF Editing, SetupTypeOK
<1>5. RestInv' /\ TargetsInv'
  BY <1>1, <1>4 DEF RestInv, TargetsInv
<1>6. CASE Editing # {}
  BY <1>1, <1>5, <1>6 DEF SyncInv, LoneInv, ListsInv
<1>7. CASE Editing = {}
  <2>1. era = "syncs"
    BY <1>7 DEF SyncInv, RestInv
  <2>2. GrownFrom(base, SearchRoles(roles))
    BY <2>1 DEF SyncInv, ListsInv
  <2>3. GrownFrom(base', SearchRoles(roles'))
    BY <1>1, <2>2
  <2>4. \A q \in Procs : q # p => DOMAIN saves'[q] = {}
    BY <1>3, <1>7, IdleHands
  <2>5. ListsInv'
    BY <1>2, <1>3, <2>3, <2>4 DEF ListsInv, SearchRoles
  <2>6. LoneInv'
    BY <1>2, <1>3, <1>4, <1>7 DEF LoneInv
  <2> QED
    BY <1>5, <2>5, <2>6 DEF SyncInv
<1> QED
  BY <1>6, <1>7

LEMMA ReadSync ==
    ASSUME SetupTypeOK, SyncInv, NEW p \in Procs, NEW s \in Slugs, ReadRoles(p, s)
    PROVE  SyncInv'
<1> DEFINE c == SearchRoles(roles)
<1>1. c \in Roles
  BY RolesFound
<1>2. /\ s \in DOMAIN saves[p]
      /\ UNCHANGED <<roles, pc, base, era>>
  BY DEF ReadRoles, docVars, rolesHistory
<1>3. GrownFrom(base, c)' <=> GrownFrom(base, c)
  BY <1>2 DEF GrownFrom, SearchRoles
<1>4. SearchRoles(roles)' = c
  BY <1>2 DEF SearchRoles
<1> HIDE DEF c
<1>5. /\ \A q \in Procs : DOMAIN saves'[q] = DOMAIN saves[q]
      /\ \A q \in Procs : \A t \in DOMAIN saves[q] :
            /\ saves'[q][t].to = saves[q][t].to
            /\ saves'[q][t].copy = IF q = p /\ t = s THEN c ELSE saves[q][t].copy
  BY ReadShape DEF c
<1>6. RestInv' /\ LoneInv'
  BY <1>2, <1>5 DEF SyncInv, RestInv, LoneInv, Editing
<1>7. TargetsInv'
  BY <1>2, <1>5 DEF SyncInv, TargetsInv
<1>8. era # "mixed" => GrownFrom(base, c)
  BY DEF SyncInv, ListsInv, c
<1>9. ListsInv'
  <2> SUFFICES ASSUME era # "mixed" PROVE
          /\ GrownFrom(base, SearchRoles(roles)')
          /\ \A q \in Procs : \A t \in DOMAIN saves'[q] :
                saves'[q][t].copy # None => GrownFrom(base, saves'[q][t].copy)
    BY <1>2 DEF ListsInv, GrownFrom
  <2>1. \A q \in Procs : \A t \in DOMAIN saves[q] :
                saves[q][t].copy # None => GrownFrom(base, saves[q][t].copy)
    BY DEF SyncInv, ListsInv
  <2> QED
    BY <1>4, <1>5, <1>8, <2>1
<1> QED
  BY <1>6, <1>7, <1>9 DEF SyncInv

\* A save of roles is over, and nothing was written.
LEMMA DropSync ==
    ASSUME SetupTypeOK, SyncInv, NEW p \in Procs, NEW s \in Slugs,
           saves' = Drop(p, s), UNCHANGED <<roles, pc, base, era>>
    PROVE  SyncInv'
<1>1. \A q \in Procs :
          /\ DOMAIN saves'[q] \subseteq DOMAIN saves[q]
          /\ \A t \in DOMAIN saves'[q] : saves'[q][t] = saves[q][t]
  BY DropShape
<1>2. RestInv' /\ LoneInv'
  BY <1>1 DEF SyncInv, RestInv, LoneInv, Editing
<1>3. TargetsInv'
  BY <1>1 DEF SyncInv, TargetsInv
<1>4. ListsInv'
  BY <1>1 DEF SyncInv, ListsInv, SearchRoles, GrownFrom
<1> QED
  BY <1>2, <1>3, <1>4 DEF SyncInv

LEMMA WriteSync ==
    ASSUME SetupTypeOK, SyncInv, NEW p \in Procs, NEW s \in Slugs, WriteRoles(p, s)
    PROVE  SyncInv'
<1> DEFINE c == saves[p][s].copy
           f == saves[p][s].to
<1>1. /\ s \in DOMAIN saves[p] /\ c # None
      /\ roles' = [c EXCEPT ![s] = f]
      /\ saves' = Drop(p, s)
      /\ base' = IF era = "edit" THEN [base EXCEPT ![s] = f] ELSE base
      /\ UNCHANGED <<pc, era>>
  BY DEF WriteRoles
<1>2. c \in Roles /\ f \in {None} \cup SUBSET Modules
  BY <1>1, BurstHolds DEF SetupTypeOK
<1>3. era # "mixed" => GrownFrom(base, c)
  BY <1>1 DEF SyncInv, ListsInv
<1>4. era = "syncs" => Grown(s, base[s], f)
  BY <1>1 DEF SyncInv, TargetsInv
<1>5. \A q \in Procs :
          /\ DOMAIN saves'[q] = IF q = p THEN DOMAIN saves[q] \ {s} ELSE DOMAIN saves[q]
          /\ \A t \in DOMAIN saves'[q] : saves'[q][t] = saves[q][t]
  BY <1>1, DropShape
<1> HIDE DEF c, f
<1>6. roles' \in Roles /\ \A t \in Slugs : roles'[t] = IF t = s THEN f ELSE c[t]
  BY <1>1, <1>2 DEF Roles
<1>7. SearchRoles(roles)' = roles'
  BY <1>6, SetupAssumption DEF SearchRoles
<1>8. RestInv'
  BY <1>1 DEF SyncInv, RestInv, Editing
<1>9. LoneInv'
  BY <1>1, <1>5 DEF SyncInv, LoneInv, Editing
<1>10. CASE era = "mixed"
  BY <1>1, <1>8, <1>9, <1>10 DEF SyncInv, ListsInv, TargetsInv
<1>11. CASE era = "syncs"
  <2>1. base' = base
    BY <1>1, <1>11
  <2>2. TargetsInv'
    BY <1>1, <1>5, <2>1 DEF SyncInv, TargetsInv
  <2>3. GrownFrom(base, roles')
    BY <1>3, <1>4, <1>6, <1>11 DEF GrownFrom
  <2>4. \A q \in Procs : \A t \in DOMAIN saves[q] :
                saves[q][t].copy # None => GrownFrom(base, saves[q][t].copy)
    BY <1>11 DEF SyncInv, ListsInv
  <2>5. \A q \in Procs : \A t \in DOMAIN saves'[q] :
                saves'[q][t].copy # None => GrownFrom(base, saves'[q][t].copy)
    BY <1>5, <2>4
  <2>6. ListsInv'
    BY <1>7, <2>1, <2>3, <2>5 DEF ListsInv, GrownFrom
  <2> QED
    BY <1>8, <1>9, <2>2, <2>6 DEF SyncInv
<1>12. CASE era = "edit"
  <2>1. \A q \in Procs : DOMAIN saves'[q] = {}
    <3>1. PICK r \in Procs, t \in Slugs : Editing = {r} /\ DOMAIN saves[r] \subseteq {t}
      BY <1>12 DEF SyncInv, LoneInv
    <3>2. p = r
      BY <1>1, <3>1, IdleHands
    <3>3. t = s /\ DOMAIN saves'[p] = {}
      BY <1>1, <1>5, <3>1, <3>2
    <3> QED
      BY <1>5, <3>1, <3>2, <3>3, IdleHands
  <2>2. base' = [base EXCEPT ![s] = f] /\ \A t \in Slugs : base'[t] = IF t = s THEN f ELSE base[t]
    BY <1>1, <1>12 DEF SetupTypeOK, Roles
  <2>3. GrownFrom(base', roles')
    BY <1>3, <1>6, <1>12, <2>2, GrownRefl DEF GrownFrom
  <2>4. ListsInv' /\ TargetsInv'
    BY <1>7, <2>1, <2>3 DEF ListsInv, TargetsInv, GrownFrom
  <2> QED
    BY <1>8, <1>9, <2>4 DEF SyncInv
<1> QED
  BY <1>10, <1>11, <1>12 DEF SetupTypeOK

LEMMA DoneSync ==
    ASSUME SetupTypeOK, SyncInv, NEW p \in Procs, Done(p)
    PROVE  SyncInv'
<1>1. /\ p \in Editing /\ DOMAIN saves[p] = {}
      /\ pc' = [pc EXCEPT ![p] = "idle"]
      /\ UNCHANGED <<roles, saves>>
  BY DEF Done, Goto, docVars, Editing
<1>2. Editing' = Editing \ {p}
  BY <1>1 DEF Editing, SetupTypeOK
<1>3. CASE Editing = {p}
  <2>1. era' = "syncs" /\ base' = IF era = "edit" THEN base ELSE SearchRoles(roles)
    BY <1>3 DEF Done, Afresh
  <2>2. \A q \in Procs : DOMAIN saves'[q] = {}
    BY <1>1, <1>3, IdleHands
  <2>3. GrownFrom(base', SearchRoles(roles))
    <3>1. CASE era = "edit"
      BY <2>1, <3>1 DEF SyncInv, ListsInv
    <3>2. CASE era # "edit"
      BY <2>1, <3>2, GrownRefl DEF GrownFrom
    <3> QED
      BY <3>1, <3>2
  <2>4. SearchRoles(roles)' = SearchRoles(roles)
    BY <1>1 DEF SearchRoles
  <2>5. ListsInv'
    BY <2>2, <2>3, <2>4 DEF ListsInv, GrownFrom
  <2> QED
    BY <2>1, <2>2, <2>5 DEF SyncInv, RestInv, LoneInv, TargetsInv
<1>4. CASE Editing # {p}
  <2>1. UNCHANGED <<base, era>>
    BY <1>4 DEF Done, Afresh, rolesHistory
  <2>2. Editing' # {} /\ era # "edit"
    BY <1>1, <1>2, <1>4 DEF SyncInv, LoneInv
  <2>3. ListsInv' /\ TargetsInv'
    BY <1>1, <2>1 DEF SyncInv, ListsInv, TargetsInv, GrownFrom, SearchRoles
  <2> QED
    BY <2>1, <2>2, <2>3 DEF SyncInv, RestInv, LoneInv
<1> QED
  BY <1>3, <1>4

LEMMA SyncSync ==
    ASSUME SetupTypeOK, SyncInv, NEW p \in Procs, SyncRoles(p)
    PROVE  SyncInv'
<1> DEFINE list == SearchRoles(roles)
<1>1. /\ pc' = [pc EXCEPT ![p] = "sync"]
      /\ era' = IF era = "edit" THEN "mixed" ELSE era
      /\ UNCHANGED <<roles, base>>
  BY DEF SyncRoles, Goto, docVars
<1>2. p \in Editing'
  BY <1>1 DEF Editing, SetupTypeOK
<1>3. RestInv' /\ LoneInv'
  <2>1. Editing' # {} /\ era' # "edit"
    BY <1>1, <1>2
  <2> QED
    BY <2>1 DEF RestInv, LoneInv
<1>4. CASE era = "syncs"
  <2>1. list \in Roles /\ GrownFrom(base, list)
    BY <1>4, RolesFound DEF SyncInv, ListsInv
  <2>2. SearchRoles(roles)' = list
    BY <1>1 DEF SearchRoles
  <2>3. /\ \A q \in Procs : q # p => saves'[q] = saves[q]
        /\ DOMAIN saves'[p] = DOMAIN Merged(list)
        /\ \A s \in DOMAIN saves'[p] :
              saves'[p][s].to = Merged(list)[s] /\ saves'[p][s].copy = None
    BY SyncShape
  <2> HIDE DEF list
  <2>4. \A s \in DOMAIN Merged(list) : Grown(s, base[s], Merged(list)[s])
    <3> TAKE s \in DOMAIN Merged(list)
    <3>1. s \in Slugs /\ Grown(s, list[s], Merged(list)[s])
      BY <2>1, MergedGrown
    <3>2. Grown(s, base[s], list[s])
      BY <2>1, <3>1 DEF GrownFrom
    <3> QED
      BY <3>1, <3>2, GrownTrans
  <2>5. TargetsInv'
    BY <1>1, <1>4, <2>3, <2>4 DEF SyncInv, TargetsInv
  <2>6. \A q \in Procs : \A t \in DOMAIN saves[q] :
              saves[q][t].copy # None => GrownFrom(base, saves[q][t].copy)
    BY <1>4 DEF SyncInv, ListsInv
  <2>7. \A q \in Procs : \A t \in DOMAIN saves'[q] :
              saves'[q][t].copy # None => GrownFrom(base, saves'[q][t].copy)
    BY <2>3, <2>6
  <2>8. ListsInv'
    BY <1>1, <2>1, <2>2, <2>7 DEF ListsInv, GrownFrom
  <2> QED
    BY <1>3, <2>5, <2>8 DEF SyncInv
<1>5. CASE era # "syncs"
  <2>1. era' = "mixed"
    BY <1>1, <1>5 DEF SetupTypeOK
  <2> QED
    BY <1>3, <2>1 DEF SyncInv, ListsInv, TargetsInv
<1> QED
  BY <1>4, <1>5

LEMMA SettingsSync ==
    ASSUME SetupTypeOK, SyncInv, NEW p \in Procs, SettingsSteps(p)
    PROVE  SyncInv'
<1>1. UNCHANGED <<roles, saves, base, era>>
  BY DEF SettingsSteps, BeginSetup, ReadSettings, UpdateSchemas, SaveSettings, SetupFails,
         SaveFlip, BeginFlip, docVars, rolesHistory
<1>2. \E label : /\ label \notin {"edit", "sync"} /\ pc[p] \notin {"edit", "sync"}
                 /\ pc' = [pc EXCEPT ![p] = label]
  BY DEF SettingsSteps, BeginSetup, ReadSettings, UpdateSchemas, SaveSettings, SetupFails,
         SaveFlip, BeginFlip, Goto
<1>3. Editing' = Editing
  BY <1>2 DEF Editing, SetupTypeOK
<1> QED
  BY <1>1, <1>3 DEF SyncInv, RestInv, LoneInv, ListsInv, TargetsInv, SearchRoles, GrownFrom

LEMMA SyncNext == SetupTypeOK /\ SyncInv /\ [Next]_vars => SyncInv'
<1> SUFFICES ASSUME SetupTypeOK, SyncInv, [Next]_vars PROVE SyncInv'
  OBVIOUS
<1>1. ASSUME NEW p \in Procs, Saving(p) PROVE SyncInv'
  <2> PICK s \in Slugs :
         ReadRoles(p, s) \/ ReadRolesFails(p, s) \/ WriteRoles(p, s) \/ WriteRolesFails(p, s)
    BY <1>1 DEF Saving
  <2>1. CASE ReadRolesFails(p, s) \/ WriteRolesFails(p, s)
    BY <2>1, DropSync DEF ReadRolesFails, WriteRolesFails, docVars, rolesHistory
  <2> QED
    BY <2>1, ReadSync, WriteSync
<1>2. CASE Next
  BY <1>1, <1>2, EditsSync, DoneSync, SyncSync, SettingsSync DEF Next, SettingsSteps
<1>3. CASE UNCHANGED vars
  BY <1>3 DEF vars, docVars, callVars, rolesHistory, SyncInv, RestInv, LoneInv, ListsInv,
              TargetsInv, Editing, SearchRoles, GrownFrom
<1> QED
  BY <1>2, <1>3

\* saveRole, deleteRole and syncRoles: whatever syncRoles run, in whatever
\* order their saves land and whatever fails, a role keeps its features, what
\* a lone edit made of it stays, and nothing comes in but what the apps define.
THEOREM SyncsGrow == Spec => []SyncsOnlyAdd
<1>1. SyncInv => SyncsOnlyAdd
  BY DEF SyncInv, ListsInv, GrownFrom, SyncsOnlyAdd
<1> QED
  BY <1>1, TypeInit, TypeNext, SyncInit, SyncNext, PTL DEF Spec

==============================================================================
