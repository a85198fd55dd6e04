------------------------------ MODULE AdminSetup ------------------------------
(***************************************************************************)
(* Two documents every administrator shares, each read, changed and saved  *)
(* as a whole with no version check: the roles of the account (saveRole,   *)
(* deleteRole, syncRoles in src/node/resolvers/Mutations/Roles.ts) and the *)
(* settings of the app (sessionWatcher, getAppSettings in resolvers/       *)
(* Mutations and Queries/Settings.ts).                                     *)
(*                                                                         *)
(* Every load of an admin page calls getAppSettings, which saves the       *)
(* schema hash if it is outdated and then synchronizes the roles: one      *)
(* saveRole per role, all at once, with features of a list read before.    *)
(***************************************************************************)
EXTENDS Naturals

CONSTANTS
    Procs,      \* requests
    Slugs,      \* roles
    Modules,    \* apps with permissions
    Features,   \* role -> modules the installed apps define for it (groupByRole)
    Bootstrap,  \* the roles answered when there is no document yet
    None,       \* no document, no such role, not read
    MaxOps,     \* bound: edits, watcher flips and failures
    Unset       \* the watcher flag of settings that have none

Roles == [Slugs -> {None} \cup SUBSET Modules]

Settings == [current : BOOLEAN, watcher : {Unset} \cup BOOLEAN]

ASSUME SetupAssumption ==
    /\ Features \in [Slugs -> SUBSET Modules]
    /\ Bootstrap \in Roles
    /\ \A x \in Roles \cup Settings \cup (SUBSET Modules) : x # None
    /\ Unset \notin BOOLEAN
    /\ MaxOps \in Nat

VARIABLES
    roles,     \* b2b_roles: slug -> features, or None
    settings,  \* b2b_settings: is the schema hash current, and the watcher flag
    pc,        \* request -> where it is
    saves,     \* request -> slug -> [to, copy] of the saveRole or deleteRole it runs
    view,      \* request -> the settings it has read and will save, or None
    flag,      \* request -> the flag sessionWatcher was called with
    ops,       \* bound
    base,      \* history: the roles as they should be at least, see era
    era,       \* history: what has run since they were: "syncs", one lone "edit",
               \* or requests that "mixed"
    intended,  \* history: the flag last saved by sessionWatcher
    disputed   \* history: has a request saved settings another one has read?

docVars == <<roles, settings>>
callVars == <<pc, saves, view, flag>>
rolesHistory == <<base, era>>
flagHistory == <<intended, disputed>>
vars == <<docVars, callVars, ops, rolesHistory, flagHistory>>

NoSettings == [current |-> FALSE, watcher |-> Unset]

\* A saveRole or deleteRole (to = None) under way; copy = None before it reads.
Saves == [to : {None} \cup SUBSET Modules, copy : {None} \cup Roles]

\* Those a request runs at once.
Bursts == UNION {[S -> Saves] : S \in SUBSET Slugs}

\* The requests that have roles in hand.
Editing == {p \in Procs : pc[p] \in {"edit", "sync"}}

SetupTypeOK ==
    /\ roles \in {None} \cup Roles
    /\ settings \in Settings
    /\ pc \in [Procs -> {"idle", "edit", "sync", "list", "settings", "schemas",
                         "save", "flip", "flipSave"}]
    /\ saves \in [Procs -> Bursts]
    /\ \A p \in Procs :
          /\ DOMAIN saves[p] # {} => pc[p] \in {"edit", "sync"}
          /\ view[p] # None <=> pc[p] \in {"schemas", "save", "flipSave"}
    /\ view \in [Procs -> {None} \cup Settings]
    /\ flag \in [Procs -> BOOLEAN]
    /\ ops \in 0..MaxOps
    /\ base \in Roles /\ era \in {"syncs", "edit", "mixed"}
    /\ intended \in {Unset} \cup BOOLEAN /\ disputed \in BOOLEAN

\* searchRoles: the document, or if it was never written what Master Data
\* or the default names give.
SearchRoles(doc) == IF doc = None THEN Bootstrap ELSE doc

EmptyBurst == [s \in {} |-> None]

Init ==
    /\ roles \in {None} \cup {r \in Roles : \A s \in Slugs : r[s] \in {None, {}}}
    /\ settings = NoSettings
    /\ pc = [p \in Procs |-> "idle"]
    /\ saves = [p \in Procs |-> EmptyBurst]
    /\ view = [p \in Procs |-> None]
    /\ flag = [p \in Procs |-> FALSE]
    /\ ops = 0
    /\ base = SearchRoles(roles) /\ era = "syncs"
    /\ intended = Unset /\ disputed = FALSE

------------------------------------------------------------------------------
Count == ops < MaxOps /\ ops' = ops + 1

Goto(p, label) == pc' = [pc EXCEPT ![p] = label]

\* saveRole or deleteRole is called.
BeginEdit(p, s, f) ==
    /\ pc[p] = "idle"
    /\ Count
    /\ Goto(p, "edit")
    /\ saves' = [saves EXCEPT ![p] = [t \in {s} |-> [to |-> f, copy |-> None]]]
    /\ era' = IF Editing = {} THEN "edit" ELSE "mixed"
    /\ UNCHANGED <<docVars, view, flag, base, flagHistory>>

\* One saveRole or deleteRole of a request is over.
Drop(p, s) == [saves EXCEPT ![p] = [t \in DOMAIN saves[p] \ {s} |-> saves[p][t]]]

\* It reads the whole list ...
ReadRoles(p, s) ==
    /\ s \in DOMAIN saves[p] /\ saves[p][s].copy = None
    /\ saves' = [saves EXCEPT ![p][s].copy = SearchRoles(roles)]
    /\ UNCHANGED <<docVars, pc, view, flag, ops, rolesHistory, flagHistory>>

\* ... which may fail otherwise than with 404, taken for 404.
ReadRolesFailsAs404(p, s) ==
    /\ s \in DOMAIN saves[p] /\ saves[p][s].copy = None
    /\ Count
    /\ saves' = [saves EXCEPT ![p][s].copy = Bootstrap]
    /\ UNCHANGED <<docVars, pc, view, flag, rolesHistory, flagHistory>>

\* ... which may fail otherwise than with 404: an error is answered.
ReadRolesFails(p, s) ==
    /\ s \in DOMAIN saves[p] /\ saves[p][s].copy = None
    /\ Count
    /\ saves' = Drop(p, s)
    /\ UNCHANGED <<docVars, pc, view, flag, rolesHistory, flagHistory>>

\* ... and saves it with the one role replaced or left out.
WriteRoles(p, s) ==
    /\ s \in DOMAIN saves[p] /\ saves[p][s].copy # None
    /\ roles' = [saves[p][s].copy EXCEPT ![s] = saves[p][s].to]
    /\ saves' = Drop(p, s)
    /\ base' = IF era = "edit" THEN [base EXCEPT ![s] = saves[p][s].to] ELSE base
    /\ UNCHANGED <<settings, pc, view, flag, ops, era, flagHistory>>

WriteRolesFails(p, s) ==
    /\ s \in DOMAIN saves[p] /\ saves[p][s].copy # None
    /\ Count
    /\ saves' = Drop(p, s)
    /\ UNCHANGED <<docVars, pc, view, flag, rolesHistory, flagHistory>>

(***************************************************************************)
(* Every saveRole has answered.  When no other request has roles in hand,  *)
(* the history starts afresh: after a lone edit with what it should have   *)
(* made of the roles, and otherwise with the roles as they are.            *)
(***************************************************************************)
Afresh(p) ==
    IF Editing = {p}
    THEN era' = "syncs" /\ base' = IF era = "edit" THEN base ELSE SearchRoles(roles)
    ELSE UNCHANGED rolesHistory

\* Answered while the last saveRole is still under way.
DoneEarly(p) ==
    /\ pc[p] \in {"edit", "sync"}
    /\ \E s \in Slugs : DOMAIN saves[p] \subseteq {s}
    /\ Goto(p, "idle")
    /\ Afresh(p)
    /\ UNCHANGED <<docVars, saves, view, flag, ops, flagHistory>>

Done(p) ==
    /\ pc[p] \in {"edit", "sync"}
    /\ DOMAIN saves[p] = {}
    /\ Goto(p, "idle")
    /\ Afresh(p)
    /\ UNCHANGED <<docVars, saves, view, flag, ops, flagHistory>>

------------------------------------------------------------------------------
(***************************************************************************)
(* getAppSettings: the settings are read, and kept in hand while the       *)
(* schemas are updated if their hash is outdated.                          *)
(***************************************************************************)
BeginSetup(p) ==
    /\ pc[p] = "idle"
    /\ Goto(p, "settings")
    /\ UNCHANGED <<docVars, saves, view, flag, ops, rolesHistory, flagHistory>>

ReadSettings(p) ==
    /\ pc[p] \in {"settings", "flip"}
    /\ \/ /\ pc[p] = "settings" /\ settings.current
          /\ Goto(p, "list")
          /\ UNCHANGED view
       \/ /\ pc[p] = "settings" => ~settings.current
          /\ Goto(p, IF pc[p] = "settings" THEN "schemas" ELSE "flipSave")
          /\ view' = [view EXCEPT ![p] = settings]
    /\ UNCHANGED <<docVars, saves, flag, ops, rolesHistory, flagHistory>>

UpdateSchemas(p) ==
    /\ pc[p] = "schemas"
    /\ Goto(p, "save")
    /\ UNCHANGED <<docVars, saves, view, flag, ops, rolesHistory, flagHistory>>

\* Does another request have settings in hand that are now outdated?
Outdates(p) == \E q \in Procs \ {p} : view[q] # None

SaveSettings(p) ==
    /\ pc[p] = "save"
    /\ settings' = [view[p] EXCEPT !.current = TRUE]
    /\ view' = [view EXCEPT ![p] = None]
    /\ Goto(p, "list")
    /\ disputed' = (disputed \/ Outdates(p))
    /\ UNCHANGED <<roles, saves, flag, ops, rolesHistory, intended>>

\* A failed read of settings taken for a document that was never written.
SetupFailsAs404(p) ==
    /\ pc[p] \in {"settings", "flip"}
    /\ Count
    /\ Goto(p, IF pc[p] = "settings" THEN "schemas" ELSE "flipSave")
    /\ view' = [view EXCEPT ![p] = NoSettings]
    /\ UNCHANGED <<docVars, saves, flag, rolesHistory, flagHistory>>

\* A read, an update or a save of settings fails, or the reads of syncRoles:
\* the request ends, and nothing is saved.
SetupFails(p) ==
    /\ pc[p] \in {"settings", "schemas", "save", "flip", "flipSave", "list"}
    /\ Count
    /\ Goto(p, "idle")
    /\ view' = [view EXCEPT ![p] = None]
    /\ UNCHANGED <<docVars, saves, flag, rolesHistory, flagHistory>>

(***************************************************************************)
(* syncRoles: every role of the list that is read, with what the apps      *)
(* define for it added, and every role they define besides.                *)
(***************************************************************************)
Merged(list) ==
    [s \in {t \in Slugs : list[t] # None \/ Features[t] # {}} |->
        IF list[s] = None THEN Features[s] ELSE list[s] \cup Features[s]]

SyncRoles(p) ==
    /\ pc[p] = "list"
    /\ LET merged == Merged(SearchRoles(roles))
       IN  saves' = [saves EXCEPT ![p] =
                        [s \in DOMAIN merged |-> [to |-> merged[s], copy |-> None]]]
    /\ Goto(p, "sync")
    /\ era' = IF era = "edit" THEN "mixed" ELSE era
    /\ UNCHANGED <<docVars, view, flag, ops, base, flagHistory>>

\* sessionWatcher is called; it reads the settings as getAppSettings does.
BeginFlip(p, active) ==
    /\ pc[p] = "idle"
    /\ Count
    /\ flag' = [flag EXCEPT ![p] = active]
    /\ Goto(p, "flip")
    /\ UNCHANGED <<docVars, saves, view, rolesHistory, flagHistory>>

SaveFlip(p) ==
    /\ pc[p] = "flipSave"
    /\ settings' = [view[p] EXCEPT !.watcher = flag[p]]
    /\ view' = [view EXCEPT ![p] = None]
    /\ flag' = [flag EXCEPT ![p] = FALSE]
    /\ Goto(p, "idle")
    /\ intended' = flag[p]
    /\ disputed' = Outdates(p)
    /\ UNCHANGED <<roles, saves, ops, rolesHistory>>

Edits(p) == \E s \in Slugs, f \in {None} \cup SUBSET Modules : BeginEdit(p, s, f)

Saving(p) ==
    \E s \in Slugs :
        ReadRoles(p, s) \/ ReadRolesFails(p, s) \/ WriteRoles(p, s) \/ WriteRolesFails(p, s)

Next ==
    \E p \in Procs :
        \/ Edits(p) \/ Saving(p) \/ Done(p)
        \/ BeginSetup(p) \/ ReadSettings(p) \/ UpdateSchemas(p) \/ SaveSettings(p)
        \/ SetupFails(p) \/ SyncRoles(p)
        \/ \E active \in BOOLEAN : BeginFlip(p, active)
        \/ SaveFlip(p)

Spec == Init /\ [][Next]_vars

------------------------------------------------------------------------------
\* What syncRoles may have made of a role since it was what it was.
Grown(s, was, is) ==
    /\ was # None => is # None
    /\ is # None => /\ was # None => was \subseteq is
                    /\ is \ (IF was = None THEN {} ELSE was) \subseteq Features[s]
                    /\ was = None => Features[s] # {}

(***************************************************************************)
(* Any number of syncRoles, in whatever order their saves land and whatever*)
(* fails, only add: a role keeps its features, an edit that ran alone      *)
(* takes effect exactly and stays, a role deleted alone stays deleted, and *)
(* nothing comes in but what the installed apps define.                    *)
(***************************************************************************)
SyncsOnlyAdd == era = "syncs" => \A s \in Slugs : Grown(s, base[s], SearchRoles(roles)[s])

(***************************************************************************)
(* The watcher stays as it was last set, through failed reads and saves    *)
(* and through schema updates, unless two requests had the settings in     *)
(* hand at once ("never overwrite real settings with an empty object",     *)
(* readB2BSettingsOrThrow).                                                *)
(***************************************************************************)
FlipHolds == ~disputed => settings.watcher = intended

==============================================================================
