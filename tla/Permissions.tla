------------------------------ MODULE Permissions ------------------------------
(***************************************************************************)
(* What a shopper may do: checkUserPermission and                          *)
(* getRoleAndPermissionsByEmail (src/node/resolvers/Queries/Users.ts), the *)
(* checkPermissions route (src/node/resolvers/Routes/index.ts), getRole    *)
(* (src/node/resolvers/Queries/Roles.ts) and the caches behind them.       *)
(*                                                                         *)
(* An answer puts together three things read at different times: the role  *)
(* on the shopper's document, from a cache no write of the document        *)
(* reaches; what that role allows, from a list of roles cached apart from  *)
(* it; and, while someone is impersonated, whose role counts, from the     *)
(* settings of the app.  Administration changes all three meanwhile.       *)
(*                                                                         *)
(* One pod, since these caches live in its memory only; time is counted in *)
(* ticks, and a request takes less than one.  The pages of the search for  *)
(* the active document are ActiveUser's matter: here it is one read.       *)
(***************************************************************************)
EXTENDS Naturals, FiniteSets

CONSTANTS
    Requests,
    Emails,
    Roles,
    Features,   \* what a role may allow in the module that asks
    Catalog,    \* what each role allows at first
    Unslugged,  \* the roles saveRole stored without a slug
    None,       \* no email, no document, no cached entry
    NoRole,     \* the empty roleId of a document
    UserTtl,    \* PERMISSIONS_USER_CACHE_TTL_IN_MS
    RoleTtl,    \* ROLES_CACHE_TTL_IN_MS
    Faults,     \* whether calls may fail
    MaxChanges  \* bound: the changes of administration

ASSUME PermissionAssumption ==
    /\ None \notin Emails \cup Roles /\ NoRole \notin Roles \cup {None}
    /\ Catalog \in [Roles -> SUBSET Features]
    /\ Unslugged \subseteq Roles
    /\ UserTtl \in Nat /\ RoleTtl \in Nat /\ MaxChanges \in Nat
    /\ Faults \in BOOLEAN

VARIABLES
    roleOf,    \* email -> the roleId of its active document, None if it has no document
    content,   \* role -> whether there is such a role, and what it allows
    strict,    \* strictImpersonationPermissions of the app settings
    users,     \* the 'active-user-permissions' cache: email -> [value, age] or None
    roles,     \* the 'roles' cache: [value, age] of the whole list, or None
    settings,  \* the values of the setting the layers of its cache may answer with
    request,   \* request -> the permission check under way
    held,      \* history: email -> roleId -> the ticks since the email last had it
    been,      \* history: role -> content -> the ticks since the role last was that
    changes    \* the changes of administration so far

world == <<roleOf, content, strict>>
caches == <<users, roles, settings>>
history == <<held, been, changes>>
vars == <<world, caches, request, history>>

RoleIds == Roles \cup {NoRole}

Gone == [there |-> FALSE, allows |-> {}]
Allowing(fs) == [there |-> TRUE, allows |-> fs]
Contents == {Gone} \cup {Allowing(fs) : fs \in SUBSET Features}
Lists == [Roles -> Contents]
Routes == {"checkUserPermission", "checkPermissions"}
Failures == {"settings", "lookup"}

\* One evaluation of a request, of one email: waiting for the document, having
\* read it, waiting for the roles, having read them, done.
Lookups ==
    [at : {"off", "user"}]
    \cup [at : {"userRead", "role"}, role : RoleIds \cup {None}]
    \cup [at : {"list"}, role : RoleIds \cup {None}, list : Lists]
    \cup [at : {"done"}, found : Contents]

Idle == [stage |-> "idle"]
\* The settings are being read, or the emails evaluated or the answer given.
Deciding ==
    [stage : {"settings"}, route : Routes, auth : Emails \cup {None}, profile : Emails,
     mode : {"unread"}, scope : {{}}, look : [Emails -> Lookups], failed : SUBSET Failures]
Evaluations ==
    [stage : {"lookups", "answered"}, route : Routes,
     auth : Emails \cup {None}, profile : Emails \cup {None},
     mode : {"plain", "strict", "aggregated"}, scope : SUBSET Emails,
     look : [Emails -> Lookups], failed : SUBSET Failures,
     error : BOOLEAN, granted : SUBSET Features]

Cached(V, ttl) == [value : V, age : 0 .. ttl] \cup {None}

PermissionTypeOK ==
    /\ roleOf \in [Emails -> RoleIds \cup {None}]
    /\ content \in Lists
    /\ strict \in BOOLEAN
    /\ users \in [Emails -> Cached(RoleIds, UserTtl)]
    /\ roles \in Cached(Lists, RoleTtl)
    /\ settings \in SUBSET BOOLEAN /\ strict \in settings
    /\ request \in [Requests -> {Idle} \cup Deciding \cup Evaluations]
    /\ held \in [Emails -> [RoleIds \cup {None} -> 0 .. UserTtl + 1]]
    /\ been \in [Roles -> [Contents -> 0 .. RoleTtl + 1]]
    /\ changes \in 0 .. MaxChanges

\* Never, or too long ago to matter.
Since(S, now, limit) == [v \in S |-> IF v = now THEN 0 ELSE limit + 1]

Init ==
    /\ roleOf \in [Emails -> RoleIds \cup {None}]
    /\ content = [r \in Roles |-> Allowing(Catalog[r])]
    /\ strict \in BOOLEAN
    /\ users = [e \in Emails |-> None]
    /\ roles = None
    /\ settings = {strict}
    /\ request = [q \in Requests |-> Idle]
    /\ held = [e \in Emails |-> Since(RoleIds \cup {None}, roleOf[e], UserTtl)]
    /\ been = [r \in Roles |-> Since(Contents, content[r], RoleTtl)]
    /\ changes = 0

------------------------------------------------------------------------------
(***************************************************************************)
(* Who is asked about.                                                     *)
(***************************************************************************)
Impersonating(auth, profile) == profile # None /\ auth # profile

Look(scope) == [e \in Emails |-> [at |-> IF e \in scope THEN "user" ELSE "off"]]

Evaluating(route, auth, profile, mode, scope, failed) ==
    [stage |-> "lookups", route |-> route, auth |-> auth, profile |-> profile,
     mode |-> mode, scope |-> scope, look |-> Look(scope), failed |-> failed,
     error |-> FALSE, granted |-> {}]

\* The rights of the acting user kept in strict mode too.
WhoseAggregated(auth, profile, mode) ==
    (IF mode = "plain" THEN {auth} ELSE {auth, profile}) \ {None}

Whose(auth, profile, mode) ==
    (CASE mode = "plain" -> {auth}
       [] mode = "strict" -> {profile}
       [] OTHER -> {auth, profile}) \ {None}

\* checkUserPermission with the emails of the session.  A session nobody is
\* signed in to has neither; a query that is not private is refused before.
CheckUserPermission(q, auth, profile) ==
    /\ request[q] = Idle
    /\ request' = [request EXCEPT ![q] =
          IF Impersonating(auth, profile)
          THEN [stage |-> "settings", route |-> "checkUserPermission",
                auth |-> auth, profile |-> profile, mode |-> "unread",
                scope |-> {}, look |-> Look({}), failed |-> {}]
          ELSE Evaluating("checkUserPermission", auth, profile, "plain",
                          Whose(auth, profile, "plain"), {})]
    /\ UNCHANGED <<world, caches, history>>

\* The route is told the email and knows no impersonation.
CheckPermissions(q, e) ==
    /\ request[q] = Idle
    /\ request' = [request EXCEPT ![q] =
          Evaluating("checkPermissions", e, None, "plain", {e}, {})]
    /\ UNCHANGED <<world, caches, history>>

Scoped(q, mode, failed) ==
    request' = [request EXCEPT ![q] =
        Evaluating(@.route, @.auth, @.profile, mode, Whose(@.auth, @.profile, mode), failed)]

Mode(isStrict) == IF isStrict THEN "strict" ELSE "aggregated"

SettingsAnswer(q, isStrict) ==
    /\ request[q].stage = "settings"
    /\ isStrict \in settings
    /\ Scoped(q, Mode(isStrict), {})
    /\ UNCHANGED <<world, caches, history>>

\* A failed read counts as settings without the flag.
SettingsFail(q) ==
    /\ Faults
    /\ request[q].stage = "settings"
    /\ Scoped(q, Mode(FALSE), {"settings"})
    /\ UNCHANGED <<world, caches, history>>

------------------------------------------------------------------------------
(***************************************************************************)
(* The evaluation of one email: its document, then the role on it.         *)
(***************************************************************************)
Waits(q, e, at) == request[q].stage = "lookups" /\ request[q].look[e].at = at

Stepped(r, e, step) == [r EXCEPT !.look[e] = step]

Goes(q, e, step) == request' = [request EXCEPT ![q] = Stepped(@, e, step)]

Failed(r) == [r EXCEPT !.failed = @ \cup {"lookup"}]

GoesFailed(q, e, step) == request' = [request EXCEPT ![q] = Failed(Stepped(@, e, step))]

WithRole(r) == [at |-> "role", role |-> r]

UserHit(q, e) ==
    /\ Waits(q, e, "user")
    /\ users[e] # None
    /\ Goes(q, e, WithRole(users[e].value))
    /\ UNCHANGED <<world, caches, history>>

UserRead(q, e) ==
    /\ Waits(q, e, "user")
    /\ users[e] = None
    /\ Goes(q, e, [at |-> "userRead", role |-> roleOf[e]])
    /\ UNCHANGED <<world, caches, history>>

\* The document is cached from when its answer arrives, one with an empty roleId
\* too; that there is none is not.
UserAnswer(q, e) ==
    /\ Waits(q, e, "userRead")
    /\ LET r == request[q].look[e].role IN
          /\ Goes(q, e, WithRole(r))
          /\ users' = IF r = None THEN users
                      ELSE [users EXCEPT ![e] = [value |-> r, age |-> 0]]
    /\ UNCHANGED <<world, roles, settings, history>>

\* The error kept as if it were the user.
UserFailsCached(q, e) ==
    /\ Faults
    /\ Waits(q, e, "userRead")
    /\ GoesFailed(q, e, WithRole(None))
    /\ users' = [users EXCEPT ![e] = [value |-> None, age |-> 0]]
    /\ UNCHANGED <<world, roles, settings, history>>

\* An error stands in for the user: it has no role and is not cached.
UserFails(q, e) ==
    /\ Faults
    /\ \/ Waits(q, e, "user") /\ users[e] = None
       \/ Waits(q, e, "userRead")
    /\ GoesFailed(q, e, WithRole(None))
    /\ UNCHANGED <<world, caches, history>>

\* Whichever role the list has, whatever the id.
NamedAny(list, r) == {list[s] : s \in Roles}

\* getRole: by its id; without one, by a slug that is not given either, which is
\* that of the roles that have none.
Named(list, r) ==
    IF r \in Roles THEN {list[r]}
    ELSE LET slugless == {u \in Unslugged : list[u].there} IN
         IF slugless = {} THEN {Gone} ELSE {list[u] : u \in slugless}

RolesHit(q, e) ==
    /\ Waits(q, e, "role")
    /\ roles # None
    /\ \E c \in Named(roles.value, request[q].look[e].role) :
          Goes(q, e, [at |-> "done", found |-> c])
    /\ UNCHANGED <<world, caches, history>>

RolesRead(q, e) ==
    /\ Waits(q, e, "role")
    /\ roles = None
    /\ Goes(q, e, [at |-> "list", role |-> request[q].look[e].role, list |-> content])
    /\ UNCHANGED <<world, caches, history>>

RolesAnswer(q, e) ==
    /\ Waits(q, e, "list")
    /\ roles' = [value |-> request[q].look[e].list, age |-> 0]
    /\ \E c \in Named(request[q].look[e].list, request[q].look[e].role) :
          Goes(q, e, [at |-> "done", found |-> c])
    /\ UNCHANGED <<world, users, settings, history>>

\* getRole answers an error, which has no features; the route trips over it.
RolesFail(q, e) ==
    /\ Faults
    /\ \/ Waits(q, e, "role") /\ roles = None
       \/ Waits(q, e, "list")
    /\ GoesFailed(q, e, [at |-> "done", found |-> Gone])
    /\ UNCHANGED <<world, caches, history>>

\* All evaluations are done: the union of what they allow.  Without a role
\* checkUserPermission allows nothing and the route answers an error.
Reply(q) ==
    /\ request[q].stage = "lookups"
    /\ \A e \in request[q].scope : request[q].look[e].at = "done"
    /\ LET found == {request[q].look[e].found : e \in request[q].scope} IN
          request' = [request EXCEPT ![q].stage = "answered",
             ![q].error = request[q].route = "checkPermissions" /\ Gone \in found,
             ![q].granted = UNION {c.allows : c \in found}, ![q].look = Look({})]
    /\ UNCHANGED <<world, caches, history>>

------------------------------------------------------------------------------
(***************************************************************************)
(* Meanwhile: administration, the caches, and time.                        *)
(***************************************************************************)
Changed == changes < MaxChanges /\ changes' = changes + 1

\* An edit, a deletion or a switch to another organization: the active document
\* of the shopper is another.
Reassign(e, r) ==
    /\ Changed
    /\ r # roleOf[e]
    /\ roleOf' = [roleOf EXCEPT ![e] = r]
    /\ held' = [held EXCEPT ![e][r] = 0]
    /\ UNCHANGED <<content, strict, caches, request, been>>

\* saveRole and deleteRole.
EditRole(r, c) ==
    /\ Changed
    /\ c # content[r]
    /\ content' = [content EXCEPT ![r] = c]
    /\ been' = [been EXCEPT ![r][c] = 0]
    /\ UNCHANGED <<roleOf, strict, caches, request, held>>

\* The setting is flipped; what the layers of its cache hold goes on being
\* answered, until in some tick all of them have it.
Configure ==
    /\ Changed
    /\ strict' = ~strict
    /\ settings' = settings \cup {~strict}
    /\ UNCHANGED <<roleOf, content, users, roles, request, held, been>>

\* The pod starts anew.  (The LRU drops single entries at its limit, too; that
\* leaves what there would be had nobody asked for them.)
Restart ==
    /\ users' = [e \in Emails |-> None]
    /\ roles' = None
    /\ request' = [q \in Requests |-> Idle]
    /\ UNCHANGED <<world, settings, history>>

\* An entry that is handed out however old it is.
AgedForever(entry, ttl) ==
    IF entry = None THEN None ELSE [entry EXCEPT !.age = @ + 1]

\* An entry lives through the tick that makes it as old as its TTL.
Aged(entry, ttl) ==
    IF entry = None \/ entry.age = ttl THEN None ELSE [entry EXCEPT !.age = @ + 1]

Older(age, now, limit) ==
    [v \in DOMAIN age |-> IF v = now THEN 0 ELSE IF age[v] <= limit THEN age[v] + 1 ELSE age[v]]

Tick ==
    /\ \A q \in Requests : request[q].stage \in {"idle", "answered"}
    /\ users' = [e \in Emails |-> Aged(users[e], UserTtl)]
    /\ roles' = Aged(roles, RoleTtl)
    /\ held' = [e \in Emails |-> Older(held[e], roleOf[e], UserTtl)]
    /\ been' = [r \in Roles |-> Older(been[r], content[r], RoleTtl)]
    /\ request' = [q \in Requests |-> Idle]
    /\ settings' \in {settings, {strict}}
    /\ UNCHANGED <<world, changes>>

Lookup(q, e) ==
    \/ UserHit(q, e)
    \/ UserRead(q, e)
    \/ UserAnswer(q, e)
    \/ UserFails(q, e)
    \/ RolesHit(q, e)
    \/ RolesRead(q, e)
    \/ RolesAnswer(q, e)
    \/ RolesFail(q, e)

Next ==
    \/ \E q \in Requests :
          \/ \E auth, profile \in Emails \cup {None} : CheckUserPermission(q, auth, profile)
          \/ \E e \in Emails : CheckPermissions(q, e) \/ Lookup(q, e)
          \/ \E isStrict \in BOOLEAN : SettingsAnswer(q, isStrict)
          \/ SettingsFail(q)
          \/ Reply(q)
    \/ \E e \in Emails, r \in RoleIds \cup {None} : Reassign(e, r)
    \/ \E r \in Roles, c \in Contents : EditRole(r, c)
    \/ Configure
    \/ Restart
    \/ Tick

Spec == Init /\ [][Next]_vars

------------------------------------------------------------------------------
Answered(q) == request[q].stage = "answered" /\ ~request[q].error

Acting(q) == Impersonating(request[q].auth, request[q].profile)

\* e may have had role r, and r may have allowed f, as late as the TTLs go back.
LatelyHeld(e, r) == held[e][r] <= UserTtl
LatelyAllowed(r, f) == \E c \in Contents : f \in c.allows /\ been[r][c] <= RoleTtl

\* Why e is granted f.  An email without a document or a role, or whose document
\* could not be read (it was lost), is taken for one with a role that has no slug.
Due(lost, e, f) ==
    \/ \E r \in Roles : LatelyHeld(e, r) /\ LatelyAllowed(r, f)
    \/ /\ LatelyHeld(e, None) \/ LatelyHeld(e, NoRole) \/ lost
       /\ \E r \in Unslugged : LatelyAllowed(r, f)

Entitles(q, e, f) == Due("lookup" \in request[q].failed, e, f)

(***************************************************************************)
(* "Stale permissions are bounded to that window" (activeUserCache.ts):    *)
(* whatever is cached when and fails where, each permission granted comes  *)
(* from a role that the acting user or the profile of the session had no   *)
(* longer ago than the TTL of the users, and that allowed it no longer ago *)
(* than the TTL of the roles.                                              *)
(***************************************************************************)
GrantsAreRecent ==
    \A q \in Requests : Answered(q) =>
        \A f \in request[q].granted :
            \E e \in {request[q].auth, request[q].profile} \ {None} : Entitles(q, e, f)

(***************************************************************************)
(* "The acting user's elevated permissions never reach the storefront"     *)
(* (checkUserPermission): once every layer of the settings cache knows of  *)
(* strict mode, an impersonating session is granted what the impersonated  *)
(* user is entitled to alone, unless the settings cannot be read.          *)
(***************************************************************************)
StrictHidesTheActor ==
    \A q \in Requests :
        Answered(q) /\ Acting(q) /\ settings = {TRUE} /\ "settings" \notin request[q].failed =>
            \A f \in request[q].granted : Entitles(q, request[q].profile, f)

\* e has had role r, and r has allowed f, through all of the time the TTLs span.
SteadilyHeld(e, r) == \A s \in (RoleIds \cup {None}) \ {r} : held[e][s] > UserTtl
SteadilyAllowed(r, f) == \A c \in Contents : f \notin c.allows => been[r][c] > RoleTtl

\* Whose rights an answer has to contain whatever the settings cache answers.
Counts(q, e) ==
    \/ ~Acting(q) /\ e = request[q].auth
    \/ Acting(q) /\ e = request[q].profile
    \/ Acting(q) /\ e = request[q].auth /\ settings = {FALSE}

(***************************************************************************)
(* The other direction: a failure denies for one answer and no longer.  A  *)
(* permission one of the emails that count has had, unchanged, for the     *)
(* length of the TTLs is granted by every answer in which no call failed:  *)
(* neither an error nor a user that was not there yet is ever cached.      *)
(***************************************************************************)
SteadyRightsAreGranted ==
    \A q \in Requests : request[q].stage = "answered" /\ request[q].failed = {} =>
        \A e \in Emails, r \in Roles, f \in Features :
            Counts(q, e) /\ SteadilyHeld(e, r) /\ SteadilyAllowed(r, f) =>
                f \in request[q].granted

==============================================================================
