-------------------------- MODULE PermissionsProofs --------------------------
(***************************************************************************)
(* Proofs about Permissions, for any number of requests, emails and roles, *)
(* any features and any TTLs: its types, and the three things it promises  *)
(* of an answer.                                                           *)
(*                                                                         *)
(* One inductive invariant serves all three.  Its idea is that whatever is *)
(* on its way into an answer carries a date: an entry of a cache is about  *)
(* what was the case no longer ago than it is old (CacheInv), and what a   *)
(* request has read is about the present tick, for no tick ends with a     *)
(* request under way (LookInv).  An age no larger than the TTL makes a     *)
(* grant recent; and it makes anything but a steady right impossible to    *)
(* have been read.  ScopeInv ties whose rights are asked for to what the   *)
(* settings have been answering.                                           *)
(***************************************************************************)
EXTENDS Permissions, TLAPS

------------------------------------------------------------------------------
(***************************************************************************)
(* The shapes of a request.                                                *)
(***************************************************************************)
LEMMA Shapes ==
    ASSUME NEW r \in {Idle} \cup Deciding \cup Evaluations
    PROVE  /\ r.stage \in {"idle", "settings", "lookups", "answered"}
           /\ r.stage = "idle" => r = Idle
           /\ r.stage = "settings" => r \in Deciding
           /\ r.stage \in {"lookups", "answered"} => r \in Evaluations
BY DEF Idle, Deciding, Evaluations

LEMMA LookTyped ==
    ASSUME NEW scope PROVE Look(scope) \in [Emails -> Lookups]
BY DEF Look, Lookups

LEMMA WhoseTyped ==
    ASSUME NEW auth \in Emails \cup {None}, NEW profile \in Emails \cup {None}, NEW mode
    PROVE  Whose(auth, profile, mode) \in SUBSET Emails
BY DEF Whose

\* The evaluations start with nothing found.
LEMMA EvaluatingTyped ==
    ASSUME NEW route \in Routes, NEW auth \in Emails \cup {None},
           NEW profile \in Emails \cup {None}, NEW mode \in {"plain", "strict", "aggregated"},
           NEW scope \in SUBSET Emails, NEW failed \in SUBSET Failures
    PROVE  Evaluating(route, auth, profile, mode, scope, failed) \in Evaluations
BY LookTyped DEF Evaluating, Evaluations

\* r with the evaluation of e gone on to step, and perhaps a failure more.
Advances(r, s, e, step) ==
    /\ s \in Evaluations
    /\ s.stage = "lookups" /\ s.route = r.route /\ s.auth = r.auth /\ s.profile = r.profile
    /\ s.mode = r.mode /\ s.scope = r.scope
    /\ r.failed \subseteq s.failed
    /\ "settings" \in s.failed => "settings" \in r.failed
    /\ s.look = [r.look EXCEPT ![e] = step]

LEMMA StepAdvances ==
    ASSUME NEW r \in Evaluations, r.stage = "lookups", NEW e \in Emails, NEW step \in Lookups
    PROVE  /\ Advances(r, Stepped(r, e, step), e, step)
           /\ Stepped(r, e, step).failed = r.failed
           /\ Advances(r, Failed(Stepped(r, e, step)), e, step)
           /\ "lookup" \in Failed(Stepped(r, e, step)).failed
BY DEF Evaluations, Advances, Stepped, Failed, Failures

\* The request moved on.
LEMMA GoesAdvances ==
    ASSUME PermissionTypeOK, NEW q \in Requests, NEW e \in Emails, NEW step \in Lookups,
           request[q].stage = "lookups"
    PROVE  /\ Goes(q, e, step) =>
                 /\ request' = [request EXCEPT ![q] = request'[q]]
                 /\ Advances(request[q], request'[q], e, step)
                 /\ request'[q].failed = request[q].failed
           /\ GoesFailed(q, e, step) =>
                 /\ request' = [request EXCEPT ![q] = request'[q]]
                 /\ Advances(request[q], request'[q], e, step)
                 /\ "lookup" \in request'[q].failed
<1>1. request[q] \in Evaluations
  BY Shapes DEF PermissionTypeOK
<1> QED
  BY <1>1, StepAdvances DEF Goes, GoesFailed, PermissionTypeOK

\* What is found in a list of roles is one of the contents a role may have.
LEMMA NamedTyped ==
    ASSUME NEW list \in Lists, NEW r \in RoleIds \cup {None}, NEW c \in Named(list, r)
    PROVE  c \in Contents
BY PermissionAssumption DEF Named, Lists, Contents

\* What an evaluation that waits has with it.
LEMMA Waiting ==
    ASSUME PermissionTypeOK, NEW q \in Requests, NEW e \in Emails,
           request[q].stage = "lookups"
    PROVE  LET l == request[q].look[e] IN
           /\ l \in Lookups
           /\ l.at \in {"userRead", "role", "list"} => l.role \in RoleIds \cup {None}
           /\ l.at = "list" => l.list \in Lists
           /\ l.at = "done" => l.found \in Contents
<1>1. request[q].look \in [Emails -> Lookups]
  BY Shapes DEF PermissionTypeOK, Evaluations
<1> QED
  BY <1>1 DEF Lookups

------------------------------------------------------------------------------
(***************************************************************************)
(* Types.                                                                  *)
(***************************************************************************)
LEMMA TypeInit == Init => PermissionTypeOK
<1> SUFFICES ASSUME Init PROVE PermissionTypeOK
  OBVIOUS
<1>1. content \in Lists
  <2>1. \A r \in Roles : Allowing(Catalog[r]) \in Contents
    BY PermissionAssumption DEF Contents
  <2> QED
    BY <2>1 DEF Init, Lists
<1>2. request \in [Requests -> {Idle} \cup Deciding \cup Evaluations]
  BY DEF Init
<1>3. /\ users \in [Emails -> Cached(RoleIds, UserTtl)]
      /\ roles \in Cached(Lists, RoleTtl)
  BY DEF Init, Cached
<1>4. \A S, now : /\ Since(S, now, UserTtl) \in [S -> 0 .. UserTtl + 1]
                  /\ Since(S, now, RoleTtl) \in [S -> 0 .. RoleTtl + 1]
  BY PermissionAssumption DEF Since
<1>5. /\ held \in [Emails -> [RoleIds \cup {None} -> 0 .. UserTtl + 1]]
      /\ been \in [Roles -> [Contents -> 0 .. RoleTtl + 1]]
  BY <1>4 DEF Init
<1>6. /\ roleOf \in [Emails -> RoleIds \cup {None}]
      /\ strict \in BOOLEAN /\ settings \in SUBSET BOOLEAN /\ strict \in settings
  BY DEF Init
<1>7. changes \in 0 .. MaxChanges
  BY PermissionAssumption DEF Init
<1> QED
  BY <1>1, <1>2, <1>3, <1>5, <1>6, <1>7 DEF PermissionTypeOK

\* A request is accepted or told the settings: the emails that count are set.
LEMMA AcceptedTyped ==
    ASSUME PermissionTypeOK, NEW q \in Requests,
           \/ \E auth, profile \in Emails \cup {None} : CheckUserPermission(q, auth, profile)
           \/ \E e \in Emails : CheckPermissions(q, e)
           \/ \E isStrict \in BOOLEAN : SettingsAnswer(q, isStrict)
           \/ SettingsFail(q)
    PROVE  PermissionTypeOK'
<1>1. ASSUME NEW r \in {Idle} \cup Deciding \cup Evaluations,
             request' = [request EXCEPT ![q] = r], UNCHANGED <<world, caches, history>>
      PROVE  PermissionTypeOK'
  <2>1. request' \in [Requests -> {Idle} \cup Deciding \cup Evaluations]
    BY <1>1 DEF PermissionTypeOK
  <2> QED
    BY <1>1, <2>1 DEF PermissionTypeOK, world, caches, history
<1>2. ASSUME NEW auth \in Emails \cup {None}, NEW profile \in Emails \cup {None},
             CheckUserPermission(q, auth, profile)
      PROVE  PermissionTypeOK'
  <2>1. CASE Impersonating(auth, profile)
    <3> DEFINE r == [stage |-> "settings", route |-> "checkUserPermission",
                     auth |-> auth, profile |-> profile, mode |-> "unread",
                     scope |-> {}, look |-> Look({}), failed |-> {}]
    <3>1. r \in Deciding
      BY <2>1, LookTyped DEF Deciding, Routes, Impersonating
    <3>2. request' = [request EXCEPT ![q] = r]
      BY <1>2, <2>1 DEF CheckUserPermission
    <3> HIDE DEF r
    <3> QED
      BY <1>1, <1>2, <3>1, <3>2 DEF CheckUserPermission
  <2>2. CASE ~Impersonating(auth, profile)
    <3>1. Evaluating("checkUserPermission", auth, profile, "plain",
                     Whose(auth, profile, "plain"), {}) \in Evaluations
      BY EvaluatingTyped, WhoseTyped DEF Routes
    <3> QED
      BY <1>1, <1>2, <2>2, <3>1 DEF CheckUserPermission
  <2> QED
    BY <2>1, <2>2
<1>3. ASSUME NEW e \in Emails, CheckPermissions(q, e)
      PROVE  PermissionTypeOK'
  <2>1. Evaluating("checkPermissions", e, None, "plain", {e}, {}) \in Evaluations
    BY EvaluatingTyped DEF Routes
  <2> QED
    BY <1>1, <1>3, <2>1 DEF CheckPermissions
<1>4. ASSUME NEW isStrict \in BOOLEAN, NEW failed \in SUBSET Failures,
             request[q].stage = "settings", Scoped(q, Mode(isStrict), failed),
             UNCHANGED <<world, caches, history>>
      PROVE  PermissionTypeOK'
  <2> DEFINE r == request[q]
  <2>1. r.route \in Routes /\ r.auth \in Emails \cup {None} /\ r.profile \in Emails \cup {None}
    BY <1>4, Shapes DEF PermissionTypeOK, Deciding
  <2>2. Evaluating(r.route, r.auth, r.profile, Mode(isStrict),
                   Whose(r.auth, r.profile, Mode(isStrict)), failed) \in Evaluations
    BY <2>1, WhoseTyped, EvaluatingTyped DEF Mode
  <2> QED
    BY <1>1, <1>4, <2>2 DEF Scoped, PermissionTypeOK
<1>5. {} \in SUBSET Failures /\ {"settings"} \in SUBSET Failures
  BY DEF Failures
<1> QED
  BY <1>2, <1>3, <1>4, <1>5 DEF SettingsAnswer, SettingsFail

\* An evaluation goes on; a document or a list that arrives is cached.
LEMMA LookupTyped ==
    ASSUME PermissionTypeOK, NEW q \in Requests, NEW e \in Emails, Lookup(q, e)
    PROVE  PermissionTypeOK'
<1>1. request[q].stage = "lookups"
  BY DEF Lookup, UserHit, UserRead, UserAnswer, UserFails, RolesHit, RolesRead,
         RolesAnswer, RolesFail, Waits
<1>2. ASSUME NEW step \in Lookups, Goes(q, e, step) \/ GoesFailed(q, e, step),
             UNCHANGED <<world, settings, history>>,
             users' \in [Emails -> Cached(RoleIds, UserTtl)],
             roles' \in Cached(Lists, RoleTtl)
      PROVE  PermissionTypeOK'
  <2>1. request' = [request EXCEPT ![q] = request'[q]] /\ request'[q] \in Evaluations
    BY <1>1, <1>2, GoesAdvances DEF Advances
  <2>2. request' \in [Requests -> {Idle} \cup Deciding \cup Evaluations]
    BY <2>1 DEF PermissionTypeOK
  <2> QED
    BY <1>2, <2>2 DEF PermissionTypeOK, world, history
<1>3. \A r \in RoleIds \cup {None} :
         WithRole(r) \in Lookups /\ [at |-> "userRead", role |-> r] \in Lookups
  BY DEF WithRole, Lookups
<1>4. \A c \in Contents : [at |-> "done", found |-> c] \in Lookups
  BY DEF Lookups
<1>5. users \in [Emails -> Cached(RoleIds, UserTtl)] /\ roles \in Cached(Lists, RoleTtl)
  BY DEF PermissionTypeOK
<1>6. CASE UserHit(q, e)
  <2>1. users[e].value \in RoleIds
    BY <1>5, <1>6 DEF UserHit, Cached
  <2> QED
    BY <1>2, <1>3, <1>5, <1>6, <2>1 DEF UserHit, caches
<1>7. CASE UserRead(q, e)
  <2>1. roleOf[e] \in RoleIds \cup {None}
    BY DEF PermissionTypeOK
  <2> QED
    BY <1>2, <1>3, <1>5, <1>7, <2>1 DEF UserRead, caches
<1>8. CASE UserAnswer(q, e)
  <2> DEFINE r == request[q].look[e].role
  <2>1. r \in RoleIds \cup {None}
    BY <1>1, <1>8, Waiting DEF UserAnswer, Waits
  <2>2. r # None => [value |-> r, age |-> 0] \in Cached(RoleIds, UserTtl)
    BY <2>1, PermissionAssumption DEF Cached
  <2>3. users' \in [Emails -> Cached(RoleIds, UserTtl)]
    BY <1>5, <1>8, <2>2 DEF UserAnswer
  <2> QED
    BY <1>2, <1>3, <1>5, <1>8, <2>1, <2>3 DEF UserAnswer
<1>9. CASE UserFails(q, e)
  BY <1>2, <1>3, <1>5, <1>9 DEF UserFails, caches
<1>10. CASE RolesHit(q, e)
  <2>1. request[q].look[e].role \in RoleIds \cup {None} /\ roles.value \in Lists
    BY <1>1, <1>5, <1>10, Waiting DEF RolesHit, Waits, Cached
  <2> QED
    BY <1>2, <1>4, <1>5, <1>10, <2>1, NamedTyped DEF RolesHit, caches
<1>11. CASE RolesRead(q, e)
  <2> DEFINE r == request[q].look[e].role
  <2>1. r \in RoleIds \cup {None} /\ content \in Lists
    BY <1>1, <1>11, Waiting DEF RolesRead, Waits, PermissionTypeOK
  <2>2. [at |-> "list", role |-> r, list |-> content] \in Lookups
    BY <2>1 DEF Lookups
  <2> QED
    BY <1>2, <1>5, <1>11, <2>2 DEF RolesRead, caches
<1>12. CASE RolesAnswer(q, e)
  <2> DEFINE l == request[q].look[e]
  <2>1. l.role \in RoleIds \cup {None} /\ l.list \in Lists
    BY <1>1, <1>12, Waiting DEF RolesAnswer, Waits
  <2>2. [value |-> l.list, age |-> 0] \in Cached(Lists, RoleTtl)
    BY <2>1, PermissionAssumption DEF Cached
  <2> QED
    BY <1>2, <1>4, <1>5, <1>12, <2>1, <2>2, NamedTyped DEF RolesAnswer
<1>13. CASE RolesFail(q, e)
  <2>1. Gone \in Contents
    BY DEF Contents
  <2> QED
    BY <1>2, <1>4, <1>5, <1>13, <2>1 DEF RolesFail, caches
<1> QED
  BY <1>6, <1>7, <1>8, <1>9, <1>10, <1>11, <1>12, <1>13 DEF Lookup

\* All are done: the answer.
LEMMA ReplyTyped ==
    ASSUME PermissionTypeOK, NEW q \in Requests, Reply(q)
    PROVE  PermissionTypeOK'
<1> DEFINE r == request[q]
           found == {r.look[e].found : e \in r.scope}
           answer == [r EXCEPT !.stage = "answered",
                        !.error = r.route = "checkPermissions" /\ Gone \in found,
                        !.granted = UNION {c.allows : c \in found}, !.look = Look({})]
<1>1. r \in Evaluations
  BY Shapes DEF Reply, PermissionTypeOK
<1>2. \A e \in r.scope : r.look[e].found \in Contents
  BY <1>1, Waiting DEF Reply, Evaluations
<1>3. \A c \in Contents : c.allows \in SUBSET Features
  BY DEF Contents, Gone, Allowing
<1>4. UNION {c.allows : c \in found} \in SUBSET Features
  BY <1>2, <1>3
<1>5. (r.route = "checkPermissions" /\ Gone \in found) \in BOOLEAN
  OBVIOUS
<1>6. Look({}) \in [Emails -> Lookups]
  BY LookTyped
<1>7. \A error \in BOOLEAN, granted \in SUBSET Features, look \in [Emails -> Lookups] :
         [r EXCEPT !.stage = "answered", !.error = error, !.granted = granted,
                   !.look = look] \in Evaluations
  BY <1>1 DEF Evaluations
<1>8. answer \in Evaluations
  <2> HIDE DEF found, r
  <2> QED
    BY <1>4, <1>5, <1>6, <1>7
<1>9. request' = [request EXCEPT ![q] = answer]
  BY DEF Reply
<1> HIDE DEF answer
<1>10. request' \in [Requests -> {Idle} \cup Deciding \cup Evaluations]
  BY <1>8, <1>9 DEF PermissionTypeOK
<1> QED
  BY <1>10 DEF Reply, PermissionTypeOK, world, caches, history

\* A tick leaves the dates of the history within their limits.
LEMMA OlderTyped ==
    ASSUME NEW S, NEW now, NEW limit \in Nat, NEW age \in [S -> 0 .. limit + 1]
    PROVE  Older(age, now, limit) \in [S -> 0 .. limit + 1]
BY DEF Older

LEMMA ChangeCounted ==
    ASSUME PermissionTypeOK, Changed PROVE changes' \in 0 .. MaxChanges
<1>1. changes \in 0 .. MaxChanges
  BY DEF PermissionTypeOK
<1> QED
  BY <1>1, PermissionAssumption DEF Changed

\* Administration, restarts and time.
LEMMA MeanwhileTyped ==
    ASSUME PermissionTypeOK,
           \/ \E e \in Emails, r \in RoleIds \cup {None} : Reassign(e, r)
           \/ \E r \in Roles, c \in Contents : EditRole(r, c)
           \/ Configure
           \/ Restart
           \/ Tick
           \/ UNCHANGED vars
    PROVE  PermissionTypeOK'
<1> USE PermissionAssumption
<1>1. ASSUME NEW e \in Emails, NEW r \in RoleIds \cup {None}, Reassign(e, r)
      PROVE  PermissionTypeOK'
  <2> DEFINE Ages == 0 .. UserTtl + 1
  <2>1. 0 \in Ages
    OBVIOUS
  <2>2. held \in [Emails -> [RoleIds \cup {None} -> Ages]]
    BY DEF PermissionTypeOK
  <2> HIDE DEF Ages
  <2>3. held' \in [Emails -> [RoleIds \cup {None} -> Ages]]
    BY <1>1, <2>1, <2>2 DEF Reassign
  <2>4. changes' \in 0 .. MaxChanges
    BY <1>1, ChangeCounted DEF Reassign
  <2>5. roleOf' \in [Emails -> RoleIds \cup {None}]
    BY <1>1 DEF Reassign, PermissionTypeOK
  <2> QED
    BY <1>1, <2>3, <2>4, <2>5 DEF Reassign, PermissionTypeOK, caches, Ages
<1>2. ASSUME NEW r \in Roles, NEW c \in Contents, EditRole(r, c)
      PROVE  PermissionTypeOK'
  <2> DEFINE Ages == 0 .. RoleTtl + 1
  <2>0. 0 \in Ages /\ been \in [Roles -> [Contents -> Ages]]
    BY DEF PermissionTypeOK
  <2> HIDE DEF Ages
  <2>1. been' \in [Roles -> [Contents -> Ages]]
    BY <1>2, <2>0 DEF EditRole
  <2>2. content' \in Lists
    BY <1>2 DEF EditRole, PermissionTypeOK, Lists
  <2>3. changes' \in 0 .. MaxChanges
    BY <1>2, ChangeCounted DEF EditRole
  <2> QED
    BY <1>2, <2>1, <2>2, <2>3 DEF EditRole, PermissionTypeOK, caches, Ages
<1>3. CASE Configure
  <2>1. changes' \in 0 .. MaxChanges
    BY <1>3, ChangeCounted DEF Configure
  <2>2. strict' \in BOOLEAN /\ settings' \in SUBSET BOOLEAN /\ strict' \in settings'
    BY <1>3 DEF Configure, PermissionTypeOK
  <2> QED
    BY <1>3, <2>1, <2>2 DEF Configure, PermissionTypeOK
<1>4. CASE Restart
  BY <1>4 DEF Restart, PermissionTypeOK, Cached, world, history
<1>5. CASE Tick
  <2>1. /\ \A x \in Cached(RoleIds, UserTtl) : Aged(x, UserTtl) \in Cached(RoleIds, UserTtl)
        /\ \A x \in Cached(Lists, RoleTtl) : Aged(x, RoleTtl) \in Cached(Lists, RoleTtl)
    BY DEF Cached, Aged
  <2>2. /\ users' \in [Emails -> Cached(RoleIds, UserTtl)]
        /\ roles' \in Cached(Lists, RoleTtl)
    BY <1>5, <2>1 DEF Tick, PermissionTypeOK
  <2>4. \A e \in Emails :
           Older(held[e], roleOf[e], UserTtl) \in [RoleIds \cup {None} -> 0 .. UserTtl + 1]
    BY OlderTyped DEF PermissionTypeOK
  <2>5. \A r \in Roles :
           Older(been[r], content[r], RoleTtl) \in [Contents -> 0 .. RoleTtl + 1]
    BY OlderTyped DEF PermissionTypeOK
  <2>6. /\ held' \in [Emails -> [RoleIds \cup {None} -> 0 .. UserTtl + 1]]
        /\ been' \in [Roles -> [Contents -> 0 .. RoleTtl + 1]]
    BY <1>5, <2>4, <2>5 DEF Tick
  <2>7. settings' \in SUBSET BOOLEAN /\ strict' \in settings' /\ strict' \in BOOLEAN
    BY <1>5 DEF Tick, PermissionTypeOK, world
  <2> QED
    BY <1>5, <2>2, <2>6, <2>7 DEF Tick, PermissionTypeOK, world
<1>6. CASE UNCHANGED vars
  BY <1>6 DEF vars, world, caches, history, PermissionTypeOK
<1> QED
  BY <1>1, <1>2, <1>3, <1>4, <1>5, <1>6

LEMMA TypeStep == PermissionTypeOK /\ [Next]_vars => PermissionTypeOK'
BY AcceptedTyped, LookupTyped, ReplyTyped, MeanwhileTyped DEF Next

(***************************************************************************)
(* The caches and the checks keep their types: no entry of a cache is ever *)
(* older than its TTL, and none stands for an error or for an email that   *)
(* has no document.                                                        *)
(***************************************************************************)
THEOREM PermissionTypeCorrect == Spec => []PermissionTypeOK
BY TypeInit, TypeStep, PTL DEF Spec

------------------------------------------------------------------------------
(***************************************************************************)
(* The inductive invariant.                                                *)
(***************************************************************************)
\* What is, is dated now.
NowInv ==
    /\ \A e \in Emails : held[e][roleOf[e]] = 0
    /\ \A r \in Roles : been[r][content[r]] = 0

\* What a cache holds was the case no longer ago than it is old.
CacheInv ==
    /\ \A e \in Emails : users[e] # None => held[e][users[e].value] <= users[e].age
    /\ roles # None => \A r \in Roles : been[r][roles.value[r]] <= roles.age

\* fs is within what e has a right to, and has all that e steadily has a right to.
Rightful(lost, e, fs) ==
    /\ \A f \in fs : Due(lost, e, f)
    /\ ~lost => \A r \in Roles, f \in Features :
          SteadilyHeld(e, r) /\ SteadilyAllowed(r, f) => f \in fs

\* What an evaluation has read is from now, or from a cache; what it found is right.
LookInv(lost, e, l) ==
    /\ l.at = "userRead" => held[e][l.role] = 0
    /\ l.at \in {"role", "list"} => LatelyHeld(e, l.role) \/ (l.role = None /\ lost)
    /\ l.at = "list" => \A r \in Roles : been[r][l.list[r]] = 0
    /\ l.at = "done" => Rightful(lost, e, l.found.allows)

\* Whose rights count, and what the settings have been answering.
ScopeInv(r) ==
    /\ r.scope = Whose(r.auth, r.profile, r.mode)
    /\ r.mode = "plain" <=> ~Impersonating(r.auth, r.profile)
    /\ r.mode = "strict" => TRUE \in settings
    /\ r.mode = "aggregated" => FALSE \in settings \/ "settings" \in r.failed

Lost(r) == "lookup" \in r.failed

RequestInv(r) ==
    /\ r.stage = "settings" => Impersonating(r.auth, r.profile)
    /\ r.stage \in {"lookups", "answered"} => ScopeInv(r)
    /\ r.stage = "lookups" => \A e \in Emails : LookInv(Lost(r), e, r.look[e])
    /\ r.stage = "answered" =>
          /\ \A f \in r.granted : \E e \in r.scope : Due(Lost(r), e, f)
          /\ ~Lost(r) => \A e \in r.scope, s \in Roles, f \in Features :
                SteadilyHeld(e, s) /\ SteadilyAllowed(s, f) => f \in r.granted

RightsInv ==
    PermissionTypeOK /\ NowInv /\ CacheInv /\ \A q \in Requests : RequestInv(request[q])

\* The dates of the history are numbers.
LEMMA Dates ==
    ASSUME PermissionTypeOK
    PROVE  /\ \A e \in Emails, r \in RoleIds \cup {None} : held[e][r] \in Nat
           /\ \A r \in Roles, c \in Contents : been[r][c] \in Nat
<1>1. \A e \in Emails : held[e] \in [RoleIds \cup {None} -> 0 .. UserTtl + 1]
  BY DEF PermissionTypeOK
<1>2. \A r \in Roles : been[r] \in [Contents -> 0 .. RoleTtl + 1]
  BY DEF PermissionTypeOK
<1>3. \A n : 0 .. n \subseteq Nat
  OBVIOUS
<1> QED
  BY <1>1, <1>2, <1>3

\* What is found in a list of roles that may be cached, for a role the email may
\* have had as lately, is right.
LEMMA FoundRightful ==
    ASSUME PermissionTypeOK, NEW lost \in BOOLEAN, NEW e \in Emails, NEW list \in Lists,
           NEW r \in RoleIds \cup {None}, NEW c \in Named(list, r),
           LatelyHeld(e, r) \/ (r = None /\ lost),
           \A s \in Roles : been[s][list[s]] <= RoleTtl
    PROVE  Rightful(lost, e, c.allows)
<1>1. \A s \in Roles : list[s] \in Contents /\ been[s][list[s]] \in Nat
  BY Dates DEF Lists
<1>2. ASSUME NEW s \in Roles, NEW f \in list[s].allows
      PROVE  LatelyAllowed(s, f)
  BY <1>1, <1>2 DEF LatelyAllowed
<1>3. ASSUME NEW f \in c.allows PROVE Due(lost, e, f)
  <2>1. CASE r \in Roles
    BY <1>2, <1>3, <2>1, PermissionAssumption DEF Named, Due
  <2>2. CASE r \in {None, NoRole}
    <3>1. PICK u \in Unslugged : c = list[u]
      BY <1>3, <2>2, PermissionAssumption DEF Named, Gone
    <3> QED
      BY <1>2, <1>3, <2>2, <3>1, PermissionAssumption DEF Due
  <2> QED
    BY <2>1, <2>2 DEF RoleIds
<1>4. ASSUME ~lost, NEW s \in Roles, NEW f \in Features,
             SteadilyHeld(e, s), SteadilyAllowed(s, f)
      PROVE  f \in c.allows
  <2>1. held[e][r] <= UserTtl /\ held[e][r] \in Nat
    BY <1>4, Dates DEF LatelyHeld
  <2>2. r = s
    BY <1>4, <2>1, PermissionAssumption DEF SteadilyHeld
  <2>3. c = list[s]
    BY <2>2, PermissionAssumption DEF Named
  <2> QED
    BY <1>1, <1>4, <2>3, PermissionAssumption DEF SteadilyAllowed
<1> QED
  BY <1>3, <1>4 DEF Rightful

------------------------------------------------------------------------------
(***************************************************************************)
(* Nothing but a tick takes a right away: administration only dates more   *)
(* of the history to the present.                                          *)
(***************************************************************************)
Forward ==
    /\ \A e \in Emails, r \in RoleIds \cup {None} : held'[e][r] <= held[e][r]
    /\ \A r \in Roles, c \in Contents : been'[r][c] <= been[r][c]

LEMMA Stands ==
    ASSUME PermissionTypeOK, PermissionTypeOK', Forward
    PROVE  /\ \A e \in Emails, r \in RoleIds \cup {None} : LatelyHeld(e, r) => LatelyHeld(e, r)'
           /\ \A r \in Roles : \A f : LatelyAllowed(r, f) => LatelyAllowed(r, f)'
           /\ \A e \in Emails, r \in Roles : SteadilyHeld(e, r)' => SteadilyHeld(e, r)
           /\ \A r \in Roles : \A f : SteadilyAllowed(r, f)' => SteadilyAllowed(r, f)
<1>1. /\ \A e \in Emails : held'[e] \in [RoleIds \cup {None} -> 0 .. UserTtl + 1]
      /\ \A r \in Roles : been'[r] \in [Contents -> 0 .. RoleTtl + 1]
  BY DEF PermissionTypeOK
<1>2. \A n : 0 .. n \subseteq Nat
  OBVIOUS
<1>3. /\ \A e \in Emails, r \in RoleIds \cup {None} : held'[e][r] \in Nat
      /\ \A r \in Roles, c \in Contents : been'[r][c] \in Nat
  BY <1>1, <1>2
<1>4. /\ \A e \in Emails, r \in RoleIds \cup {None} : held[e][r] \in Nat
      /\ \A r \in Roles, c \in Contents : been[r][c] \in Nat
  BY Dates
<1> QED
  BY <1>3, <1>4, PermissionAssumption
  DEF Forward, LatelyHeld, LatelyAllowed, SteadilyHeld, SteadilyAllowed

LEMMA RightfulStands ==
    ASSUME PermissionTypeOK, PermissionTypeOK', Forward, NEW lost \in BOOLEAN,
           NEW more \in BOOLEAN, lost => more, NEW e \in Emails, NEW fs, Rightful(lost, e, fs)
    PROVE  Rightful(more, e, fs)'
BY Stands, PermissionAssumption DEF Rightful, Due, RoleIds

\* What an evaluation knows stands while it waits, whatever else fails.
LEMMA LookStands ==
    ASSUME PermissionTypeOK, PermissionTypeOK', Forward, NEW lost \in BOOLEAN,
           NEW more \in BOOLEAN, lost => more, NEW e \in Emails, NEW l \in Lookups,
           LookInv(lost, e, l)
    PROVE  LookInv(more, e, l)'
<1>1. /\ l.at \in {"userRead", "role", "list"} => l.role \in RoleIds \cup {None}
      /\ l.at = "list" => l.list \in Lists
  BY DEF Lookups
<1>2. ASSUME l.at = "userRead" PROVE held'[e][l.role] = 0
  <2>1. held'[e] \in [RoleIds \cup {None} -> 0 .. UserTtl + 1]
    BY DEF PermissionTypeOK
  <2>2. held'[e][l.role] \in 0 .. UserTtl + 1 /\ held'[e][l.role] <= held[e][l.role]
    BY <1>1, <1>2, <2>1 DEF Forward
  <2>3. held[e][l.role] = 0
    BY <1>2 DEF LookInv
  <2> QED
    BY <2>2, <2>3, PermissionAssumption
<1>3. ASSUME l.at \in {"role", "list"} PROVE LatelyHeld(e, l.role)' \/ (l.role = None /\ more)
  BY <1>1, <1>3, Stands DEF LookInv
<1>4. ASSUME l.at = "list", NEW r \in Roles PROVE been'[r][l.list[r]] = 0
  <2>1. l.list[r] \in Contents
    BY <1>1, <1>4 DEF Lists
  <2>2. been'[r] \in [Contents -> 0 .. RoleTtl + 1]
    BY DEF PermissionTypeOK
  <2>3. /\ been'[r][l.list[r]] \in 0 .. RoleTtl + 1
        /\ been'[r][l.list[r]] <= been[r][l.list[r]]
    BY <2>1, <2>2 DEF Forward
  <2>4. been[r][l.list[r]] = 0
    BY <1>4 DEF LookInv
  <2> QED
    BY <2>3, <2>4, PermissionAssumption
<1>5. ASSUME l.at = "done" PROVE Rightful(more, e, l.found.allows)'
  BY <1>5, RightfulStands DEF LookInv
<1> QED
  BY <1>2, <1>3, <1>4, <1>5 DEF LookInv

\* So does what a request knows.
LEMMA RequestStands ==
    ASSUME PermissionTypeOK, PermissionTypeOK', Forward, settings \subseteq settings',
           NEW r \in {Idle} \cup Deciding \cup Evaluations, RequestInv(r)
    PROVE  RequestInv(r)'
<1>1. CASE r.stage \in {"lookups", "answered"}
  <2>1. r \in Evaluations
    BY <1>1, Shapes
  <2>2. Lost(r) \in BOOLEAN
    BY DEF Lost
  <2>3. ScopeInv(r)'
    BY <1>1 DEF RequestInv, ScopeInv
  <2>4. ASSUME r.stage = "lookups", NEW e \in Emails PROVE LookInv(Lost(r), e, r.look[e])'
    <3>1. r.look[e] \in Lookups
      BY <2>1 DEF Evaluations
    <3>2. LookInv(Lost(r), e, r.look[e])
      BY <2>4 DEF RequestInv
    <3> QED
      BY <2>2, <3>1, <3>2, LookStands
  <2>5. r.scope \subseteq Emails
    BY <2>1 DEF Evaluations
  <2>6. ASSUME r.stage = "answered", NEW f \in r.granted
        PROVE  \E e \in r.scope : Due(Lost(r), e, f)'
    <3>1. PICK e \in r.scope : Due(Lost(r), e, f)
      BY <2>6 DEF RequestInv
    <3>2. Due(Lost(r), e, f)'
      BY <2>5, <3>1, Stands, PermissionAssumption DEF Due, RoleIds
    <3> QED
      BY <3>2
  <2>7. ASSUME r.stage = "answered", ~Lost(r), NEW e \in r.scope, NEW s \in Roles,
               NEW f \in Features, SteadilyHeld(e, s)', SteadilyAllowed(s, f)'
        PROVE  f \in r.granted
    BY <2>5, <2>7, Stands DEF RequestInv
  <2> QED
    BY <1>1, <2>3, <2>4, <2>6, <2>7 DEF RequestInv
<1>2. CASE r.stage \notin {"lookups", "answered"}
  BY <1>2 DEF RequestInv
<1> QED
  BY <1>1, <1>2

LEMMA Unmoved ==
    ASSUME PermissionTypeOK, UNCHANGED <<held, been>> PROVE Forward
BY Dates DEF Forward

\* A step of one request leaves the others to stand.
LEMMA OneMoves ==
    ASSUME RightsInv, PermissionTypeOK', UNCHANGED <<world, settings, history>>, CacheInv',
           NEW q \in Requests, request' = [request EXCEPT ![q] = request'[q]],
           RequestInv(request[q])'
    PROVE  RightsInv'
<1> USE DEF RightsInv
<1>1. Forward
  BY Unmoved DEF history
<1>2. ASSUME NEW p \in Requests, p # q PROVE RequestInv(request[p])'
  <2> DEFINE r == request[p]
  <2>1. r \in {Idle} \cup Deciding \cup Evaluations
    BY DEF PermissionTypeOK
  <2>2. RequestInv(r)
    OBVIOUS
  <2>3. request'[p] = r
    BY <1>2 DEF PermissionTypeOK
  <2> HIDE DEF r
  <2>4. PICK x \in {Idle} \cup Deciding \cup Evaluations : x = r
    BY <2>1
  <2>5. RequestInv(x)'
    BY <1>1, <2>2, <2>4, RequestStands
  <2> QED
    BY <2>3, <2>4, <2>5
<1>3. NowInv'
  BY DEF NowInv, world, history
<1> QED
  BY <1>2, <1>3

\* An evaluation that starts has read nothing.
LEMMA EvaluationBegins ==
    ASSUME NEW route, NEW auth, NEW profile, NEW mode, NEW failed,
           mode = "plain" <=> ~Impersonating(auth, profile),
           mode = "strict" => TRUE \in settings,
           mode = "aggregated" => FALSE \in settings \/ "settings" \in failed
    PROVE  RequestInv(Evaluating(route, auth, profile, mode, Whose(auth, profile, mode), failed))
<1> DEFINE r == Evaluating(route, auth, profile, mode, Whose(auth, profile, mode), failed)
<1>1. /\ r.stage = "lookups" /\ r.auth = auth /\ r.profile = profile /\ r.mode = mode
      /\ r.scope = Whose(auth, profile, mode) /\ r.failed = failed
      /\ r.look = Look(Whose(auth, profile, mode))
  BY DEF Evaluating
<1>2. \A e \in Emails : r.look[e].at \in {"user", "off"}
  BY <1>1 DEF Look
<1> HIDE DEF r
<1>3. \A e \in Emails : LookInv(Lost(r), e, r.look[e])
  BY <1>2 DEF LookInv
<1>4. ScopeInv(r)
  BY <1>1 DEF ScopeInv
<1>5. RequestInv(r)
  BY <1>1, <1>3, <1>4 DEF RequestInv
<1> QED
  BY <1>5 DEF r

LEMMA AcceptedKeeps ==
    ASSUME RightsInv, NEW q \in Requests,
           \/ \E auth, profile \in Emails \cup {None} : CheckUserPermission(q, auth, profile)
           \/ \E e \in Emails : CheckPermissions(q, e)
           \/ \E isStrict \in BOOLEAN : SettingsAnswer(q, isStrict)
           \/ SettingsFail(q)
    PROVE  RightsInv'
<1> USE DEF RightsInv
<1>1. PermissionTypeOK'
  BY AcceptedTyped
<1>2. ASSUME NEW r, request' = [request EXCEPT ![q] = r], RequestInv(r),
             UNCHANGED <<world, caches, history>>
      PROVE  RightsInv'
  <2>1. request' = [request EXCEPT ![q] = request'[q]] /\ request'[q] = r
    BY <1>2 DEF PermissionTypeOK
  <2>2. UNCHANGED <<world, settings, history>> /\ CacheInv'
    BY <1>2 DEF CacheInv, caches, history
  <2>3. RequestInv(request[q])'
    <3>1. r \in {Idle} \cup Deciding \cup Evaluations
      BY <1>1, <2>1 DEF PermissionTypeOK
    <3>2. Forward
      BY <1>2, Unmoved DEF history
    <3>3. RequestInv(r)'
      BY <1>1, <1>2, <2>2, <3>1, <3>2, RequestStands
    <3> QED
      BY <2>1, <3>3
  <2> QED
    BY <1>1, <2>1, <2>2, <2>3, OneMoves
<1>3. ASSUME NEW auth \in Emails \cup {None}, NEW profile \in Emails \cup {None},
             CheckUserPermission(q, auth, profile)
      PROVE  RightsInv'
  <2>1. CASE Impersonating(auth, profile)
    <3> DEFINE r == [stage |-> "settings", route |-> "checkUserPermission",
                     auth |-> auth, profile |-> profile, mode |-> "unread",
                     scope |-> {}, look |-> Look({}), failed |-> {}]
    <3>1. RequestInv(r)
      BY <2>1 DEF RequestInv
    <3>2. request' = [request EXCEPT ![q] = r]
      BY <1>3, <2>1 DEF CheckUserPermission
    <3> HIDE DEF r
    <3> QED
      BY <1>2, <1>3, <3>1, <3>2 DEF CheckUserPermission
  <2>2. CASE ~Impersonating(auth, profile)
    <3>1. RequestInv(Evaluating("checkUserPermission", auth, profile, "plain",
                                Whose(auth, profile, "plain"), {}))
      BY <2>2, EvaluationBegins
    <3> QED
      BY <1>2, <1>3, <2>2, <3>1 DEF CheckUserPermission
  <2> QED
    BY <2>1, <2>2
<1>4. ASSUME NEW e \in Emails, CheckPermissions(q, e)
      PROVE  RightsInv'
  <2>1. ~Impersonating(e, None) /\ Whose(e, None, "plain") = {e}
    BY PermissionAssumption DEF Impersonating, Whose
  <2>2. RequestInv(Evaluating("checkPermissions", e, None, "plain",
                              Whose(e, None, "plain"), {}))
    BY <2>1, EvaluationBegins
  <2> QED
    BY <1>2, <1>4, <2>1, <2>2 DEF CheckPermissions
<1>5. ASSUME NEW mode \in {"strict", "aggregated"}, NEW failed,
             request[q].stage = "settings", Scoped(q, mode, failed),
             UNCHANGED <<world, caches, history>>,
             mode = "strict" => TRUE \in settings,
             mode = "aggregated" => FALSE \in settings \/ "settings" \in failed
      PROVE  RightsInv'
  <2> DEFINE r == request[q]
             s == Evaluating(r.route, r.auth, r.profile, mode,
                             Whose(r.auth, r.profile, mode), failed)
  <2>1. Impersonating(r.auth, r.profile)
    BY <1>5 DEF RequestInv
  <2>2. RequestInv(s)
    BY <1>5, <2>1, EvaluationBegins
  <2>3. request' = [request EXCEPT ![q] = s]
    BY <1>5 DEF Scoped, PermissionTypeOK
  <2> HIDE DEF s
  <2> QED
    BY <1>2, <1>5, <2>2, <2>3
<1>6. ASSUME NEW isStrict \in BOOLEAN, SettingsAnswer(q, isStrict) PROVE RightsInv'
  <2>1. CASE isStrict = TRUE
    <3>1. Mode(isStrict) = "strict" /\ TRUE \in settings
      BY <1>6, <2>1 DEF Mode, SettingsAnswer
    <3> QED
      BY <1>5, <1>6, <3>1 DEF SettingsAnswer
  <2>2. CASE isStrict = FALSE
    <3>1. Mode(isStrict) = "aggregated" /\ FALSE \in settings
      BY <1>6, <2>2 DEF Mode, SettingsAnswer
    <3> QED
      BY <1>5, <1>6, <3>1 DEF SettingsAnswer
  <2> QED
    BY <2>1, <2>2
<1>7. CASE SettingsFail(q)
  <2>1. Mode(FALSE) = "aggregated"
    BY DEF Mode
  <2> QED
    BY <1>5, <1>7, <2>1 DEF SettingsFail
<1> QED
  BY <1>3, <1>4, <1>6, <1>7

\* An evaluation goes on to a step that is right; a failure makes more right.
LEMMA LookMoves ==
    ASSUME RightsInv, PermissionTypeOK', CacheInv', UNCHANGED <<world, settings, history>>,
           NEW q \in Requests, NEW e \in Emails, NEW step \in Lookups,
           request[q].stage = "lookups", Goes(q, e, step) \/ GoesFailed(q, e, step),
           \A lost \in BOOLEAN :
              (Lost(request[q]) => lost) /\ (~Goes(q, e, step) => lost) =>
                 LookInv(lost, e, step)
    PROVE  RightsInv'
<1>1. /\ request' = [request EXCEPT ![q] = request'[q]]
      /\ Advances(request[q], request'[q], e, step)
      /\ Goes(q, e, step) \/ Lost(request'[q])
  BY GoesAdvances DEF RightsInv, Lost
<1>2. request[q] \in Evaluations
  BY Shapes DEF RightsInv, PermissionTypeOK
<1>3. PICK r \in Evaluations, s \in Evaluations : r = request[q] /\ s = request'[q]
  BY <1>1, <1>2 DEF Advances
<1>4. /\ r.stage = "lookups" /\ s.stage = "lookups"
      /\ s.auth = r.auth /\ s.profile = r.profile /\ s.mode = r.mode /\ s.scope = r.scope
      /\ r.failed \subseteq s.failed
      /\ s.look = [r.look EXCEPT ![e] = step]
  BY <1>1, <1>3 DEF Advances
<1>5. Lost(r) \in BOOLEAN /\ Lost(s) \in BOOLEAN /\ (Lost(r) => Lost(s))
  BY <1>4 DEF Lost
<1>6. RequestInv(r) /\ Forward
  BY <1>3, Unmoved DEF RightsInv, history
<1>7. ScopeInv(s)'
  BY <1>4, <1>6 DEF RequestInv, ScopeInv
<1>8. ASSUME NEW d \in Emails PROVE LookInv(Lost(s), d, s.look[d])'
  <2>1. r.look[d] \in Lookups /\ s.look[d] = IF d = e THEN step ELSE r.look[d]
    BY <1>4 DEF Evaluations
  <2>2. CASE d = e
    <3>1. LookInv(Lost(s), e, step)
      BY <1>1, <1>3, <1>5
    <3> QED
      BY <1>5, <1>6, <2>1, <2>2, <3>1, LookStands DEF RightsInv
  <2>3. CASE d # e
    <3>1. LookInv(Lost(r), d, r.look[d])
      BY <1>4, <1>6 DEF RequestInv
    <3> QED
      BY <1>5, <1>6, <2>1, <2>3, <3>1, LookStands DEF RightsInv
  <2> QED
    BY <2>2, <2>3
<1>9. RequestInv(s)'
  BY <1>4, <1>7, <1>8 DEF RequestInv
<1> QED
  BY <1>1, <1>3, <1>9, OneMoves

LEMMA LookupKeeps ==
    ASSUME RightsInv, NEW q \in Requests, NEW e \in Emails, Lookup(q, e)
    PROVE  RightsInv'
<1> DEFINE l == request[q].look[e]
<1>1. PermissionTypeOK /\ PermissionTypeOK' /\ NowInv /\ CacheInv
  BY LookupTyped DEF RightsInv
<1>2. request[q].stage = "lookups"
  BY DEF Lookup, UserHit, UserRead, UserAnswer, UserFails, RolesHit, RolesRead,
         RolesAnswer, RolesFail, Waits
<1>3. /\ l \in Lookups
      /\ l.at \in {"userRead", "role", "list"} => l.role \in RoleIds \cup {None}
      /\ l.at = "list" => l.list \in Lists
  BY <1>1, <1>2, Waiting
<1>4. LookInv(Lost(request[q]), e, l)
  BY <1>2 DEF RightsInv, RequestInv
<1>5. UNCHANGED <<users, roles, history>> => CacheInv'
  BY <1>1 DEF CacheInv, history
<1>6. ASSUME NEW r \in RoleIds \cup {None}, LatelyHeld(e, r)
      PROVE  /\ WithRole(r) \in Lookups
             /\ \A lost \in BOOLEAN : LookInv(lost, e, WithRole(r))
  <2>1. WithRole(r) \in Lookups
    BY DEF WithRole, Lookups
  <2>2. ASSUME NEW lost \in BOOLEAN PROVE LookInv(lost, e, WithRole(r))
    BY <1>6 DEF WithRole, LookInv
  <2> QED
    BY <2>1, <2>2
<1>7. CASE UserHit(q, e)
  <2>1. users[e].value \in RoleIds /\ users[e].age \in 0 .. UserTtl
    BY <1>1, <1>7 DEF UserHit, PermissionTypeOK, Cached
  <2>2. LatelyHeld(e, users[e].value)
    BY <1>1, <1>7, <2>1, Dates, PermissionAssumption DEF UserHit, CacheInv, LatelyHeld
  <2>3. Goes(q, e, WithRole(users[e].value)) /\ UNCHANGED <<world, caches, history>>
    BY <1>7 DEF UserHit
  <2>4. CacheInv' /\ UNCHANGED <<world, settings, history>>
    BY <1>5, <2>3 DEF caches
  <2> DEFINE step == WithRole(users[e].value)
  <2>5. /\ step \in Lookups
        /\ \A lost \in BOOLEAN : LookInv(lost, e, step)
    BY <1>6, <2>1, <2>2
  <2>6. Goes(q, e, step)
    BY <2>3
  <2> HIDE DEF step
  <2> QED
    BY <1>1, <1>2, <2>4, <2>5, <2>6, LookMoves
<1>8. CASE UserRead(q, e)
  <2> DEFINE step == [at |-> "userRead", role |-> roleOf[e]]
  <2>1. step \in Lookups
    BY <1>1 DEF PermissionTypeOK, Lookups
  <2>2. \A lost \in BOOLEAN : LookInv(lost, e, step)
    BY <1>1 DEF NowInv, LookInv
  <2>3. Goes(q, e, step) /\ UNCHANGED <<world, caches, history>>
    BY <1>8 DEF UserRead
  <2> HIDE DEF step
  <2> QED
    BY <1>1, <1>2, <1>5, <2>1, <2>2, <2>3, LookMoves DEF caches
<1>9. CASE UserAnswer(q, e)
  <2>1. l.role \in RoleIds \cup {None} /\ held[e][l.role] = 0
    BY <1>3, <1>4, <1>9 DEF UserAnswer, Waits, LookInv
  <2>2. LatelyHeld(e, l.role)
    BY <2>1, PermissionAssumption DEF LatelyHeld
  <2>3. /\ Goes(q, e, WithRole(l.role))
        /\ users' = IF l.role = None THEN users
                     ELSE [users EXCEPT ![e] = [value |-> l.role, age |-> 0]]
        /\ UNCHANGED <<world, roles, settings, history>>
    BY <1>9 DEF UserAnswer
  <2> HIDE DEF l
  <2>4. CacheInv'
    <3>1. UNCHANGED <<roles, held, been>>
      BY <2>3 DEF history
    <3>2. ASSUME NEW d \in Emails, users'[d] # None
          PROVE  held[d][users'[d].value] <= users'[d].age
      <4>1. users'[d] = users[d] \/ (d = e /\ users'[d] = [value |-> l.role, age |-> 0])
        <5>1. users \in [Emails -> Cached(RoleIds, UserTtl)]
          BY <1>1 DEF PermissionTypeOK
        <5> DEFINE entry == [value |-> l.role, age |-> 0]
        <5>2. users' = users \/ users' = [users EXCEPT ![e] = entry]
          BY <2>3
        <5> HIDE DEF entry
        <5>3. users'[d] = users[d] \/ (d = e /\ users'[d] = entry)
          BY <5>1, <5>2
        <5> QED
          BY <5>3 DEF entry
      <4> QED
        BY <1>1, <2>1, <3>2, <4>1 DEF CacheInv
    <3> QED
      BY <1>1, <3>1, <3>2 DEF CacheInv
  <2> DEFINE step == WithRole(l.role)
  <2>5. /\ step \in Lookups
        /\ \A lost \in BOOLEAN : LookInv(lost, e, step)
    BY <1>6, <2>1, <2>2
  <2>6. Goes(q, e, step) /\ UNCHANGED <<world, settings, history>>
    BY <2>3
  <2> HIDE DEF step
  <2> QED
    BY <1>1, <1>2, <2>4, <2>5, <2>6, LookMoves
<1>10. CASE UserFails(q, e)
  <2>1. GoesFailed(q, e, WithRole(None)) /\ UNCHANGED <<world, caches, history>>
    BY <1>10 DEF UserFails
  <2>2. WithRole(None) \in Lookups
    BY DEF WithRole, Lookups
  <2>3. ~Goes(q, e, WithRole(None)) \/ Lost(request[q])
    <3>1. ASSUME Goes(q, e, WithRole(None)) PROVE Lost(request[q])
      BY <1>1, <1>2, <2>1, <2>2, <3>1, GoesAdvances DEF Lost
    <3> QED
      BY <3>1
  <2>4. \A lost \in BOOLEAN :
           (Lost(request[q]) => lost) /\ (~Goes(q, e, WithRole(None)) => lost) =>
              LookInv(lost, e, WithRole(None))
    BY <2>3 DEF LookInv, WithRole
  <2>5. CacheInv' /\ UNCHANGED <<world, settings, history>>
    BY <1>5, <2>1 DEF caches
  <2> QED
    BY <1>1, <1>2, <2>1, <2>2, <2>4, <2>5, LookMoves
<1>11. ASSUME NEW list \in Lists, l.at \in {"role", "list"},
              \A s \in Roles : been[s][list[s]] <= RoleTtl,
              NEW c \in Named(list, l.role), NEW lost \in BOOLEAN, Lost(request[q]) => lost
       PROVE  /\ [at |-> "done", found |-> c] \in Lookups
              /\ LookInv(lost, e, [at |-> "done", found |-> c])
  <2>1. l.role \in RoleIds \cup {None}
    BY <1>3, <1>11
  <2>2. LatelyHeld(e, l.role) \/ (l.role = None /\ lost)
    BY <1>4, <1>11 DEF LookInv
  <2>3. Rightful(lost, e, c.allows) /\ c \in Contents
    BY <1>1, <1>11, <2>1, <2>2, FoundRightful, NamedTyped
  <2> QED
    BY <2>3 DEF LookInv, Lookups
<1>12. CASE RolesHit(q, e)
  <2>1. l.at = "role" /\ roles # None
    BY <1>12 DEF RolesHit, Waits
  <2>2. roles.value \in Lists /\ roles.age \in 0 .. RoleTtl
    BY <1>1, <2>1 DEF PermissionTypeOK, Cached
  <2>3. \A s \in Roles : been[s][roles.value[s]] <= RoleTtl
    <3>1. \A s \in Roles : roles.value[s] \in Contents
      BY <2>2 DEF Lists
    <3> QED
      BY <1>1, <2>1, <2>2, <3>1, Dates, PermissionAssumption DEF CacheInv
  <2>4. PICK c \in Named(roles.value, l.role) : Goes(q, e, [at |-> "done", found |-> c])
    BY <1>12 DEF RolesHit
  <2>5. UNCHANGED <<world, caches, history>>
    BY <1>12 DEF RolesHit
  <2> DEFINE step == [at |-> "done", found |-> c]
  <2>6. /\ step \in Lookups
        /\ \A lost \in BOOLEAN : (Lost(request[q]) => lost) => LookInv(lost, e, step)
    BY <1>11, <2>1, <2>2, <2>3
  <2>7. Goes(q, e, step)
    BY <2>4
  <2>8. CacheInv' /\ UNCHANGED <<world, settings, history>>
    BY <1>5, <2>5 DEF caches
  <2> HIDE DEF l, step
  <2> QED
    BY <1>1, <1>2, <2>6, <2>7, <2>8, LookMoves
<1>13. CASE RolesRead(q, e)
  <2> DEFINE step == [at |-> "list", role |-> l.role, list |-> content]
  <2>1. step \in Lookups
    BY <1>1, <1>3, <1>13 DEF RolesRead, Waits, PermissionTypeOK, Lookups
  <2>2. LatelyHeld(e, l.role) \/ (l.role = None /\ Lost(request[q]))
    BY <1>4, <1>13 DEF RolesRead, Waits, LookInv
  <2>3. \A lost \in BOOLEAN : (Lost(request[q]) => lost) => LookInv(lost, e, step)
    BY <1>1, <2>2 DEF NowInv, LookInv
  <2>4. Goes(q, e, step) /\ UNCHANGED <<world, caches, history>>
    BY <1>13 DEF RolesRead
  <2> HIDE DEF step
  <2> QED
    BY <1>1, <1>2, <1>5, <2>1, <2>3, <2>4, LookMoves DEF caches
<1>14. CASE RolesAnswer(q, e)
  <2>1. l.at = "list" /\ l.list \in Lists
    BY <1>3, <1>14 DEF RolesAnswer, Waits
  <2>2. \A s \in Roles : been[s][l.list[s]] = 0
    BY <1>4, <2>1 DEF LookInv
  <2>3. \A s \in Roles : been[s][l.list[s]] <= RoleTtl
    BY <2>2, PermissionAssumption
  <2>4. PICK c \in Named(l.list, l.role) : Goes(q, e, [at |-> "done", found |-> c])
    BY <1>14 DEF RolesAnswer
  <2>5. roles' = [value |-> l.list, age |-> 0] /\ UNCHANGED <<world, users, settings, history>>
    BY <1>14 DEF RolesAnswer
  <2> HIDE DEF l
  <2>6. CacheInv'
    BY <1>1, <2>2, <2>5 DEF CacheInv, history
  <2> QED
    BY <1>1, <1>2, <1>11, <2>1, <2>3, <2>4, <2>5, <2>6, LookMoves
<1>15. CASE RolesFail(q, e)
  <2> DEFINE step == [at |-> "done", found |-> Gone]
  <2>1. GoesFailed(q, e, step) /\ UNCHANGED <<world, caches, history>>
    BY <1>15 DEF RolesFail
  <2>2. step \in Lookups /\ Gone.allows = {}
    BY DEF Lookups, Contents, Gone
  <2>3. \A lost \in BOOLEAN : lost => LookInv(lost, e, step)
    BY <2>2 DEF LookInv, Rightful
  <2>4. ~Goes(q, e, step) \/ Lost(request[q])
    <3>1. ASSUME Goes(q, e, step) PROVE Lost(request[q])
      <4> HIDE DEF step
      <4> QED
        BY <1>1, <1>2, <2>1, <2>2, <3>1, GoesAdvances DEF Lost
    <3> QED
      BY <3>1
  <2> HIDE DEF step
  <2> QED
    BY <1>1, <1>2, <1>5, <2>1, <2>2, <2>3, <2>4, LookMoves DEF caches
<1> QED
  BY <1>7, <1>8, <1>9, <1>10, <1>12, <1>13, <1>14, <1>15 DEF Lookup

\* The answer is what the evaluations found, and all of it.
LEMMA ReplyKeeps ==
    ASSUME RightsInv, NEW q \in Requests, Reply(q)
    PROVE  RightsInv'
<1> DEFINE r == request[q]
           found == {r.look[e].found : e \in r.scope}
           s == [r EXCEPT !.stage = "answered",
                   !.error = r.route = "checkPermissions" /\ Gone \in found,
                   !.granted = UNION {c.allows : c \in found}, !.look = Look({})]
<1>1. PermissionTypeOK /\ PermissionTypeOK' /\ CacheInv
  BY ReplyTyped DEF RightsInv
<1>2. /\ r \in Evaluations /\ r.stage = "lookups"
      /\ \A e \in r.scope : r.look[e].at = "done"
  BY <1>1, Shapes DEF Reply, PermissionTypeOK
<1>3. r.scope \subseteq Emails
  BY <1>2 DEF Evaluations
<1>4. /\ s.stage = "answered" /\ s.auth = r.auth /\ s.profile = r.profile
      /\ s.mode = r.mode /\ s.scope = r.scope /\ s.failed = r.failed
      /\ s.granted = UNION {c.allows : c \in found}
  BY <1>2 DEF Evaluations
<1>5. RequestInv(r)
  BY DEF RightsInv
<1>6. \A e \in r.scope : Rightful(Lost(r), e, r.look[e].found.allows)
  BY <1>2, <1>3, <1>5 DEF RequestInv, LookInv
<1>7. request'[q] = s /\ request' = [request EXCEPT ![q] = request'[q]]
  BY <1>1 DEF Reply, PermissionTypeOK
<1>8. \A f : f \in s.granted <=> \E e \in r.scope : f \in r.look[e].found.allows
  BY <1>4
<1> HIDE DEF s, found, r
<1>9. RequestInv(s)
  <2>1. ScopeInv(s)
    BY <1>2, <1>4, <1>5 DEF RequestInv, ScopeInv
  <2>2. Lost(s) = Lost(r)
    BY <1>4 DEF Lost
  <2>3. \A f \in s.granted : \E e \in s.scope : Due(Lost(s), e, f)
    BY <1>4, <1>6, <1>8, <2>2 DEF Rightful
  <2>4. ASSUME ~Lost(s), NEW e \in s.scope, NEW x \in Roles, NEW f \in Features,
               SteadilyHeld(e, x), SteadilyAllowed(x, f)
        PROVE  f \in s.granted
    BY <1>4, <1>6, <1>8, <2>2, <2>4 DEF Rightful
  <2> QED
    BY <1>4, <2>1, <2>3, <2>4 DEF RequestInv
<1>10. RequestInv(request[q])'
  <2>1. PICK x \in {Idle} \cup Deciding \cup Evaluations : x = request'[q]
    BY <1>1 DEF PermissionTypeOK
  <2>2. RequestInv(x) /\ Forward /\ settings = settings'
    BY <1>1, <1>7, <1>9, <2>1, Unmoved DEF Reply, history, caches
  <2>3. RequestInv(x)'
    BY <1>1, <2>1, <2>2, RequestStands
  <2> QED
    BY <2>1, <2>3
<1>11. UNCHANGED <<world, settings, history>> /\ CacheInv'
  BY <1>1 DEF Reply, caches, history, CacheInv
<1> QED
  BY <1>1, <1>7, <1>10, <1>11, OneMoves

\* A change makes nothing that was known wrong.
LEMMA ChangeKeeps ==
    ASSUME RightsInv, PermissionTypeOK', Forward, NowInv', UNCHANGED <<users, roles, request>>,
           settings \subseteq settings'
    PROVE  RightsInv'
<1>1. PermissionTypeOK /\ CacheInv
  BY DEF RightsInv
<1>2. ASSUME NEW e \in Emails, users[e] # None PROVE held'[e][users[e].value] <= users[e].age
  <2>1. users[e].value \in RoleIds /\ users[e].age \in 0 .. UserTtl
    BY <1>1, <1>2 DEF PermissionTypeOK, Cached
  <2>2. held'[e] \in [RoleIds \cup {None} -> 0 .. UserTtl + 1]
    BY DEF PermissionTypeOK
  <2>3. /\ held'[e][users[e].value] \in Nat /\ held[e][users[e].value] \in Nat
        /\ held'[e][users[e].value] <= held[e][users[e].value]
    BY <1>1, <2>1, <2>2, Dates DEF Forward
  <2> QED
    BY <1>1, <1>2, <2>1, <2>3, PermissionAssumption DEF CacheInv
<1>3. ASSUME roles # None, NEW r \in Roles PROVE been'[r][roles.value[r]] <= roles.age
  <2>1. roles.value[r] \in Contents /\ roles.age \in 0 .. RoleTtl
    BY <1>1, <1>3 DEF PermissionTypeOK, Cached, Lists
  <2>2. been'[r] \in [Contents -> 0 .. RoleTtl + 1]
    BY DEF PermissionTypeOK
  <2>3. /\ been'[r][roles.value[r]] \in Nat /\ been[r][roles.value[r]] \in Nat
        /\ been'[r][roles.value[r]] <= been[r][roles.value[r]]
    BY <1>1, <2>1, <2>2, Dates DEF Forward
  <2> QED
    BY <1>1, <1>3, <2>1, <2>3, PermissionAssumption DEF CacheInv
<1>4. CacheInv'
  BY <1>2, <1>3 DEF CacheInv
<1>5. ASSUME NEW q \in Requests PROVE RequestInv(request[q])'
  <2>1. PICK r \in {Idle} \cup Deciding \cup Evaluations : r = request[q]
    BY <1>1 DEF PermissionTypeOK
  <2>2. RequestInv(r)'
    BY <1>1, <2>1, RequestStands DEF RightsInv
  <2> QED
    BY <2>1, <2>2
<1> QED
  BY <1>4, <1>5 DEF RightsInv

\* Nothing is under way across a tick, and what is cached and what was the case
\* grow old together.
LEMMA TickKeeps == ASSUME RightsInv, Tick PROVE RightsInv'
<1>1. PermissionTypeOK /\ PermissionTypeOK' /\ NowInv /\ CacheInv
  BY MeanwhileTyped DEF RightsInv
<1>2. \A q \in Requests : RequestInv(request[q])'
  <2>1. RequestInv(Idle)'
    BY DEF RequestInv, Idle
  <2>2. \A q \in Requests : request'[q] = Idle
    BY DEF Tick
  <2> QED
    BY <2>1, <2>2
<1>3. NowInv'
  <2>1. roleOf' = roleOf /\ content' = content
    BY DEF Tick, world
  <2>2. \A e \in Emails : roleOf[e] \in RoleIds \cup {None} /\ DOMAIN held[e] = RoleIds \cup {None}
    BY <1>1 DEF PermissionTypeOK
  <2>3. \A r \in Roles : content[r] \in Contents /\ DOMAIN been[r] = Contents
    BY <1>1 DEF PermissionTypeOK, Lists
  <2> QED
    BY <2>1, <2>2, <2>3 DEF NowInv, Tick, Older
<1>4. ASSUME NEW e \in Emails, users'[e] # None
      PROVE  held'[e][users'[e].value] <= users'[e].age
  <2> DEFINE v == users[e].value
  <2>1. users'[e] = Aged(users[e], UserTtl)
    BY DEF Tick
  <2>2. /\ users[e] # None /\ users[e] \in [value : RoleIds, age : 0 .. UserTtl]
        /\ users[e].age # UserTtl
        /\ users'[e] = [users[e] EXCEPT !.age = @ + 1]
    BY <1>1, <1>4, <2>1 DEF Aged, PermissionTypeOK, Cached
  <2>3. users'[e].value = v /\ users'[e].age = users[e].age + 1 /\ v \in RoleIds
    BY <2>2
  <2>4. held[e][v] <= users[e].age /\ held[e][v] \in Nat
    BY <1>1, <2>2, <2>3, Dates DEF CacheInv
  <2>5. held'[e][v] = IF v = roleOf[e] THEN 0
                      ELSE IF held[e][v] <= UserTtl THEN held[e][v] + 1 ELSE held[e][v]
    BY <1>1, <2>3 DEF Tick, Older, PermissionTypeOK
  <2>6. users[e].age \in 0 .. UserTtl
    BY <2>2
  <2> QED
    BY <2>3, <2>4, <2>5, <2>6, PermissionAssumption
<1>5. ASSUME roles' # None, NEW r \in Roles
      PROVE  been'[r][roles'.value[r]] <= roles'.age
  <2> DEFINE c == roles.value[r]
  <2>1. roles' = Aged(roles, RoleTtl)
    BY DEF Tick
  <2>2. /\ roles # None /\ roles \in [value : Lists, age : 0 .. RoleTtl]
        /\ roles.age # RoleTtl
        /\ roles' = [roles EXCEPT !.age = @ + 1]
    BY <1>1, <1>5, <2>1 DEF Aged, PermissionTypeOK, Cached
  <2>3. roles'.value[r] = c /\ roles'.age = roles.age + 1 /\ c \in Contents
    BY <2>2 DEF Lists
  <2>4. been[r][c] <= roles.age /\ been[r][c] \in Nat
    BY <1>1, <2>2, <2>3, Dates DEF CacheInv
  <2>5. been'[r][c] = IF c = content[r] THEN 0
                      ELSE IF been[r][c] <= RoleTtl THEN been[r][c] + 1 ELSE been[r][c]
    BY <1>1, <2>3 DEF Tick, Older, PermissionTypeOK
  <2>6. roles.age \in 0 .. RoleTtl
    BY <2>2
  <2> QED
    BY <2>3, <2>4, <2>5, <2>6, PermissionAssumption
<1>6. CacheInv'
  BY <1>4, <1>5 DEF CacheInv
<1> QED
  BY <1>1, <1>2, <1>3, <1>6 DEF RightsInv

LEMMA MeanwhileKeeps ==
    ASSUME RightsInv,
           \/ \E e \in Emails, r \in RoleIds \cup {None} : Reassign(e, r)
           \/ \E r \in Roles, c \in Contents : EditRole(r, c)
           \/ Configure
           \/ Restart
           \/ Tick
           \/ UNCHANGED vars
    PROVE  RightsInv'
<1>1. PermissionTypeOK /\ PermissionTypeOK' /\ NowInv
  BY MeanwhileTyped DEF RightsInv
<1>2. ASSUME NEW e \in Emails, NEW r \in RoleIds \cup {None}, Reassign(e, r) PROVE RightsInv'
  <2>1. /\ held \in [Emails -> [RoleIds \cup {None} -> 0 .. UserTtl + 1]]
        /\ roleOf \in [Emails -> RoleIds \cup {None}]
    BY <1>1 DEF PermissionTypeOK
  <2>2. \A d \in Emails, s \in RoleIds \cup {None} :
           held'[d][s] = IF d = e /\ s = r THEN 0 ELSE held[d][s]
    BY <1>2, <2>1 DEF Reassign
  <2>3. Forward
    BY <1>1, <1>2, <2>2, Dates DEF Forward, Reassign
  <2>4. NowInv'
    BY <1>1, <1>2, <2>1, <2>2 DEF NowInv, Reassign
  <2>5. UNCHANGED <<users, roles, settings, request>>
    BY <1>2 DEF Reassign, caches
  <2> QED
    BY <1>1, <2>3, <2>4, <2>5, ChangeKeeps
<1>3. ASSUME NEW r \in Roles, NEW c \in Contents, EditRole(r, c) PROVE RightsInv'
  <2>1. /\ been \in [Roles -> [Contents -> 0 .. RoleTtl + 1]]
        /\ content \in [Roles -> Contents]
    BY <1>1 DEF PermissionTypeOK, Lists
  <2>2. \A s \in Roles, d \in Contents :
           been'[s][d] = IF s = r /\ d = c THEN 0 ELSE been[s][d]
    BY <1>3, <2>1 DEF EditRole
  <2>3. Forward
    BY <1>1, <1>3, <2>2, Dates DEF Forward, EditRole
  <2>4. NowInv'
    BY <1>1, <1>3, <2>1, <2>2 DEF NowInv, EditRole
  <2>5. UNCHANGED <<users, roles, settings, request>>
    BY <1>3 DEF EditRole, caches
  <2> QED
    BY <1>1, <2>3, <2>4, <2>5, ChangeKeeps
<1>4. CASE Configure
  <2>1. UNCHANGED <<held, been, roleOf, content, users, roles, request>>
        /\ settings \subseteq settings'
    BY <1>4 DEF Configure
  <2> QED
    BY <1>1, <2>1, Unmoved, ChangeKeeps DEF NowInv
<1>5. CASE Restart
  <2>1. \A q \in Requests : RequestInv(request[q])'
    <3>1. RequestInv(Idle)'
      BY DEF RequestInv, Idle
    <3>2. \A q \in Requests : request'[q] = Idle
      BY <1>5 DEF Restart
    <3> QED
      BY <3>1, <3>2
  <2>2. NowInv' /\ CacheInv'
    BY <1>1, <1>5 DEF Restart, NowInv, CacheInv, world, history
  <2> QED
    BY <1>1, <2>1, <2>2 DEF RightsInv
<1>6. CASE UNCHANGED vars
  <2>1. UNCHANGED <<held, been, roleOf, content, users, roles, settings, request>>
    BY <1>6 DEF vars, world, caches, history
  <2> QED
    BY <1>1, <2>1, Unmoved, ChangeKeeps DEF NowInv
<1> QED
  BY <1>2, <1>3, <1>4, <1>5, <1>6, TickKeeps

------------------------------------------------------------------------------
(***************************************************************************)
(* What it promises of an answer.                                          *)
(***************************************************************************)
LEMMA RightsInit == Init => RightsInv
<1> SUFFICES ASSUME Init PROVE RightsInv
  OBVIOUS
<1>1. PermissionTypeOK
  BY TypeInit
<1>2. NowInv
  <2>1. /\ \A e \in Emails : roleOf[e] \in RoleIds \cup {None}
        /\ \A r \in Roles : content[r] \in Contents
    BY <1>1 DEF PermissionTypeOK, Lists
  <2>2. \A e \in Emails : held[e] = Since(RoleIds \cup {None}, roleOf[e], UserTtl)
    BY DEF Init
  <2>3. \A r \in Roles : been[r] = Since(Contents, content[r], RoleTtl)
    BY DEF Init
  <2> QED
    BY <2>1, <2>2, <2>3 DEF NowInv, Since
<1>3. CacheInv
  BY DEF Init, CacheInv
<1>4. \A q \in Requests : RequestInv(request[q])
  <2>1. RequestInv(Idle)
    BY DEF RequestInv, Idle
  <2> QED
    BY <2>1 DEF Init
<1> QED
  BY <1>1, <1>2, <1>3, <1>4 DEF RightsInv

LEMMA RightsStep == RightsInv /\ [Next]_vars => RightsInv'
BY AcceptedKeeps, LookupKeeps, ReplyKeeps, MeanwhileKeeps DEF Next

LEMMA RightsInvariant == Spec => []RightsInv
BY RightsInit, RightsStep, PTL DEF Spec

\* Who is asked about in each mode.
LEMMA WhoseAre ==
    ASSUME NEW auth, NEW profile, NEW mode
    PROVE  /\ Whose(auth, profile, mode) \subseteq {auth, profile} \ {None}
           /\ mode = "plain" => Whose(auth, profile, mode) = {auth} \ {None}
           /\ mode = "strict" => Whose(auth, profile, mode) = {profile} \ {None}
           /\ mode = "aggregated" => Whose(auth, profile, mode) = {auth, profile} \ {None}
<1>1. CASE mode = "plain"
  BY <1>1 DEF Whose
<1>2. CASE mode = "strict"
  BY <1>2 DEF Whose
<1>3. CASE mode \notin {"plain", "strict"}
  BY <1>3 DEF Whose
<1> QED
  BY <1>1, <1>2, <1>3

\* Of an answer: whose rights were asked for ...
LEMMA Asked ==
    ASSUME RightsInv, NEW q \in Requests, request[q].stage = "answered",
           NEW r, r = request[q]
    PROVE  \/ /\ ~Acting(q) /\ r.scope = {r.auth} \ {None}
           \/ /\ Acting(q) /\ r.scope = {r.profile} \ {None}
              /\ TRUE \in settings
           \/ /\ Acting(q) /\ r.scope = {r.auth, r.profile} \ {None}
              /\ FALSE \in settings \/ "settings" \in r.failed
<1>1. r \in Evaluations
  BY Shapes DEF RightsInv, PermissionTypeOK
<1>2. r.mode \in {"plain", "strict", "aggregated"}
  BY <1>1 DEF Evaluations
<1>3. ScopeInv(r)
  BY DEF RightsInv, RequestInv
<1>4. Acting(q) <=> Impersonating(r.auth, r.profile)
  BY DEF Acting
<1>5. r.scope = Whose(r.auth, r.profile, r.mode)
  BY <1>3 DEF ScopeInv
<1>6. CASE r.mode = "plain"
  <2>1. r.scope = {r.auth} \ {None}
    BY <1>5, <1>6, WhoseAre
  <2>2. ~Acting(q)
    BY <1>3, <1>4, <1>6 DEF ScopeInv
  <2> QED
    BY <2>1, <2>2
<1>7. CASE r.mode = "strict"
  <2>1. r.scope = {r.profile} \ {None}
    BY <1>5, <1>7, WhoseAre
  <2>2. Acting(q) /\ TRUE \in settings
    BY <1>3, <1>4, <1>7 DEF ScopeInv
  <2> QED
    BY <2>1, <2>2
<1>8. CASE r.mode = "aggregated"
  <2>1. r.scope = {r.auth, r.profile} \ {None}
    BY <1>5, <1>8, WhoseAre
  <2>2. Acting(q) /\ (FALSE \in settings \/ "settings" \in r.failed)
    BY <1>3, <1>4, <1>8 DEF ScopeInv
  <2> QED
    BY <2>1, <2>2
<1> QED
  BY <1>2, <1>6, <1>7, <1>8

\* ... and what was granted.
LEMMA Granted ==
    ASSUME RightsInv, NEW q \in Requests, request[q].stage = "answered",
           NEW r, r = request[q]
    PROVE  /\ \A f \in r.granted : \E e \in r.scope : Entitles(q, e, f)
           /\ "lookup" \notin r.failed => \A e \in r.scope, s \in Roles, f \in Features :
                 SteadilyHeld(e, s) /\ SteadilyAllowed(s, f) => f \in r.granted
BY DEF RightsInv, RequestInv, Lost, Entitles

(***************************************************************************)
(* Stale permissions are bounded to the TTLs, for any number of pods'      *)
(* requests, however long the TTLs and whatever fails: each permission     *)
(* granted comes from a role the acting user or the profile of the session *)
(* had, and that allowed it, no longer ago than that.                      *)
(***************************************************************************)
THEOREM GrantsStayRecent == Spec => []GrantsAreRecent
<1>1. RightsInv => GrantsAreRecent
  <2> SUFFICES ASSUME RightsInv, NEW q \in Requests, Answered(q),
                      NEW f \in request[q].granted
               PROVE  \E e \in {request[q].auth, request[q].profile} \ {None} :
                         Entitles(q, e, f)
    BY DEF GrantsAreRecent
  <2>0. PICK r : r = request[q]
    OBVIOUS
  <2>1. request[q].stage = "answered"
    BY DEF Answered
  <2>2. PICK e \in r.scope : Entitles(q, e, f)
    BY <2>0, <2>1, Granted
  <2>3. \/ r.scope = {r.auth} \ {None}
        \/ r.scope = {r.profile} \ {None}
        \/ r.scope = {r.auth, r.profile} \ {None}
    BY <2>0, <2>1, Asked
  <2> QED
    BY <2>0, <2>2, <2>3
<1> QED
  BY <1>1, RightsInvariant, PTL

(***************************************************************************)
(* In strict mode the acting user's rights never reach the storefront, for *)
(* any interleaving of the checks with flips of the setting, once every    *)
(* layer of the settings cache has it and unless the settings cannot be    *)
(* read.                                                                   *)
(***************************************************************************)
THEOREM StrictModeHides == Spec => []StrictHidesTheActor
<1>1. RightsInv => StrictHidesTheActor
  <2> SUFFICES ASSUME RightsInv, NEW q \in Requests, Answered(q), Acting(q),
                      settings = {TRUE}, "settings" \notin request[q].failed,
                      NEW f \in request[q].granted
               PROVE  Entitles(q, request[q].profile, f)
    BY DEF StrictHidesTheActor
  <2>0. PICK r : r = request[q]
    OBVIOUS
  <2>1. request[q].stage = "answered"
    BY DEF Answered
  <2>2. PICK e \in r.scope : Entitles(q, e, f)
    BY <2>0, <2>1, Granted
  <2>3. FALSE \notin settings
    OBVIOUS
  <2>4. r.scope = {r.profile} \ {None}
    BY <2>0, <2>1, <2>3, Asked
  <2> QED
    BY <2>0, <2>2, <2>4
<1> QED
  BY <1>1, RightsInvariant, PTL

(***************************************************************************)
(* A failure denies for one answer and no longer: what an email that       *)
(* counts has had a right to, unchanged, for the length of the TTLs is in  *)
(* every answer in which no call failed.                                   *)
(***************************************************************************)
THEOREM SteadyRightsGranted == Spec => []SteadyRightsAreGranted
<1>1. RightsInv => SteadyRightsAreGranted
  <2> SUFFICES ASSUME RightsInv, NEW q \in Requests, request[q].stage = "answered",
                      request[q].failed = {}, NEW e \in Emails, NEW s \in Roles,
                      NEW f \in Features, Counts(q, e), SteadilyHeld(e, s),
                      SteadilyAllowed(s, f)
               PROVE  f \in request[q].granted
    BY DEF SteadyRightsAreGranted
  <2>0. PICK r : r = request[q]
    OBVIOUS
  <2>1. e # None
    BY PermissionAssumption
  <2>2. CASE ~Acting(q)
    <3>1. r.scope = {r.auth} \ {None} /\ e = r.auth
      BY <2>0, <2>2, Asked DEF Counts
    <3> QED
      BY <2>0, <2>1, <3>1, Granted
  <2>3. CASE Acting(q) /\ e = r.profile
    <3>1. r.scope = {r.profile} \ {None} \/ r.scope = {r.auth, r.profile} \ {None}
      BY <2>0, <2>3, Asked
    <3>2. e \in r.scope
      BY <2>1, <2>3, <3>1, <2>0
    <3> QED
      BY <2>0, <3>2, Granted
  <2>4. CASE Acting(q) /\ e = r.auth /\ settings = {FALSE}
    <3>1. TRUE \notin settings
      BY <2>4
    <3>2. e \in r.scope
      BY <2>0, <2>1, <2>4, <3>1, Asked
    <3> QED
      BY <2>0, <3>2, Granted
  <2> QED
    BY <2>0, <2>2, <2>3, <2>4 DEF Counts
<1> QED
  BY <1>1, RightsInvariant, PTL

==============================================================================
