-------------------------------- MODULE Access --------------------------------
(***************************************************************************)
(* The directives that guard the fields of the GraphQL schema:             *)
(* @validateAdminUserAccess and @validateStoreUserAccess                   *)
(* (src/node/directives), with the checks of helper.ts they share.         *)
(*                                                                         *)
(* The fields of one GraphQL request share one context.  Each runs its own *)
(* checks, one credential after the other, and stops at the first that     *)
(* holds; the check of the API key leaves the token it was given in that   *)
(* context, where the directive of a field that starts later finds it as   *)
(* the admin token.                                                        *)
(***************************************************************************)
EXTENDS Naturals, SequencesExt

CONSTANTS
    Fields,     \* the guarded fields of one request
    CallsFail   \* whether calls to identity, License Manager, VTEX ID and Master
                \*   Data may fail

ASSUME CallsFailAssumption == CallsFail \in BOOLEAN

VARIABLES
    brought,    \* credential -> what it is worth, as the services know it
    operation,  \* does the request query or mutate?
    context,    \* where the admin token in the context comes from
    field       \* field -> how far its checks are, or its result

accessVars == <<brought, operation, context, field>>

\* The admin token and the store token of the session, a header, the API key.
Credentials == {"admin", "header", "api", "store"}

\* Of the tokens a request brings: none, one no service accepts, one accepted
\* that never does (another account, not an admin, neither role, or a shopper
\* without a document in any organization), an admin's with B2B_ORGANIZATIONS_VIEW
\* or _EDIT alone, and one that always does.
Worths == {"absent", "invalid", "short", "viewer", "editor", "granted"}

Guards == {"validateAdminUserAccess", "validateStoreUserAccess"}

\* In the schema the admin directive asks for the role to edit, the other to view.
Meets(worth, guard) ==
    worth \in {"granted", IF guard = "validateAdminUserAccess" THEN "editor" ELSE "viewer"}

\* What the checks find; "failed" is a call that threw.
Findings == {"absent", "invalid", "short", "granted", "failed"}

Finding(worth, guard) ==
    IF worth \in {"absent", "invalid"} THEN worth
    ELSE IF Meets(worth, guard) THEN "granted" ELSE "short"

Order(guard) ==
    IF guard = "validateAdminUserAccess" THEN <<"admin", "header", "api">>
    ELSE <<"admin", "header", "api", "store">>

Closed == [stage |-> "closed"]
Checking ==
    [stage : {"checking"}, guard : Guards, next : 1 .. 4,
     token : {"none", "admin", "api"}, found : [Credentials -> Findings]]
Results == {"resolved", "no token", "forbidden"}
Over ==
    [stage : {"over"}, guard : Guards, result : Results,
     found : [Credentials -> Findings]]

AccessTypeOK ==
    /\ brought \in [Credentials -> Worths]
    /\ operation \in {"query", "mutation"}
    /\ context \in {"none", "admin", "api"}
    /\ field \in [Fields -> {Closed} \cup Checking \cup Over]

Nothing == [c \in Credentials |-> "absent"]

AccessInit ==
    /\ brought = Nothing
    /\ operation = "query"
    /\ context = "none"
    /\ field = [f \in Fields |-> Closed]

------------------------------------------------------------------------------
Ended(f) == field[f].stage = "over"

\* The request comes in with its credentials; its context lives as long as it.
Arrive ==
    /\ \A f \in Fields : field[f] = Closed
    /\ brought = Nothing
    /\ brought' \in [Credentials -> Worths]
    /\ brought'["store"] \notin {"viewer", "editor"}
    /\ operation' \in {"query", "mutation"}
    /\ context' = IF brought'["admin"] = "absent" THEN "none" ELSE "admin"
    /\ UNCHANGED field

\* The directive takes the admin token from the context when its field starts.
\* The fields of a query are checked all at once, those of a mutation, among which
\* alone the admin directive is found, one after the other.
Open(f, guard) ==
    /\ field[f] = Closed
    /\ operation = "query" => guard = "validateStoreUserAccess"
    /\ operation = "mutation" => \A g \in Fields : field[g].stage # "checking"
    /\ field' = [field EXCEPT ![f] =
          [stage |-> "checking", guard |-> guard, next |-> 1, token |-> context,
           found |-> Nothing]]
    /\ UNCHANGED <<brought, operation, context>>

\* The credential being checked, and what the one it stands for is worth.
Current(f) == Order(field[f].guard)[field[f].next]

Worth(f) ==
    LET token == IF Current(f) = "admin" THEN field[f].token ELSE Current(f)
    IN IF token = "none" THEN "absent" ELSE Finding(brought[token], field[f].guard)

Done(f, result, found) ==
    field' = [field EXCEPT ![f] =
        [stage |-> "over", guard |-> field[f].guard, result |-> result,
         found |-> found]]

\* Tokens without success: whether there was none decides on the error.  The
\* store directive does not count the one in the header.
Refusal(guard, found) ==
    LET counted == IF guard = "validateAdminUserAccess" THEN {"admin", "header", "api"}
                   ELSE {"admin", "api", "store"}
    IN IF \A c \in counted : found[c] = "absent" THEN "no token" ELSE "forbidden"

\* The check of one credential came out as `finding`; the next one is up, unless
\* it holds or was the last.
Found(f, finding) ==
    LET found == [field[f].found EXCEPT ![Current(f)] = finding]
    IN IF finding = "granted" THEN Done(f, "resolved", found)
       ELSE IF field[f].next = Len(Order(field[f].guard))
            THEN Done(f, Refusal(field[f].guard, found), found)
            ELSE field' = [field EXCEPT ![f].next = @ + 1, ![f].found = found]

\* Any token that is accepted left in the context.
LeavesAny(c, accepted) == IF accepted THEN c ELSE context

\* validateApiToken leaves its token in the context once identity accepts it.
Leaves(c, accepted) == IF c = "api" /\ accepted THEN "api" ELSE context

\* A token the context already holds taken as checked.
CheckUnlessContext(f) ==
    /\ field[f].stage = "checking"
    /\ LET worth == IF Current(f) = "admin" /\ field[f].token = "api" THEN "granted"
                    ELSE Worth(f)
       IN /\ Found(f, worth)
          /\ context' = Leaves(Current(f), worth \in {"short", "granted"})
    /\ UNCHANGED <<brought, operation>>

\* validateAdminToken, validateApiToken, validateStoreToken: all calls answer.
Check(f) ==
    /\ field[f].stage = "checking"
    /\ Found(f, Worth(f))
    /\ context' = Leaves(Current(f), Worth(f) \in {"short", "granted"})
    /\ UNCHANGED <<brought, operation>>

\* A call that throws ends the checks.
CheckFailsAtOnce(f) ==
    /\ CallsFail
    /\ field[f].stage = "checking"
    /\ Worth(f) # "absent"
    /\ Done(f, "forbidden", [field[f].found EXCEPT ![Current(f)] = "failed"])
    /\ UNCHANGED <<brought, operation, context>>

\* One of them throws, before or after identity accepted the token: the
\* credential counts as present and not valid.
CheckFails(f) ==
    /\ CallsFail
    /\ field[f].stage = "checking"
    /\ Worth(f) # "absent"
    /\ Found(f, "failed")
    /\ \/ UNCHANGED context
       \/ context' = Leaves(Current(f), Worth(f) \in {"short", "granted"})
    /\ UNCHANGED <<brought, operation>>

AccessNext ==
    \/ Arrive
    \/ \E f \in Fields :
          \/ \E guard \in Guards : Open(f, guard)
          \/ Check(f)
          \/ CheckFails(f)

AccessSpec == AccessInit /\ [][AccessNext]_accessVars

------------------------------------------------------------------------------
Checked(f) == ToSet(Order(field[f].guard))

\* A call about this credential threw, in the checks of some field so far.
Threw(c) == \E g \in Fields : field[g] # Closed /\ field[g].found[c] = "failed"

\* A field before has found the session's admin token wanting, for its own guard.
PassedOver(c) ==
    /\ c = "admin"
    /\ \E g \in Fields :
          field[g] # Closed /\ ~Meets(brought["admin"], field[g].guard)

(***************************************************************************)
(* A guard fails closed, and only as far as it must: a field resolves only *)
(* if one credential passed all of the checks of its kind by itself, and   *)
(* is refused only if each credential that does pass them met a call that  *)
(* threw.  Not always one of this field's: once a throwing call, or the    *)
(* other role that its own guard asks for, has sent another field on to    *)
(* the API key, the token that leaves in the context has displaced the     *)
(* admin's for the fields that start later.                                *)
(***************************************************************************)
GuardIsExact ==
    \A f \in Fields : Ended(f) =>
        IF field[f].result = "resolved"
        THEN \E c \in Checked(f) : Meets(brought[c], field[f].guard)
        ELSE \A c \in Checked(f) :
                Meets(brought[c], field[f].guard) => Threw(c) \/ PassedOver(c)

NoneThrew == \A c \in Credentials : ~Threw(c)

(***************************************************************************)
(* The token an API key leaves in the context changes nothing: two fields  *)
(* of a request under one guard, whichever starts first and whatever the   *)
(* others do, end alike, down to the error they answer, if no call throws  *)
(* and the admin token does for both guards or for neither.                *)
(***************************************************************************)
SiblingsAgree ==
    \A f, g \in Fields :
        Ended(f) /\ Ended(g) /\ field[f].guard = field[g].guard
            /\ NoneThrew /\ brought["admin"] \notin {"viewer", "editor"}
        => field[f].result = field[g].result

==============================================================================
