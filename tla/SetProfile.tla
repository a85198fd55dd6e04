------------------------------ MODULE SetProfile ------------------------------
(***************************************************************************)
(* What the session transform makes of the document it has resolved:       *)
(* setProfile from the resolved user on (src/node/resolvers/Routes/        *)
(* index.ts 206-1461, Routes/utils/index.ts), one session transformed      *)
(* again and again while organizations, cost centers, documents and the    *)
(* shopper's choice change.  Module ActiveUser has how the choice is found.*)
(*                                                                         *)
(* An unusable organization or cost center starts a recovery that shapes   *)
(* this response only.  The response overwrites the fields of the session  *)
(* that it carries; on its way the transform empties the cart of a shopper *)
(* who has moved.  The address, profile and marketing data it sends to the *)
(* cart without waiting are left out, and of the response the address of   *)
(* the cost center, the locality and the shopper's own data.               *)
(***************************************************************************)
EXTENDS Directory

CONSTANTS
    ClearCart,  \* uiSettings.clearCart
    Tabled,     \* organizations with price tables
    Channeled,  \* organizations with a sales channel to write, own or default
    Regional    \* pairs of an organization and a cost center with an address and
                \* a sales channel to look up the region of

ASSUME CartAssumption == ClearCart \in BOOLEAN

ASSUME FieldsAssumption ==
    /\ Tabled \subseteq Orgs
    /\ Channeled \subseteq Orgs
    /\ Regional \subseteq Pairs

VARIABLES
    session,   \* the fields of the session this app writes
    rerun,     \* does the Session Manager run its transforms once more?
    stage,     \* where the transform is
    form,      \* checkout.orderFormId, as the transform received it
    cachedUser, \* the document the lookup resolved, or None
    user,      \* the working copy of it, reassigned by the recovery
    orgDoc,    \* the organization whose usable document is in hand, or None
    costDoc,   \* the cost center whose valid document is in hand, or None
    listing,   \* userOrgsData: a valid cost center and an adoptable document
    fallback,  \* the document to adopt, its organization found usable, or None
    hash,      \* the pair the hash of the response is computed from
    table,     \* the price tables the response names
    listed,    \* the listing the pod still caches, or None
    hasCart,   \* does the session have an order form?
    cart,      \* the pair the cart's items were put in under, or None if empty
    elsewhere, \* is the region left to the address the shopper gave?
    spoilt,    \* history: may the cart hold items it was not cleared of?
    passes     \* history: how many transforms ran since anything changed

sessionVars == <<session, rerun>>
workVars == <<form, cachedUser, user, orgDoc, costDoc, listing, fallback, hash, table>>
cartVars == <<hasCart, cart, elsewhere, spoilt>>
vars == <<world, windows, sessionVars, stage, workVars, listed, cartVars, passes>>

\* All of the world but the count of changes.
facts == <<usable, live, stale, present, choice, mode>>

Stages == {"idle", "resolve", "documents", "list", "costAgain", "candidate",
           "stickyOrg", "stickyRecord", "stickyCost", "adopted", "prices",
           "clear", "respond"}

Nobody == [org |-> None, cost |-> None, id |-> None]
NoPair == <<None, None>>
NothingListed == [cost |-> None, record |-> None]
Listings == [cost : Costs \cup {None}, record : Records \cup {None}]

ASSUME ListingsAssumption == None \notin Listings

\* An organization's price tables: those of a document, or with None its own.
Tables == (Orgs \cup {None}) \X (Records \cup {None})

(***************************************************************************)
(* The fields, empty.  A field is what it was computed from: facets an     *)
(* organization and a cost center, sc the organization whose sales channel *)
(* it is, regionId the pair whose region was looked up.                    *)
(***************************************************************************)
EmptySession == [organization |-> None, costcenter |-> None, hash |-> NoPair,
                 facets |-> NoPair, sc |-> None, regionId |-> NoPair,
                 prices |-> NoPair]

\* Fields the transform declares as inputs, so that it receives them.
Inputs == {"organization", "costcenter", "hash"}

\* The pair the session is pinned to.
Pin == <<session.organization, session.costcenter>>

PairsOrNone == (Orgs \cup {None}) \X (Costs \cup {None})

ProfileTypeOK ==
    /\ DirectoryTypeOK
    /\ session \in [organization : Orgs \cup {None}, costcenter : Costs \cup {None},
                    hash : PairsOrNone, facets : PairsOrNone,
                    sc : Orgs \cup {None}, regionId : PairsOrNone, prices : Tables]
    /\ rerun \in BOOLEAN
    /\ stage \in Stages
    /\ form \in BOOLEAN
    /\ cachedUser \in Records \cup {None}
    /\ user \in [org : Orgs \cup {None}, cost : Costs \cup {None},
                 id : Records \cup {None}]
    /\ orgDoc \in Orgs \cup {None}
    /\ costDoc \in Costs \cup {None}
    /\ listing \in Listings
    /\ fallback \in Records \cup {None}
    /\ hash \in PairsOrNone
    /\ table \in Tables
    /\ listed \in Listings \cup {None}
    /\ hasCart \in BOOLEAN
    /\ cart \in PairsOrNone \cup {None}
    /\ elsewhere \in BOOLEAN
    /\ spoilt \in BOOLEAN
    /\ passes \in 0..2
    /\ stage \notin {"idle", "resolve"} => user.org # None /\ user.cost # None
    /\ stage \in {"adopted", "prices", "clear", "respond"} => orgDoc = user.org

Init ==
    /\ DirectoryInit
    /\ session = EmptySession
    /\ rerun = FALSE
    /\ stage = "idle"
    /\ form = FALSE
    /\ cachedUser = None /\ user = Nobody
    /\ orgDoc = None /\ costDoc = None /\ fallback = None
    /\ listing = NothingListed
    /\ hash = NoPair /\ table = NoPair
    /\ listed = None
    /\ hasCart \in BOOLEAN /\ cart = None /\ elsewhere = FALSE
    /\ spoilt = FALSE
    /\ passes = 0

------------------------------------------------------------------------------
\* The transform goes on; nothing but its working variables has changed.
GoOn(next) ==
    /\ stage' = next
    /\ form' = form /\ table' = table
    /\ UNCHANGED <<world, windows, sessionVars, listed, cartVars>>

\* The transform is over and forgets what it worked with.
Over ==
    /\ stage' = "idle"
    /\ form' = FALSE
    /\ cachedUser' = None /\ user' = Nobody
    /\ orgDoc' = None /\ costDoc' = None /\ fallback' = None
    /\ listing' = NothingListed
    /\ hash' = NoPair /\ table' = NoPair

\* A response that repeats what it was given.
OmitNothing(response) == response

(***************************************************************************)
(* omitUnchangedSetProfileFields: the fields of a response that differ     *)
(* from what was received.  A field that is no input counts as empty;      *)
(* prices is not looked at.                                                *)
(***************************************************************************)
Received(f) == IF f \in Inputs THEN session[f] ELSE EmptySession[f]

\* The price table omitted too, where it is empty.
OmitEmptyPrices(response) ==
    [f \in {g \in DOMAIN response : response[g] # Received(g)} |-> response[f]]

OmitUnchanged(response) ==
    [f \in {g \in DOMAIN response : g = "prices" \/ response[g] # Received(g)} |->
        response[f]]

\* The Session Manager writes the fields a response carries, and runs the
\* transforms again if an input of theirs was among them.
Answer(response) ==
    /\ session' = [f \in DOMAIN session |->
                      IF f \in DOMAIN response THEN response[f] ELSE session[f]]
    /\ rerun' = (DOMAIN response \cap Inputs # {})

\* A response without the pinned fields (clearStorefrontPermissionsPinFields).
NoPinFields ==
    [f \in {"facets", "sc", "regionId", "prices"} |-> EmptySession[f]]

------------------------------------------------------------------------------
\* The session is transformed.
Start ==
    /\ stage = "idle"
    /\ WindowsOpen
    /\ stage' = "resolve"
    /\ form' = hasCart
    /\ UNCHANGED <<world, sessionVars, cachedUser, user, orgDoc, costDoc, listing,
                   fallback, hash, table, listed, cartVars>>

(***************************************************************************)
(* Switched off, the response is empty and goes out as it is; removeB2B    *)
(* sends the same without what is unchanged.                               *)
(***************************************************************************)
OptedOut ==
    /\ stage = "resolve"
    /\ \/ mode = "off" /\ Answer(EmptySession)
       \/ mode = "removeB2B" /\ Answer(OmitUnchanged(EmptySession))
    /\ Over
    /\ UNCHANGED <<world, windows, listed, cartVars>>

\* The cached lookup of the active user names a document of the shopper.
Resolve ==
    /\ stage = "resolve" /\ mode = "on"
    /\ choice # None
    /\ cachedUser' = choice
    /\ user' = [org |-> OrgOf[choice], cost |-> CostOf[choice], id |-> choice]
    /\ hash' = PairOf(choice)
    /\ GoOn("documents")
    /\ UNCHANGED <<orgDoc, costDoc, listing, fallback>>

\* Nobody is resolved, or the lookup fails: the pinned fields are left out.
Unresolved ==
    /\ stage = "resolve" /\ mode = "on"
    /\ \/ choice = None /\ changes' = changes
       \/ Disturb
    /\ Answer(OmitUnchanged(NoPinFields))
    /\ Over
    /\ UNCHANGED <<facts, windows, listed, cartVars>>

\* A read that is not guarded rejects: the session keeps everything.
Reading == {"documents", "costAgain", "candidate", "stickyOrg", "stickyRecord",
            "stickyCost", "adopted"}

Fails ==
    /\ stage \in Reading
    /\ Disturb
    /\ rerun' = FALSE
    /\ Over
    /\ UNCHANGED <<facts, windows, session, listed, cartVars>>

(***************************************************************************)
(* getOrganizationOrNull and getCostCenterOrNull: a document that is gone  *)
(* is no failure, and the cache may answer what was the case before.       *)
(***************************************************************************)
ReadsUsable(o) == IF o \in stale THEN BOOLEAN ELSE {usable[o]}
ReadsLive(c) == IF c \in stale THEN BOOLEAN ELSE {live[c]}

FoundOrg(o) == {IF ok THEN o ELSE None : ok \in ReadsUsable(o)}
FoundCost(c) == {IF ok THEN c ELSE None : ok \in ReadsLive(c)}

\* Both at once; what the one read earlier may miss, the cache may miss too.
GetDocuments ==
    /\ stage = "documents"
    /\ orgDoc' \in FoundOrg(user.org)
    /\ costDoc' \in FoundCost(user.cost)
    /\ GoOn(IF orgDoc' = None \/ costDoc' = None THEN "list" ELSE "prices")
    /\ UNCHANGED <<cachedUser, user, listing, fallback, hash>>

------------------------------------------------------------------------------
(***************************************************************************)
(* listUserOrganizationsByEmail over the documents S: the first with a     *)
(* live cost center, and the first whose organization is usable too.  The  *)
(* search is not sorted, so the first may be any.                          *)
(***************************************************************************)
CanAdopt(r) == usable[OrgOf[r]] /\ live[CostOf[r]]

ListingOf(S) ==
    LET named == {CostOf[r] : r \in {q \in S : live[CostOf[q]]}}
        adoptable == {r \in S : CanAdopt(r)}
    IN  {l \in Listings :
            /\ l.cost \in named \/ (named = {} /\ l.cost = None)
            /\ l.record \in adoptable \/ (adoptable = {} /\ l.record = None)}

\* The listing used to replace the cost center alone.
AfterListingNoRecovery(l) ==
    LET replaced == costDoc = None /\ l.cost # None
    IN  /\ listing' = l
        /\ user' = IF replaced THEN [user EXCEPT !.cost = l.cost] ELSE user
        /\ stage' = IF replaced THEN "costAgain" ELSE "prices"
        /\ UNCHANGED <<form, cachedUser, orgDoc, costDoc, fallback, hash, table,
                       windows, sessionVars, cartVars>>

(***************************************************************************)
(* The cost center is replaced first; an organization that is unusable     *)
(* leads to the recovery.                                                  *)
(***************************************************************************)
AfterListing(l) ==
    LET replaced == costDoc = None /\ l.cost # None
    IN  /\ listing' = l
        /\ user' = IF replaced THEN [user EXCEPT !.cost = l.cost] ELSE user
        /\ stage' = CASE orgDoc = None -> "candidate"
                      [] orgDoc # None /\ replaced -> "costAgain"
                      [] OTHER -> "prices"
        /\ UNCHANGED <<form, cachedUser, orgDoc, costDoc, fallback, hash, table,
                       windows, sessionVars, cartVars>>

\* getUserOrganizationsData from the memory of a pod.
ListFromCache ==
    /\ stage = "list"
    /\ listed # None
    /\ AfterListing(listed)
    /\ UNCHANGED <<world, listed>>

ListAnew ==
    /\ stage = "list"
    /\ \E l \in ListingOf(present) : AfterListing(l) /\ listed' = l
    /\ UNCHANGED world

\* Reads of single documents fail, which makes them invalid for the listing,
\* and the listing is cached all the same.
ListPartly ==
    /\ stage = "list"
    /\ Disturb
    /\ \E S \in SUBSET present : \E l \in ListingOf(S) :
          AfterListing(l) /\ listed' = l
    /\ UNCHANGED facts

\* The search fails: an empty listing, not cached.
ListFails ==
    /\ stage = "list"
    /\ Disturb
    /\ AfterListing(NothingListed)
    /\ UNCHANGED <<facts, listed>>

\* The pod forgets its listing after five minutes, or another pod, which has
\* none, transforms the session from now on.
ListExpires ==
    /\ listed # None
    /\ listed' = None
    /\ UNCHANGED <<world, windows, sessionVars, stage, workVars, cartVars>>

\* The cost center that replaces the invalid one.
GetCostCenterAgain ==
    /\ stage = "costAgain"
    /\ costDoc' \in FoundCost(user.cost)
    /\ GoOn("prices")
    /\ UNCHANGED <<cachedUser, user, orgDoc, listing, fallback, hash>>

------------------------------------------------------------------------------
\* The document r adopted, with the hash of the one it replaces.
AdoptWithOldHash(r) ==
    /\ user' = [org |-> OrgOf[r], cost |-> CostOf[r], id |-> r]
    /\ orgDoc' = OrgOf[r]
    /\ fallback' = r
    /\ GoOn("adopted")
    /\ UNCHANGED <<cachedUser, hash, costDoc, listing>>

\* The document r is adopted for this response, the hash with it.
Adopt(r) ==
    /\ user' = [org |-> OrgOf[r], cost |-> CostOf[r], id |-> r]
    /\ orgDoc' = OrgOf[r]
    /\ hash' = PairOf(r)
    /\ fallback' = r
    /\ GoOn("adopted")
    /\ UNCHANGED <<cachedUser, costDoc, listing>>

\* If there is no document to adopt the transform fails (ForbiddenError).
Recover(r) ==
    \/ r # None /\ Adopt(r)
    \/ /\ r = None
       /\ rerun' = FALSE
       /\ Over
       /\ UNCHANGED <<world, windows, session, listed, cartVars>>

\* Does the session carry a pair of another organization?
HasSticky == session.organization \notin {None, user.org}

\* The candidate of the listing is in hand: the session's own pair goes first.
WithCandidate(r) ==
    \/ /\ HasSticky
       /\ fallback' = r
       /\ GoOn("stickyOrg")
       /\ UNCHANGED <<cachedUser, user, orgDoc, costDoc, listing, hash>>
    \/ ~HasSticky /\ Recover(r)

\* The listing believed: an entry of it may be five minutes old.
GetCandidateUnread == stage = "candidate" /\ WithCandidate(listing.record)

\* The organization the listing nominates is read anew.
GetCandidate ==
    /\ stage = "candidate"
    /\ LET r == listing.record
       IN  \/ r = None /\ WithCandidate(None)
           \/ r # None /\ \E o \in FoundOrg(OrgOf[r]) :
                 WithCandidate(IF o # None THEN r ELSE None)

\* The session's own organization comes first if it is usable ...
GetStickyOrganization ==
    /\ stage = "stickyOrg"
    /\ \E usableNow \in ReadsUsable(session.organization) :
          \/ usableNow /\ GoOn("stickyRecord") /\ UNCHANGED workVars
          \/ ~usableNow /\ Recover(fallback)

\* ... the shopper has a document for the pair ...
GetStickyRecord ==
    /\ stage = "stickyRecord"
    /\ IF \E r \in present : PairOf(r) = Pin
       THEN GoOn("stickyCost") /\ UNCHANGED workVars
       ELSE Recover(fallback)

\* ... and its cost center is valid.
GetStickyCostCenter ==
    /\ stage = "stickyCost"
    /\ \E valid \in ReadsLive(session.costcenter) :
          \/ valid /\ \E r \in Records : PairOf(r) = Pin /\ Recover(r)
          \/ ~valid /\ Recover(fallback)

\* The cost center document of the unusable pair kept.
KeepOldCostCenter ==
    /\ stage = "adopted"
    /\ GoOn("prices")
    /\ UNCHANGED workVars

\* The cost center of the adopted document.
GetAdoptedCostCenter ==
    /\ stage = "adopted"
    /\ costDoc' \in FoundCost(user.cost)
    /\ GoOn("prices")
    /\ UNCHANGED <<cachedUser, user, orgDoc, listing, fallback, hash>>

------------------------------------------------------------------------------
HashChanged == session.hash # hash

(***************************************************************************)
(* The price tables, of an organization that has some: those of the        *)
(* document user.id, or the organization's if it is gone or cannot be      *)
(* read, which does not fail the transform.                                *)
(***************************************************************************)
TableInHand ==
    CASE orgDoc \notin Tabled -> NoPair
      [] orgDoc \in Tabled /\ user.id \in present -> <<orgDoc, user.id>>
      [] OTHER -> <<orgDoc, None>>

GetPrices ==
    /\ stage = "prices"
    /\ \/ table' = TableInHand /\ changes' = changes
       \/ orgDoc \in Tabled /\ Disturb /\ table' = <<orgDoc, None>>
    /\ stage' = IF HashChanged /\ form /\ ClearCart THEN "clear" ELSE "respond"
    /\ UNCHANGED <<facts, windows, sessionVars, form, cachedUser, user, orgDoc,
                   costDoc, listing, fallback, hash, listed, cartVars>>

\* checkout.clearCart
CartCleared ==
    /\ stage = "clear"
    /\ cart' = None
    /\ spoilt' = FALSE
    /\ stage' = "respond"
    /\ UNCHANGED <<world, windows, sessionVars, workVars, listed, hasCart, elsewhere>>

\* It fails, or the settings cannot be read: the transform goes on.
CartNotCleared ==
    /\ stage = "clear"
    /\ Disturb
    /\ spoilt' = (cart # None)
    /\ stage' = "respond"
    /\ UNCHANGED <<facts, windows, sessionVars, workVars, listed, hasCart, cart,
                   elsewhere>>

\* Does only the cost center change, because it is replaced by another of the
\* shopper's, or no longer is?  The hash does not follow it.
CostReplaced ==
    /\ ~HashChanged
    /\ user.org = session.organization
    /\ user.cost # session.costcenter

\* The sales channel of the organization, or the shop's first; it is left empty
\* or out where there is none or the binding of the store sets it.
SalesChannel == IF orgDoc \in Channeled THEN orgDoc ELSE None

(***************************************************************************)
(* The pair whose region is looked up.  None without an order form, an     *)
(* address or a sales channel, where the checkout resolves the region      *)
(* itself, or where the shopper's postal code overwrites it.               *)
(***************************************************************************)
Region ==
    IF form /\ ~elsewhere /\ <<orgDoc, costDoc>> \in Regional
    THEN <<orgDoc, costDoc>> ELSE NoPair

\* What goes out, with a region found or not.
Response(region) ==
    [organization |-> user.org, costcenter |-> user.cost, hash |-> hash,
     facets |-> <<orgDoc, costDoc>>, sc |-> SalesChannel, regionId |-> region,
     prices |-> table]

\* The response goes out, also if the region cannot be looked up or there is
\* none; what is sent to the cart is not waited for.
Respond ==
    /\ stage = "respond"
    /\ \/ changes' = changes /\ Answer(OmitUnchanged(Response(Region)))
       \/ /\ Disturb /\ Region # NoPair
          /\ Answer(OmitUnchanged(Response(NoPair)))
    /\ spoilt' = (spoilt \/ (CostReplaced /\ cart # None))
    /\ Over
    /\ UNCHANGED <<facts, windows, listed, hasCart, cart, elsewhere>>

------------------------------------------------------------------------------
\* The shopper puts an item into the empty cart, also while a transform that
\* has passed the clearing, or began without an order form, is under way.
AddItem ==
    /\ Disturb
    /\ cart = None
    /\ hasCart' = TRUE
    /\ cart' = Pin
    /\ spoilt' = (stage = "respond" \/ (stage # "idle" /\ ~form))
    /\ UNCHANGED <<facts, windows, sessionVars, stage, workVars, listed, elsewhere>>

(***************************************************************************)
(* The shopper enters a postal code and a country that may overwrite the   *)
(* region (enableRegionOverwrite, public.allowRegionOverwrite), or takes   *)
(* them back.  A transform reads them from its body, as it began.          *)
(***************************************************************************)
OverwriteChanges ==
    /\ Disturb
    /\ stage = "idle"
    /\ elsewhere' = ~elsewhere
    /\ UNCHANGED <<facts, windows, sessionVars, stage, workVars, listed, hasCart,
                   cart, spoilt>>

Listing == ListFromCache \/ ListAnew \/ ListPartly \/ ListFails

Recovery ==
    \/ GetCandidate
    \/ GetStickyOrganization
    \/ GetStickyRecord
    \/ GetStickyCostCenter
    \/ GetAdoptedCostCenter

Transforming ==
    \/ OptedOut \/ Resolve \/ Unresolved \/ Fails
    \/ GetDocuments
    \/ Listing \/ GetCostCenterAgain
    \/ Recovery
    \/ GetPrices \/ CartCleared \/ CartNotCleared \/ Respond

Step ==
    \/ Start
    \/ Transforming
    \/ WorldChanges /\ UNCHANGED <<sessionVars, stage, workVars, listed, cartVars>>
    \/ AddItem \/ OverwriteChanges
    \/ ListExpires

\* Transforms since anything changed, failed or was listed anew, up to two.
Passes ==
    LET disturbed == world' # world \/ listed \notin {None, listed'}
        begins == stage = "idle" /\ stage' # "idle"
    IN  passes' = CASE disturbed -> 0
                    [] ~disturbed /\ begins /\ passes < 2 -> passes + 1
                    [] OTHER -> passes

Next == Step /\ Passes

Spec == Init /\ [][Next]_vars

------------------------------------------------------------------------------
(***************************************************************************)
(* The fields of a session belong together, whatever was recovered,        *)
(* omitted or kept: facets, price tables and hash are those of the         *)
(* organization the session names ("the session fields, the hash, and the  *)
(* cost center data the cart updates below read from", setProfile), and    *)
(* price tables of a document are of one in that organization.  Not so the *)
(* sales channel and the region: where none is computed the one of before  *)
(* stays, of whatever organization it was.                                 *)
(***************************************************************************)
OneRecord ==
    /\ session.organization # None =>
          /\ session.facets[1] = session.organization
          /\ session.facets[2] \in {session.costcenter, None}
          /\ session.hash[1] = session.organization
    /\ session.organization # None /\ session.prices # NoPair =>
          /\ session.prices[1] = session.organization
          /\ session.prices[2] # None => OrgOf[session.prices[2]] = session.organization

(***************************************************************************)
(* With clearCart on, the items of a cart were put in under the pair the   *)
(* session holds: a shopper who is moved, by a switch or by a recovery,    *)
(* does not take them along ("skip the clearCart branch even though the    *)
(* shopper just moved organizations", setProfile).  Except for what        *)
(* `spoilt` records: a clearing that failed, an item put in while a        *)
(* transform was past it, and a cost center that alone is replaced.        *)
(***************************************************************************)
CartFollowsPair ==
    ClearCart /\ stage = "idle" /\ ~spoilt
        /\ cart # None /\ session.organization # None
    => cart = Pin

(***************************************************************************)
(* The transforms of a session come to rest: the second one that nothing   *)
(* disturbs writes no input of the transform any more ("so Session Manager *)
(* does not treat the response as a change and re-run the DAG",            *)
(* omitUnchangedSetProfileFields).  Not while the watcher is off, when     *)
(* nothing is omitted, nor while a cost center is replaced, by any of the  *)
(* shopper's, nor while a cache answers now this, now that.                *)
(***************************************************************************)
ComesToRest ==
    stage = "idle" /\ passes = 2 /\ stale = {} /\ mode # "off"
        /\ (choice # None => live[CostOf[choice]])
    => ~rerun

\* The session is that of the document r: where it names no sales channel and
\* no region of its own, those of before may stay.
Serves(r) ==
    /\ Pin = PairOf(r)
    /\ session.hash = PairOf(r)
    /\ session.facets = PairOf(r)
    /\ OrgOf[r] \notin Tabled => session.prices = NoPair
    /\ OrgOf[r] \in Tabled =>
          session.prices = <<OrgOf[r], IF r \in present THEN r ELSE None>>
    /\ OrgOf[r] \in Channeled => session.sc = OrgOf[r]
    /\ PairOf(r) \in Regional /\ hasCart /\ ~elsewhere => session.regionId = PairOf(r)

(***************************************************************************)
(* A switch, an opt-out or a recovery that is no longer called for takes   *)
(* effect with the next transform, whatever the ones before it have        *)
(* recovered, failed to do or left behind.  Once a transform has run since *)
(* the last change: with the watcher off or the shopper opted out, the     *)
(* session is pinned to nothing and has no price tables; otherwise, where  *)
(* the choice's organization and cost center are usable, the session is    *)
(* that of the choice.                                                     *)
(***************************************************************************)
ServesWhatIsDue ==
    stage = "idle" /\ passes # 0 =>
        /\ mode \in {"removeB2B", "off"} =>
              \A f \in Inputs \cup {"prices"} : session[f] = EmptySession[f]
        /\ mode = "on" /\ stale = {} /\ choice # None /\ CanAdopt(choice) =>
              Serves(choice)

(***************************************************************************)
(* Where the shopper's postal code overwrites the region, regionId is      *)
(* empty after a transform ("we do not set public.regionId and we set it   *)
(* to empty", setProfile; "Confirm public.regionId is empty in the         *)
(* session", docs/TESTING_COST_CENTER_ADDRESS_AND_REGION.md).              *)
(***************************************************************************)
OverwriteEmptiesRegion ==
    stage = "idle" /\ passes # 0 /\ elsewhere
        /\ mode = "on" /\ stale = {} /\ choice # None /\ CanAdopt(choice)
    => session.regionId = NoPair

Pair == INSTANCE ServedPair WITH
    held <- IF session.organization = None THEN None ELSE Pin,
    chosen <- cachedUser,
    busy <- stage # "idle"

(***************************************************************************)
(* Whatever is stale, failing or deleted in between, a session is told     *)
(* only what ServedPair allows.                                            *)
(***************************************************************************)
ServesAsPromised == Pair!Spec

==============================================================================
