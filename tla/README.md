# Formal model of storefront-permissions

This directory holds TLA+ modules for the B2B session logic of the
`storefront-permissions` app (Node service under `src/node`): which
organization a shopper is served, how a switch of organization travels through
Master Data, the selection document, the session and the caches, what the
session transform makes of an organization that is gone, what administrators
and shoppers do to each other's documents, what a shopper is permitted, and
what guards the fields of the API. TLC checks small instances; TLAPS proves the
main invariants for every size.

## 1. Inventory

### What the system keeps

| state | where | written by | read by |
| --- | --- | --- | --- |
| `b2b_users` documents, one per shopper, organization and cost center, with an `active` flag | Master Data | organization switch (whole documents), user administration, price table selection | every resolution, by id or through the search index |
| search index over them | Master Data, trails the documents by up to tens of seconds | Master Data | `getAllUsers` |
| selection document `b2b_user_selection/<storeUserId>` | Master Data, read and written by id | organization switch | session transform |
| session: `public.b2bCurrentCostCenter`, `public.impersonate`, `storefront-permissions.*` (organization, costcenter: the *pin*; hash, price tables), `public.facets`, `sc`, `regionId` | VTEX session service | `setChangeSession`; the answer of the session transform | session transform, permission checks |
| cart (order form) | checkout, external | the shopper; `clearCart` in the transform | the shopper |
| caches: per pod memory (LRU with TTL) and shared VBase entries (stale-while-revalidate) | pods, VBase | `createCachedResource`; the listing cache of `Routes/utils` | session transform, permission checks |
| roles (one list), app settings (one document) | VBase | role mutations, `syncRoles`, `sessionWatcher`, `getAppSettings` | permission checks, session transform |
| organizations, cost centers | Master Data, owned by another app | external | session transform |
| context of one GraphQL request: the admin token | memory | the check of an API key | the checks of the fields that follow |

### Components

* **Organization switch** (`resolvers/Mutations/Users.ts`,
  `services/activeSelection.ts`): `setCurrentOrganization` and
  `setActiveUserByOrganization` activate a document, deactivate the others,
  record the selection and write the cost center into the session. Hard: no
  transaction, writes sent in parallel, retries, a lagging index. Correct when
  a switch ends with exactly its document active, never leaves the shopper
  without any, and always ends.
* **Active user resolution** (`resolvers/Routes/index.ts`, `fetchActiveUser`;
  `services/activeUserCache.ts`; `getActiveUserByEmail`): selection by id, then
  search, then the session's pin, then the first document; behind a cache keyed
  by email, cost center and pin. Hard: key-based invalidation, sessions that
  share entries, transforms that overlap switches. Correct when a transform
  after a switch serves it and when a session does not drift.
* **Cached resources** (`services/cache.ts`,
  `utils/staleFromVBaseWhileRevalidate.ts` and the caches built from them).
  Hard: background refreshes that finish in any order, entries of unbounded
  age, failing origins. Correct when no answer is older than the window the
  TTLs give and failures are neither served nor stored.
* **Organization recovery, session fields, cart** (`setProfile`;
  `Routes/utils/index.ts`; `utils/omitUnchangedSetProfileFields.ts`): an
  unusable organization or cost center, the adoption of another document for
  one response, fields omitted because they are unchanged, the hash that
  decides on emptying the cart, runs the Session Manager adds. Hard: a dozen
  reads one after the other of things that change meanwhile, through caches.
  Correct when what a session is told is usable and belongs together, the cart
  does not follow a shopper into another organization, and the transforms come
  to rest.
* **Roles, app settings, session watcher** (`Mutations/Roles.ts`,
  `Queries/Settings.ts`, `Mutations/Settings.ts`): two documents in VBase, each
  read and rewritten whole by every writer. Correct when what only adds does
  not take away, and nothing set is undone by what did not mean to.
* **User administration, price tables** (`Mutations/Users.ts`): `addUser`,
  `updateUser`, `deleteUser`, ... against the whole-document writes of a
  switch. Correct when documents are not duplicated, resurrected or rolled
  back.
* **Permission checks, impersonation** (`checkUserPermission`,
  `getRoleAndPermissionsByEmail`, `checkPermissions`, `getRole`): an answer is
  put together of three things cached apart. Correct when nothing is granted
  that nobody asked about had lately, and nothing denied by an old failure.
* **Access directives** (`directives/validate*Access.ts`, `helper.ts`): four
  credentials tried in turn, fields that share a context. Correct when they
  fail closed and only as far as they must.
* Not candidates: clients, logging, redaction, timings and metrics (pure I/O),
  features and profiles (metadata and deprecated aliases).

`PROJECT.json` lists every component with its status, and every hazard with the
line where it bites and the properties that cover it.

## 2. Modules

| module | of | extends / composes | checked by |
| --- | --- | --- | --- |
| `OrgSwitch` | organization switch | | `switch`, `switch_ends`; `OrgSwitchProofs` |
| `ActiveUser` | active user resolution against switches | extends `OrgSwitch` | `sessions`, `settles`; `ActiveUserProofs` |
| `CachedResource` | two-layer cache | | `cache`, `cache_steady`; `CachedResourceProofs` |
| `Directory` | organizations, cost centers, documents, choice, opt-outs: what a transform reads | | through the next two |
| `ServedPair` | abstract: which pair a session may be told | extends `Directory` | implemented by `SetProfile`: run `profile`, and proved in `SetProfileProofs` |
| `SetProfile` | recovery, session fields, cart | extends `Directory`, instantiates `ServedPair` | `profile`, `region_overwrite`; `SetProfileProofs` |
| `AdminSetup` | roles and settings | | `setup`; `AdminSetupProofs` |
| `UserAdmin` | administration against switches | | `admin`, `price_table`; `UserAdminProofs` |
| `Permissions` | permission checks behind their caches | | `access`; `PermissionsProofs` |
| `Access` | access directives | | `access`; `AccessProofs` |

Where components meet: `ActiveUser` runs switches and transforms over one
store. What the transform does after the active user is found is `SetProfile`,
which takes the choice as a variable that may change at any time (`choice`), so
that every behaviour of `ActiveUser` is one of its environment's. `UserAdmin`
takes from `OrgSwitch` only what a switch reads and writes. `Permissions` reads
the role of the active document, which any switch or edit may change
(`Reassign`).

## 3. How the modules correspond to the code

### OrgSwitch

One shopper. `active` is the stored flag of each document, `index` what a search
sees, `selection` the selection document, `currentCost` the session field.
Every request has a program counter `pc`; each `await` of
`setActiveUserByOrganization` / `setCurrentOrganization` that changes something
ends a step:

| action | code (`Mutations/Users.ts`) |
| --- | --- |
| `Request` | the checks of `setCurrentOrganization` up to the call (859-930) |
| `Lookup` | session, document to activate (630-702) |
| `Activate` | `updateUserFields` with `active: true` (704-712) |
| `ListActive` | `listActiveUsers` and the start of the parallel writes (730-767) |
| `Deactivate`, `DeactivateFails` | one of these writes lands, or fails with or without effect |
| `AwaitDeactivation` | `Promise.all` settles, at the first rejection if there is one (751-773) |
| `Select`, `SelectFails` | `writeActiveSelection`, which never throws (775-812) |
| `Publish`, `PublishFails` | `setChangeSession` with its retries (25-65, 943-950) |
| `Abort` | a throw of an awaited call, or the pod dies |
| `Reindex` | Master Data's index catches up with one document (external) |

The writes in `inflight` live on after their request: a rejected `Promise.all`
and a dead request leave them on their way. A call that fails may have taken
effect. Failing calls and dying pods are enabled by the constant `Faults`.

What is abstracted: a document is its `active` flag (its other fields are
`UserAdmin`'s), the email and the search conditions are the one shopper, backoff
delays are time, which the model does not count. A call that is refused before
it changes anything is no action.

### ActiveUser

Extends `OrgSwitch` with the session transform. Per session: `pin`
(`storefront-permissions.organization/costcenter`), `stage` of the transform,
its cache `key`, what it has `found`, and the `fetch`er it started.

| action | code |
| --- | --- |
| `Start` | `setProfile` reads the session and forms the key (`Routes/index.ts` 282-306, 485-496) |
| `Hit`, `Miss`, `Remember`, `Expire` | `createCachedResource` over `staleFromVBaseWhileRevalidate` |
| `ReadSelection`, `ReadSelectionFails` | `readActiveSelection`, `getB2BUserById` (429-456) |
| `Search`, `SearchFails` | `getActiveUserByEmail` (460-483; `Queries/Users.ts` 173-311) |
| `Finish`, `FinishFails` | the answer that becomes the pin, or a failure that leaves it |

The cache is `cached`: for each key every answer that some layer (the memory of
some pod, or VBase) may still give. A hit picks any of them and may leave a
fetcher behind, as a stale VBase entry does; a miss is always possible (cold
pod, eviction). This is coarser than the code, so what holds here holds of it.
A transform that joins another session's fetch in the memory layer of a pod is
covered: it is a hit on what that fetch stored. Each session has at most one
fetcher under way; a second background refresh of the same session would
resolve and store what one fetcher of a second session can.

`Switching` is a step of `OrgSwitch`, `Reading` one of the transforms; a read
and a write of another service are atomic, their order is free. Left out:
documents that disappear and unusable organizations (in `SetProfile`), and
shoppers without documents; so the branches of `getActiveUserByEmail` for a pin
that matches no document are not reached.

The history variables `last`, `clean`, `overlap`, `since`, `degraded` serve the
properties only; no guard of a code action reads them, except the bound
`MayOverlap`.

### CachedResource

One key of one cached resource. `memory` is what each pod's LRU holds for it,
`vbase` the shared entry, `call` the reads under way, `refresh` and `saving` the
background refreshes and the saves nobody waits for. Values are told apart by
when the origin was read for them.

| action | code |
| --- | --- |
| `Hit`, `Miss`, `Bypass` | `createCachedResource` (`cache.ts` 91-132): memory, read-through, TTL 0 |
| `VBaseReads`, `NotFound`, `FoundFresh`, `FoundStale` | the VBase entry: missing or unreadable, alive, past its TTL (93-148 of `staleFromVBaseWhileRevalidate.ts`) |
| `OriginReads`, `OriginAnswers`, `CallFails` | the fetcher a request waits for (44-71) |
| `RefreshReads`, `RefreshAnswers`, `RefreshFails` | the one nobody waits for (129-146) |
| `SaveLands`, `SaveFails` | `saveJSON`, not awaited (56-68) |
| `Evict`, `Tick` | the bounded LRU or a new pod; the clock |

`Tick` waits for steps that have had `Timeout` ticks, which is what the time
limits of the clients amount to; the assumption `Timeout < VBaseTtl` (seconds
against minutes) is needed for `FreshBound` only. A read that joins another one
under way in the same pod (`getOrSet` shares it) is a `Hit` right after it.
Several keys do not interact but through eviction, which may happen at any time.
`ActiveUser`, `SetProfile` and `Permissions` use coarser caches of their own:
any earlier answer at any age, a set of documents whose previous state may still
be answered (`stale`), a value with an age.

### Directory, SetProfile, ServedPair

`Directory` is what one transform reads, and how it changes: `usable`
organizations, `live` cost centers, `present` documents, the shopper's `choice`,
the `mode` (watcher off, shopper's opt-out). `stale` holds the organizations and
cost centers whose previous state some cache may still answer. Its four windows
(`up`, `down`, `dead`, `missing`) record what was the case at some time since the
transform under way began; no action of the code reads them.

`SetProfile` is `setProfile` from the resolved user on:

| action | code (`Routes/index.ts` unless named) |
| --- | --- |
| `Start`, `OptedOut` | the request, the watcher and `removeB2B` (206-281 and following; the watcher's answer, 245-255, does not go through `omitUnchangedSetProfileFields`) |
| `Resolve`, `Unresolved` | the active user, or nobody (485-540) |
| `GetDocuments` | organization and cost center together (636-700) |
| `ListFromCache`, `ListAnew`, `ListPartly`, `ListFails`, `ListExpires` | `getUserOrganizationsData` (`Routes/utils/index.ts`), its cache of five minutes included |
| `AfterListing`, `GetCostCenterAgain` | the cost center replaced (724-750) |
| `GetCandidate`, `GetSticky...`, `Recover`, `Adopt`, `GetAdoptedCostCenter` | the recovery from an unusable organization, the session's own pair first |
| `GetPrices`, `TableInHand` | the price tables: of the shopper's document, or the organization's if that is gone or its read fails (920-953) |
| `SalesChannel`, `Region`, `Response` | facets (955-1005), sales channel (1085-1145) and region (1170-1253) |
| `CartCleared`, `CartNotCleared` | `clearCart` on a changed hash |
| `Respond`, `Answer`, `OmitUnchanged` | `omitUnchangedSetProfileFields`; the Session Manager writes what is in the response and transforms again if an input changed |
| `Fails` | any read that is not guarded throws |
| `AddItem`, `OverwriteChanges` | the shopper, meanwhile: an item, a postal code that overwrites the region |

What the code does and the model keeps, though a reader may not expect it: the
listing is not sorted, so "the first" document with a valid cost center may be
any; the cost center that replaces an invalid one may be of *another*
organization than the one served; the hash is not computed again for a replaced
cost center, so the cart stays; when no cost center is valid or the listing
fails, the dead one is stamped into the session; after the shopper's opt-out the
facets, sales channel and region of the session stay.

Left out: how the choice is found (`ActiveUser`) and the lag of the
search index; the cart updates nobody waits for (1255-1432); the
address chosen in a cost center (`costCenterAddressId`), the outputs `postalCode`
and `country`, and the shopper's own data in the response.

The fields of the session are what they were computed from: `facets` a pair,
which the code writes for every shopper it resolves (never empty then); `prices` an organization and
the document whose table it is, or none for the organization's own; `sc` an
organization, or `None`; `regionId` the pair whose region was looked up, or none.
The constants `Tabled`, `Channeled` and `Regional` say where there are price
tables, a sales channel to write, and an address and a sales channel to look up a
region with (a store that defers one of these to the binding or to the checkout
is one with a smaller constant, since a key left out and an empty one are dropped
alike). The region needs an order form besides (`form`, as the transform received
it), no postal code that overwrites it (`elsewhere`, the flag of the app and the
three public fields together) and a lookup that succeeds. Where sales channel or
region come out empty, `OmitUnchanged` drops them - neither is an input of the
transform, so an empty value equals the one received - and **the session keeps
those of before, also those of another organization** after a switch or a
recovery. `OneRecord` therefore does not speak of the two, and `ServesWhatIsDue`
only where the transform computes them; that an overwritten region is to be empty
is the claim `region_overwrite` refutes. A failed read of the shopper's price
table is a disturbance like any other failure: the organization's tables then
stay until the next transform.

`ServedPair` is the abstract specification: a session holds a pair or none; a
transform sets out with the shopper's choice and may serve its pair, its
organization with another cost center if the cost center was invalid at some
time since the transform began, or, if the organization was unusable at some
such time, the pair the session already holds or - only if that one is in doubt
too - the pair of some document; always of an organization that read as usable
meanwhile. There are no listings, candidates, hashes or caches in it. The
refinement mapping (`Pair` in `SetProfile`) reads `held` off the session,
`chosen` off the resolved document and `busy` off the stage.

### AdminSetup

`roles` is the one document of roles, `settings` that of the settings. A
`saveRole` or `deleteRole` is an entry of `saves`: created by the call
(`BeginEdit`) or by `SyncRoles`, which starts one for each role at once, it reads
the whole list (`ReadRoles`) and writes it back with one role replaced
(`WriteRoles`); both may fail. `getAppSettings` and `sessionWatcher` read the
settings (`ReadSettings`) and save them whole (`SaveSettings`, `SaveFlip`);
between the two `getAppSettings` updates the schemas, which takes long.

What the code does and the properties therefore excuse: two edits at once lose
one another; so does a `saveRole` with the synchronization that runs
with it (`era` tells which requests overlapped); the saves of one
synchronization overwrite each other's additions, so that even a lone one may
add only a part of what it should; `getAppSettings` may undo a flip of the
watcher made while it updated schemas (`disputed`).

### UserAdmin

The documents of one shopper with pair, role, price table and flag. A
`createOrUpdateEntireDocument` replaces the document, a
`createOrUpdatePartialDocument` one field of it, and creates a fragment if the
document is gone (`Apply`). Resolvers with a single write are one action at the
time it lands (`UpdateUser` - also `saveUser` -, `DeleteUser`, `SetPriceTable`);
`DeleteUserProfile` and the deactivations of a switch send several writes, which
land or fail on their own; `AddUser` (and `AddToUser` for
`addOrganizationToUser`, `addCostCenterToUser`) looks for a duplicate before it
creates; `LookFails` is the search that answers an error, which the code takes
for no duplicate. `createPermission` writes no `active` flag and no price table:
an edit of the active document leaves the shopper with none active.

The switch is `Switch`, `Activate`, `ListActive`, `DeactivationLands`: the
document to activate is read with all fields, those to deactivate come from a
listing whose fields (`USER_SEARCH_FIELDS`) do not include `selectedPriceTable`
(`Listed`). The clients' CL profile, License Manager user and the retries and
failures of a switch (in `OrgSwitch`) are left out.

`intended` is what the last call that reached a document meant by it. `disputed`
marks where the code has no say: a document edited while a switch had a copy in
hand, or copied from an index that had not seen the last edit.

### Permissions

One pod, several requests, time in ticks. `users` and `roles` are the memory
caches with the age of their values; `settings` the values the layers of the
settings' cache may answer. `CheckUserPermission` with the session's two emails
asks for the settings if they differ (impersonation), then evaluates one or two
emails side by side (`look`): document, then role; `CheckPermissions` is the
route, which is told one email. `held` and `been` record how long ago an email
last had a role and a role last was what. A role saved with an id but without a
slug has none stored, and is what `getRole` finds for a user without a role
(`Unslugged`): one without a document (`None`, never cached), or whose document
has an empty `roleId` (`NoRole`, cached like any other). `Restart` is a new pod. A request takes less than a tick: requests
of seconds against TTLs of minutes.

### Access

The checks of one field are a `stage` through the credentials in `Order`; `Found`
records what each check said, stops at the first that holds, and decides on the
refusal. `Open` reads the admin token from the context when its field starts -
all fields of a query at once, those of a mutation one after the other - and
`Leaves` is the API key's token written into that context. `CheckFails` is a call
that throws, in the middle of a check or before. What the code does: once a field
has passed the admin token over (a throwing call, or the other role), the API
key's token displaces it, and a later field may be refused though the session's
token would do; and the store directive's "No token was provided" does not count
a token in the header. `checkAdminAccess` and `checkUserAccess` guard no field of
the schema.

## 4. Runs

| run | checks | instance and why it is enough |
| --- | --- | --- |
| `switch` | `TypeOK`, `CleanSwitchSettles`, `KeepsSomeActive` | 3 documents, 2 requests, any active documents at first, one retry, all faults: a third document makes a partial deactivation possible, two requests give every overlap of a switch with what an earlier one left behind |
| `switch_ends` | `SwitchEnds` | 1 request, 3 retries, 3 active documents: two parallel writes of which one may be rejected |
| `sessions` | `UserTypeOK`, `FirstVisitReadsYourSwitch`, `MissReadsYourSwitch`, `PinHolds` | cache on, 2 documents, 2 sessions. `MCActiveUser` explores two situations: a document is active and one session is followed through 2 switches, of either session, with every fault of a switch; or nothing is active and both sessions, with any pins and failing reads, share the cache. A pin drifts to the first document of all or to the pin of the other session, for which two documents do |
| `settles` | `SessionSettles` | one switch, failing reads, entries expire |
| `cache` | `TypeOK`, `FreshBound` | one pod, one request at a time, every fault, TTLs of 2 ticks and calls of up to 1: pods share nothing but the VBase entry, and a pod that was evicted does what a second one can |
| `cache_steady` | `SteadyBound` | two pods, two requests, TTLs of 3 ticks, four of them of time, nothing fails; the memory may be evicted |
| `profile` | `ProfileTypeOK`, `OneRecord`, `CartFollowsPair`, `ComesToRest`, `ServesWhatIsDue`, `ServesAsPromised` | 2 organizations, 3 cost centers, a document for each: one organization with two cost centers (so that one may replace the other) and one to move to; price tables and regions in the one, a sales channel in the other, so that each field has an organization that leaves it empty; with an order form at first or without; two changes or failures at any points of any number of transforms |
| `region_overwrite` | `OverwriteEmptiesRegion`, violated | the same instance |
| `setup` | `SetupTypeOK`, `SyncsOnlyAdd`, `FlipHolds` | 2 requests, a role the apps define and one the merchant made, 2 modules; two edits, flips or failures, any number of synchronizations and schema updates |
| `admin` | `AdminTypeOK`, `EditsHold`, `OnePerPair` | 3 calls, 2 documents, 2 pairs, 2 roles, 1 price table: a switch has one document to activate and one to leave, with two other calls in between |
| `price_table` | `PreferencePersists`, violated | 2 calls |
| `access` | `PermissionTypeOK`, `GrantsAreRecent`, `StrictHidesTheActor`, `SteadyRightsAreGranted`, `AccessTypeOK`, `GuardIsExact`, `SiblingsAgree` | two emails, two roles of which one has no slug, TTLs of 1 and 0 ticks (so that the two caches expire at different times), 2 changes, emails without a document or with a role at first (another role or an empty one comes by an edit); and 2 fields with every combination of credentials. The two modules share no state: `MCAccess` explores one while the other is at rest |

`SteadyBound` is about a schedule: `Steady` keeps the clock from ticking before
every pod has been read, and `Timeout = 0` before what was started has ended;
with `0 \notin Ttls` these are reads through the layers, since one that bypasses
them refreshes nothing.
Without it stale entries have any age, since nobody refreshes what nobody reads;
the run shows what the TTLs give on a shop with traffic.

Bounds: the sets of documents, sessions and requests; `MaxRetry` (5 in the
code; what a further attempt can do, one can); `MayOverlap = FALSE` in the
`ActiveUser` runs (overlapping switches are the subject of `switch`, and the
properties of these runs speak of switches that do not overlap);
`Forgetful = FALSE` where dropping entries only removes behaviour, a miss being
possible anyway; one transform at a time per session. `MaxTime` stops the
clock in `CachedResource` after four ticks, both TTLs one after the other and so
an entry past its end in both layers; in the steady run after twelve, three
more than `SteadyBound` allows. `MaxChanges` bounds changes and failures in
`SetProfile` (half a million states with two) and changes of administration in `Permissions` (failures are not bounded there; longer TTLs of
2 and 1 with one change, and three fields in `Access`, were checked as well);
`MaxOps` bounds edits, flips and failures in `AdminSetup`. Deadlock is not
checked: when all requests have ended nothing has to happen.

Views and symmetry: `MCActiveUser` and `MCSetProfile` use a view that forgets
what can no longer matter (a finished request; windows between transforms);
requests, emails, fields, modules and documents that play the same part are
symmetric. Neither is used where liveness is checked.

### Findings

`price_table`: a switch writes every document it leaves back whole from a listing
that does not ask for `selectedPriceTable`, so the price table the shopper chose
is lost as soon as the organization is left ("to persist user's price table
preference", `CHANGELOG.md:323`). Nothing has to fail or overlap.

`region_overwrite`: while the shopper's postal code overwrites the region,
`setProfile` sets `public.regionId` to an empty value (`Routes/index.ts:1243`),
and `omitUnchangedSetProfileFields` deletes it again from the response, because
it is no input of the transform. A region resolved before stays in the session,
where `docs/TESTING_COST_CENTER_ADDRESS_AND_REGION.md:36` asks to "confirm
`public.regionId` is empty in the session", and `CHANGELOG.md:227` and
`docs/COST_CENTER_ADDRESS_AND_REGION.md:39` and `:95` say that it is explicitly
set to empty. Nothing has to fail.

### What properties excuse

Some hazards of this code do go wrong, and a property that forbade them would
only fail. They are recorded in the history variables and excused: a switch that
met a failure (`clean`), two requests with the settings in hand (`disputed` of
`AdminSetup`), a duplicate after two additions at once, an outdated index or a
failed search (`certain`), a document changed while a switch had a copy of it
(`disputed` of `UserAdmin`), a cart that could not be cleared (`spoilt`), a
stale or unreadable setting (`settings`, `failed`), two edits of roles at once
(`era`). What the properties show is that nothing *else* breaks the promise. The
entries of `hazards` in `PROJECT.json` say for each of them what is caught and
what is only recorded.

### Claims the code keeps only in part

Four claims of the comments and documentation do not hold as they are written;
the properties checked state what does.

| claim | what can happen | what is checked instead |
| --- | --- | --- |
| "keeps at most one record active" (`Queries/Users.ts:183`) | two switches in a row before the index has seen the first leave two active | `CleanSwitchSettles`, `KeepsSomeActive` |
| "a failed write degrades to the search path" (`activeSelection.ts:135`) | only without an older selection, which otherwise is read and served | `MissReadsYourSwitch`, of switches whose selection was written |
| "a switch changes the key and misses the cache immediately" (`docs/PERFORMANCE_AND_CACHING.md:69`) | the key of a cost center the session was at before may still hold another answer | `FirstVisitReadsYourSwitch`; `MissReadsYourSwitch` for every other transform that no entry answers; `SessionSettles` in the long run |
| "worst-case propagation is roughly memory TTL + VBase TTL" (`docs/PERFORMANCE_AND_CACHING.md:65`) | a stale entry served once more stays for another memory TTL; where nobody reads for a while there is no bound | `SteadyBound`, `FreshBound` |

## 5. Fairness

`Fairness` of `OrgSwitch`: a request that can go on does (every awaited call is
answered or times out; in particular an outstanding write is answered). Starting
a switch, dying and reindexing are not fair there. `UserFairness` adds what
`SessionSettles` needs: the index catches up with each document; a session is
transformed again and again (the storefront triggers the transform several times
per navigation); fetchers and transforms go on; a read that is tried infinitely
often succeeds some time (strong fairness of `ReadSelection` and `Finish`, since
every attempt may fail); an entry does not stay cached for ever (TTL of the
memory layer, refresh of VBase).

The other specifications are safety only. That the transforms come to rest is an
invariant (`ComesToRest`): it counts the transforms since the world last moved
and says what the second of them may not do, which is stronger than that they
settle some time and needs no fairness. `ServesWhatIsDue` says of the first of
them where the session is by then.

## 6. Proofs

Each `...Proofs` module holds the theorems about the module it is named after,
for any number of documents, sessions, requests, roles, pods or fields, any
retries and any time limits. Nothing is assumed but the named `ASSUME`s the
modules state about their constants: that `None` is no member of a set it stands
beside, that organizations and cost centers are distinct (their ids are of two
data entities), that the empty role id is no role, that `Tabled`,
`Channeled` and `Regional` are sets of organizations and pairs, that counts and
time limits are numbers, that the shopper has a document,
and for `FreshAnswers` that a call ends before an entry expires. Each theorem
follows the same argument: an invariant that the initial states satisfy and each
action preserves, from which the property follows; one lemma per action or group
of actions.

| theorem | states | by the invariant |
| --- | --- | --- |
| `TypeCorrect`, `UserTypeCorrect`, `CacheTypeCorrect`, `AdminTypeCorrect`, `SetupTypeCorrect`, `PermissionTypeCorrect`, `ProfileTypeCorrect`, `AccessTypeCorrect` | the type invariants | themselves |
| `CleanSwitchIsExact` | `CleanSwitchSettles` | `SettleInv`: a switch that runs alone, after the writes of all others have landed (`AloneInv`), has by each of its steps deactivated what that step promises (`ProgressInv`) |
| `SomeActiveIsKept` | `KeepsSomeActive` | `SerialInv`: while switches do not overlap, the document activated is in no write on its way |
| `SwitchesAsSpecified` | every step of `ActiveUser` is one of `OrgSwitch` or leaves it alone | - |
| `PinIsKept` | `PinHolds` | `PinInv`: before the first switch nothing moves in the store (`QuietInv`), a transform has the key of its session's pin (`KeyInv`), so whatever is stored under a key is the pin in it (`AnswerInv`) |
| `MissesReadTheSwitch` | `MissReadsYourSwitch` | `SinceInv`: a transform that began after a clean switch waits for a fetcher that has not yet read the selection the switch wrote, or failed to |
| `FirstVisitsReadTheSwitch` | `FirstVisitReadsYourSwitch` | `VisitedInv`: nothing is stored or asked for under a cost center no session has been at; `NewCostInv`: hence all that is stored under the key of a new one is the document switched to |
| `FreshAnswers` | `FreshBound` | `FreshInv`: entries in VBase are dated by their end (`EntryInv`), what a call has in hand by how long it has run (`CallInv`), what a pod remembers by both (`MemoryInv`). With `UseVBase` or without, as the session watcher's cache is |
| `SteadyAnswers` | `SteadyBound` | `SteadyInv`: while nothing fails, whatever is stored, on its way to be stored or about to be answered is of a reading so recent, and every entry past its end has been read (`Visited`) and so is being refreshed (`Pending`): a memory that took a stale entry is past its life one memory TTL later, and finds a fresh one then (`MemoryKept`, `EntryKept`, `WorkOfNow`) |
| `EditsStand` | `EditsHold` | `EditsInv`: for every document that is not disputed, a switch has in hand what the document is, and a deactivation on its way writes what the switch makes of it (`HandInv`) |
| `PairsStayDistinct` | `OnePerPair` | `PairInv`: while no listing failed or was outdated (`certain`), an addition past its listing is the only one, and no document there is has its pair (`AdditionInv`) |
| `SyncsGrow` | `SyncsOnlyAdd` | `SyncInv`: the document, every copy of it a request holds, however old, and every role about to be put into one are what `syncRoles` may have made of the base (`ListsInv`, `TargetsInv`); an edit that runs alone is the only one with roles in hand (`LoneInv`). That `Grown` is reflexive and transitive, and that a merge grows, are lemmas of their own |
| `WatcherHolds` | `FlipHolds` | `FlipInv`: settings in hand have the flag of the document |
| `GrantsStayRecent`, `StrictModeHides`, `SteadyRightsGranted` | the three properties of permission checks | `RightsInv`: what a cache holds was the case no longer ago than it is old (`CacheInv`), what an evaluation has read is of now or out of a cache (`LookInv`), and whose rights count follows from the emails and what the settings have answered (`ScopeInv`) |
| `FieldsBelongTogether` | `OneRecord` | `SessionInv`: what a transform has in hand when it answers is of one organization (`RecoveryInv`), the price tables in hand are of that organization (`TableFits`), and what it omits it leaves as it was |
| `CartStays` | `CartFollowsPair` | `CartInv`: a cart that is not spoilt is of the pair the session holds, and if it is still filled when a transform answers, the hash says that the pair stays |
| `TransformsServeAsPromised` | `ServesAsPromised`: `SetProfile` implements `ServedPair` | `WindowInv`: what a read can find was the case at some time since the transform began; `FoundInv`, `RecoveryInv`: so was what it has found and what it has given up on; `OutInv`: hence the pair in hand when it answers is one `ServedPair` may serve. The windows only grow, so what is established stays. Each step then maps to `Serve`, `Keep`, `Leave`, `Begin`, `Resolve`, `Hiccup`, a change of the world or a stutter |
| `SessionsComeToRest` | `ComesToRest` | `RestInv`: while nothing disturbs it, a transform works with what is the case (`OnItsWay`) and ends in a pair that the choice, the session's pair and the cached listing determine (`LeadsTo`); the session holds that pair once one has run (`Settled`), and the next one is led to it again, since a pair adopted from the listing is one the recovery keeps or finds anew |
| `WhatIsDueIsServed` | `ServesWhatIsDue` | `DueInv`: a transform whose choice is in order takes neither fallback (`ShortWay`), so that pair, hash, facets and price tables it answers or omits are of the choice, and sales channel and region where it computes them; it has the order form the session has (`FormDue`); opted out, it answers nothing, or all of it empty |
| `GuardsAreExact` | `GuardIsExact` | `TokenInv`: once the API key's token is in the context, some field has found the admin's wanting or could not check it (`Displaced`); `FieldInv`: a field has gone on from a credential only because of what that is worth, because the call threw, or because the key's token stood in its place (`Judged`) |
| `SiblingsEndAlike` | `SiblingsAgree` | the same: without throwing calls, and with an admin token that does for both guards or neither, both the verdict and the error are functions of the guard and of what was brought |

Only model-checked: `SwitchEnds` and `SessionSettles`, which are liveness under
fairness and so out of the prover's reach. What the inductive invariants say was
checked by TLC on the instances of the runs before it was proved.

## 7. Not modelled

The components marked `not_modelled` in `PROJECT.json`, for the reasons given
there, and of the `partly` ones what their note names. Paged searches: what a
page of Master Data's search holds while documents change is not this code's to
say. Time as numbers outside `CachedResource` and `Permissions` (timeouts and
TTLs are events that may happen at any moment); tenants (every key is scoped by
account and workspace); the contents of documents beyond what the properties
tell apart; the exchange with other apps beyond what a resolver calls
(impersonation of telesales users, License Manager's own state, the checkout
updates nobody waits for).
