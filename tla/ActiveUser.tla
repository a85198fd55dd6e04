------------------------------ MODULE ActiveUser ------------------------------
(***************************************************************************)
(* Which document the session transform serves: the part of setProfile     *)
(* (src/node/resolvers/Routes/index.ts) that resolves the active user, with*)
(* the cache in front of it (src/node/services/activeUserCache.ts), run    *)
(* against the organization switches of OrgSwitch.                         *)
(*                                                                         *)
(* A transform reads its cache key from the session, may be answered by a  *)
(* cache, and otherwise reads the selection document by its id or searches *)
(* the index; what it resolves becomes the session's pin.  Every           *)
(* organization is usable here, so what is resolved is what is served.     *)
(***************************************************************************)
EXTENDS OrgSwitch

CONSTANTS
    Rank,         \* orders the documents by id ("sort: id asc")
    InitialPins,  \* the documents a session may be pinned to at first, or None
    CacheOn,      \* sessionUserCacheTtlMs > 0
    ReadFaults,   \* whether the reads of a transform may fail
    MayOverlap,   \* bound: whether a switch may start while another is busy
    Forgetful     \* bound: whether cached answers are dropped; without it they all
                  \*   stay, and a transform may still miss them

\* A shopper without any document is a visitor to this code (userNotFound) and
\* not modelled.
ASSUME RankAssumption ==
    /\ Records # {}
    /\ Rank \in [Records -> Nat]
    /\ \A r1, r2 \in Records : Rank[r1] = Rank[r2] => r1 = r2
ASSUME PinsAssumption == InitialPins \subseteq Records \cup {None}
ASSUME FlagsAssumption ==
    /\ CacheOn \in BOOLEAN /\ ReadFaults \in BOOLEAN
    /\ MayOverlap \in BOOLEAN /\ Forgetful \in BOOLEAN

VARIABLES
    pin,      \* session -> storefront-permissions.organization and .costcenter
    stage,    \* session -> where its transform is
    key,      \* session -> the cache key its transform has computed
    found,    \* session -> the document its transform has resolved
    fetch,    \* session -> where the fetcher it started is, or "none"
    fetchKey, \* session -> the key that fetcher works for
    cached,   \* key -> every answer some layer of the cache still holds
    degraded, \* history: has a read of the selection failed since `last` started?
    since     \* history: session -> the switch its transform began after, or None

readerVars == <<pin, stage, key, found, fetch, fetchKey, cached, since>>
userVars == <<vars, readerVars, degraded>>

(***************************************************************************)
(* The key is the email (one shopper here), public.b2bCurrentCostCenter    *)
(* and the pair the session is pinned to.                                  *)
(***************************************************************************)
Keys == (Costs \cup {None}) \X (Records \cup {None})

NoKey == <<None, None>>

UserTypeOK ==
    /\ pin \in [Sessions -> Records \cup {None}]
    /\ stage \in [Sessions -> {"idle", "lookup", "wait", "finish"}]
    /\ key \in [Sessions -> Keys]
    /\ found \in [Sessions -> Records \cup {None}]
    /\ fetch \in [Sessions -> {"none", "select", "search"}]
    /\ fetchKey \in [Sessions -> Keys]
    /\ cached \in [Keys -> SUBSET Records]
    /\ degraded \in BOOLEAN
    /\ since \in [Sessions -> Requests \cup {None}]
    /\ \A s \in Sessions : stage[s] = "wait" => fetch[s] # "none"
    /\ \A s \in Sessions : stage[s] = "finish" => found[s] # None

UserInit ==
    /\ Init
    /\ pin \in [Sessions -> InitialPins]
    /\ stage = [s \in Sessions |-> "idle"]
    /\ key = [s \in Sessions |-> NoKey]
    /\ found = [s \in Sessions |-> None]
    /\ fetch = [s \in Sessions |-> "none"]
    /\ fetchKey = [s \in Sessions |-> NoKey]
    /\ cached = [k \in Keys |-> {}]
    /\ degraded = FALSE
    /\ since = [s \in Sessions |-> None]

------------------------------------------------------------------------------
\* `last` ended as a clean switch, recorded in the selection document.
SwitchedCleanly == clean /\ pc[last] = "done" /\ keyed[last]

\* The key without the pin, and the key without the cost center.
CostKey(s) == <<currentCost[s], None>>
PinKey(s) == <<None, pin[s]>>

SessionKey(s) == <<currentCost[s], pin[s]>>

(***************************************************************************)
(* The session manager calls the transform of a session with the session   *)
(* as it is.                                                               *)
(***************************************************************************)
Start(s) ==
    /\ stage[s] = "idle"
    /\ stage' = [stage EXCEPT ![s] = "lookup"]
    /\ key' = [key EXCEPT ![s] = SessionKey(s)]
    /\ since' = [since EXCEPT ![s] =
                    IF SwitchedCleanly /\ caller[last] = s THEN last ELSE None]
    /\ UNCHANGED <<pin, found, fetch, fetchKey, cached, degraded>>

\* The fetcher leaves for the selection document with the key at hand.
StartFetch(s) ==
    /\ fetch[s] = "none"
    /\ fetch' = [fetch EXCEPT ![s] = "select"]
    /\ fetchKey' = [fetchKey EXCEPT ![s] = key[s]]

\* It ends, and its key with it.
EndFetch(s) ==
    /\ fetch' = [fetch EXCEPT ![s] = "none"]
    /\ fetchKey' = [fetchKey EXCEPT ![s] = NoKey]

(***************************************************************************)
(* Some layer answers: the memory of the pod or VBase.  A VBase entry past *)
(* its TTL is answered all the same and refreshed behind the transform's   *)
(* back (see the README for the one fetcher per session).                  *)
(***************************************************************************)
Hit(s) ==
    /\ stage[s] = "lookup"
    /\ \E r \in cached[key[s]] : found' = [found EXCEPT ![s] = r]
    /\ stage' = [stage EXCEPT ![s] = "finish"]
    /\ StartFetch(s) \/ UNCHANGED <<fetch, fetchKey>>
    /\ UNCHANGED <<pin, key, cached, degraded, since>>

\* No layer answers: the entry never was, has expired, or is on another pod.
Miss(s) ==
    /\ stage[s] = "lookup"
    /\ stage' = [stage EXCEPT ![s] = "wait"]
    /\ StartFetch(s)
    /\ UNCHANGED <<pin, key, found, cached, degraded, since>>

\* What the cache keeps of an answer: nothing with a TTL of zero.
Remember(k, r) ==
    cached' = [cached EXCEPT ![k] = IF CacheOn THEN @ \cup {r} ELSE @]

\* The answer stored and the transform that waits for it forgotten.
AnswerDropped(s, r) ==
    /\ EndFetch(s)
    /\ Remember(fetchKey[s], r)
    /\ UNCHANGED <<found, stage>>

\* The fetcher of s resolves r: it is stored, and handed to a transform that
\* waits for it.
Answer(s, r) ==
    /\ EndFetch(s)
    /\ Remember(fetchKey[s], r)
    /\ IF stage[s] = "wait"
       THEN /\ found' = [found EXCEPT ![s] = r]
            /\ stage' = [stage EXCEPT ![s] = "finish"]
       ELSE UNCHANGED <<found, stage>>

\* The selection read and not used.
SearchAnyway(s) ==
    /\ fetch[s] = "select"
    /\ fetch' = [fetch EXCEPT ![s] = "search"]
    /\ UNCHANGED <<pin, stage, key, found, fetchKey, cached, degraded, since>>

(***************************************************************************)
(* readActiveSelection and getB2BUserById: two reads by id, of which only  *)
(* the first reads anything that changes here.                             *)
(***************************************************************************)
ReadSelection(s) ==
    /\ fetch[s] = "select"
    /\ \/ selection # None /\ Answer(s, selection)
       \/ /\ selection = None
          /\ fetch' = [fetch EXCEPT ![s] = "search"]
          /\ UNCHANGED <<found, stage, fetchKey, cached>>
    /\ UNCHANGED <<pin, key, degraded, since>>

\* One of the two fails, or the session names no shopper: both fall through
\* to the search.
ReadSelectionFails(s) ==
    /\ ReadFaults
    /\ fetch[s] = "select"
    /\ fetch' = [fetch EXCEPT ![s] = "search"]
    /\ degraded' = TRUE
    /\ UNCHANGED <<pin, stage, key, found, fetchKey, cached, since>>

Lowest(S) == CHOOSE r \in S : \A q \in S : Rank[r] <= Rank[q]

(***************************************************************************)
(* getActiveUserByEmail: the first by id of those the search reports as    *)
(* active; if there are none, the one the session is pinned to; without a  *)
(* pin the first of all.                                                   *)
(***************************************************************************)
ActiveUserByEmail(k) ==
    LET listed == {r \in Records : index[r]}
    IN  CASE listed # {} -> Lowest(listed)
          [] listed = {} /\ k[2] # None -> k[2]
          [] OTHER -> Lowest(Records)

Search(s) ==
    /\ fetch[s] = "search"
    /\ Answer(s, ActiveUserByEmail(fetchKey[s]))
    /\ UNCHANGED <<pin, key, degraded, since>>

\* The transform has answered; nothing of it is left.
End(s) ==
    /\ stage' = [stage EXCEPT ![s] = "idle"]
    /\ key' = [key EXCEPT ![s] = NoKey]
    /\ found' = [found EXCEPT ![s] = None]
    /\ since' = [since EXCEPT ![s] = None]

(***************************************************************************)
(* The search fails: nothing is stored, and a transform that waits for it  *)
(* answers without the pinned fields, so that the session keeps its pin.   *)
(***************************************************************************)
SearchFails(s) ==
    /\ ReadFaults
    /\ fetch[s] = "search"
    /\ EndFetch(s)
    /\ IF stage[s] = "wait" THEN End(s) ELSE UNCHANGED <<stage, key, found, since>>
    /\ UNCHANGED <<pin, cached, degraded>>

\* The transform answers; the session is pinned to what it has resolved.
Finish(s) ==
    /\ stage[s] = "finish"
    /\ pin' = [pin EXCEPT ![s] = found[s]]
    /\ End(s)
    /\ UNCHANGED <<fetch, fetchKey, cached, degraded>>

\* A later read fails (the organization, the cost center, the settings): the
\* transform fails as a whole, and what the fetcher stored stays stored.
FinishFails(s) ==
    /\ ReadFaults
    /\ stage[s] = "finish"
    /\ End(s)
    /\ UNCHANGED <<pin, fetch, fetchKey, cached, degraded>>

\* Entries stored without a lifetime.
ExpireNever(k) == FALSE /\ UNCHANGED readerVars

\* The layers drop what they hold for a key.
Expire(k) ==
    /\ Forgetful
    /\ cached[k] # {}
    /\ cached' = [cached EXCEPT ![k] = {}]
    /\ UNCHANGED <<pin, stage, key, found, fetch, fetchKey, degraded, since>>

------------------------------------------------------------------------------
Fetching(s) ==
    \/ ReadSelection(s)
    \/ ReadSelectionFails(s)
    \/ Search(s)
    \/ SearchFails(s)

Transforming(s) == Hit(s) \/ Miss(s) \/ Finish(s) \/ FinishFails(s)

Reading ==
    \/ \E s \in Sessions : Start(s) \/ Fetching(s) \/ Transforming(s)
    \/ \E k \in Keys : Expire(k)

\* A switch moves on; with a new one the history starts afresh.
Switching ==
    /\ Next
    /\ overlap' => MayOverlap
    /\ degraded' = (degraded /\ last' = last)

UserNext ==
    \/ Switching /\ UNCHANGED readerVars
    \/ Reading /\ UNCHANGED vars

UserSpec == UserInit /\ [][UserNext]_userVars

(***************************************************************************)
(* A session is transformed again and again while the shopper navigates,   *)
(* each await ends, what is tried again and again works some time, the     *)
(* index catches up, and an answer does not stay cached for ever.          *)
(***************************************************************************)
UserFairness ==
    /\ Fairness
    /\ \A r \in Records : WF_vars(Reindex(r))
    /\ \A s \in Sessions :
          /\ WF_userVars(Start(s) /\ UNCHANGED vars)
          /\ WF_userVars(Fetching(s) /\ UNCHANGED vars)
          /\ WF_userVars(Transforming(s) /\ UNCHANGED vars)
          /\ SF_userVars(ReadSelection(s) /\ UNCHANGED vars)
          /\ SF_userVars(Finish(s) /\ UNCHANGED vars)
    /\ \A k \in Keys : WF_userVars(Expire(k) /\ UNCHANGED vars)

FairUserSpec == UserSpec /\ UserFairness

------------------------------------------------------------------------------
(***************************************************************************)
(* After a clean switch has answered, every transform of its session that  *)
(* begins then serves the document switched to, though the index may still *)
(* lag: "switching organization misses the cache instead of reading the    *)
(* previous one" (setProfile).                                             *)
(***************************************************************************)
ReadsYourSwitch ==
    \A s \in Sessions :
        stage[s] = "finish" /\ since[s] # None /\ since[s] = last
            /\ clean /\ ~degraded
        => found[s] = target[last]

(***************************************************************************)
(* The same of every transform that the cache does not answer, and so of   *)
(* all of them with sessionUserCacheTtlMs at 0: also when the shopper      *)
(* switches back, and whatever earlier switches failed to do.              *)
(***************************************************************************)
MissReadsYourSwitch ==
    [][\A s \in Sessions :
          stage[s] = "wait" /\ stage'[s] = "finish" /\ since[s] # None
              /\ since[s] = last /\ clean /\ ~degraded
          => found'[s] = target[last]]_userVars

\* No switch but `last` goes to its cost center.
FirstVisit ==
    \A q \in Requests : q = last \/ target[q] = None
                            \/ CostOf[target[q]] # CostOf[target[last]]

(***************************************************************************)
(* The same, of a switch to a cost center that no other switch goes to:    *)
(* then the key is one no session of the shopper has had, and whatever the *)
(* cache holds cannot be in the way.                                       *)
(***************************************************************************)
FirstVisitReadsYourSwitch == FirstVisit => ReadsYourSwitch

(***************************************************************************)
(* While the shopper has never chosen and no document is active, a session *)
(* keeps the organization it was resolved to: whichever sessions share the *)
(* cache, whatever they are pinned to and whichever reads fail ("re-       *)
(* deriving made the organization drift between requests", setProfile).    *)
(***************************************************************************)
PinHolds ==
    [][\A s \in Sessions :
          last = None /\ ~SomeActive /\ pin[s] # None => pin'[s] = pin[s]]_userVars

(***************************************************************************)
(* In the long run a session stays with the document of the last clean     *)
(* switch it made: entries left by races die out and no failing read       *)
(* brings an older organization back.                                      *)
(***************************************************************************)
SessionSettles ==
    \A s \in Sessions :
        <>[](SwitchedCleanly /\ caller[last] = s => pin[s] = target[last])

------------------------------------------------------------------------------
(***************************************************************************)
(* The inductive invariant behind PinHolds, proved in ActiveUserProofs.    *)
(***************************************************************************)

\* Before the first switch nothing moves in the store.
QuietInv ==
    last = None =>
        /\ \A p \in Requests : pc[p] = "idle" /\ inflight[p] = {}
        /\ index = active
        /\ selection = None

\* A transform under way has the key of its session's pin, and a fetcher it
\* waits for has its key.
KeyInv ==
    \A s \in Sessions :
        /\ stage[s] # "idle" => key[s][2] = pin[s]
        /\ stage[s] = "wait" => fetchKey[s] = key[s]

\* Without a choice and without an active document, whatever was resolved under
\* a key with a pin is that pin.
AnswerInv ==
    last = None /\ ~SomeActive =>
        /\ \A k \in Keys : k[2] # None => cached[k] \subseteq {k[2]}
        /\ \A s \in Sessions :
              stage[s] = "finish" /\ key[s][2] # None => found[s] = key[s][2]

PinInv == UserTypeOK /\ QuietInv /\ KeyInv /\ AnswerInv

(***************************************************************************)
(* Those behind MissReadsYourSwitch and FirstVisitReadsYourSwitch.         *)
(***************************************************************************)

\* A transform that began after the clean switch `last` has the cost center it
\* published in its key, and a fetcher it waits for still reads the selection.
SinceInv ==
    \A s \in Sessions :
        since[s] # None =>
            /\ pc[since[s]] # "idle"
            /\ since[s] = last /\ clean =>
                  /\ pc[last] = "done" /\ keyed[last]
                  /\ key[s][1] = CostOf[target[last]]
                  /\ stage[s] = "wait" /\ ~degraded => fetch[s] = "select"

\* Has a session of the shopper ever been at cost center c?
Visited(c) ==
    \/ c = None
    \/ \E q \in Requests :
          pc[q] \in {"publish", "done", "failed"} /\ CostOf[target[q]] = c

\* Whatever has been asked for or stored, it was under a cost center visited.
VisitedInv ==
    /\ \A s \in Sessions :
          Visited(currentCost[s]) /\ Visited(key[s][1]) /\ Visited(fetchKey[s][1])
    /\ \A k \in Keys : cached[k] # {} => Visited(k[1])

\* All there is under the cost center of a clean switch to a new one is its document.
NewCostInv ==
    FirstVisit /\ clean /\ keyed[last] /\ ~degraded =>
        /\ \A k \in Keys : k[1] = CostOf[target[last]] => cached[k] \subseteq {target[last]}
        /\ \A s \in Sessions :
              /\ key[s][1] = CostOf[target[last]] /\ stage[s] = "finish"
                    => found[s] = target[last]
              /\ fetchKey[s][1] = CostOf[target[last]] => fetch[s] = "select"

==============================================================================
