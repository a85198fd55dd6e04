---------------------------- MODULE CachedResource ----------------------------
(***************************************************************************)
(* createCachedResource (src/node/services/cache.ts) over                  *)
(* staleFromVBaseWhileRevalidate (src/node/utils): one key of one resource,*)
(* read by several pods.                                                   *)
(*                                                                         *)
(* A pod answers from its memory while the entry is alive.  Past that it   *)
(* asks VBase, where an entry past its TTL is answered all the same and    *)
(* refreshed in the background; without an entry the origin is asked while *)
(* the request waits.  Nobody waits for a save.                            *)
(*                                                                         *)
(* What the cache holds is told apart by when the origin was read, `asof`: *)
(* how old an answer is, is all the properties are about.  Time is a clock *)
(* that ticks; a step of a call takes at most Timeout ticks.               *)
(***************************************************************************)
EXTENDS Naturals, FiniteSets

CONSTANTS
    Pods,
    Calls,     \* slots for reads of the resource under way
    None,      \* "no entry", "not read yet"
    Ttls,      \* the memory TTLs a read may come with; 0 bypasses every layer
    MemTtl,    \* the largest of them
    UseVBase,  \* whether the resource has the VBase layer
    VBaseTtl,  \* its TTL
    Timeout,   \* what any one call to another service takes at most
    Faults,    \* whether such calls may fail
    Steady,    \* whether every pod is read at least once between two ticks
    MaxTime    \* bound: where the clock stops

ASSUME TtlAssumption ==
    /\ MemTtl \in Nat /\ Ttls \subseteq 0 .. MemTtl
    /\ VBaseTtl \in Nat /\ Timeout \in Nat /\ MaxTime \in Nat
    /\ UseVBase => Timeout < VBaseTtl
ASSUME NoneAssumption == None \notin Nat /\ None \notin [asof : Nat, end : Nat]
ASSUME FlagAssumption == UseVBase \in BOOLEAN /\ Faults \in BOOLEAN /\ Steady \in BOOLEAN

VARIABLES
    now,     \* the clock
    memory,  \* pod -> the entry of its LRU: when the origin was read, when it was
             \*   stored, with which maxAge, and (history) whether it came from a
             \*   VBase entry past its TTL; or None
    vbase,   \* the shared entry: when the origin was read and its ttl; or None
    call,    \* slot -> the read under way
    answer,  \* history: what the last step answered a read with, if it did: how
             \*   long ago the origin was read, and whether an entry past its TTL
             \*   was served for it
    refresh, \* the background refreshes under way
    saving,  \* the saves under way
    unread   \* the pods nobody has read since the last tick, if Steady asks for it

layers == <<memory, vbase>>
vars == <<now, layers, call, answer, refresh, saving, unread>>

Time == 0 .. MaxTime
Moment == Time \cup {None}
End == 0 .. MaxTime + VBaseTtl

Stored == [asof : Time, at : Time, maxAge : 1 .. MemTtl, stale : BOOLEAN]
Entry == [asof : Time, end : End]

Idle == [stage |-> "idle"]

\* The reads by what they wait for: VBase, its answer, the origin.
Lookup == [stage : {"ask"}, pod : Pods, ttl : 1 .. MemTtl, began : Time]
Looked == [stage : {"asked"}, pod : Pods, ttl : 1 .. MemTtl, began : Time,
           seen : Entry \cup {None}]
Fetch == [stage : {"fetch"}, pod : Pods, ttl : 0 .. MemTtl, began : Time, end : End,
          asof : Moment]
Answers == [age : Time, stale : BOOLEAN]

Refreshes == [end : End, asof : Moment, began : Time]
Saves == [asof : Time, end : End, began : Time]

TypeOK ==
    /\ now \in Time
    /\ memory \in [Pods -> Stored \cup {None}]
    /\ vbase \in Entry \cup {None}
    /\ call \in [Calls -> {Idle} \cup Lookup \cup Looked \cup Fetch]
    /\ answer \in Answers \cup {None}
    /\ refresh \subseteq Refreshes
    /\ saving \subseteq Saves
    /\ unread \subseteq Pods

Unread == IF Steady THEN Pods ELSE {}

Init ==
    /\ now = 0
    /\ memory = [p \in Pods |-> None]
    /\ vbase = None
    /\ call = [c \in Calls |-> Idle]
    /\ answer = None
    /\ refresh = {}
    /\ saving = {}
    /\ unread = Unread

------------------------------------------------------------------------------
UnderWay(c) == call[c].stage # "idle"

Silent == answer' = None

Becomes(c, r) == Silent /\ call' = [call EXCEPT ![c] = r]

Answer(c, asof, stale) ==
    /\ call' = [call EXCEPT ![c] = Idle]
    /\ answer' = [age |-> now - asof, stale |-> stale]

\* getOrSet stores what its fetcher resolves.
Store(p, asof, ttl, stale) ==
    memory' = [memory EXCEPT ![p] =
                  [asof |-> asof, at |-> now, maxAge |-> ttl, stale |-> stale]]

\* The LRU still answers with the entry.
Alive(p) == memory[p] # None /\ now - memory[p].at <= memory[p].maxAge

\* staleFromVBaseWhileRevalidate takes the end of the entry's life before it
\* asks the origin, not when the answer is there.
EndDate == now + VBaseTtl

Fetching(p, ttl) ==
    [stage |-> "fetch", pod |-> p, ttl |-> ttl, began |-> now,
     end |-> EndDate, asof |-> None]

\* A read of the resource comes in at pod p while its memory has an answer.
Hit(c, p) ==
    /\ ~UnderWay(c)
    /\ \E ttl \in Ttls : ttl > 0
    /\ Alive(p)
    /\ Answer(c, memory[p].asof, memory[p].stale)
    /\ unread' = unread \ {p}
    /\ UNCHANGED <<now, layers, refresh, saving>>

\* It has none: VBase is asked, or the origin if there is no such layer.
Miss(c, p, ttl) ==
    /\ ~UnderWay(c)
    /\ ttl > 0
    /\ ~Alive(p)
    /\ Becomes(c, IF UseVBase
                  THEN [stage |-> "ask", pod |-> p, ttl |-> ttl, began |-> now]
                  ELSE Fetching(p, ttl))
    /\ unread' = unread \ {p}
    /\ UNCHANGED <<now, layers, refresh, saving>>

\* The cache is disabled for this read: no layer is asked, none is written.
Bypass(c, p) ==
    /\ ~UnderWay(c)
    /\ 0 \in Ttls
    /\ Becomes(c, Fetching(p, 0))
    /\ unread' = unread \ {p}
    /\ UNCHANGED <<now, layers, refresh, saving>>

\* VBase reads its entry; the answer is on its way.
VBaseReads(c) ==
    /\ call[c].stage = "ask"
    /\ Becomes(c, [stage |-> "asked", pod |-> call[c].pod, ttl |-> call[c].ttl,
                   began |-> call[c].began, seen |-> vbase])
    /\ UNCHANGED <<now, layers, refresh, saving, unread>>

\* No entry, or the read failed, which counts as none.
NotFound(c) ==
    /\ \/ call[c].stage = "asked" /\ call[c].seen = None
       \/ Faults /\ call[c].stage \in {"ask", "asked"}
    /\ Becomes(c, Fetching(call[c].pod, call[c].ttl))
    /\ UNCHANGED <<now, layers, refresh, saving, unread>>

\* The comparison of staleFromVBaseWhileRevalidate: at its ttl an entry is stale.
Expired(e) == e.end <= now

FoundFresh(c) ==
    /\ call[c].stage = "asked"
    /\ call[c].seen # None
    /\ ~Expired(call[c].seen)
    /\ Answer(c, call[c].seen.asof, FALSE)
    /\ Store(call[c].pod, call[c].seen.asof, call[c].ttl, FALSE)
    /\ UNCHANGED <<now, vbase, refresh, saving, unread>>

\* A stale entry answered, without the refresh behind it.
FoundStaleOnly(c) ==
    /\ call[c].stage = "asked"
    /\ call[c].seen # None
    /\ Expired(call[c].seen)
    /\ Answer(c, call[c].seen.asof, TRUE)
    /\ Store(call[c].pod, call[c].seen.asof, call[c].ttl, TRUE)
    /\ UNCHANGED <<now, vbase, refresh, saving, unread>>

FoundStale(c) ==
    /\ call[c].stage = "asked"
    /\ call[c].seen # None
    /\ Expired(call[c].seen)
    /\ Answer(c, call[c].seen.asof, TRUE)
    /\ Store(call[c].pod, call[c].seen.asof, call[c].ttl, TRUE)
    /\ refresh' = refresh \cup {[end |-> EndDate, asof |-> None, began |-> now]}
    /\ UNCHANGED <<now, vbase, saving, unread>>

\* The origin reads for a request that waits.
OriginReads(c) ==
    /\ call[c].stage = "fetch"
    /\ call[c].asof = None
    /\ Becomes(c, [call[c] EXCEPT !.asof = now])
    /\ UNCHANGED <<now, layers, refresh, saving, unread>>

\* A save leaves with an end of life of its own.
SaveFrom(asof, end) == [asof |-> asof, end |-> now + VBaseTtl, began |-> now]

Save(asof, end) == [asof |-> asof, end |-> end, began |-> now]

\* The answer stored even for a read that bypasses the layers.
StoredAnyway(c) ==
    /\ call[c].stage = "fetch"
    /\ call[c].asof # None
    /\ Answer(c, call[c].asof, FALSE)
    /\ Store(call[c].pod, call[c].asof, call[c].ttl, FALSE)
    /\ saving' = IF UseVBase THEN saving \cup {Save(call[c].asof, call[c].end)} ELSE saving
    /\ UNCHANGED <<now, vbase, refresh, unread>>

\* Its answer arrives: it is stored in the pod, and a save leaves.
OriginAnswers(c) ==
    /\ call[c].stage = "fetch"
    /\ call[c].asof # None
    /\ Answer(c, call[c].asof, FALSE)
    /\ IF call[c].ttl = 0
       THEN UNCHANGED <<memory, saving>>
       ELSE /\ Store(call[c].pod, call[c].asof, call[c].ttl, FALSE)
            /\ saving' = IF UseVBase
                         THEN saving \cup {Save(call[c].asof, call[c].end)}
                         ELSE saving
    /\ UNCHANGED <<now, vbase, refresh, unread>>

\* The origin fails, or the pod dies: the request fails and nothing is stored.
CallFails(c) ==
    /\ Faults
    /\ UnderWay(c)
    /\ Becomes(c, Idle)
    /\ UNCHANGED <<now, layers, refresh, saving, unread>>

RefreshReads(f) ==
    /\ f.asof = None
    /\ refresh' = (refresh \ {f}) \cup {[f EXCEPT !.asof = now]}
    /\ Silent
    /\ UNCHANGED <<now, layers, call, saving, unread>>

RefreshAnswers(f) ==
    /\ f.asof # None
    /\ refresh' = refresh \ {f}
    /\ saving' = saving \cup {Save(f.asof, f.end)}
    /\ Silent
    /\ UNCHANGED <<now, layers, call, unread>>

\* Logged only: the stale entry stays in VBase.
RefreshFails(f) ==
    /\ Faults
    /\ refresh' = refresh \ {f}
    /\ Silent
    /\ UNCHANGED <<now, layers, call, saving, unread>>

\* Saves land in any order.
SaveLands(s) ==
    /\ vbase' = [asof |-> s.asof, end |-> s.end]
    /\ saving' = saving \ {s}
    /\ Silent
    /\ UNCHANGED <<now, memory, call, refresh, unread>>

SaveFails(s) ==
    /\ Faults
    /\ saving' = saving \ {s}
    /\ Silent
    /\ UNCHANGED <<now, layers, call, refresh, unread>>

\* The LRU is full, or the pod starts anew.
Evict(p) ==
    /\ memory[p] # None
    /\ memory' = [memory EXCEPT ![p] = None]
    /\ Silent
    /\ UNCHANGED <<now, vbase, call, refresh, saving, unread>>

\* Nothing under way has taken its time.
InTime(began) == now - began < Timeout

Tick ==
    /\ now < MaxTime
    /\ \A c \in Calls : UnderWay(c) => InTime(call[c].began)
    /\ \A f \in refresh : InTime(f.began)
    /\ \A s \in saving : InTime(s.began)
    /\ Steady => unread = {}
    /\ now' = now + 1
    /\ unread' = Unread
    /\ Silent
    /\ UNCHANGED <<layers, call, refresh, saving>>

------------------------------------------------------------------------------
Read(c) ==
    \/ VBaseReads(c)
    \/ NotFound(c)
    \/ FoundFresh(c)
    \/ FoundStale(c)
    \/ OriginReads(c)
    \/ OriginAnswers(c)
    \/ CallFails(c)

Next ==
    \/ \E c \in Calls :
          \/ \E p \in Pods : Hit(c, p) \/ Bypass(c, p)
          \/ \E p \in Pods, ttl \in Ttls : Miss(c, p, ttl)
          \/ Read(c)
    \/ \E f \in refresh : RefreshReads(f) \/ RefreshAnswers(f) \/ RefreshFails(f)
    \/ \E s \in saving : SaveLands(s) \/ SaveFails(s)
    \/ \E p \in Pods : Evict(p)
    \/ Tick

Spec == Init /\ [][Next]_vars

------------------------------------------------------------------------------
\* How old an answer is at most when it enters a memory, unless it is stale.
Window == IF UseVBase THEN VBaseTtl - 1 ELSE Timeout

(***************************************************************************)
(* What the TTLs do bound: an answer that no stale entry was served for is *)
(* younger than both TTLs together, and without VBase at most as old as    *)
(* the memory TTL and one call to the origin ("the TTL is the upper bound  *)
(* on how long a revoked permission stays effective").  Saves may be late, *)
(* lost or out of order, reads may straddle the end of an entry's life.    *)
(***************************************************************************)
FreshBound ==
    answer # None /\ ~answer.stale => answer.age <= MemTtl + Window

(***************************************************************************)
(* With steady reads, nothing failing, and calls that take no time next to *)
(* the TTLs, stale entries add one more life in the memory and no more: an *)
(* entry that expires in VBase while a pod lives on its memory is served   *)
(* once more, for one more memory TTL, and is refreshed meanwhile.  Reads  *)
(* that bypass the layers do not count: they refresh nothing.              *)
(***************************************************************************)
SteadyBound ==
    answer # None /\ Steady /\ ~Faults /\ Timeout = 0 /\ 0 \notin Ttls =>
        answer.age <= VBaseTtl + 2 * MemTtl

------------------------------------------------------------------------------
(***************************************************************************)
(* The inductive invariant behind FreshBound, proved in                    *)
(* CachedResourceProofs: wherever an end of life travels, it is at most    *)
(* VBaseTtl after the origin was read, since EndDate is taken before; and  *)
(* what enters a memory unmarked is fresh at that moment.                  *)
(***************************************************************************)
\* A life that ends no later than VBaseTtl after its reading of the origin, or
\* after now if that is still to come.
Dated(asof, end) ==
    /\ asof # None => asof <= now /\ end <= asof + VBaseTtl
    /\ end <= now + VBaseTtl

EntryInv ==
    /\ vbase # None => Dated(vbase.asof, vbase.end)
    /\ \A f \in refresh : Dated(f.asof, f.end)
    /\ \A s \in saving : Dated(s.asof, s.end)

CallInv ==
    \A c \in Calls :
        /\ call[c].stage \in {"ask", "asked"} => UseVBase
        /\ call[c].stage = "asked" /\ call[c].seen # None =>
              Dated(call[c].seen.asof, call[c].seen.end)
        /\ call[c].stage = "fetch" =>
              /\ Dated(call[c].asof, call[c].end)
              /\ call[c].began <= now /\ now - call[c].began <= Timeout
              /\ call[c].asof # None => call[c].began <= call[c].asof

MemoryInv ==
    \A p \in Pods :
        memory[p] # None =>
            /\ memory[p].asof <= memory[p].at /\ memory[p].at <= now
            /\ ~memory[p].stale => memory[p].at - memory[p].asof <= Window

FreshInv == EntryInv /\ CallInv /\ MemoryInv /\ FreshBound

==============================================================================
