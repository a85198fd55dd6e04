------------------------- MODULE CachedResourceProofs -------------------------
(***************************************************************************)
(* Proofs about CachedResource, for any pods, slots, TTLs and timeouts:    *)
(* the types, the bound on the age of answers that are not stale, and the  *)
(* bound on every answer where reads are steady.                           *)
(***************************************************************************)
EXTENDS CachedResource, TLAPS

USE TtlAssumption, NoneAssumption, FlagAssumption

\* The fields of a read by its stage.
LEMMA Stages ==
    ASSUME TypeOK, NEW c \in Calls
    PROVE  /\ call[c].stage = "ask" => call[c] \in Lookup
           /\ call[c].stage = "asked" => call[c] \in Looked
           /\ call[c].stage = "fetch" => call[c] \in Fetch
    BY DEF TypeOK, Idle, Lookup, Looked, Fetch

\* What an answer needs to be typed, for its slot and the history.
LEMMA AnswerType ==
    ASSUME TypeOK, NEW c \in Calls, NEW asof \in Time, NEW stale \in BOOLEAN,
           asof <= now, Answer(c, asof, stale)
    PROVE  /\ call' \in [Calls -> {Idle} \cup Lookup \cup Looked \cup Fetch]
           /\ answer' \in Answers \cup {None}
           /\ answer' = [age |-> now - asof, stale |-> stale]
    BY DEF TypeOK, Answer, Answers, Time

LEMMA StoreType ==
    ASSUME TypeOK, NEW p \in Pods, NEW asof \in Time, NEW ttl \in 1 .. MemTtl,
           NEW stale \in BOOLEAN, Store(p, asof, ttl, stale)
    PROVE  memory' \in [Pods -> Stored \cup {None}]
    BY DEF TypeOK, Store, Stored

\* Where the clock stands, a life that starts now is dated and typed.
LEMMA EndDates ==
    ASSUME TypeOK
    PROVE  /\ EndDate \in End
           /\ Dated(None, EndDate)
    BY DEF TypeOK, EndDate, End, Time, Dated

LEMMA FetchingType ==
    ASSUME TypeOK, NEW p \in Pods, NEW ttl \in 0 .. MemTtl
    PROVE  Fetching(p, ttl) \in Fetch
    BY EndDates DEF TypeOK, Fetching, Fetch, Moment

------------------------------------------------------------------------------
(***************************************************************************)
(* The types, and the invariant, step by step.  Both need what the other   *)
(* says: an age is a time only because the origin was read before now.     *)
(***************************************************************************)
Inv == TypeOK /\ FreshInv

LEMMA Starts == Init => Inv
    BY DEF Init, Inv, TypeOK, FreshInv, EntryInv, CallInv, MemoryInv, FreshBound,
           Time, Unread, Idle

\* A read that waits for VBase, or comes in, or turns to the origin: one slot
\* changes and nothing else that the invariant speaks of.
LEMMA SlotStep ==
    ASSUME Inv, NEW c \in Calls, NEW r \in {Idle} \cup Lookup \cup Looked \cup Fetch,
           Becomes(c, r), UNCHANGED <<now, layers, refresh, saving>>,
           unread' \subseteq Pods,
           r.stage \in {"ask", "asked"} => UseVBase,
           r.stage = "asked" /\ r.seen # None => Dated(r.seen.asof, r.seen.end),
           r.stage = "fetch" =>
               /\ Dated(r.asof, r.end)
               /\ r.began <= now /\ now - r.began <= Timeout
               /\ r.asof # None => r.began <= r.asof
    PROVE  Inv'
  <1>1. TypeOK'
    BY DEF Inv, TypeOK, Becomes, Silent, layers
  <1>2. EntryInv' /\ MemoryInv'
    BY DEF Inv, FreshInv, EntryInv, MemoryInv, Dated, Window, layers
  <1>3. CallInv'
    <2> SUFFICES ASSUME NEW d \in Calls
                 PROVE  (/\ call[d].stage \in {"ask", "asked"} => UseVBase
                         /\ call[d].stage = "asked" /\ call[d].seen # None =>
                               Dated(call[d].seen.asof, call[d].seen.end)
                         /\ call[d].stage = "fetch" =>
                               /\ Dated(call[d].asof, call[d].end)
                               /\ call[d].began <= now /\ now - call[d].began <= Timeout
                               /\ call[d].asof # None => call[d].began <= call[d].asof)'
      BY DEF CallInv
    <2>1. call' = [call EXCEPT ![c] = r] /\ now' = now
      BY DEF Becomes
    <2>2. CASE d = c
      BY <2>1, <2>2 DEF Inv, TypeOK, Dated
    <2>3. CASE d # c
      BY <2>1, <2>3 DEF Inv, TypeOK, FreshInv, CallInv, Dated
    <2> QED BY <2>2, <2>3
  <1>4. FreshBound'
    BY DEF Becomes, Silent, FreshBound
  <1> QED BY <1>1, <1>2, <1>3, <1>4 DEF Inv, FreshInv

\* A read that is answered leaves its slot, and the answer is young enough.
LEMMA AnswerStep ==
    ASSUME Inv, NEW c \in Calls, NEW asof \in Time, NEW stale \in BOOLEAN,
           asof <= now, Answer(c, asof, stale), now' = now,
           ~stale => now - asof <= MemTtl + Window
    PROVE  CallInv' /\ FreshBound'
  <1>1. FreshBound'
    BY AnswerType DEF Inv, FreshBound, Window
  <1>2. CallInv'
    <2> SUFFICES ASSUME NEW d \in Calls
                 PROVE  (/\ call[d].stage \in {"ask", "asked"} => UseVBase
                         /\ call[d].stage = "asked" /\ call[d].seen # None =>
                               Dated(call[d].seen.asof, call[d].seen.end)
                         /\ call[d].stage = "fetch" =>
                               /\ Dated(call[d].asof, call[d].end)
                               /\ call[d].began <= now /\ now - call[d].began <= Timeout
                               /\ call[d].asof # None => call[d].began <= call[d].asof)'
      BY DEF CallInv
    <2>1. call' = [call EXCEPT ![c] = Idle]
      BY DEF Answer
    <2>2. CASE d = c
      BY <2>1, <2>2 DEF Inv, TypeOK, Idle
    <2>3. CASE d # c
      BY <2>1, <2>3 DEF Inv, TypeOK, FreshInv, CallInv, Dated
    <2> QED BY <2>2, <2>3
  <1> QED BY <1>1, <1>2

\* What enters a memory unmarked is fresh.
LEMMA StoreStep ==
    ASSUME Inv, NEW p \in Pods, NEW asof \in Time, NEW ttl \in 1 .. MemTtl,
           NEW stale \in BOOLEAN, Store(p, asof, ttl, stale), now' = now,
           asof <= now, ~stale => now - asof <= Window
    PROVE  MemoryInv'
  <1> SUFFICES ASSUME NEW q \in Pods, memory'[q] # None
               PROVE  /\ memory'[q].asof <= memory'[q].at /\ memory'[q].at <= now
                      /\ ~memory'[q].stale => memory'[q].at - memory'[q].asof <= Window
    BY DEF MemoryInv, Window
  <1>1. CASE q = p
    BY <1>1 DEF Inv, TypeOK, Store, Time
  <1>2. CASE q # p
    BY <1>2 DEF Inv, TypeOK, Store, FreshInv, MemoryInv
  <1> QED BY <1>1, <1>2

LEMMA HitStep ==
    ASSUME Inv, NEW c \in Calls, NEW p \in Pods, Hit(c, p)
    PROVE  Inv'
  <1>1. /\ memory[p] \in Stored
        /\ memory[p].asof \in Time /\ memory[p].stale \in BOOLEAN
        /\ memory[p].asof <= memory[p].at /\ memory[p].at <= now
        /\ now - memory[p].at <= MemTtl
        /\ ~memory[p].stale => memory[p].at - memory[p].asof <= Window
    BY DEF Inv, TypeOK, FreshInv, MemoryInv, Hit, Alive, Stored, Time
  <1>2. memory[p].at \in Nat /\ memory[p].asof \in Nat /\ now \in Nat /\ Window \in Nat
    BY <1>1 DEF Inv, TypeOK, Stored, Time, Window
  <1>3. memory[p].asof <= now /\ (~memory[p].stale => now - memory[p].asof <= MemTtl + Window)
    BY <1>1, <1>2
  <1>4. Answer(c, memory[p].asof, memory[p].stale) /\ UNCHANGED <<now, layers, refresh, saving>>
    BY DEF Hit
  <1>5. CallInv' /\ FreshBound'
    BY <1>1, <1>3, <1>4, AnswerStep
  <1>6. TypeOK'
    BY <1>1, <1>3, <1>4, AnswerType DEF Inv, TypeOK, Hit, layers
  <1>7. EntryInv' /\ MemoryInv'
    BY <1>4 DEF Inv, FreshInv, EntryInv, MemoryInv, Dated, Window, layers
  <1> QED BY <1>5, <1>6, <1>7 DEF Inv, FreshInv

\* A request that turns to the origin.
LEMMA FetchingStep ==
    ASSUME Inv, NEW c \in Calls, NEW p \in Pods, NEW ttl \in 0 .. MemTtl,
           Becomes(c, Fetching(p, ttl)), UNCHANGED <<now, layers, refresh, saving>>,
           unread' \subseteq Pods
    PROVE  Inv'
  <1>1. Fetching(p, ttl) \in Fetch
    BY FetchingType DEF Inv
  <1>2. /\ Fetching(p, ttl).stage = "fetch" /\ Fetching(p, ttl).asof = None
        /\ Dated(None, Fetching(p, ttl).end) /\ Fetching(p, ttl).began = now
    BY EndDates DEF Fetching, Inv
  <1>3. now <= now /\ now - now <= Timeout
    BY DEF Inv, TypeOK, Time
  <1> QED BY <1>1, <1>2, <1>3, SlotStep

LEMMA MissStep ==
    ASSUME Inv, NEW c \in Calls, NEW p \in Pods, NEW ttl \in Ttls, Miss(c, p, ttl)
    PROVE  Inv'
  <1> DEFINE ask == [stage |-> "ask", pod |-> p, ttl |-> ttl, began |-> now]
  <1>1. ttl \in 1 .. MemTtl /\ ttl \in 0 .. MemTtl /\ now \in Time
    <2>1. ttl \in 0 .. MemTtl
      OBVIOUS
    <2>2. ttl > 0 /\ now \in Time
      BY DEF Miss, Inv, TypeOK
    <2> QED BY <2>1, <2>2
  <1>2. UNCHANGED <<now, layers, refresh, saving>> /\ unread' \subseteq Pods
    BY DEF Miss, Inv, TypeOK
  <1>3. CASE UseVBase
    <2>1. ask \in Lookup /\ ask.stage = "ask"
      BY <1>1 DEF Lookup
    <2>2. Becomes(c, ask)
      BY <1>3 DEF Miss
    <2> HIDE DEF ask
    <2> QED BY <1>2, <1>3, <2>1, <2>2, SlotStep
  <1>4. CASE ~UseVBase
    <2>1. Becomes(c, Fetching(p, ttl))
      BY <1>4 DEF Miss
    <2> QED BY <1>1, <1>2, <2>1, FetchingStep
  <1> QED BY <1>3, <1>4

LEMMA BypassStep ==
    ASSUME Inv, NEW c \in Calls, NEW p \in Pods, Bypass(c, p)
    PROVE  Inv'
    BY FetchingStep DEF Bypass, Inv, TypeOK

LEMMA VBaseReadsStep ==
    ASSUME Inv, NEW c \in Calls, VBaseReads(c)
    PROVE  Inv'
  <1> DEFINE r == [stage |-> "asked", pod |-> call[c].pod, ttl |-> call[c].ttl,
                   began |-> call[c].began, seen |-> vbase]
  <1>1. call[c] \in Lookup /\ UseVBase
    BY Stages DEF Inv, FreshInv, CallInv, VBaseReads
  <1>2. r \in Looked /\ r.stage = "asked" /\ r.seen = vbase
    BY <1>1 DEF Inv, TypeOK, Lookup, Looked
  <1>3. vbase # None => Dated(vbase.asof, vbase.end)
    BY DEF Inv, FreshInv, EntryInv
  <1>4. /\ Becomes(c, r) /\ UNCHANGED <<now, layers, refresh, saving>>
        /\ unread' \subseteq Pods
    BY DEF VBaseReads, Inv, TypeOK
  <1> HIDE DEF r
  <1> QED BY <1>1, <1>2, <1>3, <1>4, SlotStep

LEMMA NotFoundStep ==
    ASSUME Inv, NEW c \in Calls, NotFound(c)
    PROVE  Inv'
  <1>1. call[c].pod \in Pods /\ call[c].ttl \in 0 .. MemTtl
    BY Stages DEF Inv, NotFound, Lookup, Looked
  <1> QED BY <1>1, FetchingStep DEF NotFound, Inv, TypeOK

LEMMA OriginReadsStep ==
    ASSUME Inv, NEW c \in Calls, OriginReads(c)
    PROVE  Inv'
  <1> DEFINE r == [call[c] EXCEPT !.asof = now]
  <1>1. call[c] \in Fetch /\ now \in Time
    BY Stages DEF Inv, TypeOK, OriginReads
  <1>2. /\ r \in Fetch /\ r.stage = "fetch" /\ r.asof = now
        /\ r.end = call[c].end /\ r.began = call[c].began
    BY <1>1 DEF Fetch, Moment
  <1>3. /\ Dated(call[c].asof, call[c].end)
        /\ call[c].began <= now /\ now - call[c].began <= Timeout
    BY DEF Inv, FreshInv, CallInv, OriginReads
  <1>4. Dated(now, call[c].end)
    BY <1>1, <1>3 DEF Dated, Time
  <1>5. /\ Becomes(c, r) /\ UNCHANGED <<now, layers, refresh, saving>>
        /\ unread' \subseteq Pods
    BY DEF OriginReads, Inv, TypeOK
  <1> HIDE DEF r
  <1> QED BY <1>2, <1>3, <1>4, <1>5, SlotStep

LEMMA CallFailsStep ==
    ASSUME Inv, NEW c \in Calls, CallFails(c)
    PROVE  Inv'
  <1>1. Idle.stage = "idle"
    BY DEF Idle
  <1> QED BY <1>1, SlotStep DEF CallFails, Inv, TypeOK

------------------------------------------------------------------------------
\* The answers out of VBase: young if the entry is alive, marked if it is not.
LEMMA FoundType ==
    ASSUME Inv, NEW c \in Calls, call[c].stage = "asked", call[c].seen # None
    PROVE  /\ UseVBase
           /\ call[c].pod \in Pods /\ call[c].ttl \in 1 .. MemTtl
           /\ call[c].seen.asof \in Time /\ call[c].seen.end \in End
           /\ call[c].seen.asof <= now
           /\ ~Expired(call[c].seen) => now - call[c].seen.asof <= Window
  <1>1. call[c] \in Looked /\ call[c].seen \in Entry
    BY Stages DEF Inv, Looked
  <1>2. Dated(call[c].seen.asof, call[c].seen.end) /\ UseVBase
    BY DEF Inv, FreshInv, CallInv
  <1>3. call[c].seen.asof \in Time /\ call[c].seen.end \in End /\ now \in Time
    BY <1>1 DEF Entry, Inv, TypeOK
  <1>4. call[c].seen.asof # None /\ call[c].seen.asof <= now
    BY <1>2, <1>3 DEF Time, Dated
  <1>5. ~Expired(call[c].seen) => now - call[c].seen.asof <= Window
    BY <1>2, <1>3, <1>4 DEF Expired, Dated, Window, Time, End
  <1> QED BY <1>1, <1>2, <1>3, <1>4, <1>5 DEF Looked

LEMMA FoundFreshStep ==
    ASSUME Inv, NEW c \in Calls, FoundFresh(c)
    PROVE  Inv'
  <1> DEFINE asof == call[c].seen.asof
  <1>1. /\ call[c].pod \in Pods /\ call[c].ttl \in 1 .. MemTtl
        /\ asof \in Time /\ asof <= now /\ now - asof <= Window
    BY FoundType DEF FoundFresh
  <1>2. now - asof <= MemTtl + Window
    BY <1>1 DEF Inv, TypeOK, Time, Window
  <1>3. /\ Answer(c, asof, FALSE) /\ Store(call[c].pod, asof, call[c].ttl, FALSE)
        /\ UNCHANGED <<now, vbase, refresh, saving, unread>>
    BY DEF FoundFresh
  <1> HIDE DEF asof
  <1>4. CallInv' /\ FreshBound'
    BY <1>1, <1>2, <1>3, AnswerStep
  <1>5. MemoryInv'
    BY <1>1, <1>3, StoreStep
  <1>6. TypeOK'
    <2>1. /\ call' \in [Calls -> {Idle} \cup Lookup \cup Looked \cup Fetch]
          /\ answer' \in Answers \cup {None}
      BY <1>1, <1>3, AnswerType DEF Inv
    <2>2. memory' \in [Pods -> Stored \cup {None}]
      BY <1>1, <1>3, StoreType DEF Inv
    <2> QED BY <1>3, <2>1, <2>2 DEF Inv, TypeOK
  <1>7. EntryInv'
    BY <1>3 DEF Inv, FreshInv, EntryInv, Dated
  <1> QED BY <1>4, <1>5, <1>6, <1>7 DEF Inv, FreshInv

\* The refresh that a stale answer leaves behind is dated.
LEMMA FoundStaleStep ==
    ASSUME Inv, NEW c \in Calls, FoundStale(c)
    PROVE  Inv'
  <1> DEFINE asof == call[c].seen.asof
             f == [end |-> EndDate, asof |-> None, began |-> now]
  <1>1. /\ call[c].pod \in Pods /\ call[c].ttl \in 1 .. MemTtl
        /\ asof \in Time /\ asof <= now
    BY FoundType DEF FoundStale
  <1>2. /\ Answer(c, asof, TRUE) /\ Store(call[c].pod, asof, call[c].ttl, TRUE)
        /\ UNCHANGED <<now, vbase, saving, unread>> /\ refresh' = refresh \cup {f}
    BY DEF FoundStale
  <1>3. f \in Refreshes /\ Dated(f.asof, f.end)
    BY EndDates DEF Refreshes, Moment, Inv, TypeOK
  <1> HIDE DEF asof, f
  <1>4. CallInv' /\ FreshBound'
    BY <1>1, <1>2, AnswerStep
  <1>5. MemoryInv'
    BY <1>1, <1>2, StoreStep
  <1>6. TypeOK'
    <2>1. /\ call' \in [Calls -> {Idle} \cup Lookup \cup Looked \cup Fetch]
          /\ answer' \in Answers \cup {None}
      BY <1>1, <1>2, AnswerType DEF Inv
    <2>2. memory' \in [Pods -> Stored \cup {None}]
      BY <1>1, <1>2, StoreType DEF Inv
    <2> QED BY <1>2, <1>3, <2>1, <2>2 DEF Inv, TypeOK
  <1>7. EntryInv'
    BY <1>2, <1>3 DEF Inv, FreshInv, EntryInv, Dated
  <1> QED BY <1>4, <1>5, <1>6, <1>7 DEF Inv, FreshInv

LEMMA OriginAnswersStep ==
    ASSUME Inv, NEW c \in Calls, OriginAnswers(c)
    PROVE  Inv'
  <1> DEFINE asof == call[c].asof
             s == Save(call[c].asof, call[c].end)
  <1>1. /\ call[c] \in Fetch /\ now \in Time
        /\ call[c].pod \in Pods /\ call[c].ttl \in 0 .. MemTtl
        /\ asof \in Time /\ call[c].end \in End /\ call[c].began \in Time
    BY Stages DEF Inv, TypeOK, OriginAnswers, Fetch, Moment
  <1>2. /\ Dated(asof, call[c].end)
        /\ call[c].began <= asof /\ now - call[c].began <= Timeout
    BY DEF Inv, FreshInv, CallInv, OriginAnswers
  <1>3. asof <= now
    BY <1>1, <1>2 DEF Dated, OriginAnswers
  <1>4. now - asof <= Window /\ now - asof <= MemTtl + Window
    BY <1>1, <1>2, <1>3 DEF Window, Time
  <1>5. Answer(c, asof, FALSE) /\ UNCHANGED <<now, vbase, refresh, unread>>
    BY DEF OriginAnswers
  <1>6. s \in Saves /\ Dated(s.asof, s.end)
    BY <1>1, <1>2 DEF Save, Saves
  <1>7. \/ UNCHANGED <<memory, saving>>
        \/ /\ call[c].ttl # 0
           /\ Store(call[c].pod, asof, call[c].ttl, FALSE)
           /\ saving' = saving \/ saving' = saving \cup {s}
    BY DEF OriginAnswers
  <1> HIDE DEF asof, s
  <1>8. saving' \subseteq saving \cup {s}
    BY <1>7
  <1>9. call[c].ttl # 0 => call[c].ttl \in 1 .. MemTtl
    BY <1>1
  <1>10. CallInv' /\ FreshBound'
    BY <1>1, <1>3, <1>4, <1>5, AnswerStep
  <1>11. MemoryInv' /\ memory' \in [Pods -> Stored \cup {None}]
    <2>1. CASE UNCHANGED <<memory, saving>>
      BY <1>5, <2>1 DEF Inv, TypeOK, FreshInv, MemoryInv, Window
    <2>2. CASE call[c].ttl # 0 /\ Store(call[c].pod, asof, call[c].ttl, FALSE)
      BY <1>1, <1>3, <1>4, <1>5, <1>9, <2>2, StoreStep, StoreType DEF Inv
    <2> QED BY <1>7, <2>1, <2>2
  <1>12. TypeOK'
    <2>1. /\ call' \in [Calls -> {Idle} \cup Lookup \cup Looked \cup Fetch]
          /\ answer' \in Answers \cup {None}
      BY <1>1, <1>3, <1>5, AnswerType DEF Inv
    <2> QED BY <1>5, <1>6, <1>8, <1>11, <2>1 DEF Inv, TypeOK
  <1>13. EntryInv'
    BY <1>5, <1>6, <1>8 DEF Inv, FreshInv, EntryInv, Dated
  <1> QED BY <1>10, <1>11, <1>12, <1>13 DEF Inv, FreshInv

------------------------------------------------------------------------------
\* What happens behind the requests: no slot moves and nothing is answered.
LEMMA BackgroundStep ==
    ASSUME Inv, Silent, UNCHANGED <<now, call, unread>>,
           memory' \in [Pods -> Stored \cup {None}],
           \A p \in Pods : memory'[p] # None => memory'[p] = memory[p],
           vbase' \in Entry \cup {None},
           vbase' # None => Dated(vbase'.asof, vbase'.end),
           refresh' \subseteq Refreshes, \A f \in refresh' : Dated(f.asof, f.end),
           saving' \subseteq Saves, \A s \in saving' : Dated(s.asof, s.end)
    PROVE  Inv'
  <1>1. TypeOK'
    BY DEF Inv, TypeOK, Silent
  <1>2. EntryInv'
    BY DEF EntryInv, Dated
  <1>3. CallInv'
    BY DEF Inv, FreshInv, CallInv, Dated
  <1>4. MemoryInv'
    BY DEF Inv, FreshInv, MemoryInv, Window
  <1>5. FreshBound'
    BY DEF Silent, FreshBound
  <1> QED BY <1>1, <1>2, <1>3, <1>4, <1>5 DEF Inv, FreshInv

LEMMA RefreshStep ==
    ASSUME Inv, NEW f \in refresh,
           RefreshReads(f) \/ RefreshAnswers(f) \/ RefreshFails(f)
    PROVE  Inv'
  <1>1. f \in Refreshes /\ Dated(f.asof, f.end) /\ now \in Time
    BY DEF Inv, TypeOK, FreshInv, EntryInv
  <1>2. /\ memory \in [Pods -> Stored \cup {None}] /\ vbase \in Entry \cup {None}
        /\ refresh \subseteq Refreshes /\ saving \subseteq Saves
        /\ vbase # None => Dated(vbase.asof, vbase.end)
        /\ \A e \in refresh : Dated(e.asof, e.end)
        /\ \A s \in saving : Dated(s.asof, s.end)
    BY DEF Inv, TypeOK, FreshInv, EntryInv
  <1>3. CASE RefreshReads(f)
    <2> DEFINE r == [f EXCEPT !.asof = now]
    <2>1. r \in Refreshes /\ r.asof = now /\ r.end = f.end
      BY <1>1 DEF Refreshes, Moment
    <2>2. Dated(r.asof, r.end)
      BY <1>1, <2>1 DEF Dated, Time, Refreshes, End
    <2>3. /\ Silent /\ UNCHANGED <<now, layers, call, saving, unread>>
          /\ refresh' \subseteq refresh \cup {r}
      BY <1>3 DEF RefreshReads
    <2> HIDE DEF r
    <2> QED BY <1>2, <2>1, <2>2, <2>3, BackgroundStep DEF layers
  <1>4. CASE RefreshAnswers(f)
    <2> DEFINE s == Save(f.asof, f.end)
    <2>1. s \in Saves /\ Dated(s.asof, s.end)
      BY <1>1, <1>4 DEF Save, Saves, Refreshes, Moment, RefreshAnswers
    <2>2. /\ Silent /\ UNCHANGED <<now, layers, call, unread>>
          /\ refresh' \subseteq refresh /\ saving' = saving \cup {s}
      BY <1>4 DEF RefreshAnswers
    <2> HIDE DEF s
    <2> QED BY <1>2, <2>1, <2>2, BackgroundStep DEF layers
  <1>5. CASE RefreshFails(f)
    <2>1. /\ Silent /\ UNCHANGED <<now, layers, call, saving, unread>>
          /\ refresh' \subseteq refresh
      BY <1>5 DEF RefreshFails
    <2> QED BY <1>2, <2>1, BackgroundStep DEF layers
  <1> QED BY <1>3, <1>4, <1>5

\* A save replaces the entry by one that is dated too, whatever it overtook.
LEMMA SaveStep ==
    ASSUME Inv, NEW s \in saving, SaveLands(s) \/ SaveFails(s)
    PROVE  Inv'
  <1>1. s \in Saves /\ Dated(s.asof, s.end)
    BY DEF Inv, TypeOK, FreshInv, EntryInv
  <1>2. /\ memory \in [Pods -> Stored \cup {None}] /\ vbase \in Entry \cup {None}
        /\ refresh \subseteq Refreshes /\ saving \subseteq Saves
        /\ vbase # None => Dated(vbase.asof, vbase.end)
        /\ \A e \in refresh : Dated(e.asof, e.end)
        /\ \A e \in saving : Dated(e.asof, e.end)
    BY DEF Inv, TypeOK, FreshInv, EntryInv
  <1>3. CASE SaveLands(s)
    <2> DEFINE v == [asof |-> s.asof, end |-> s.end]
    <2>1. v \in Entry /\ Dated(v.asof, v.end)
      BY <1>1 DEF Entry, Saves
    <2>2. /\ Silent /\ UNCHANGED <<now, memory, call, refresh, unread>>
          /\ vbase' = v /\ saving' \subseteq saving
      BY <1>3 DEF SaveLands
    <2> HIDE DEF v
    <2> QED BY <1>2, <2>1, <2>2, BackgroundStep
  <1>4. CASE SaveFails(s)
    <2>1. /\ Silent /\ UNCHANGED <<now, layers, call, refresh, unread>>
          /\ saving' \subseteq saving
      BY <1>4 DEF SaveFails
    <2> QED BY <1>2, <2>1, BackgroundStep DEF layers
  <1> QED BY <1>3, <1>4

LEMMA EvictStep ==
    ASSUME Inv, NEW p \in Pods, Evict(p)
    PROVE  Inv'
  <1>1. /\ memory \in [Pods -> Stored \cup {None}] /\ vbase \in Entry \cup {None}
        /\ refresh \subseteq Refreshes /\ saving \subseteq Saves
        /\ vbase # None => Dated(vbase.asof, vbase.end)
        /\ \A e \in refresh : Dated(e.asof, e.end)
        /\ \A e \in saving : Dated(e.asof, e.end)
    BY DEF Inv, TypeOK, FreshInv, EntryInv
  <1>2. /\ Silent /\ UNCHANGED <<now, vbase, call, refresh, saving, unread>>
        /\ memory' = [memory EXCEPT ![p] = None]
    BY DEF Evict
  <1> QED BY <1>1, <1>2, BackgroundStep

\* Time only takes life away; a call that has had its time stops the clock.
LEMMA TickStep ==
    ASSUME Inv, Tick
    PROVE  Inv'
  <1>1. /\ now \in Nat /\ now' = now + 1 /\ now' \in Time
        /\ Silent /\ UNCHANGED <<layers, call, refresh, saving>>
        /\ unread' \subseteq Pods
    BY DEF Inv, TypeOK, Tick, Time, Unread
  <1>2. TypeOK'
    BY <1>1 DEF Inv, TypeOK, Silent, layers
  <1>3. \A asof \in Moment, end \in End :
           Dated(asof, end) =>
               /\ asof # None => asof <= now' /\ end <= asof + VBaseTtl
               /\ end <= now' + VBaseTtl
    BY <1>1 DEF Dated, Moment, Time, End
  <1>4. EntryInv'
    <2>1. (vbase # None => Dated(vbase.asof, vbase.end))'
      BY <1>1, <1>3 DEF Inv, TypeOK, FreshInv, EntryInv, Entry, Moment, Dated, layers
    <2>2. (\A f \in refresh : Dated(f.asof, f.end))'
      BY <1>1, <1>3 DEF Inv, TypeOK, FreshInv, EntryInv, Refreshes, Dated
    <2>3. (\A s \in saving : Dated(s.asof, s.end))'
      BY <1>1, <1>3 DEF Inv, TypeOK, FreshInv, EntryInv, Saves, Moment, Dated
    <2> QED BY <2>1, <2>2, <2>3 DEF EntryInv
  <1>5. CallInv'
    <2> SUFFICES ASSUME NEW c \in Calls
                 PROVE  (/\ call[c].stage \in {"ask", "asked"} => UseVBase
                         /\ call[c].stage = "asked" /\ call[c].seen # None =>
                               Dated(call[c].seen.asof, call[c].seen.end)
                         /\ call[c].stage = "fetch" =>
                               /\ Dated(call[c].asof, call[c].end)
                               /\ call[c].began <= now /\ now - call[c].began <= Timeout
                               /\ call[c].asof # None => call[c].began <= call[c].asof)'
      BY DEF CallInv
    <2>1. call[c]' = call[c]
      BY <1>1
    <2>2. (call[c].stage = "asked" /\ call[c].seen # None =>
              Dated(call[c].seen.asof, call[c].seen.end))'
      <3>1. call[c].stage = "asked" /\ call[c].seen # None =>
               call[c].seen.asof \in Moment /\ call[c].seen.end \in End
        BY Stages DEF Inv, Looked, Entry, Moment
      <3> QED BY <1>1, <1>3, <3>1 DEF Inv, FreshInv, CallInv, Dated
    <2>3. (call[c].stage = "fetch" =>
              /\ Dated(call[c].asof, call[c].end)
              /\ call[c].began <= now /\ now - call[c].began <= Timeout)'
      <3>1. call[c].stage = "fetch" =>
               call[c].asof \in Moment /\ call[c].end \in End /\ call[c].began \in Time
        BY Stages DEF Inv, Fetch, Moment
      <3>2. (call[c].stage = "fetch" => Dated(call[c].asof, call[c].end))'
        BY <1>1, <1>3, <3>1 DEF Inv, FreshInv, CallInv, Dated
      <3>3. call[c].stage = "fetch" =>
               call[c].began <= now /\ now - call[c].began < Timeout
        BY DEF Inv, FreshInv, CallInv, Tick, UnderWay, InTime
      <3> QED BY <1>1, <3>1, <3>2, <3>3 DEF Time
    <2> QED BY <2>1, <2>2, <2>3 DEF Inv, FreshInv, CallInv, Dated
  <1>6. MemoryInv'
    <2> SUFFICES ASSUME NEW p \in Pods, memory[p] # None
                 PROVE  /\ memory[p].asof <= memory[p].at /\ memory[p].at <= now'
                        /\ ~memory[p].stale => memory[p].at - memory[p].asof <= Window
      BY <1>1 DEF MemoryInv, layers, Window
    <2>1. memory[p].at \in Nat
      BY DEF Inv, TypeOK, Stored, Time
    <2> QED BY <1>1, <2>1 DEF Inv, FreshInv, MemoryInv
  <1>7. FreshBound'
    BY <1>1 DEF Silent, FreshBound
  <1> QED BY <1>2, <1>4, <1>5, <1>6, <1>7 DEF Inv, FreshInv

LEMMA StutterStep ==
    ASSUME Inv, UNCHANGED vars
    PROVE  Inv'
    BY DEF Inv, TypeOK, FreshInv, EntryInv, CallInv, MemoryInv, FreshBound, Dated,
           Window, vars, layers

LEMMA InvStep == Inv /\ [Next]_vars => Inv'
  <1> SUFFICES ASSUME Inv, [Next]_vars
               PROVE  Inv'
    OBVIOUS
  <1>1. CASE \E c \in Calls, p \in Pods : Hit(c, p) \/ Bypass(c, p)
    BY <1>1, HitStep, BypassStep
  <1>2. CASE \E c \in Calls, p \in Pods, ttl \in Ttls : Miss(c, p, ttl)
    BY <1>2, MissStep
  <1>3. CASE \E c \in Calls : Read(c)
    BY <1>3, VBaseReadsStep, NotFoundStep, FoundFreshStep, FoundStaleStep,
       OriginReadsStep, OriginAnswersStep, CallFailsStep DEF Read
  <1>4. CASE \E f \in refresh : RefreshReads(f) \/ RefreshAnswers(f) \/ RefreshFails(f)
    BY <1>4, RefreshStep
  <1>5. CASE \E s \in saving : SaveLands(s) \/ SaveFails(s)
    BY <1>5, SaveStep
  <1>6. CASE \E p \in Pods : Evict(p)
    BY <1>6, EvictStep
  <1>7. CASE Tick
    BY <1>7, TickStep
  <1>8. CASE UNCHANGED vars
    BY <1>8, StutterStep
  <1> QED BY <1>1, <1>2, <1>3, <1>4, <1>5, <1>6, <1>7, <1>8 DEF Next

(***************************************************************************)
(* Every answer, entry, refresh and save of the cache keeps its type: in   *)
(* particular the age of an answer is a time, so no answer was read from   *)
(* the origin after it was given.                                          *)
(***************************************************************************)
THEOREM CacheTypeCorrect == Spec => []TypeOK
  <1>1. Spec => []Inv
    BY Starts, InvStep, PTL DEF Spec
  <1>2. Inv => TypeOK
    BY DEF Inv
  <1> QED BY <1>1, <1>2, PTL

(***************************************************************************)
(* For any pods, requests, TTLs and timeouts, whatever fails, is evicted   *)
(* or lands out of order: an answer that no expired VBase entry was served *)
(* for is no older than the memory TTL and what the VBase TTL (without     *)
(* VBase: one call to the origin) allows.                                  *)
(***************************************************************************)
THEOREM FreshAnswers == Spec => []FreshBound
  <1>1. Spec => []Inv
    BY Starts, InvStep, PTL DEF Spec
  <1>2. Inv => FreshBound
    BY DEF Inv, FreshInv
  <1> QED BY <1>1, <1>2, PTL

------------------------------------------------------------------------------
(***************************************************************************)
(* Steady reads: the inductive invariant behind SteadyBound.  An entry is  *)
(* stale in VBase for at most one life in a memory, because whichever read *)
(* meets it leaves something behind that replaces it before the clock      *)
(* moves, and every pod is read before that.                               *)
(***************************************************************************)
\* Every pod is read by way of the layers between two ticks, and all that is begun
\* is over by the next.
Calm == Steady /\ ~Faults /\ Timeout = 0 /\ 0 \notin Ttls

\* Something is under way that ends in an entry which is not expired.
Pending == refresh # {} \/ saving # {} \/ \E c \in Calls : UnderWay(c)

\* The entry lives past the moment t.
LivesPast(t) == vbase # None /\ t < vbase.end

\* What a read under way knows: it began now, and what it saw or took from the
\* origin is of now or no newer than the entry.
OfNow(r) ==
    /\ r.stage # "idle" => r.began = now
    /\ r.stage = "fetch" =>
          r.asof \in {None, now} /\ r.end = now + VBaseTtl /\ r.ttl # 0
    /\ r.stage = "asked" /\ r.seen # None =>
          /\ r.seen.end = r.seen.asof + VBaseTtl
          /\ now <= r.seen.end + MemTtl
          /\ vbase # None /\ r.seen.end <= vbase.end

CallsOfNow == \A c \in Calls : OfNow(call[c])

WorkOfNow ==
    /\ \A f \in refresh : f.began = now /\ f.asof \in {None, now} /\ f.end = now + VBaseTtl
    /\ \A s \in saving : s.began = now /\ s.asof = now /\ s.end = now + VBaseTtl

\* The entry is replaced before it is expired for longer than a memory lives.
EntryKept ==
    UseVBase /\ vbase # None /\ Pods # {} =>
        /\ vbase.end = vbase.asof + VBaseTtl /\ vbase.asof <= now
        /\ now <= vbase.end + MemTtl

\* What a pod remembers entered its memory at most one memory TTL past its life,
\* and before the entry's life was over unless the entry is being replaced.
Kept(m) ==
    /\ m.at <= now /\ m.at <= m.asof + VBaseTtl + MemTtl
    /\ UseVBase => Pending \/ LivesPast(m.at)

\* A pod read since the last tick met an entry that a memory TTL ago was alive, or
\* it is being replaced.
Visited == vbase # None /\ now < vbase.end + MemTtl

MemoryKept ==
    /\ \A p \in Pods : memory[p] # None => Kept(memory[p])
    /\ UseVBase => \A p \in Pods \ unread : Pending \/ Visited

SteadyParts == CallsOfNow /\ WorkOfNow /\ EntryKept /\ MemoryKept /\ SteadyBound

SteadyInv == Calm => SteadyParts

LEMMA SteadyStarts == Init => SteadyInv
    BY DEF Init, SteadyInv, SteadyParts, CallsOfNow, OfNow, WorkOfNow, EntryKept,
           MemoryKept, SteadyBound, Calm, Unread, Idle

\* Life in VBase lasts if there is a VBase.
LEMMA LifeLasts ==
    ASSUME Calm, UseVBase
    PROVE  VBaseTtl > 0
    BY DEF Calm

\* One slot moves on while the entry stays.
LEMMA CallsForward ==
    ASSUME Inv, CallsOfNow, NEW c \in Calls, NEW r,
           call' = [call EXCEPT ![c] = r], UNCHANGED <<now, vbase>>, OfNow(r)
    PROVE  CallsOfNow'
  <1> SUFFICES ASSUME NEW d \in Calls
               PROVE  OfNow(call[d])'
    BY DEF CallsOfNow
  <1>1. call'[d] = IF d = c THEN r ELSE call[d]
    BY DEF Inv, TypeOK
  <1>2. OfNow(call'[d])
    BY <1>1 DEF CallsOfNow
  <1> QED BY <1>2 DEF OfNow

\* While something is under way, or the entry is alive, a memory is kept if what
\* enters it now is no older than a life in VBase and one in a memory.
LEMMA MemoryForward ==
    ASSUME Inv, MemoryKept, now' = now,
           UseVBase => Pending' \/ LivesPast(now)',
           \A p \in Pods : memory'[p] # None =>
               \/ memory'[p] = memory[p]
               \/ memory'[p].at = now /\ now <= memory'[p].asof + VBaseTtl + MemTtl,
           vbase' \in Entry \cup {None}
    PROVE  MemoryKept'
  <1>1. now \in Nat /\ \A p \in Pods : memory[p] # None => memory[p].at \in Nat
    BY DEF Inv, TypeOK, Time, Stored
  <1>2. vbase' # None => vbase'.end \in Nat
    BY DEF Entry, End
  <1>3. ASSUME NEW p \in Pods, memory'[p] # None
        PROVE  Kept(memory[p])'
    <2>1. memory'[p].at <= now /\ memory'[p].at <= memory'[p].asof + VBaseTtl + MemTtl
          /\ memory'[p].at \in Nat
      BY <1>1, <1>3 DEF MemoryKept, Kept
    <2>2. UseVBase => Pending' \/ LivesPast(memory[p].at)'
      BY <1>1, <1>2, <2>1 DEF LivesPast
    <2> QED BY <2>1, <2>2 DEF Kept
  <1>4. UseVBase => Pending' \/ Visited'
    BY <1>1, <1>2 DEF LivesPast, Visited
  <1> QED BY <1>3, <1>4 DEF MemoryKept

\* A step that answers nothing says nothing about ages.
LEMMA SilentBound == Silent => SteadyBound'
    BY DEF Silent, SteadyBound

\* A read moves on and is still under way: it will bring a living entry.
LEMMA UnderWayStep ==
    ASSUME Inv, SteadyParts, NEW c \in Calls, NEW r, Becomes(c, r),
           r.stage # "idle", OfNow(r),
           UNCHANGED <<now, layers, refresh, saving>>
    PROVE  SteadyParts'
  <1>1. /\ now' = now /\ vbase' = vbase /\ memory' = memory
        /\ call' = [call EXCEPT ![c] = r] /\ Silent
    BY DEF Becomes, layers
  <1>2. CallsOfNow'
    BY <1>1, CallsForward DEF SteadyParts
  <1>3. Pending'
    <2>1. call'[c] = r
      BY <1>1 DEF Inv, TypeOK
    <2> QED BY <2>1 DEF Pending, UnderWay
  <1>4. MemoryKept'
    BY <1>1, <1>3, MemoryForward DEF SteadyParts, Inv, TypeOK
  <1>5. WorkOfNow' /\ EntryKept'
    BY <1>1 DEF SteadyParts, WorkOfNow, EntryKept
  <1> QED BY <1>1, <1>2, <1>4, <1>5, SilentBound DEF SteadyParts

\* A read is answered out of VBase or by the origin, and the answer stored.
LEMMA AnsweredStep ==
    ASSUME Inv, Calm, SteadyParts, NEW c \in Calls, NEW p \in Pods, NEW asof \in Time,
           NEW ttl \in 1 .. MemTtl, NEW stale \in BOOLEAN,
           Answer(c, asof, stale), Store(p, asof, ttl, stale),
           asof <= now, now <= asof + VBaseTtl + MemTtl,
           UNCHANGED <<now, vbase>>, WorkOfNow',
           UseVBase => Pending' \/ LivesPast(now)
    PROVE  SteadyParts'
  <1>1. CallsOfNow'
    <2>1. OfNow(Idle)
      BY DEF OfNow, Idle
    <2> QED BY <2>1, CallsForward DEF SteadyParts, Answer
  <1>2. MemoryKept'
    <2>1. \A q \in Pods : memory'[q] # None =>
              \/ memory'[q] = memory[q]
              \/ memory'[q].at = now /\ now <= memory'[q].asof + VBaseTtl + MemTtl
      BY DEF Store, Inv, TypeOK
    <2>2. UseVBase => Pending' \/ LivesPast(now)'
      BY DEF LivesPast
    <2> QED BY <2>1, <2>2, MemoryForward DEF SteadyParts, Inv, TypeOK
  <1>3. EntryKept'
    BY DEF SteadyParts, EntryKept
  <1>4. SteadyBound'
    <2>1. answer' = [age |-> now - asof, stale |-> stale]
      BY DEF Answer
    <2>2. now - asof <= VBaseTtl + 2 * MemTtl
      BY DEF Inv, TypeOK, Time
    <2> QED BY <2>1, <2>2 DEF SteadyBound
  <1> QED BY <1>1, <1>2, <1>3, <1>4 DEF SteadyParts

\* What happens behind the requests leaves something under way, or a new entry.
LEMMA BehindStep ==
    ASSUME Inv, SteadyParts, Silent, UNCHANGED <<now, memory, vbase, call, unread>>,
           WorkOfNow', Pending'
    PROVE  SteadyParts'
  <1>1. CallsOfNow' /\ EntryKept'
    BY DEF SteadyParts, CallsOfNow, OfNow, EntryKept
  <1>2. MemoryKept'
    BY MemoryForward DEF SteadyParts, Inv, TypeOK
  <1> QED BY <1>1, <1>2, SilentBound DEF SteadyParts

\* A read that the memory answers tells that the pod's entry was alive in VBase a
\* memory TTL ago, or is being replaced.
LEMMA HitSteady ==
    ASSUME Inv, Calm, SteadyParts, NEW c \in Calls, NEW p \in Pods, Hit(c, p)
    PROVE  SteadyParts'
  <1>1. /\ memory[p] # None /\ now - memory[p].at <= memory[p].maxAge
        /\ Answer(c, memory[p].asof, memory[p].stale)
        /\ unread' = unread \ {p} /\ UNCHANGED <<now, memory, vbase, refresh, saving>>
    BY DEF Hit, Alive, layers
  <1>2. /\ memory[p].at \in Nat /\ memory[p].asof \in Nat
        /\ memory[p].maxAge \in 1 .. MemTtl /\ now \in Nat
    BY <1>1 DEF Inv, TypeOK, Stored, Time
  <1>3. Kept(memory[p])
    BY <1>1 DEF SteadyParts, MemoryKept
  <1>4. call' = call
    BY <1>1 DEF Hit, UnderWay, Answer, Inv, TypeOK, Idle, Lookup, Looked, Fetch
  <1>5. UseVBase => Pending \/ Visited
    <2>1. vbase # None => vbase.end \in Nat
      BY DEF Inv, TypeOK, Entry, End
    <2> QED BY <1>1, <1>2, <1>3, <2>1 DEF Kept, LivesPast, Visited
  <1>6. CallsOfNow' /\ WorkOfNow' /\ EntryKept'
    BY <1>1, <1>4 DEF SteadyParts, CallsOfNow, OfNow, WorkOfNow, EntryKept
  <1>7. MemoryKept'
    BY <1>1, <1>4, <1>5
    DEF SteadyParts, MemoryKept, Kept, Pending, LivesPast, Visited, UnderWay
  <1>8. SteadyBound'
    <2>1. answer' = [age |-> now - memory[p].asof, stale |-> memory[p].stale]
      BY <1>1 DEF Answer
    <2>2. now - memory[p].asof <= VBaseTtl + 2 * MemTtl
      BY <1>1, <1>2, <1>3 DEF Kept
    <2> QED BY <2>1, <2>2 DEF SteadyBound
  <1> QED BY <1>6, <1>7, <1>8 DEF SteadyParts

LEMMA FetchingSteady ==
    ASSUME Inv, SteadyParts, NEW c \in Calls, NEW p \in Pods, NEW ttl \in 1 .. MemTtl,
           Becomes(c, Fetching(p, ttl)), UNCHANGED <<now, layers, refresh, saving>>
    PROVE  SteadyParts'
  <1>1. Fetching(p, ttl).stage # "idle" /\ OfNow(Fetching(p, ttl))
    BY DEF Fetching, OfNow, EndDate
  <1> QED BY <1>1, UnderWayStep

LEMMA MissSteady ==
    ASSUME Inv, SteadyParts, NEW c \in Calls, NEW p \in Pods, NEW ttl \in Ttls,
           Miss(c, p, ttl)
    PROVE  SteadyParts'
  <1> DEFINE ask == [stage |-> "ask", pod |-> p, ttl |-> ttl, began |-> now]
  <1>1. ttl \in 1 .. MemTtl /\ UNCHANGED <<now, layers, refresh, saving>>
    <2>1. ttl \in 0 .. MemTtl
      OBVIOUS
    <2> QED BY <2>1 DEF Miss
  <1>2. CASE UseVBase
    <2>1. Becomes(c, ask)
      BY <1>2 DEF Miss
    <2>2. ask.stage # "idle" /\ OfNow(ask)
      BY DEF OfNow
    <2> HIDE DEF ask
    <2> QED BY <1>1, <2>1, <2>2, UnderWayStep
  <1>3. CASE ~UseVBase
    BY <1>1, <1>3, FetchingSteady DEF Miss
  <1> QED BY <1>2, <1>3

LEMMA VBaseReadsSteady ==
    ASSUME Inv, SteadyParts, NEW c \in Calls, VBaseReads(c)
    PROVE  SteadyParts'
  <1> DEFINE r == [stage |-> "asked", pod |-> call[c].pod, ttl |-> call[c].ttl,
                   began |-> call[c].began, seen |-> vbase]
  <1>1. call[c].began = now
    BY DEF VBaseReads, SteadyParts, CallsOfNow, OfNow
  <1>2. UseVBase /\ Pods # {}
    BY Stages DEF VBaseReads, Inv, FreshInv, CallInv, Lookup
  <1>3. r.stage # "idle" /\ OfNow(r)
    <2>1. vbase # None => /\ vbase.end \in Nat
                          /\ vbase.end = vbase.asof + VBaseTtl
                          /\ now <= vbase.end + MemTtl
      BY <1>2 DEF Inv, TypeOK, Entry, End, SteadyParts, EntryKept
    <2> QED BY <1>1, <2>1 DEF OfNow
  <1>4. Becomes(c, r) /\ UNCHANGED <<now, layers, refresh, saving>>
    BY DEF VBaseReads
  <1> HIDE DEF r
  <1> QED BY <1>3, <1>4, UnderWayStep

LEMMA NotFoundSteady ==
    ASSUME Inv, Calm, SteadyParts, NEW c \in Calls, NotFound(c)
    PROVE  SteadyParts'
  <1>1. call[c].pod \in Pods /\ call[c].ttl \in 1 .. MemTtl
    BY Stages DEF Inv, NotFound, Lookup, Looked
  <1> QED BY <1>1, FetchingSteady DEF NotFound

LEMMA FoundSteady ==
    ASSUME Inv, Calm, SteadyParts, NEW c \in Calls, FoundFresh(c) \/ FoundStale(c)
    PROVE  SteadyParts'
  <1> DEFINE asof == call[c].seen.asof
             f == [end |-> EndDate, asof |-> None, began |-> now]
  <1>1. /\ call[c].stage = "asked" /\ call[c].seen # None
        /\ UNCHANGED <<now, vbase, saving, unread>>
    BY DEF FoundFresh, FoundStale
  <1>2. /\ call[c].pod \in Pods /\ call[c].ttl \in 1 .. MemTtl
        /\ asof \in Time /\ asof <= now /\ call[c].seen.end \in End /\ now \in Time
    BY <1>1, FoundType DEF Inv, TypeOK
  <1>3. /\ call[c].seen.end = asof + VBaseTtl /\ now <= call[c].seen.end + MemTtl
        /\ vbase # None /\ call[c].seen.end <= vbase.end
    BY <1>1 DEF SteadyParts, CallsOfNow, OfNow
  <1>4. asof <= now /\ now <= asof + VBaseTtl + MemTtl
    BY <1>2, <1>3
  <1>5. CASE FoundFresh(c)
    <2>1. Answer(c, asof, FALSE) /\ Store(call[c].pod, asof, call[c].ttl, FALSE)
      BY <1>5 DEF FoundFresh
    <2>2. WorkOfNow'
      BY <1>1, <1>5 DEF FoundFresh, SteadyParts, WorkOfNow
    <2>3. LivesPast(now)
      <3>1. now < call[c].seen.end /\ vbase.end \in Nat
        BY <1>2, <1>3, <1>5 DEF FoundFresh, Expired, Inv, TypeOK, Entry, End, Time
      <3> QED BY <1>2, <1>3, <3>1 DEF LivesPast, End, Time
    <2> HIDE DEF asof
    <2> QED BY <1>1, <1>2, <1>4, <2>1, <2>2, <2>3, AnsweredStep
  <1>6. CASE FoundStale(c)
    <2>1. /\ Answer(c, asof, TRUE) /\ Store(call[c].pod, asof, call[c].ttl, TRUE)
          /\ refresh' = refresh \cup {f}
      BY <1>6 DEF FoundStale
    <2>2. f.began = now /\ f.asof = None /\ f.end = now + VBaseTtl
      BY DEF EndDate
    <2> HIDE DEF asof, f
    <2>3. WorkOfNow' /\ Pending'
      BY <1>1, <2>1, <2>2 DEF SteadyParts, WorkOfNow, Pending
    <2> QED BY <1>1, <1>2, <1>4, <2>1, <2>3, AnsweredStep
  <1> QED BY <1>5, <1>6

LEMMA OriginReadsSteady ==
    ASSUME Inv, SteadyParts, NEW c \in Calls, OriginReads(c)
    PROVE  SteadyParts'
  <1> DEFINE r == [call[c] EXCEPT !.asof = now]
  <1>1. call[c] \in Fetch /\ OfNow(call[c]) /\ call[c].stage = "fetch"
    BY Stages DEF Inv, OriginReads, SteadyParts, CallsOfNow
  <1>2. /\ r.stage = "fetch" /\ r.asof = now /\ r.end = call[c].end
        /\ r.began = call[c].began /\ r.ttl = call[c].ttl
    BY <1>1 DEF Fetch
  <1>3. r.stage # "idle" /\ OfNow(r)
    BY <1>1, <1>2 DEF OfNow
  <1>4. Becomes(c, r) /\ UNCHANGED <<now, layers, refresh, saving>>
    BY DEF OriginReads
  <1> HIDE DEF r
  <1> QED BY <1>3, <1>4, UnderWayStep

LEMMA OriginAnswersSteady ==
    ASSUME Inv, Calm, SteadyParts, NEW c \in Calls, OriginAnswers(c)
    PROVE  SteadyParts'
  <1> DEFINE asof == call[c].asof
             s == Save(call[c].asof, call[c].end)
  <1>1. call[c] \in Fetch /\ call[c].stage = "fetch" /\ OfNow(call[c]) /\ asof # None
    BY Stages DEF Inv, OriginAnswers, SteadyParts, CallsOfNow
  <1>2. /\ asof = now /\ call[c].end = now + VBaseTtl /\ now \in Time
        /\ call[c].pod \in Pods /\ call[c].ttl \in 1 .. MemTtl
    BY <1>1 DEF OfNow, Fetch, Inv, TypeOK
  <1>3. asof \in Time /\ asof <= now /\ now <= asof + VBaseTtl + MemTtl
    BY <1>2 DEF Time
  <1>4. /\ Answer(c, asof, FALSE) /\ Store(call[c].pod, asof, call[c].ttl, FALSE)
        /\ saving' = IF UseVBase THEN saving \cup {s} ELSE saving
        /\ UNCHANGED <<now, vbase, refresh, unread>>
    <2>1. call[c].ttl # 0
      BY <1>2
    <2> QED BY <2>1 DEF OriginAnswers
  <1>5. WorkOfNow' /\ (UseVBase => Pending')
    <2>1. s.began = now /\ s.asof = now /\ s.end = now + VBaseTtl
      BY <1>2 DEF Save
    <2> HIDE DEF s
    <2> QED BY <1>4, <2>1 DEF SteadyParts, WorkOfNow, Pending
  <1> HIDE DEF asof, s
  <1> QED BY <1>2, <1>3, <1>4, <1>5, AnsweredStep

LEMMA RefreshSteady ==
    ASSUME Inv, Calm, SteadyParts, NEW f \in refresh,
           RefreshReads(f) \/ RefreshAnswers(f)
    PROVE  SteadyParts'
  <1>1. /\ f \in Refreshes /\ f.began = now /\ f.asof \in {None, now}
        /\ f.end = now + VBaseTtl
    BY DEF Inv, TypeOK, SteadyParts, WorkOfNow
  <1>2. Silent /\ UNCHANGED <<now, memory, vbase, call, unread>>
    BY DEF RefreshReads, RefreshAnswers, layers
  <1>3. CASE RefreshReads(f)
    <2> DEFINE r == [f EXCEPT !.asof = now]
    <2>1. r.began = now /\ r.asof = now /\ r.end = now + VBaseTtl
      BY <1>1 DEF Refreshes
    <2>2. refresh' = (refresh \ {f}) \cup {r} /\ saving' = saving
      BY <1>3 DEF RefreshReads
    <2> HIDE DEF r
    <2>3. WorkOfNow' /\ Pending'
      BY <1>2, <2>1, <2>2 DEF SteadyParts, WorkOfNow, Pending
    <2> QED BY <1>2, <2>3, BehindStep
  <1>4. CASE RefreshAnswers(f)
    <2> DEFINE s == Save(f.asof, f.end)
    <2>1. s.began = now /\ s.asof = now /\ s.end = now + VBaseTtl
      BY <1>1, <1>4 DEF Save, RefreshAnswers
    <2>2. refresh' = refresh \ {f} /\ saving' = saving \cup {s}
      BY <1>4 DEF RefreshAnswers
    <2> HIDE DEF s
    <2>3. WorkOfNow' /\ Pending'
      BY <1>2, <2>1, <2>2 DEF SteadyParts, WorkOfNow, Pending
    <2> QED BY <1>2, <2>3, BehindStep
  <1> QED BY <1>3, <1>4

\* A save that lands was read from the origin now: it outlives whatever it replaces.
LEMMA SaveLandsSteady ==
    ASSUME Inv, Calm, SteadyParts, NEW s \in saving, SaveLands(s)
    PROVE  SteadyParts'
  <1>1. s.asof = now /\ s.end = now + VBaseTtl /\ now \in Nat
    BY DEF SteadyParts, WorkOfNow, Inv, TypeOK, Time
  <1>2. /\ vbase' = [asof |-> s.asof, end |-> s.end] /\ saving' = saving \ {s}
        /\ Silent /\ UNCHANGED <<now, memory, call, refresh, unread>>
    BY DEF SaveLands
  <1>3. vbase' \in Entry /\ vbase' # None /\ vbase'.asof = now /\ vbase'.end = now + VBaseTtl
    BY <1>1, <1>2 DEF Inv, TypeOK, Saves, Entry
  <1>4. WorkOfNow'
    BY <1>2 DEF SteadyParts, WorkOfNow
  <1>5. EntryKept'
    BY <1>1, <1>2, <1>3 DEF EntryKept
  <1>6. CallsOfNow'
    <2> SUFFICES ASSUME NEW c \in Calls
                 PROVE  OfNow(call[c])'
      BY DEF CallsOfNow
    <2>1. OfNow(call[c])
      BY DEF SteadyParts, CallsOfNow
    <2>2. CASE call[c].stage = "asked" /\ call[c].seen # None
      <3>1. UseVBase /\ call[c] \in Looked /\ call[c].seen.end \in Nat
        BY <2>2, Stages, FoundType DEF Inv, End
      <3>2. Pods # {} /\ vbase # None /\ call[c].seen.end <= vbase.end
        BY <2>1, <2>2, <3>1 DEF OfNow, Looked
      <3>3. /\ vbase.end = vbase.asof + VBaseTtl /\ vbase.asof <= now
            /\ vbase.asof \in Nat
        BY <3>1, <3>2 DEF SteadyParts, EntryKept, Inv, TypeOK, Entry, Time
      <3>4. call[c].seen.end <= vbase'.end
        BY <1>1, <1>3, <3>1, <3>2, <3>3
      <3> QED BY <1>2, <1>3, <2>1, <2>2, <3>4 DEF OfNow
    <2>3. CASE ~(call[c].stage = "asked" /\ call[c].seen # None)
      BY <1>2, <2>1, <2>3 DEF OfNow
    <2> QED BY <2>2, <2>3
  <1>7. MemoryKept'
    <2>1. UseVBase => LivesPast(now)'
      BY <1>1, <1>2, <1>3, LifeLasts DEF LivesPast
    <2> QED BY <1>2, <1>3, <2>1, MemoryForward DEF SteadyParts
  <1> QED BY <1>2, <1>4, <1>5, <1>6, <1>7, SilentBound DEF SteadyParts

LEMMA EvictSteady ==
    ASSUME Inv, SteadyParts, NEW p \in Pods, Evict(p)
    PROVE  SteadyParts'
  <1>1. /\ Silent /\ UNCHANGED <<now, vbase, call, refresh, saving, unread>>
        /\ memory' = [memory EXCEPT ![p] = None]
    BY DEF Evict
  <1>2. CallsOfNow' /\ WorkOfNow' /\ EntryKept'
    BY <1>1 DEF SteadyParts, CallsOfNow, OfNow, WorkOfNow, EntryKept
  <1>3. MemoryKept'
    BY <1>1 DEF Inv, TypeOK, SteadyParts, MemoryKept, Kept, Pending, LivesPast, Visited,
                UnderWay
  <1> QED BY <1>1, <1>2, <1>3, SilentBound DEF SteadyParts

\* The clock moves when nothing is under way and every pod was read: the entry was
\* alive a memory TTL ago.
LEMMA TickSteady ==
    ASSUME Inv, Calm, SteadyParts, Tick
    PROVE  SteadyParts'
  <1>1. /\ now \in Nat /\ now' = now + 1 /\ unread = {} /\ unread' = Pods
        /\ Silent /\ UNCHANGED <<memory, vbase, call, refresh, saving>>
    BY DEF Inv, TypeOK, Tick, Time, Unread, Calm, layers
  <1>2. /\ refresh = {} /\ saving = {} /\ \A c \in Calls : ~UnderWay(c)
    BY <1>1 DEF Calm, Tick, InTime, SteadyParts, CallsOfNow, OfNow, WorkOfNow, UnderWay
  <1>3. ~Pending
    BY <1>2 DEF Pending
  <1>4. CallsOfNow' /\ WorkOfNow'
    BY <1>1, <1>2 DEF CallsOfNow, OfNow, WorkOfNow, UnderWay
  <1>5. EntryKept'
    <2> SUFFICES ASSUME UseVBase, vbase # None, Pods # {}
                 PROVE  /\ vbase.end = vbase.asof + VBaseTtl /\ vbase.asof <= now + 1
                        /\ now + 1 <= vbase.end + MemTtl
      BY <1>1 DEF EntryKept
    <2>1. /\ vbase.end = vbase.asof + VBaseTtl /\ vbase.asof <= now
          /\ vbase.asof \in Nat /\ vbase.end \in Nat
      BY DEF SteadyParts, EntryKept, Inv, TypeOK, Entry, Time, End
    <2>2. now < vbase.end + MemTtl
      BY <1>1, <1>3 DEF SteadyParts, MemoryKept, Visited
    <2> QED BY <1>1, <2>1, <2>2
  <1>6. MemoryKept'
    <2>1. ASSUME NEW p \in Pods, memory[p] # None
          PROVE  Kept(memory[p])'
      <3>1. Kept(memory[p]) /\ memory[p].at \in Nat
        BY <2>1 DEF SteadyParts, MemoryKept, Inv, TypeOK, Stored, Time
      <3> QED BY <1>1, <1>3, <3>1 DEF Kept, LivesPast
    <2> QED BY <1>1, <2>1 DEF MemoryKept
  <1> QED BY <1>1, <1>4, <1>5, <1>6, SilentBound DEF SteadyParts

LEMMA SteadyStep == Inv /\ SteadyInv /\ [Next]_vars => SteadyInv'
  <1> SUFFICES ASSUME Inv, Calm, SteadyParts, [Next]_vars
               PROVE  SteadyParts'
    BY DEF SteadyInv, Calm
  <1>1. CASE \E c \in Calls, p \in Pods : Hit(c, p) \/ Bypass(c, p)
    BY <1>1, HitSteady DEF Bypass, Calm
  <1>2. CASE \E c \in Calls, p \in Pods, ttl \in Ttls : Miss(c, p, ttl)
    BY <1>2, MissSteady
  <1>3. CASE \E c \in Calls : Read(c)
    BY <1>3, VBaseReadsSteady, NotFoundSteady, FoundSteady, OriginReadsSteady,
       OriginAnswersSteady DEF Read, CallFails, Calm
  <1>4. CASE \E f \in refresh : RefreshReads(f) \/ RefreshAnswers(f) \/ RefreshFails(f)
    BY <1>4, RefreshSteady DEF RefreshFails, Calm
  <1>5. CASE \E s \in saving : SaveLands(s) \/ SaveFails(s)
    BY <1>5, SaveLandsSteady DEF SaveFails, Calm
  <1>6. CASE \E p \in Pods : Evict(p)
    BY <1>6, EvictSteady
  <1>7. CASE Tick
    BY <1>7, TickSteady
  <1>8. CASE UNCHANGED vars
    <2>1. UNCHANGED <<now, memory, vbase, call, answer, refresh, saving, unread>>
      BY <1>8 DEF vars, layers
    <2> QED BY <2>1
        DEF SteadyParts, CallsOfNow, OfNow, WorkOfNow, EntryKept, MemoryKept, Kept,
            Pending, LivesPast, Visited, UnderWay, SteadyBound
  <1> QED BY <1>1, <1>2, <1>3, <1>4, <1>5, <1>6, <1>7, <1>8 DEF Next

(***************************************************************************)
(* For any pods, TTLs and number of reads: where every pod is read between *)
(* two ticks by way of the layers, nothing fails and calls take no time    *)
(* next to the TTLs, no answer is older than the VBase TTL and twice the   *)
(* memory TTL, though VBase serves entries past their end.                 *)
(***************************************************************************)
THEOREM SteadyAnswers == Spec => []SteadyBound
  <1>1. Spec => [](Inv /\ SteadyInv)
    BY Starts, InvStep, SteadyStarts, SteadyStep, PTL DEF Spec
  <1>2. SteadyInv => SteadyBound
    BY DEF SteadyInv, SteadyParts, SteadyBound, Calm
  <1> QED BY <1>1, <1>2, PTL

==============================================================================
