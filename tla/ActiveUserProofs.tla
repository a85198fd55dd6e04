-------------------------- MODULE ActiveUserProofs --------------------------
(***************************************************************************)
(* Proofs about ActiveUser, for any number of documents, sessions and      *)
(* switches: its type invariant, that a session keeps its pin as long as   *)
(* the shopper has not chosen, and that a transform after a clean switch   *)
(* serves what it switched to if no cache answers, or if its cost center   *)
(* is a new one.                                                           *)
(***************************************************************************)
EXTENDS ActiveUser, OrgSwitchProofs, WellFoundedInduction

(***************************************************************************)
(* A search result that is not empty has a first document.                 *)
(***************************************************************************)
LEMMA LowestIsOne ==
    ASSUME NEW S, S \subseteq Records, S # {}
    PROVE  Lowest(S) \in S
<1> DEFINE Ranks == {Rank[r] : r \in S}
           Less == {ss \in Nat \X Nat : ss[1] < ss[2]}
<1>1. Ranks \subseteq Nat /\ Ranks # {}
  BY RankAssumption
<1>2. IsWellFoundedOn(Less, Nat)
  BY NatLessThanWellFounded DEF OpToRel
<1>3. PICK m \in Ranks : \A n \in Ranks : ~(<<n, m>> \in Less)
  <2> HIDE DEF Ranks, Less
  <2> QED BY <1>1, <1>2, WFMin
<1>4. ASSUME NEW n \in Ranks PROVE m <= n
  <2>1. m \in Nat /\ n \in Nat
    BY <1>1
  <2>2. ~(n < m)
    BY <2>1, <1>3
  <2> QED BY <2>1, <2>2
<1>5. \E r \in S : \A q \in S : Rank[r] <= Rank[q]
  BY <1>3, <1>4
<1> QED BY <1>5 DEF Lowest

LEMMA ResolvedIsARecord ==
    ASSUME NEW k \in Keys
    PROVE  ActiveUserByEmail(k) \in Records
<1> DEFINE listed == {r \in Records : index[r]}
<1>1. listed \subseteq Records
  OBVIOUS
<1>2. CASE listed # {}
  BY <1>1, <1>2, LowestIsOne DEF ActiveUserByEmail
<1>3. CASE listed = {} /\ k[2] # None
  BY <1>3 DEF ActiveUserByEmail, Keys
<1>4. CASE listed = {} /\ k[2] = None
  BY <1>4, LowestIsOne, RankAssumption DEF ActiveUserByEmail
<1> QED BY <1>2, <1>3, <1>4

LEMMA StoreStep == [UserNext]_userVars => [Next]_vars
BY DEF UserNext, Switching, userVars

(***************************************************************************)
(* Seen without its readers, the store and its switches behave as in       *)
(* OrgSwitch.                                                              *)
(***************************************************************************)
THEOREM SwitchesAsSpecified == UserSpec => Spec
<1>1. UserInit => Init
  BY DEF UserInit
<1> QED BY <1>1, StoreStep, PTL DEF UserSpec, Spec

LEMMA UserTypeStep ==
    TypeOK /\ UserTypeOK /\ [UserNext]_userVars => UserTypeOK'
<1> SUFFICES ASSUME TypeOK, UserTypeOK, [UserNext]_userVars PROVE UserTypeOK'
  OBVIOUS
<1> USE DEF UserTypeOK
<1>a. last \in Requests \cup {None} /\ selection \in Records \cup {None}
  BY DEF TypeOK
<1>b. NoKey \in Keys
  BY DEF NoKey, Keys
<1>1. CASE Switching /\ UNCHANGED readerVars
  BY <1>1 DEF Switching, readerVars
<1>2. ASSUME NEW s \in Sessions, Start(s) PROVE UserTypeOK'
  <2>1. SessionKey(s) \in Keys
    BY DEF SessionKey, Keys, TypeOK
  <2> QED BY <1>2, <1>a, <2>1 DEF Start
<1>3. ASSUME NEW s \in Sessions, Hit(s) PROVE UserTypeOK'
  <2>1. found' \in [Sessions -> Records \cup {None}] /\ found'[s] \in Records
    BY <1>3 DEF Hit
  <2>2. \A t \in Sessions : stage'[t] = "finish" => found'[t] # None
    BY <1>3, <2>1, ShopperAssumption DEF Hit
  <2>3. CASE StartFetch(s)
    BY <1>3, <2>1, <2>2, <2>3 DEF Hit, StartFetch
  <2>4. CASE UNCHANGED <<fetch, fetchKey>>
    BY <1>3, <2>1, <2>2, <2>4 DEF Hit
  <2> QED BY <1>3, <2>3, <2>4 DEF Hit
<1>4. ASSUME NEW s \in Sessions, Miss(s) PROVE UserTypeOK'
  BY <1>4 DEF Miss, StartFetch
<1>5. ASSUME NEW s \in Sessions, NEW r \in Records, fetch[s] # "none", Answer(s, r),
             UNCHANGED <<pin, key, degraded, since>>
      PROVE  UserTypeOK'
  <2>1. cached' \in [Keys -> SUBSET Records]
    BY <1>5 DEF Answer, Remember
  <2>2. fetch' \in [Sessions -> {"none", "select", "search"}]
        /\ fetchKey' \in [Sessions -> Keys]
    BY <1>5, <1>b DEF Answer, EndFetch
  <2>3. CASE stage[s] = "wait"
    BY <1>5, <2>1, <2>2, <2>3, ShopperAssumption DEF Answer, EndFetch
  <2>4. CASE stage[s] # "wait"
    BY <1>5, <2>1, <2>2, <2>4 DEF Answer, EndFetch
  <2> QED BY <2>3, <2>4
<1>6. ASSUME NEW s \in Sessions, ReadSelection(s) PROVE UserTypeOK'
  <2>1. CASE selection # None /\ Answer(s, selection)
    BY <1>5, <1>6, <1>a, <2>1 DEF ReadSelection
  <2>2. CASE /\ fetch' = [fetch EXCEPT ![s] = "search"]
             /\ UNCHANGED <<found, stage, fetchKey, cached>>
    BY <1>6, <2>2 DEF ReadSelection
  <2> QED BY <1>6, <2>1, <2>2 DEF ReadSelection
<1>7. ASSUME NEW s \in Sessions, ReadSelectionFails(s) PROVE UserTypeOK'
  BY <1>7 DEF ReadSelectionFails
<1>8. ASSUME NEW s \in Sessions, Search(s) PROVE UserTypeOK'
  BY <1>5, <1>8, ResolvedIsARecord DEF Search
<1>9. ASSUME NEW s \in Sessions, SearchFails(s) PROVE UserTypeOK'
  <2>1. CASE stage[s] = "wait"
    BY <1>9, <1>b, <2>1 DEF SearchFails, EndFetch, End
  <2>2. CASE stage[s] # "wait"
    BY <1>9, <1>b, <2>2 DEF SearchFails, EndFetch
  <2> QED BY <2>1, <2>2
<1>10. ASSUME NEW s \in Sessions, Finish(s) PROVE UserTypeOK'
  BY <1>10, <1>b DEF Finish, End
<1>11. ASSUME NEW s \in Sessions, FinishFails(s) PROVE UserTypeOK'
  BY <1>11, <1>b DEF FinishFails, End
<1>12. ASSUME NEW k \in Keys, Expire(k) PROVE UserTypeOK'
  BY <1>12 DEF Expire
<1>14. CASE UNCHANGED userVars
  BY <1>14 DEF userVars, readerVars
<1> QED
  BY <1>1, <1>2, <1>3, <1>4, <1>6, <1>7, <1>8, <1>9, <1>10, <1>11, <1>12,
     <1>14
     DEF UserNext, Reading, Fetching, Transforming

LEMMA UserStarts == UserInit => UserTypeOK
<1> SUFFICES ASSUME UserInit PROVE UserTypeOK
  OBVIOUS
<1>1. pin \in [Sessions -> Records \cup {None}]
  BY PinsAssumption DEF UserInit
<1>2. NoKey \in Keys
  BY DEF NoKey, Keys
<1>3. cached \in [Keys -> SUBSET Records]
  BY DEF UserInit
<1> QED BY <1>1, <1>2, <1>3 DEF UserInit, UserTypeOK

(***************************************************************************)
(* Type correctness, in particular: a transform that is about to answer    *)
(* has resolved a document, and one that waits has a fetcher to wait for.  *)
(***************************************************************************)
THEOREM UserTypeCorrect == UserSpec => [](TypeOK /\ UserTypeOK)
<1>1. UserSpec => []TypeOK
  BY SwitchesAsSpecified, TypeCorrect, PTL
<1> QED BY <1>1, UserStarts, UserTypeStep, PTL DEF UserSpec

------------------------------------------------------------------------------
(***************************************************************************)
(* Until the first switch starts, nothing happens to the store at all.     *)
(***************************************************************************)
LEMMA QuietStore ==
    ASSUME TypeOK, QuietInv, [Next]_vars, last' = None
    PROVE  UNCHANGED <<index, active, selection, pc, inflight, last>>
<1>1. CASE UNCHANGED vars
  BY <1>1 DEF vars, storeVars, callVars, historyVars
<1>2. ASSUME NEW p \in Requests, NEW s \in Sessions \cup {None}, NEW r \in Records,
             Request(p, s, r)
      PROVE  FALSE
  BY <1>2, ShopperAssumption DEF Request
<1>3. CASE last # None
  <2>1. ASSUME NEW p \in Requests, Step(p) \/ Abort(p) PROVE last' = last
    BY <2>1 DEF Step, Lookup, Activate, ListActive, Deactivate, DeactivateFails,
                AwaitDeactivation, Select, SelectFails, Publish, PublishFails, Abort,
                historyVars
  <2>2. ASSUME NEW r \in Records, Reindex(r) PROVE last' = last
    BY <2>2 DEF Reindex, historyVars
  <2> QED BY <1>1, <1>2, <1>3, <2>1, <2>2 DEF Next, vars, historyVars
<1>4. CASE last = None
  <2>1. ASSUME NEW p \in Requests PROVE ~Step(p) /\ ~Abort(p)
    BY <1>4 DEF QuietInv, Step, Lookup, Activate, ListActive, Deactivate,
                DeactivateFails, AwaitDeactivation, Select, SelectFails, Publish,
                PublishFails, Abort, Running
  <2>2. ASSUME NEW r \in Records PROVE ~Reindex(r)
    BY <1>4 DEF QuietInv, Reindex
  <2> QED BY <1>1, <1>2, <2>1, <2>2 DEF Next
<1> QED BY <1>3, <1>4

LEMMA QuietStep == TypeOK /\ QuietInv /\ [Next]_vars => QuietInv'
BY QuietStore DEF QuietInv

(***************************************************************************)
(* While the store is quiet and no document is active, a fetcher resolves  *)
(* the pin of its key.                                                     *)
(***************************************************************************)
LEMMA ResolvesThePin ==
    ASSUME QuietInv, last = None, ~SomeActive, NEW k, k[2] # None
    PROVE  selection = None /\ ActiveUserByEmail(k) = k[2]
<1>1. {r \in Records : index[r]} = {}
  BY DEF QuietInv, SomeActive
<1> QED BY <1>1 DEF QuietInv, ActiveUserByEmail

LEMMA PinStep ==
    TypeOK /\ PinInv /\ [UserNext]_userVars => PinInv'
<1> SUFFICES ASSUME TypeOK, PinInv, [UserNext]_userVars
             PROVE  PinInv'
  OBVIOUS
<1>0. UserTypeOK' /\ QuietInv'
  BY StoreStep, UserTypeStep, QuietStep DEF PinInv
<1> SUFFICES KeyInv' /\ AnswerInv'
  BY <1>0 DEF PinInv
<1> USE DEF PinInv, UserTypeOK
<1>1. CASE Switching /\ UNCHANGED readerVars
  <2>1. KeyInv'
    BY <1>1 DEF KeyInv, readerVars
  <2>2. last' = None => UNCHANGED <<last, active>>
    BY <1>1, QuietStore, StoreStep
  <2> QED BY <1>1, <2>1, <2>2 DEF AnswerInv, SomeActive, readerVars
<1>2. CASE UNCHANGED userVars
  BY <1>2 DEF KeyInv, AnswerInv, SomeActive, userVars, readerVars, vars, storeVars,
              historyVars
<1>3. CASE Reading /\ UNCHANGED vars
  <2> USE DEF KeyInv
  <2>0. UNCHANGED <<last, active>>
    BY <1>3 DEF vars, storeVars, historyVars
  <2>1. ASSUME NEW s \in Sessions, Start(s) PROVE KeyInv' /\ AnswerInv'
    <3>1. KeyInv'
      BY <2>1 DEF Start, SessionKey
    <3> QED BY <2>0, <2>1, <3>1 DEF Start, AnswerInv, SomeActive
  <2>2. ASSUME NEW s \in Sessions, Hit(s) PROVE KeyInv' /\ AnswerInv'
    <3>1. PICK r \in cached[key[s]] : found' = [found EXCEPT ![s] = r]
      BY <2>2 DEF Hit
    <3>2. KeyInv'
      BY <2>2 DEF Hit, StartFetch
    <3>3. AnswerInv'
      BY <2>0, <2>2, <3>1 DEF Hit, AnswerInv, SomeActive
    <3> QED BY <3>2, <3>3
  <2>3. ASSUME NEW s \in Sessions, Miss(s) PROVE KeyInv' /\ AnswerInv'
    BY <2>0, <2>3 DEF Miss, StartFetch, AnswerInv, SomeActive
  <2>4. ASSUME NEW s \in Sessions, NEW r \in Records, Answer(s, r),
               UNCHANGED <<pin, key>>,
               last = None /\ ~SomeActive /\ fetchKey[s][2] # None
                   => r = fetchKey[s][2]
        PROVE  KeyInv' /\ AnswerInv'
    <3>1. KeyInv'
      BY <2>4 DEF Answer, EndFetch
    <3>2. SUFFICES ASSUME last = None, ~SomeActive PROVE AnswerInv'
      BY <2>0, <3>1 DEF AnswerInv, SomeActive
    <3>3. ASSUME NEW k \in Keys, k[2] # None PROVE cached'[k] \subseteq {k[2]}
      BY <2>4, <3>2, <3>3 DEF Answer, Remember, AnswerInv
    <3>4. ASSUME NEW t \in Sessions, stage'[t] = "finish", key[t][2] # None
          PROVE  found'[t] = key[t][2]
      <4>1. CASE t = s /\ stage[s] = "wait"
        BY <2>4, <3>2, <3>4, <4>1 DEF Answer
      <4>2. CASE ~(t = s /\ stage[s] = "wait")
        BY <2>4, <3>2, <3>4, <4>2 DEF Answer, AnswerInv
      <4> QED BY <4>1, <4>2
    <3> QED BY <2>4, <3>3, <3>4 DEF AnswerInv
  <2>5. ASSUME NEW s \in Sessions, ReadSelection(s) PROVE KeyInv' /\ AnswerInv'
    <3>1. CASE selection # None /\ Answer(s, selection)
      <4>1. last # None /\ selection \in Records
        BY <3>1 DEF QuietInv, TypeOK
      <4> QED BY <2>4, <2>5, <3>1, <4>1 DEF ReadSelection
    <3>2. CASE /\ fetch' = [fetch EXCEPT ![s] = "search"]
               /\ UNCHANGED <<found, stage, fetchKey, cached>>
      BY <2>0, <2>5, <3>2 DEF ReadSelection, AnswerInv, SomeActive
    <3> QED BY <2>5, <3>1, <3>2 DEF ReadSelection
  <2>6. ASSUME NEW s \in Sessions, ReadSelectionFails(s) PROVE KeyInv' /\ AnswerInv'
    BY <2>0, <2>6 DEF ReadSelectionFails, AnswerInv, SomeActive
  <2>7. ASSUME NEW s \in Sessions, Search(s) PROVE KeyInv' /\ AnswerInv'
    <3>1. fetchKey[s] \in Keys
      OBVIOUS
    <3> QED BY <2>4, <2>7, <3>1, ResolvesThePin, ResolvedIsARecord DEF Search
  <2>8. ASSUME NEW s \in Sessions, SearchFails(s) PROVE KeyInv' /\ AnswerInv'
    <3>1. CASE stage[s] = "wait"
      BY <2>0, <2>8, <3>1 DEF SearchFails, EndFetch, End, AnswerInv, SomeActive
    <3>2. CASE stage[s] # "wait"
      BY <2>0, <2>8, <3>2 DEF SearchFails, EndFetch, AnswerInv, SomeActive
    <3> QED BY <3>1, <3>2
  <2>9. ASSUME NEW s \in Sessions, Finish(s) PROVE KeyInv' /\ AnswerInv'
    BY <2>0, <2>9 DEF Finish, End, AnswerInv, SomeActive
  <2>10. ASSUME NEW s \in Sessions, FinishFails(s) PROVE KeyInv' /\ AnswerInv'
    BY <2>0, <2>10 DEF FinishFails, End, AnswerInv, SomeActive
  <2>11. ASSUME NEW k \in Keys, Expire(k) PROVE KeyInv' /\ AnswerInv'
    BY <2>0, <2>11 DEF Expire, AnswerInv, SomeActive
  <2> QED
    BY <1>3, <2>1, <2>2, <2>3, <2>5, <2>6, <2>7, <2>8, <2>9, <2>10,
       <2>11
       DEF Reading, Fetching, Transforming
<1> QED BY <1>1, <1>2, <1>3 DEF UserNext

LEMMA PinInvariant == UserSpec => [](TypeOK /\ PinInv)
<1>1. UserInit => PinInv
  <2> SUFFICES ASSUME UserInit PROVE QuietInv /\ KeyInv /\ AnswerInv /\ UserTypeOK
    BY DEF PinInv
  <2>1. QuietInv
    BY DEF UserInit, Init, QuietInv
  <2>2. KeyInv /\ AnswerInv
    BY DEF UserInit, KeyInv, AnswerInv
  <2>3. UserTypeOK
    BY UserStarts
  <2> QED BY <2>1, <2>2, <2>3
<1>2. UserSpec => []TypeOK
  BY UserTypeCorrect, PTL
<1> QED BY <1>1, <1>2, PinStep, PTL DEF UserSpec

(***************************************************************************)
(* A session keeps its organization while the shopper has never chosen and *)
(* no document is active, whoever shares the cache with it.                *)
(***************************************************************************)
THEOREM PinIsKept == UserSpec => PinHolds
<1>1. TypeOK /\ PinInv /\ [UserNext]_userVars =>
        [\A s \in Sessions :
            last = None /\ ~SomeActive /\ pin[s] # None => pin'[s] = pin[s]]_userVars
  <2> SUFFICES ASSUME TypeOK, PinInv, [UserNext]_userVars, userVars' # userVars,
                      last = None, ~SomeActive, NEW s \in Sessions, pin[s] # None
               PROVE  pin'[s] = pin[s]
    OBVIOUS
  <2> USE DEF PinInv, UserTypeOK
  <2>1. ASSUME NEW t \in Sessions, Finish(t) PROVE pin'[s] = pin[s]
    <3>1. CASE t = s
      BY <2>1, <3>1 DEF Finish, KeyInv, AnswerInv
    <3>2. CASE t # s
      BY <2>1, <3>2 DEF Finish
    <3> QED BY <3>1, <3>2
  <2>2. CASE Switching /\ UNCHANGED readerVars
    BY <2>2 DEF readerVars
  <2>3. ASSUME NEW t \in Sessions, Start(t) \/ Fetching(t) \/ Hit(t) \/ Miss(t) \/ FinishFails(t)
        PROVE  pin' = pin
    BY <2>3 DEF Start, Hit, Miss, FinishFails, Fetching, ReadSelection,
                ReadSelectionFails, Search, SearchFails
  <2>4. ASSUME NEW k \in Keys, Expire(k) PROVE pin' = pin
    BY <2>4 DEF Expire
  <2> QED
    BY <2>1, <2>2, <2>3, <2>4 DEF UserNext, Reading, Transforming
<1> QED BY <1>1, PinInvariant, PTL DEF UserSpec, PinHolds

------------------------------------------------------------------------------
(***************************************************************************)
(* What a step of the store leaves of a switch that is under way or over.  *)
(***************************************************************************)
Published == {"publish", "done", "failed"}

LEMMA SwitchMoves ==
    ASSUME TypeOK, [Next]_vars, NEW q \in Requests, pc[q] # "idle"
    PROVE  /\ pc'[q] # "idle" /\ target'[q] = target[q]
           /\ pc[q] \in Published => pc'[q] \in Published
           /\ pc[q] = "done" => pc'[q] = "done"
           /\ pc'[q] \in Published \ {"failed"} => pc[q] # "lookup"
           /\ pc[q] # "lookup" => keyed'[q] = keyed[q]
<1> USE DEF TypeOK, Published, Goto, storeVars, callVars, historyVars
<1>1. ASSUME NEW p \in Requests, NEW s \in Sessions \cup {None}, NEW r \in Records,
             Request(p, s, r)
      PROVE  pc'[q] = pc[q] /\ target'[q] = target[q] /\ keyed'[q] = keyed[q]
  BY <1>1 DEF Request
<1>2. ASSUME NEW p \in Requests, Lookup(p) PROVE
        /\ target'[q] = target[q] /\ (p # q => pc'[q] = pc[q] /\ keyed'[q] = keyed[q])
        /\ p = q => pc[q] = "lookup" /\ pc'[q] = "activate"
  BY <1>2 DEF Lookup
<1>3. ASSUME NEW p \in Requests, Activate(p) \/ ListActive(p) \/ AwaitDeactivation(p) PROVE
        /\ target'[q] = target[q] /\ keyed'[q] = keyed[q] /\ (p # q => pc'[q] = pc[q])
        /\ p = q => /\ pc[q] \in {"activate", "list", "deactivate"}
                    /\ pc'[q] \in {"list", "deactivate", "select"}
  BY <1>3 DEF Activate, ListActive, AwaitDeactivation
<1>4. ASSUME NEW p \in Requests, NEW r \in Records, Deactivate(p, r) \/ DeactivateFails(p, r)
      PROVE  pc'[q] = pc[q] /\ target'[q] = target[q] /\ keyed'[q] = keyed[q]
  BY <1>4 DEF Deactivate, DeactivateFails
<1>5. ASSUME NEW p \in Requests, Select(p) \/ SelectFails(p) PROVE
        /\ target'[q] = target[q] /\ keyed'[q] = keyed[q] /\ (p # q => pc'[q] = pc[q])
        /\ p = q => pc[q] = "select" /\ pc'[q] \in {"publish", "done"}
  BY <1>5 DEF Select, SelectFails, AfterSelect
<1>6. ASSUME NEW p \in Requests, Publish(p) \/ PublishFails(p) PROVE
        /\ target'[q] = target[q] /\ keyed'[q] = keyed[q] /\ (p # q => pc'[q] = pc[q])
        /\ p = q => pc[q] = "publish" /\ pc'[q] \in {"publish", "done"}
  BY <1>6 DEF Publish, PublishFails
<1>7. ASSUME NEW p \in Requests, Abort(p) PROVE
        /\ target'[q] = target[q] /\ keyed'[q] = keyed[q] /\ (p # q => pc'[q] = pc[q])
        /\ p = q => pc[q] # "done" /\ pc'[q] = "failed"
  BY <1>7 DEF Abort, Running, Ended
<1>8. ASSUME NEW r \in Records, Reindex(r)
      PROVE  pc'[q] = pc[q] /\ target'[q] = target[q] /\ keyed'[q] = keyed[q]
  BY <1>8 DEF Reindex
<1>9. CASE UNCHANGED vars
  BY <1>9 DEF vars
<1> HIDE DEF TypeOK, Goto, storeVars, callVars, historyVars
<1> QED
  BY <1>1, <1>2, <1>3, <1>4, <1>5, <1>6, <1>7, <1>8, <1>9 DEF Next, Step

\* History turns over with a new switch and only then.
LEMMA HistoryMoves ==
    ASSUME TypeOK, [Next]_vars
    PROVE  \/ last' = last /\ (clean' => clean) /\ target' = target
           \/ last' \in Requests /\ pc[last'] = "idle" /\ pc'[last'] = "lookup"
<1>1. ASSUME NEW p \in Requests, NEW s \in Sessions \cup {None}, NEW r \in Records,
             Request(p, s, r)
      PROVE  last' \in Requests /\ pc[last'] = "idle" /\ pc'[last'] = "lookup"
  BY <1>1 DEF Request, Goto, TypeOK
<1>2. ASSUME NEW p \in Requests, Step(p) \/ Abort(p)
      PROVE  last' = last /\ (clean' => clean) /\ target' = target
  BY <1>2 DEF Step, Lookup, Activate, ListActive, Deactivate, DeactivateFails,
              AwaitDeactivation, Select, SelectFails, Publish, PublishFails, Abort,
              Fault, callVars, historyVars
<1>3. ASSUME NEW r \in Records, Reindex(r)
      PROVE  last' = last /\ clean' = clean /\ target' = target
  BY <1>3 DEF Reindex, callVars, historyVars
<1>4. CASE UNCHANGED vars
  BY <1>4 DEF vars, callVars, historyVars
<1> QED BY <1>1, <1>2, <1>3, <1>4 DEF Next

\* The selection document names the target of a clean switch that is published.
LEMMA PublishedIsSelected ==
    ASSUME TypeOK, SettleInv, clean, keyed[last], pc[last] \in {"publish", "done"}
    PROVE  /\ last \in Requests /\ target[last] \in Records /\ target[last] # None
           /\ selection = target[last]
<1>1. last \in Requests /\ pc[last] # "idle"
  BY DEF SettleInv, AloneInv
<1>2. target[last] \in Records /\ target[last] # None
  BY <1>1, ShopperAssumption DEF TypeOK
<1>3. selection = target[last]
  BY DEF SettleInv, CleanSwitchSettles
<1> QED BY <1>1, <1>2, <1>3

LEMMA SinceStep ==
    TypeOK /\ SettleInv /\ UserTypeOK /\ SinceInv /\ [UserNext]_userVars => SinceInv'
<1> SUFFICES ASSUME TypeOK, SettleInv, UserTypeOK, SinceInv, [UserNext]_userVars
             PROVE  SinceInv'
  OBVIOUS
<1>1. CASE Switching /\ UNCHANGED readerVars
  <2> SUFFICES ASSUME NEW s \in Sessions, since[s] # None
               PROVE  /\ pc'[since[s]] # "idle"
                      /\ since[s] = last' /\ clean' =>
                            /\ pc'[last'] = "done" /\ keyed'[last']
                            /\ key[s][1] = CostOf[target'[last']]
                            /\ stage[s] = "wait" /\ ~degraded' => fetch[s] = "select"
    BY <1>1 DEF SinceInv, readerVars
  <2>1. [Next]_vars /\ since[s] \in Requests /\ pc[since[s]] # "idle"
    BY StoreStep DEF UserTypeOK, SinceInv
  <2>2. pc'[since[s]] # "idle"
    BY <2>1, SwitchMoves
  <2>3. ASSUME since[s] = last', clean'
        PROVE  last' = last /\ clean /\ since[s] = last
    BY <2>1, <2>3, HistoryMoves
  <2>4. ASSUME since[s] = last', clean'
        PROVE  /\ pc'[last'] = "done" /\ keyed'[last']
               /\ key[s][1] = CostOf[target'[last']]
    BY <2>1, <2>3, <2>4, SwitchMoves DEF SinceInv, Published
  <2>5. ASSUME since[s] = last', clean', stage[s] = "wait", ~degraded'
        PROVE  fetch[s] = "select"
    <3>1. ~degraded
      BY <1>1, <2>3, <2>5 DEF Switching
    <3> QED BY <2>3, <2>5, <3>1 DEF SinceInv
  <2> QED BY <2>2, <2>4, <2>5
<1>2. CASE UNCHANGED userVars
  BY <1>2 DEF SinceInv, userVars, readerVars, vars, storeVars, callVars, historyVars
<1>3. CASE Reading /\ UNCHANGED vars
  <2>0. UNCHANGED <<pc, last, clean, keyed, target>>
    BY <1>3 DEF vars, callVars, historyVars
  <2> USE DEF SinceInv, UserTypeOK
  <2>1. ASSUME NEW s \in Sessions, Start(s) PROVE SinceInv'
    <3>1. ASSUME since'[s] # None
          PROVE  /\ since'[s] = last /\ pc[last] = "done" /\ keyed[last] /\ last # None
                 /\ currentCost[s] = CostOf[target[last]]
      <4>1. since'[s] = last /\ SwitchedCleanly /\ caller[last] = s
        BY <2>1, <3>1 DEF Start
      <4>2. s # None
        BY ShopperAssumption
      <4> QED
        BY <4>1, <4>2, <3>1 DEF SwitchedCleanly, SettleInv, CleanSwitchSettles
    <3>2. key'[s][1] = currentCost[s] /\ stage'[s] # "wait"
      BY <2>1 DEF Start, SessionKey
    <3>3. \A t \in Sessions \ {s} : since'[t] = since[t] /\ key'[t] = key[t] /\ stage'[t] = stage[t]
      BY <2>1 DEF Start
    <3>4. UNCHANGED <<fetch, degraded>>
      BY <2>1 DEF Start
    <3> QED BY <2>0, <3>1, <3>2, <3>3, <3>4
  <2>2. ASSUME NEW s \in Sessions, Hit(s) PROVE SinceInv'
    BY <2>0, <2>2 DEF Hit, StartFetch
  <2>3. ASSUME NEW s \in Sessions, Miss(s) PROVE SinceInv'
    BY <2>0, <2>3 DEF Miss, StartFetch
  <2>4. ASSUME NEW s \in Sessions, NEW r, Answer(s, r), UNCHANGED <<key, degraded, since>>
        PROVE  SinceInv'
    BY <2>0, <2>4 DEF Answer, EndFetch
  <2>5. ASSUME NEW s \in Sessions, ReadSelection(s) PROVE SinceInv'
    <3>1. CASE selection # None /\ Answer(s, selection)
      BY <2>4, <2>5, <3>1 DEF ReadSelection
    <3>2. CASE /\ selection = None
               /\ fetch' = [fetch EXCEPT ![s] = "search"]
               /\ UNCHANGED <<found, stage, fetchKey, cached>>
      <4>1. ~(since[s] = last /\ since[s] # None /\ clean)
        BY <3>2, PublishedIsSelected
      <4> QED BY <2>0, <2>5, <3>2, <4>1 DEF ReadSelection
    <3> QED BY <2>5, <3>1, <3>2 DEF ReadSelection
  <2>6. ASSUME NEW s \in Sessions, ReadSelectionFails(s) PROVE SinceInv'
    BY <2>0, <2>6 DEF ReadSelectionFails
  <2>7. ASSUME NEW s \in Sessions, Search(s) PROVE SinceInv'
    BY <2>4, <2>7 DEF Search
  <2>8. ASSUME NEW s \in Sessions, SearchFails(s) PROVE SinceInv'
    <3>1. CASE stage[s] = "wait"
      BY <2>0, <2>8, <3>1 DEF SearchFails, EndFetch, End
    <3>2. CASE stage[s] # "wait"
      BY <2>0, <2>8, <3>2 DEF SearchFails, EndFetch
    <3> QED BY <3>1, <3>2
  <2>9. ASSUME NEW s \in Sessions, Finish(s) \/ FinishFails(s) PROVE SinceInv'
    BY <2>0, <2>9 DEF Finish, FinishFails, End
  <2>10. ASSUME NEW k \in Keys, Expire(k) PROVE SinceInv'
    BY <2>0, <2>10 DEF Expire
  <2> QED
    BY <1>3, <2>1, <2>2, <2>3, <2>5, <2>6, <2>7, <2>8, <2>9, <2>10
       DEF Reading, Fetching, Transforming
<1> QED BY <1>1, <1>2, <1>3 DEF UserNext

LEMMA SinceInvariant == UserSpec => [](TypeOK /\ SettleInv /\ UserTypeOK /\ SinceInv)
<1>1. UserInit => SinceInv
  BY DEF UserInit, SinceInv
<1>2. UserSpec => [](TypeOK /\ SettleInv /\ UserTypeOK)
  BY SwitchesAsSpecified, SettleInvariant, UserTypeCorrect, PTL
<1> QED BY <1>1, <1>2, SinceStep, PTL DEF UserSpec

(***************************************************************************)
(* A transform that begins after a clean switch and is not answered by the *)
(* cache serves the document switched to, for any number of documents,     *)
(* sessions and switches before it: the fetcher it waits for still reads   *)
(* the selection, which names that document.                               *)
(***************************************************************************)
THEOREM MissesReadTheSwitch == UserSpec => MissReadsYourSwitch
<1>1. TypeOK /\ SettleInv /\ UserTypeOK /\ SinceInv /\ [UserNext]_userVars =>
        [\A s \in Sessions :
            stage[s] = "wait" /\ stage'[s] = "finish" /\ since[s] # None
                /\ since[s] = last /\ clean /\ ~degraded
            => found'[s] = target[last]]_userVars
  <2> SUFFICES ASSUME TypeOK, SettleInv, UserTypeOK, SinceInv, [UserNext]_userVars,
                      NEW s \in Sessions, stage[s] = "wait", stage'[s] = "finish",
                      since[s] # None, since[s] = last, clean, ~degraded
               PROVE  found'[s] = target[last]
    OBVIOUS
  <2> USE DEF UserTypeOK
  <2>1. fetch[s] = "select" /\ selection = target[last] /\ selection # None
    BY PublishedIsSelected DEF SinceInv
  <2>2. CASE ReadSelection(s)
    BY <2>1, <2>2 DEF ReadSelection, Answer
  <2>3. ASSUME NEW t \in Sessions, t # s, Fetching(t) \/ Transforming(t) \/ Start(t)
        PROVE  stage'[s] = stage[s]
    BY <2>3 DEF Fetching, ReadSelection, ReadSelectionFails, Search, SearchFails,
                Answer, EndFetch, End, Transforming, Hit, Miss, Finish, FinishFails,
                Start
  <2>4. CASE ReadSelectionFails(s) \/ Search(s) \/ SearchFails(s) \/ Transforming(s) \/ Start(s)
    BY <2>1, <2>4 DEF ReadSelectionFails, Search, SearchFails, Transforming, Hit,
                      Miss, Finish, FinishFails, Start
  <2>5. CASE UNCHANGED readerVars
    BY <2>5 DEF readerVars
  <2>6. ASSUME NEW k \in Keys, Expire(k) PROVE FALSE
    BY <2>6 DEF Expire
  <2> QED
    BY <2>2, <2>3, <2>4, <2>5, <2>6 DEF UserNext, Reading, Fetching, userVars
<1> QED BY <1>1, SinceInvariant, PTL DEF UserSpec, MissReadsYourSwitch

------------------------------------------------------------------------------
(***************************************************************************)
(* Cost centers visited.  A cost center once published stays visited, and  *)
(* a session is at one that some switch has published.                     *)
(***************************************************************************)
LEMMA VisitedStays ==
    ASSUME TypeOK, [Next]_vars, NEW c, Visited(c)
    PROVE  c = None \/ \E q \in Requests : pc'[q] \in Published /\ CostOf[target'[q]] = c
<1> SUFFICES ASSUME NEW q \in Requests, pc[q] \in Published, CostOf[target[q]] = c
             PROVE  pc'[q] \in Published /\ CostOf[target'[q]] = c
  BY DEF Visited, Published
<1> QED BY SwitchMoves DEF Published

LEMMA CostMoves ==
    ASSUME TypeOK, [Next]_vars, NEW s \in Sessions
    PROVE  \/ currentCost'[s] = currentCost[s]
           \/ \E q \in Requests :
                 pc'[q] \in Published /\ CostOf[target'[q]] = currentCost'[s]
<1> USE DEF TypeOK, Published, Goto, storeVars, callVars
<1>1. ASSUME NEW p \in Requests, Publish(p) \/ PublishFails(p) PROVE
        \/ currentCost'[s] = currentCost[s]
        \/ pc'[p] \in Published /\ CostOf[target'[p]] = currentCost'[s]
  BY <1>1 DEF Publish, PublishFails
<1>2. ASSUME NEW p \in Requests, Abort(p) PROVE
        \/ currentCost'[s] = currentCost[s]
        \/ pc'[p] \in Published /\ CostOf[target'[p]] = currentCost'[s]
  BY <1>2 DEF Abort
<1>3. ASSUME NEW p \in Requests,
             \/ \E t \in Sessions \cup {None}, r \in Records : Request(p, t, r)
             \/ Lookup(p) \/ Activate(p) \/ ListActive(p)
             \/ \E r \in Records : Deactivate(p, r) \/ DeactivateFails(p, r)
             \/ AwaitDeactivation(p) \/ Select(p) \/ SelectFails(p)
      PROVE  currentCost'[s] = currentCost[s]
  BY <1>3 DEF Request, Lookup, Activate, ListActive, Deactivate, DeactivateFails,
              AwaitDeactivation, Select, SelectFails
<1>4. ASSUME NEW r \in Records, Reindex(r) PROVE currentCost'[s] = currentCost[s]
  BY <1>4 DEF Reindex
<1>5. CASE UNCHANGED vars
  BY <1>5 DEF vars
<1> HIDE DEF TypeOK, Published, Goto, storeVars, callVars
<1> QED
  BY <1>1, <1>2, <1>3, <1>4, <1>5 DEF Next, Step

LEMMA VisitedStep ==
    TypeOK /\ UserTypeOK /\ VisitedInv /\ [UserNext]_userVars => VisitedInv'
<1> SUFFICES ASSUME TypeOK, UserTypeOK, VisitedInv, [UserNext]_userVars
             PROVE  VisitedInv'
  OBVIOUS
<1> USE DEF UserTypeOK
<1>1. CASE Switching /\ UNCHANGED readerVars
  <2>0. [Next]_vars
    BY StoreStep
  <2>1. ASSUME NEW c, Visited(c)
        PROVE  c = None \/ \E q \in Requests : pc'[q] \in Published /\ CostOf[target'[q]] = c
    BY <2>0, <2>1, VisitedStays
  <2>2. ASSUME NEW s \in Sessions
        PROVE  \/ currentCost'[s] = None
               \/ \E q \in Requests : pc'[q] \in Published /\ CostOf[target'[q]] = currentCost'[s]
    BY <2>0, <2>1, CostMoves DEF VisitedInv
  <2>3. ASSUME NEW s \in Sessions
        PROVE  /\ \/ key[s][1] = None
                  \/ \E q \in Requests : pc'[q] \in Published /\ CostOf[target'[q]] = key[s][1]
               /\ \/ fetchKey[s][1] = None
                  \/ \E q \in Requests : pc'[q] \in Published /\ CostOf[target'[q]] = fetchKey[s][1]
    BY <2>1 DEF VisitedInv
  <2>4. ASSUME NEW k \in Keys, cached[k] # {}
        PROVE  k[1] = None \/ \E q \in Requests : pc'[q] \in Published /\ CostOf[target'[q]] = k[1]
    BY <2>1, <2>4 DEF VisitedInv
  <2> QED BY <1>1, <2>2, <2>3, <2>4 DEF VisitedInv, Visited, Published, readerVars
<1>2. CASE UNCHANGED userVars
  BY <1>2 DEF VisitedInv, Visited, userVars, readerVars, vars, storeVars, callVars
<1>3. CASE Reading /\ UNCHANGED vars
  <2> DEFINE Was(c) == Visited(c)
  <2>N. NoKey[1] = None /\ Was(None)
    BY DEF NoKey, Visited
  <2>P. /\ \A s \in Sessions : Was(currentCost[s]) /\ Was(key[s][1]) /\ Was(fetchKey[s][1])
        /\ \A k \in Keys : cached[k] # {} => Was(k[1])
    BY DEF VisitedInv
  <2> HIDE DEF Was
  <2> SUFFICES
        /\ \A s \in Sessions : Was(key'[s][1]) /\ Was(fetchKey'[s][1])
        /\ \A k \in Keys : cached'[k] # {} => Was(k[1])
    <3>1. UNCHANGED <<currentCost, pc, target>>
      BY <1>3 DEF vars, storeVars, callVars
    <3> QED BY <2>P, <3>1 DEF VisitedInv, Was, Visited
  <2>1. ASSUME NEW s \in Sessions, Start(s)
        PROVE  /\ \A t \in Sessions : Was(key'[t][1]) /\ Was(fetchKey'[t][1])
               /\ \A k \in Keys : cached'[k] # {} => Was(k[1])
    BY <2>1, <2>P DEF Start, SessionKey
  <2>2. ASSUME NEW s \in Sessions, Hit(s) \/ Miss(s)
        PROVE  /\ \A t \in Sessions : Was(key'[t][1]) /\ Was(fetchKey'[t][1])
               /\ \A k \in Keys : cached'[k] # {} => Was(k[1])
    BY <2>2, <2>P DEF Hit, Miss, StartFetch
  <2>3. ASSUME NEW s \in Sessions, NEW r, Answer(s, r), UNCHANGED key
        PROVE  /\ \A t \in Sessions : Was(key'[t][1]) /\ Was(fetchKey'[t][1])
               /\ \A k \in Keys : cached'[k] # {} => Was(k[1])
    BY <2>3, <2>P, <2>N DEF Answer, EndFetch, Remember
  <2>4. ASSUME NEW s \in Sessions, Fetching(s)
        PROVE  /\ \A t \in Sessions : Was(key'[t][1]) /\ Was(fetchKey'[t][1])
               /\ \A k \in Keys : cached'[k] # {} => Was(k[1])
    <3>1. CASE \E r : Answer(s, r) /\ UNCHANGED key
      BY <2>3, <3>1
    <3>2. CASE UNCHANGED <<key, fetchKey, cached>>
      BY <2>P, <3>2
    <3>3. CASE SearchFails(s)
      BY <2>P, <2>N, <3>3 DEF SearchFails, EndFetch, End
    <3> QED
      BY <2>4, <3>1, <3>2, <3>3 DEF Fetching, ReadSelection, ReadSelectionFails, Search
  <2>5. ASSUME NEW s \in Sessions, Finish(s) \/ FinishFails(s)
        PROVE  /\ \A t \in Sessions : Was(key'[t][1]) /\ Was(fetchKey'[t][1])
               /\ \A k \in Keys : cached'[k] # {} => Was(k[1])
    BY <2>5, <2>P, <2>N DEF Finish, FinishFails, End
  <2>6. ASSUME NEW k \in Keys, Expire(k)
        PROVE  /\ \A t \in Sessions : Was(key'[t][1]) /\ Was(fetchKey'[t][1])
               /\ \A j \in Keys : cached'[j] # {} => Was(j[1])
    BY <2>6, <2>P DEF Expire
  <2> QED BY <1>3, <2>1, <2>2, <2>4, <2>5, <2>6 DEF Reading, Transforming
<1> QED BY <1>1, <1>2, <1>3 DEF UserNext

\* If `last` goes where no other switch goes, a session can only be there once
\* `last` is published.
LEMMA NewCostIsPublished ==
    TypeOK /\ SettleInv /\ FirstVisit /\ clean /\ Visited(CostOf[target[last]])
    => pc[last] \in {"publish", "done"}
<1> SUFFICES ASSUME TypeOK, SettleInv, FirstVisit, clean, Visited(CostOf[target[last]])
             PROVE  pc[last] \in {"publish", "done"}
  OBVIOUS
<1>1. last \in Requests /\ pc[last] \notin {"idle", "failed"}
  BY DEF SettleInv, AloneInv
<1>2. target[last] \in Records /\ CostOf[target[last]] # None
  BY <1>1, ShopperAssumption DEF TypeOK
<1>3. PICK q \in Requests :
         pc[q] \in {"publish", "done", "failed"} /\ CostOf[target[q]] = CostOf[target[last]]
  BY <1>2 DEF Visited
<1>4. target[q] # None
  BY <1>3, ShopperAssumption DEF TypeOK
<1>5. q = last
  BY <1>3, <1>4 DEF FirstVisit
<1> QED BY <1>1, <1>3, <1>5

\* The answer of a fetcher for that cost center, and for any other.
LEMMA NewCostAnswer ==
    ASSUME TypeOK, UserTypeOK, SettleInv, KeyInv, NewCostInv, FirstVisit, clean,
           keyed[last], ~degraded, NEW s \in Sessions, NEW r, Answer(s, r),
           UNCHANGED <<vars, key, degraded>>,
           fetchKey[s][1] = CostOf[target[last]] => r = target[last]
    PROVE  NewCostInv'
<1> USE DEF UserTypeOK
<1>1. UNCHANGED <<target, last>> /\ CostOf[target[last]] # None
  <2>1. last \in Requests /\ pc[last] # "idle"
    BY DEF SettleInv, AloneInv
  <2>2. CostOf[target[last]] # None
    BY <2>1, ShopperAssumption DEF TypeOK
  <2> QED BY <2>2 DEF vars, callVars, historyVars
<1>2. ASSUME NEW k \in Keys, k[1] = CostOf[target[last]]
      PROVE  cached'[k] \subseteq {target[last]}
  BY <1>2 DEF Answer, Remember, NewCostInv
<1>3. ASSUME NEW t \in Sessions, key[t][1] = CostOf[target[last]], stage'[t] = "finish"
      PROVE  found'[t] = target[last]
  <2>1. CASE t = s /\ stage[s] = "wait"
    BY <1>3, <2>1 DEF Answer, KeyInv
  <2>2. CASE ~(t = s /\ stage[s] = "wait")
    BY <1>3, <2>2 DEF Answer, NewCostInv
  <2> QED BY <2>1, <2>2
<1>4. ASSUME NEW t \in Sessions, fetchKey'[t][1] = CostOf[target[last]]
      PROVE  fetch'[t] = "select"
  <2>1. t # s
    BY <1>1, <1>4 DEF Answer, EndFetch, NoKey
  <2> QED BY <1>4, <2>1 DEF Answer, EndFetch, NewCostInv
<1> QED BY <1>1, <1>2, <1>3, <1>4 DEF NewCostInv

LEMMA NewCostStep ==
    TypeOK /\ TypeOK' /\ SettleInv /\ SettleInv' /\ UserTypeOK /\ KeyInv
        /\ VisitedInv /\ VisitedInv' /\ NewCostInv /\ [UserNext]_userVars
    => NewCostInv'
<1> SUFFICES ASSUME TypeOK, TypeOK', SettleInv, SettleInv', UserTypeOK, KeyInv,
                    VisitedInv, VisitedInv', NewCostInv, [UserNext]_userVars,
                    FirstVisit', clean', keyed'[last'], ~degraded'
             PROVE  NewCostInv'
  BY DEF NewCostInv
<1> DEFINE C == CostOf[target[last]]
<1>1. CASE Switching /\ UNCHANGED readerVars
  <2>1. CASE pc'[last'] \notin {"publish", "done"}
    <3>1. ~Visited(CostOf[target[last]])'
      <4>1. (TypeOK /\ SettleInv /\ FirstVisit /\ clean /\ Visited(CostOf[target[last]])
               => pc[last] \in {"publish", "done"})'
        BY NewCostIsPublished, PTL
      <4> QED BY <2>1, <4>1
    <3>2. /\ \A k \in Keys : k[1] = CostOf[target'[last']] => cached'[k] = {}
          /\ \A s \in Sessions : /\ key'[s][1] # CostOf[target'[last']]
                                 /\ fetchKey'[s][1] # CostOf[target'[last']]
      BY <3>1 DEF VisitedInv, Visited
    <3> QED BY <3>2 DEF NewCostInv
  <2>2. CASE pc'[last'] \in {"publish", "done"}
    <3>1. [Next]_vars /\ last' = last /\ clean /\ target' = target
      BY <2>2, StoreStep, HistoryMoves
    <3>2. last \in Requests /\ pc[last] # "idle"
      BY <3>1 DEF SettleInv, AloneInv
    <3>3. keyed'[last] = keyed[last]
      BY <2>2, <3>1, <3>2, SwitchMoves DEF Published
    <3>4. FirstVisit /\ clean /\ keyed[last] /\ ~degraded
      BY <1>1, <3>1, <3>3 DEF FirstVisit, Switching
    <3> QED BY <1>1, <3>1, <3>4 DEF NewCostInv, readerVars
  <2> QED BY <2>1, <2>2
<1>2. CASE UNCHANGED userVars
  BY <1>2 DEF NewCostInv, FirstVisit, userVars, readerVars, vars, callVars, historyVars
<1>3. CASE Reading /\ UNCHANGED vars
  <2>0. UNCHANGED <<target, last, keyed, clean>> /\ FirstVisit /\ clean /\ keyed[last]
    BY <1>3 DEF vars, callVars, historyVars, FirstVisit
  <2>1. ~degraded
    BY <1>3 DEF Reading, Start, Fetching, ReadSelection, ReadSelectionFails, Search,
                SearchFails, Transforming, Hit, Miss, Finish, FinishFails, Expire
  <2>2. /\ \A k \in Keys : k[1] = C => cached[k] \subseteq {target[last]}
        /\ \A s \in Sessions :
              /\ key[s][1] = C /\ stage[s] = "finish" => found[s] = target[last]
              /\ fetchKey[s][1] = C => fetch[s] = "select"
    BY <2>0, <2>1 DEF NewCostInv
  <2>3. C # None
    <3>1. last \in Requests /\ pc[last] # "idle"
      BY <2>0 DEF SettleInv, AloneInv
    <3> QED BY <3>1, ShopperAssumption DEF TypeOK
  <2> SUFFICES
        /\ \A k \in Keys : k[1] = C => cached'[k] \subseteq {target[last]}
        /\ \A s \in Sessions :
              /\ key'[s][1] = C /\ stage'[s] = "finish" => found'[s] = target[last]
              /\ fetchKey'[s][1] = C => fetch'[s] = "select"
    BY <2>0 DEF NewCostInv
  <2> DEFINE Goal == /\ \A k \in Keys : k[1] = C => cached'[k] \subseteq {target[last]}
                     /\ \A s \in Sessions :
                           /\ key'[s][1] = C /\ stage'[s] = "finish" => found'[s] = target[last]
                           /\ fetchKey'[s][1] = C => fetch'[s] = "select"
  <2> USE DEF UserTypeOK
  <2> HIDE DEF C
  <2>4. ASSUME NEW s \in Sessions, Start(s) PROVE Goal
    BY <2>2, <2>4 DEF Start
  <2>5. ASSUME NEW s \in Sessions, Hit(s) PROVE Goal
    <3>1. PICK r \in cached[key[s]] : found' = [found EXCEPT ![s] = r]
      BY <2>5 DEF Hit
    <3>2. key[s] \in Keys
      OBVIOUS
    <3> QED BY <2>2, <2>5, <3>1, <3>2 DEF Hit, StartFetch
  <2>6. ASSUME NEW s \in Sessions, Miss(s) PROVE Goal
    BY <2>2, <2>6 DEF Miss, StartFetch
  <2>7. ASSUME NEW s \in Sessions, NEW r, Answer(s, r), UNCHANGED <<key, degraded>>,
               fetchKey[s][1] = C => r = target[last]
        PROVE  Goal
    <3>1. NewCostInv'
      BY <1>3, <2>0, <2>1, <2>7, NewCostAnswer DEF C
    <3> QED BY <2>0, <3>1 DEF NewCostInv, C
  <2>8. ASSUME NEW s \in Sessions, ReadSelection(s) PROVE Goal
    <3>1. ASSUME fetchKey[s][1] = C
          PROVE  selection = target[last] /\ target[last] # None
      <4>1. Visited(CostOf[target[last]])
        BY <3>1 DEF VisitedInv, C
      <4>2. pc[last] \in {"publish", "done"}
        BY <2>0, <4>1, NewCostIsPublished
      <4> QED BY <2>0, <4>2, PublishedIsSelected
    <3>2. CASE selection # None /\ Answer(s, selection)
      BY <2>7, <2>8, <3>1, <3>2 DEF ReadSelection
    <3>3. CASE /\ selection = None
               /\ fetch' = [fetch EXCEPT ![s] = "search"]
               /\ UNCHANGED <<found, stage, fetchKey, cached>>
      BY <2>2, <2>8, <3>1, <3>3 DEF ReadSelection
    <3> QED BY <2>8, <3>2, <3>3 DEF ReadSelection
  <2>9. ASSUME NEW s \in Sessions, ReadSelectionFails(s) PROVE FALSE
    BY <2>9 DEF ReadSelectionFails
  <2>10. ASSUME NEW s \in Sessions, Search(s) PROVE Goal
    BY <2>2, <2>7, <2>10 DEF Search
  <2>11. ASSUME NEW s \in Sessions, SearchFails(s) PROVE Goal
    BY <2>2, <2>3, <2>11 DEF SearchFails, EndFetch, End, NoKey
  <2>12. ASSUME NEW s \in Sessions, Finish(s) \/ FinishFails(s) PROVE Goal
    BY <2>2, <2>3, <2>12 DEF Finish, FinishFails, End, NoKey
  <2>13. ASSUME NEW k \in Keys, Expire(k) PROVE Goal
    BY <2>2, <2>13 DEF Expire
  <2> QED
    BY <1>3, <2>4, <2>5, <2>6, <2>8, <2>9, <2>10, <2>11, <2>12, <2>13
       DEF Reading, Fetching, Transforming
<1> QED BY <1>1, <1>2, <1>3 DEF UserNext

(***************************************************************************)
(* After a clean switch to a cost center no other switch goes to, every    *)
(* transform of its session that begins then serves the document switched  *)
(* to, for any number of documents, sessions and switches, whatever the    *)
(* cache holds, however the switches overlap and the index lags: the key   *)
(* is new, and all that is ever stored under it is that document.          *)
(***************************************************************************)
THEOREM FirstVisitsReadTheSwitch == UserSpec => []FirstVisitReadsYourSwitch
<1>1. UserInit => VisitedInv /\ NewCostInv
  <2> SUFFICES ASSUME UserInit PROVE VisitedInv /\ NewCostInv
    OBVIOUS
  <2>1. ~clean
    BY DEF UserInit, Init
  <2>2. Visited(None)
    BY DEF Visited
  <2>3. \A s \in Sessions : currentCost[s] = None /\ key[s][1] = None /\ fetchKey[s][1] = None
    BY DEF UserInit, Init, NoKey
  <2>4. \A k \in Keys : cached[k] = {}
    BY DEF UserInit
  <2> QED BY <2>1, <2>2, <2>3, <2>4 DEF VisitedInv, NewCostInv
<1>2. UserSpec => [](TypeOK /\ SettleInv /\ UserTypeOK /\ SinceInv /\ PinInv)
  BY SinceInvariant, PinInvariant, PTL
<1>3. UserSpec => []VisitedInv
  BY <1>1, <1>2, VisitedStep, PTL DEF UserSpec
<1>4. PinInv => KeyInv
  BY DEF PinInv
<1>5. UserSpec => []NewCostInv
  BY <1>1, <1>2, <1>3, <1>4, NewCostStep, PTL DEF UserSpec
<1>6. UserTypeOK /\ SinceInv /\ NewCostInv => FirstVisitReadsYourSwitch
  BY DEF UserTypeOK, SinceInv, NewCostInv, FirstVisitReadsYourSwitch, ReadsYourSwitch
<1> QED BY <1>2, <1>5, <1>6, PTL

=============================================================================
