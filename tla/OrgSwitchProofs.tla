--------------------------- MODULE OrgSwitchProofs ---------------------------
(***************************************************************************)
(* Proofs about OrgSwitch, for every shopper, every set of sessions and    *)
(* requests and every retry limit.                                         *)
(***************************************************************************)
EXTENDS OrgSwitch, TLAPS

(***************************************************************************)
(* Type correctness of every step of the switch.                           *)
(***************************************************************************)
LEMMA TypeStep == TypeOK /\ [Next]_vars => TypeOK'
<1> SUFFICES ASSUME TypeOK, [Next]_vars PROVE TypeOK'
  OBVIOUS
<1> USE ShopperAssumption, RetryAssumption, FaultsAssumption
        DEF TypeOK, Stages, storeVars, callVars, historyVars, Goto
<1>1. ASSUME NEW p \in Requests, NEW s \in Sessions \cup {None}, NEW r \in Records,
             Request(p, s, r)
      PROVE  TypeOK'
  BY <1>1 DEF Request
<1>2. ASSUME NEW p \in Requests, Lookup(p) PROVE TypeOK'
  BY <1>2 DEF Lookup
<1>3. ASSUME NEW p \in Requests, Activate(p) PROVE TypeOK'
  BY <1>3 DEF Activate
<1>4. ASSUME NEW p \in Requests, ListActive(p) PROVE TypeOK'
  BY <1>4 DEF ListActive, DeactivateTargets
<1>5. ASSUME NEW p \in Requests, NEW r \in Records, Deactivate(p, r) PROVE TypeOK'
  BY <1>5 DEF Deactivate
<1>6. ASSUME NEW p \in Requests, NEW r \in Records, DeactivateFails(p, r)
      PROVE  TypeOK'
  <2>1. active' \in [Records -> BOOLEAN]
    <3>1. CASE active' = active
      BY <3>1
    <3>2. CASE active' = [active EXCEPT ![r] = FALSE]
      BY <3>2
    <3>. QED
      BY <1>6, <3>1, <3>2 DEF DeactivateFails
  <2>. QED
    BY <1>6, <2>1 DEF DeactivateFails, Fault
<1>7. ASSUME NEW p \in Requests, AwaitDeactivation(p) PROVE TypeOK'
  BY <1>7 DEF AwaitDeactivation
<1>8. ASSUME NEW p \in Requests, Select(p) PROVE TypeOK'
  <2>1. selection' \in Records \cup {None} /\ AfterSelect(p) \in Stages \ {"idle"}
    BY <1>8 DEF Select, AfterSelect
  <2>2. pc' \in [Requests -> Stages]
    BY <1>8, <2>1 DEF Select
  <2>3. \A q \in Requests : pc'[q] # "idle" => target'[q] \in Records
    BY <1>8 DEF Select
  <2>. QED
    BY <1>8, <2>1, <2>2, <2>3 DEF Select
<1>9. ASSUME NEW p \in Requests, SelectFails(p) PROVE TypeOK'
  <2>1. selection' \in Records \cup {None} /\ AfterSelect(p) \in Stages \ {"idle"}
    BY <1>9 DEF SelectFails, AfterSelect
  <2>2. pc' \in [Requests -> Stages]
    BY <1>9, <2>1 DEF SelectFails
  <2>3. \A q \in Requests : pc'[q] # "idle" => target'[q] \in Records
    BY <1>9 DEF SelectFails
  <2>. QED
    BY <1>9, <2>1, <2>2, <2>3 DEF SelectFails, Fault
<1>10. ASSUME NEW p \in Requests, Publish(p) PROVE TypeOK'
  BY <1>10 DEF Publish
<1>11. ASSUME NEW p \in Requests, PublishFails(p) PROVE TypeOK'
  <2>1. currentCost' \in [Sessions -> Costs \cup {None}]
    <3>1. CASE currentCost' = currentCost
      BY <3>1
    <3>2. CASE currentCost' = [currentCost EXCEPT ![caller[p]] = CostOf[target[p]]]
      BY <1>11, <3>2 DEF PublishFails
    <3>. QED
      BY <1>11, <3>1, <3>2 DEF PublishFails
  <2>2. CASE ~Exhausted(p) /\ tries' = [tries EXCEPT ![p] = @ + 1] /\ UNCHANGED <<pc, clean>>
    BY <1>11, <2>1, <2>2 DEF PublishFails, Exhausted
  <2>3. CASE Goto(p, "done") /\ clean' = FALSE /\ UNCHANGED tries
    BY <1>11, <2>1, <2>3 DEF PublishFails
  <2>. QED
    BY <1>11, <2>2, <2>3 DEF PublishFails
<1>12. ASSUME NEW p \in Requests, Abort(p) PROVE TypeOK'
  <2>1. target[p] \in Records
    BY <1>12 DEF Abort, Running, Ended
  <2>2. active' \in [Records -> BOOLEAN]
    <3>1. CASE active' = active
      BY <3>1
    <3>2. CASE active' = [active EXCEPT ![target[p]] = TRUE]
      BY <2>1, <3>2
    <3>. QED
      BY <1>12, <3>1, <3>2 DEF Abort
  <2>3. selection' \in Records \cup {None}
    BY <1>12, <2>1 DEF Abort
  <2>4. currentCost' \in [Sessions -> Costs \cup {None}]
    <3>1. CASE currentCost' = currentCost
      BY <3>1
    <3>2. CASE currentCost' = [currentCost EXCEPT ![caller[p]] = CostOf[target[p]]]
      BY <2>1, <3>2
    <3>. QED
      BY <1>12, <3>1, <3>2 DEF Abort
  <2>5. /\ pc' \in [Requests -> Stages]
        /\ \A q \in Requests : pc'[q] # "idle" => target'[q] \in Records
    BY <1>12, <2>1 DEF Abort
  <2>6. /\ UNCHANGED <<index, callVars, last, overlap>>
        /\ clean' = FALSE
    BY <1>12 DEF Abort, Fault
  <2>. QED
    BY <2>2, <2>3, <2>4, <2>5, <2>6
<1>13. ASSUME NEW r \in Records, Reindex(r) PROVE TypeOK'
  BY <1>13 DEF Reindex
<1>14. CASE UNCHANGED vars
  BY <1>14 DEF vars
<1> HIDE DEF TypeOK, Stages, storeVars, callVars, historyVars, Goto
<1>. QED
  BY <1>1, <1>2, <1>3, <1>4, <1>5, <1>6, <1>7, <1>8, <1>9, <1>10, <1>11, <1>12,
     <1>13, <1>14 DEF Next, Step

(***************************************************************************)
(* Every variable of the switch keeps its type: in particular a request    *)
(* that has started names a document, and setChangeSession never counts    *)
(* past MAX_RETRY.                                                         *)
(***************************************************************************)
THEOREM TypeCorrect == Spec => []TypeOK
<1>1. Init => TypeOK
  <2> SUFFICES ASSUME Init PROVE TypeOK
    OBVIOUS
  <2>1. active \in [Records -> BOOLEAN]
    <3>1. PICK A \in InitialActive : active = [r \in Records |-> r \in A]
      BY DEF Init
    <3>. QED
      BY <3>1
  <2>2. /\ keyed \in [Requests -> BOOLEAN]
        /\ rejected \in [Requests -> BOOLEAN]
        /\ clean \in BOOLEAN
        /\ overlap \in BOOLEAN
    BY DEF Init
  <2>3. /\ inflight \in [Requests -> SUBSET Records]
        /\ tries \in [Requests -> 0 .. MaxRetry]
    BY RetryAssumption DEF Init
  <2>4. /\ pc \in [Requests -> Stages]
        /\ \A p \in Requests : pc[p] = "idle"
    BY DEF Init, Stages
  <2>. QED
    BY <2>1, <2>2, <2>3, <2>4 DEF Init, TypeOK
<1>. QED
  BY <1>1, TypeStep, PTL DEF Spec

------------------------------------------------------------------------------
(***************************************************************************)
(* Switches that do not overlap.  The step that matters is a deactivation  *)
(* write: nobody but its sender is busy, and the sender's own document is  *)
(* active and not among the documents it deactivates.                      *)
(***************************************************************************)
LEMMA SerialInit == Init => SerialInv
  BY DEF Init, SerialInv, AtRest, Running, Ended

LEMMA SerialStep == TypeOK /\ SerialInv /\ [Next]_vars => SerialInv'
<1> SUFFICES ASSUME TypeOK, SerialInv, [Next]_vars PROVE SerialInv'
  OBVIOUS
<1>1. ASSUME NEW p \in Requests, NEW s \in Sessions \cup {None}, NEW r \in Records,
             Request(p, s, r)
      PROVE  SerialInv'
  BY <1>1 DEF Request, SerialInv, AtRest, Running, Ended, Goto, storeVars, TypeOK
<1>2. ASSUME NEW p \in Requests, Lookup(p) PROVE SerialInv'
  BY <1>2 DEF Lookup, SerialInv, AtRest, Running, Ended, Goto, storeVars,
              historyVars, TypeOK
<1>3. ASSUME NEW p \in Requests, Activate(p) PROVE SerialInv'
  BY <1>3 DEF Activate, SerialInv, AtRest, Running, Ended, Goto, callVars,
              historyVars, TypeOK
<1>4. ASSUME NEW p \in Requests, ListActive(p) PROVE SerialInv'
  BY <1>4 DEF ListActive, DeactivateTargets, SerialInv, AtRest, Running, Ended,
              Goto, storeVars, historyVars, TypeOK
<1>5. ASSUME NEW p \in Requests, NEW r \in Records, Deactivate(p, r)
      PROVE  SerialInv'
  BY <1>5 DEF Deactivate, SerialInv, AtRest, Running, Ended, historyVars, TypeOK
<1>6. ASSUME NEW p \in Requests, NEW r \in Records, DeactivateFails(p, r)
      PROVE  SerialInv'
  BY <1>6 DEF DeactivateFails, SerialInv, AtRest, Running, Ended, TypeOK
<1>7. ASSUME NEW p \in Requests, AwaitDeactivation(p) PROVE SerialInv'
  BY <1>7 DEF AwaitDeactivation, SerialInv, AtRest, Running, Ended, Goto, storeVars,
              callVars, historyVars, TypeOK
<1>8. ASSUME NEW p \in Requests, Select(p) PROVE SerialInv'
  BY <1>8 DEF Select, AfterSelect, SerialInv, AtRest, Running, Ended, Goto,
              callVars,
              historyVars, TypeOK
<1>9. ASSUME NEW p \in Requests, SelectFails(p) PROVE SerialInv'
  BY <1>9 DEF SelectFails, AfterSelect, SerialInv, AtRest, Running, Ended, Goto,
              callVars, TypeOK
<1>10. ASSUME NEW p \in Requests, Publish(p) PROVE SerialInv'
  BY <1>10 DEF Publish, SerialInv, AtRest, Running, Ended, Goto, callVars,
               historyVars, TypeOK
<1>11. ASSUME NEW p \in Requests, PublishFails(p) PROVE SerialInv'
  BY <1>11 DEF PublishFails, SerialInv, AtRest, Running, Ended, Goto, TypeOK
<1>12. ASSUME NEW p \in Requests, Abort(p) PROVE SerialInv'
  BY <1>12 DEF Abort, SerialInv, AtRest, Running, Ended, Goto, callVars, TypeOK
<1>13. ASSUME NEW r \in Records, Reindex(r) PROVE SerialInv'
  BY <1>13 DEF Reindex, SerialInv, AtRest, Running, Ended, callVars, historyVars
<1>14. CASE UNCHANGED vars
  BY <1>14 DEF vars, SerialInv, AtRest, Running, Ended, storeVars, callVars,
               historyVars
<1>. QED
  BY <1>1, <1>2, <1>3, <1>4, <1>5, <1>6, <1>7, <1>8, <1>9, <1>10, <1>11, <1>12,
     <1>13, <1>14 DEF Next, Step

LEMMA SomeActiveStep ==
    TypeOK /\ SerialInv /\ [Next]_vars => (~overlap' /\ SomeActive => SomeActive')
<1> SUFFICES ASSUME TypeOK, SerialInv, [Next]_vars, ~overlap', SomeActive
             PROVE  SomeActive'
  OBVIOUS
\* Everything but a deactivation leaves an active document active.
<1>1. ASSUME \A r \in Records : active[r] => active'[r] PROVE SomeActive'
  BY <1>1 DEF SomeActive
\* A deactivation spares the document its sender activated.
<1>2. ASSUME NEW p \in Requests, NEW r \in inflight[p], overlap' = overlap,
             active' = [active EXCEPT ![r] = FALSE]
      PROVE  SomeActive'
  <2>1. active[target[p]] /\ target[p] # r /\ pc[p] # "idle"
    BY <1>2 DEF SerialInv
  <2>2. target[p] \in Records
    BY <2>1 DEF TypeOK
  <2>. QED
    BY <1>2, <2>1, <2>2 DEF SomeActive, TypeOK
<1>3. ASSUME NEW p \in Requests, NEW s \in Sessions \cup {None}, NEW r \in Records,
             Request(p, s, r)
      PROVE  SomeActive'
  BY <1>1, <1>3 DEF Request, storeVars
<1>4. ASSUME NEW p \in Requests, Step(p) PROVE SomeActive'
  <2>1. CASE Activate(p)
    BY <1>1, <2>1 DEF Activate, TypeOK
  <2>2. ASSUME NEW r \in Records, Deactivate(p, r) PROVE SomeActive'
    BY <1>2, <2>2 DEF Deactivate, historyVars
  <2>3. ASSUME NEW r \in Records, DeactivateFails(p, r) PROVE SomeActive'
    BY <1>1, <1>2, <2>3 DEF DeactivateFails
  <2>4. CASE Lookup(p) \/ ListActive(p) \/ AwaitDeactivation(p)
    BY <1>1, <2>4 DEF Lookup, ListActive, AwaitDeactivation, storeVars
  <2>5. CASE Select(p) \/ SelectFails(p) \/ Publish(p) \/ PublishFails(p)
    BY <1>1, <2>5 DEF Select, SelectFails, Publish, PublishFails
  <2>. QED
    BY <1>4, <2>1, <2>2, <2>3, <2>4, <2>5 DEF Step
<1>5. ASSUME NEW p \in Requests, Abort(p) PROVE SomeActive'
  BY <1>1, <1>5 DEF Abort, TypeOK
<1>6. ASSUME NEW r \in Records, Reindex(r) PROVE SomeActive'
  BY <1>1, <1>6 DEF Reindex
<1>7. CASE UNCHANGED vars
  BY <1>1, <1>7 DEF vars, storeVars
<1>. QED
  BY <1>3, <1>4, <1>5, <1>6, <1>7 DEF Next

(***************************************************************************)
(* Switches that do not overlap never take the shopper from having an      *)
(* active document to having none, whatever fails, whichever write lands   *)
(* late and however far the index trails: the deactivation burst of        *)
(* setActiveUserByOrganization spares the document just activated.         *)
(***************************************************************************)
THEOREM SomeActiveIsKept == Spec => KeepsSomeActive
<1>1. Spec => []SerialInv
  BY SerialInit, SerialStep, TypeCorrect, PTL DEF Spec
<1>. QED
  BY <1>1, SomeActiveStep, TypeCorrect, PTL DEF Spec, KeepsSomeActive

------------------------------------------------------------------------------
(***************************************************************************)
(* Clean switches.                                                         *)
(***************************************************************************)
\* Before its list has been read a request has no write on the way.
LEMMA EarlyStep == TypeOK /\ EarlyInv /\ [Next]_vars => EarlyInv'
<1> SUFFICES ASSUME TypeOK, EarlyInv, [Next]_vars PROVE EarlyInv'
  OBVIOUS
<1>1. ASSUME NEW p \in Requests, NEW s \in Sessions \cup {None}, NEW r \in Records, Request(p, s, r)
      PROVE  EarlyInv'
  BY <1>1 DEF Request, EarlyInv, Goto, TypeOK, storeVars
<1>2. ASSUME NEW p \in Requests, Lookup(p) PROVE EarlyInv'
  BY <1>2 DEF Lookup, EarlyInv, Goto, TypeOK, storeVars, historyVars
<1>3. ASSUME NEW p \in Requests, Activate(p) PROVE EarlyInv'
  BY <1>3 DEF Activate, EarlyInv, Goto, TypeOK, callVars, historyVars
<1>4. ASSUME NEW p \in Requests, ListActive(p) PROVE EarlyInv'
  BY <1>4 DEF ListActive, EarlyInv, Goto, TypeOK, DeactivateTargets, storeVars,
              historyVars
<1>5. ASSUME NEW p \in Requests, NEW r \in Records, Deactivate(p, r) PROVE EarlyInv'
  BY <1>5 DEF Deactivate, EarlyInv, Goto, TypeOK, historyVars
<1>6. ASSUME NEW p \in Requests, NEW r \in Records, DeactivateFails(p, r)
      PROVE  EarlyInv'
  BY <1>6 DEF DeactivateFails, EarlyInv, Goto, TypeOK, Fault
<1>7. ASSUME NEW p \in Requests, AwaitDeactivation(p) PROVE EarlyInv'
  BY <1>7 DEF AwaitDeactivation, EarlyInv, Goto, TypeOK, Settled, storeVars,
              callVars, historyVars
<1>8. ASSUME NEW p \in Requests, Select(p) PROVE EarlyInv'
  BY <1>8 DEF Select, EarlyInv, Goto, TypeOK, AfterSelect, callVars, historyVars
<1>9. ASSUME NEW p \in Requests, SelectFails(p) PROVE EarlyInv'
  BY <1>9 DEF SelectFails, EarlyInv, Goto, TypeOK, AfterSelect, Fault, callVars
<1>10. ASSUME NEW p \in Requests, Publish(p) PROVE EarlyInv'
  BY <1>10 DEF Publish, EarlyInv, Goto, TypeOK, callVars, historyVars
<1>11. ASSUME NEW p \in Requests, PublishFails(p) PROVE EarlyInv'
  BY <1>11 DEF PublishFails, EarlyInv, Goto, TypeOK
<1>12. ASSUME NEW p \in Requests, Abort(p) PROVE EarlyInv'
  BY <1>12 DEF Abort, EarlyInv, Goto, TypeOK, Fault, callVars
<1>13. ASSUME NEW r \in Records, Reindex(r) PROVE EarlyInv'
  BY <1>13 DEF Reindex, EarlyInv, Goto, TypeOK, callVars, historyVars
<1>14. CASE UNCHANGED vars
  BY <1>14 DEF vars, EarlyInv, Goto, TypeOK, storeVars, callVars, historyVars
<1>. QED
  BY <1>1, <1>2, <1>3, <1>4, <1>5, <1>6, <1>7, <1>8, <1>9, <1>10, <1>11, <1>12,
     <1>13, <1>14 DEF Next, Step

\* Nobody but `last` is busy in a clean switch: a second request ends cleanliness.
LEMMA AloneStep == TypeOK /\ EarlyInv /\ AloneInv /\ [Next]_vars => AloneInv'
<1> SUFFICES ASSUME TypeOK, EarlyInv, AloneInv, [Next]_vars PROVE AloneInv'
  OBVIOUS
<1>1. ASSUME NEW p \in Requests, NEW s \in Sessions \cup {None}, NEW r \in Records, Request(p, s, r)
      PROVE  AloneInv'
  BY <1>1 DEF Request, AloneInv, EarlyInv, AtRest, Running, Ended, Goto, TypeOK,
              storeVars
<1>2. ASSUME NEW p \in Requests, Lookup(p) PROVE AloneInv'
  BY <1>2 DEF Lookup, AloneInv, EarlyInv, AtRest, Running, Ended, Goto, TypeOK,
              storeVars, historyVars
<1>3. ASSUME NEW p \in Requests, Activate(p) PROVE AloneInv'
  BY <1>3 DEF Activate, AloneInv, EarlyInv, AtRest, Running, Ended, Goto, TypeOK,
              callVars, historyVars
<1>4. ASSUME NEW p \in Requests, ListActive(p) PROVE AloneInv'
  BY <1>4 DEF ListActive, AloneInv, EarlyInv, AtRest, Running, Ended, Goto,
              TypeOK, DeactivateTargets, storeVars, historyVars
<1>5. ASSUME NEW p \in Requests, NEW r \in Records, Deactivate(p, r) PROVE AloneInv'
  BY <1>5 DEF Deactivate, AloneInv, EarlyInv, AtRest, Running, Ended, Goto,
              TypeOK, historyVars
<1>6. ASSUME NEW p \in Requests, NEW r \in Records, DeactivateFails(p, r)
      PROVE  AloneInv'
  BY <1>6 DEF DeactivateFails, AloneInv, EarlyInv, AtRest, Running, Ended, Goto,
              TypeOK, Fault
<1>7. ASSUME NEW p \in Requests, AwaitDeactivation(p) PROVE AloneInv'
  BY <1>7 DEF AwaitDeactivation, AloneInv, EarlyInv, AtRest, Running, Ended, Goto,
              TypeOK, Settled, storeVars, callVars, historyVars
<1>8. ASSUME NEW p \in Requests, Select(p) PROVE AloneInv'
  BY <1>8 DEF Select, AloneInv, EarlyInv, AtRest, Running, Ended, Goto, TypeOK,
              AfterSelect, callVars, historyVars
<1>9. ASSUME NEW p \in Requests, SelectFails(p) PROVE AloneInv'
  BY <1>9 DEF SelectFails, AloneInv, EarlyInv, AtRest, Running, Ended, Goto,
              TypeOK, AfterSelect, Fault, callVars
<1>10. ASSUME NEW p \in Requests, Publish(p) PROVE AloneInv'
  BY <1>10 DEF Publish, AloneInv, EarlyInv, AtRest, Running, Ended, Goto, TypeOK,
               callVars, historyVars
<1>11. ASSUME NEW p \in Requests, PublishFails(p) PROVE AloneInv'
  BY <1>11 DEF PublishFails, AloneInv, EarlyInv, AtRest, Running, Ended, Goto,
               TypeOK
<1>12. ASSUME NEW p \in Requests, Abort(p) PROVE AloneInv'
  BY <1>12 DEF Abort, AloneInv, EarlyInv, AtRest, Running, Ended, Goto, TypeOK,
               Fault, callVars
<1>13. ASSUME NEW r \in Records, Reindex(r) PROVE AloneInv'
  BY <1>13 DEF Reindex, AloneInv, EarlyInv, AtRest, Running, Ended, Goto, TypeOK,
               callVars, historyVars
<1>14. CASE UNCHANGED vars
  BY <1>14 DEF vars, AloneInv, EarlyInv, AtRest, Running, Ended, Goto, TypeOK,
               storeVars, callVars, historyVars
<1>. QED
  BY <1>1, <1>2, <1>3, <1>4, <1>5, <1>6, <1>7, <1>8, <1>9, <1>10, <1>11, <1>12,
     <1>13, <1>14 DEF Next, Step

\* The relation of documents, index and writes that each stage of a clean switch
\* hands to the next.
LEMMA ProgressStep ==
    TypeOK /\ EarlyInv /\ AloneInv /\ ProgressInv /\ [Next]_vars => ProgressInv'
<1> SUFFICES ASSUME TypeOK, EarlyInv, AloneInv, ProgressInv, [Next]_vars
      PROVE  ProgressInv'
  OBVIOUS
<1>1. ASSUME NEW p \in Requests, NEW s \in Sessions \cup {None}, NEW r \in Records, Request(p, s, r)
      PROVE  ProgressInv'
  BY <1>1 DEF Request, ProgressInv, AloneInv, EarlyInv, AtRest, Running, Ended,
              Goto, TypeOK, storeVars
<1>2. ASSUME NEW p \in Requests, Lookup(p) PROVE ProgressInv'
  BY <1>2 DEF Lookup, ProgressInv, AloneInv, EarlyInv, AtRest, Running, Ended,
              Goto, TypeOK, storeVars, historyVars
<1>3. ASSUME NEW p \in Requests, Activate(p) PROVE ProgressInv'
  BY <1>3 DEF Activate, ProgressInv, AloneInv, EarlyInv, AtRest, Running, Ended,
              Goto, TypeOK, callVars, historyVars
<1>4. ASSUME NEW p \in Requests, ListActive(p) PROVE ProgressInv'
  BY <1>4 DEF ListActive, ProgressInv, AloneInv, EarlyInv, AtRest, Running, Ended,
              Goto, TypeOK, DeactivateTargets, storeVars, historyVars
<1>5. ASSUME NEW p \in Requests, NEW r \in Records, Deactivate(p, r)
      PROVE  ProgressInv'
  BY <1>5 DEF Deactivate, ProgressInv, AloneInv, EarlyInv, AtRest, Running, Ended,
              Goto, TypeOK, historyVars
<1>6. ASSUME NEW p \in Requests, NEW r \in Records, DeactivateFails(p, r)
      PROVE  ProgressInv'
  BY <1>6 DEF DeactivateFails, ProgressInv, AloneInv, EarlyInv, AtRest, Running,
              Ended, Goto, TypeOK, Fault
<1>7. ASSUME NEW p \in Requests, AwaitDeactivation(p) PROVE ProgressInv'
  BY <1>7 DEF AwaitDeactivation, ProgressInv, AloneInv, EarlyInv, AtRest, Running,
              Ended, Goto, TypeOK, Settled, storeVars, callVars, historyVars
<1>8. ASSUME NEW p \in Requests, Select(p) PROVE ProgressInv'
  BY <1>8 DEF Select, ProgressInv, AloneInv, EarlyInv, AtRest, Running, Ended,
              Goto, TypeOK, AfterSelect, callVars, historyVars
<1>9. ASSUME NEW p \in Requests, SelectFails(p) PROVE ProgressInv'
  BY <1>9 DEF SelectFails, ProgressInv, AloneInv, EarlyInv, AtRest, Running,
              Ended, Goto, TypeOK, AfterSelect, Fault, callVars
<1>10. ASSUME NEW p \in Requests, Publish(p) PROVE ProgressInv'
  BY <1>10 DEF Publish, ProgressInv, AloneInv, EarlyInv, AtRest, Running, Ended,
               Goto, TypeOK, callVars, historyVars
<1>11. ASSUME NEW p \in Requests, PublishFails(p) PROVE ProgressInv'
  BY <1>11 DEF PublishFails, ProgressInv, AloneInv, EarlyInv, AtRest, Running,
               Ended, Goto, TypeOK
<1>12. ASSUME NEW p \in Requests, Abort(p) PROVE ProgressInv'
  BY <1>12 DEF Abort, ProgressInv, AloneInv, EarlyInv, AtRest, Running, Ended,
               Goto, TypeOK, Fault, callVars
<1>13. ASSUME NEW r \in Records, Reindex(r) PROVE ProgressInv'
  BY <1>13 DEF Reindex, ProgressInv, AloneInv, EarlyInv, AtRest, Running, Ended,
               Goto, TypeOK, callVars, historyVars
<1>14. CASE UNCHANGED vars
  BY <1>14 DEF vars, ProgressInv, AloneInv, EarlyInv, AtRest, Running, Ended,
               Goto, TypeOK, storeVars, callVars, historyVars
<1>. QED
  BY <1>1, <1>2, <1>3, <1>4, <1>5, <1>6, <1>7, <1>8, <1>9, <1>10, <1>11, <1>12,
     <1>13, <1>14 DEF Next, Step

\* From the last of these relations the session and the selection follow.
LEMMA SettlesStep == TypeOK /\ SettleInv /\ [Next]_vars => CleanSwitchSettles'
<1> SUFFICES ASSUME TypeOK, SettleInv, [Next]_vars PROVE CleanSwitchSettles'
  OBVIOUS
<1>1. ASSUME NEW p \in Requests, NEW s \in Sessions \cup {None}, NEW r \in Records, Request(p, s, r)
      PROVE  CleanSwitchSettles'
  BY <1>1 DEF Request, CleanSwitchSettles, SettleInv, ProgressInv, AloneInv,
              EarlyInv, AtRest, Running, Ended, Goto, TypeOK, storeVars
<1>2. ASSUME NEW p \in Requests, Lookup(p) PROVE CleanSwitchSettles'
  BY <1>2 DEF Lookup, CleanSwitchSettles, SettleInv, ProgressInv, AloneInv,
              EarlyInv, AtRest, Running, Ended, Goto, TypeOK, storeVars,
              historyVars
<1>3. ASSUME NEW p \in Requests, Activate(p) PROVE CleanSwitchSettles'
  BY <1>3 DEF Activate, CleanSwitchSettles, SettleInv, ProgressInv, AloneInv,
              EarlyInv, AtRest, Running, Ended, Goto, TypeOK, callVars,
              historyVars
<1>4. ASSUME NEW p \in Requests, ListActive(p) PROVE CleanSwitchSettles'
  BY <1>4 DEF ListActive, CleanSwitchSettles, SettleInv, ProgressInv, AloneInv,
              EarlyInv, AtRest, Running, Ended, Goto, TypeOK, DeactivateTargets,
              storeVars, historyVars
<1>5. ASSUME NEW p \in Requests, NEW r \in Records, Deactivate(p, r)
      PROVE  CleanSwitchSettles'
  BY <1>5 DEF Deactivate, CleanSwitchSettles, SettleInv, ProgressInv, AloneInv,
              EarlyInv, AtRest, Running, Ended, Goto, TypeOK, historyVars
<1>6. ASSUME NEW p \in Requests, NEW r \in Records, DeactivateFails(p, r)
      PROVE  CleanSwitchSettles'
  BY <1>6 DEF DeactivateFails, CleanSwitchSettles, SettleInv, ProgressInv,
              AloneInv, EarlyInv, AtRest, Running, Ended, Goto, TypeOK, Fault
<1>7. ASSUME NEW p \in Requests, AwaitDeactivation(p) PROVE CleanSwitchSettles'
  BY <1>7 DEF AwaitDeactivation, CleanSwitchSettles, SettleInv, ProgressInv,
              AloneInv, EarlyInv, AtRest, Running, Ended, Goto, TypeOK, Settled,
              storeVars, callVars, historyVars
<1>8. ASSUME NEW p \in Requests, Select(p) PROVE CleanSwitchSettles'
  BY <1>8 DEF Select, CleanSwitchSettles, SettleInv, ProgressInv, AloneInv,
              EarlyInv, AtRest, Running, Ended, Goto, TypeOK, AfterSelect,
              callVars, historyVars
<1>9. ASSUME NEW p \in Requests, SelectFails(p) PROVE CleanSwitchSettles'
  BY <1>9 DEF SelectFails, CleanSwitchSettles, SettleInv, ProgressInv, AloneInv,
              EarlyInv, AtRest, Running, Ended, Goto, TypeOK, AfterSelect, Fault,
              callVars
<1>10. ASSUME NEW p \in Requests, Publish(p) PROVE CleanSwitchSettles'
  BY <1>10 DEF Publish, CleanSwitchSettles, SettleInv, ProgressInv, AloneInv,
               EarlyInv, AtRest, Running, Ended, Goto, TypeOK, callVars,
               historyVars
<1>11. ASSUME NEW p \in Requests, PublishFails(p) PROVE CleanSwitchSettles'
  BY <1>11 DEF PublishFails, CleanSwitchSettles, SettleInv, ProgressInv, AloneInv,
               EarlyInv, AtRest, Running, Ended, Goto, TypeOK
<1>12. ASSUME NEW p \in Requests, Abort(p) PROVE CleanSwitchSettles'
  BY <1>12 DEF Abort, CleanSwitchSettles, SettleInv, ProgressInv, AloneInv,
               EarlyInv, AtRest, Running, Ended, Goto, TypeOK, Fault, callVars
<1>13. ASSUME NEW r \in Records, Reindex(r) PROVE CleanSwitchSettles'
  BY <1>13 DEF Reindex, CleanSwitchSettles, SettleInv, ProgressInv, AloneInv,
               EarlyInv, AtRest, Running, Ended, Goto, TypeOK, callVars,
               historyVars
<1>14. CASE UNCHANGED vars
  BY <1>14 DEF vars, CleanSwitchSettles, SettleInv, ProgressInv, AloneInv,
               EarlyInv, AtRest, Running, Ended, Goto, TypeOK, storeVars,
               callVars, historyVars
<1>. QED
  BY <1>1, <1>2, <1>3, <1>4, <1>5, <1>6, <1>7, <1>8, <1>9, <1>10, <1>11, <1>12,
     <1>13, <1>14 DEF Next, Step

\* All of it together, at every moment.
LEMMA SettleInvariant == Spec => []SettleInv
<1>1. Init => SettleInv
  BY DEF Init, SettleInv, EarlyInv, AloneInv, ProgressInv, CleanSwitchSettles
<1>2. TypeOK /\ SettleInv /\ [Next]_vars => SettleInv'
  BY EarlyStep, AloneStep, ProgressStep, SettlesStep DEF SettleInv
<1>. QED
  BY <1>1, <1>2, TypeCorrect, PTL DEF Spec

(***************************************************************************)
(* A switch that starts alone on a settled index, and in which nothing     *)
(* fails for good, leaves exactly its own document active, recorded in the *)
(* selection and, once answered, in the session - from any initial mess    *)
(* and however the index lags while it runs.                               *)
(***************************************************************************)
THEOREM CleanSwitchIsExact == Spec => []CleanSwitchSettles
<1>1. SettleInv => CleanSwitchSettles
  BY DEF SettleInv
<1>. QED
  BY <1>1, SettleInvariant, PTL

==============================================================================
