----------------------------- MODULE AccessProofs -----------------------------
(***************************************************************************)
(* Proofs about Access, for any number of fields in a request: its types,  *)
(* that a guard is exact, and that fields under one guard end alike.       *)
(*                                                                         *)
(* The one thing fields share is the token in the context.  Displaced:     *)
(* once an API key's token is there, some field has already been through   *)
(* the admin's, which it found wanting or could not check.  Judged: what a *)
(* field found of a credential is what that is worth, or the call threw,   *)
(* or it was the admin's and the key's token stood in its place.           *)
(***************************************************************************)
EXTENDS Access, TLAPS

LEMMA OrderIs ==
    ASSUME NEW guard \in Guards
    PROVE  /\ Order(guard)[1] = "admin" /\ Order(guard)[2] = "header" /\ Order(guard)[3] = "api"
           /\ guard = "validateAdminUserAccess" =>
                 Len(Order(guard)) = 3 /\ ToSet(Order(guard)) = {"admin", "header", "api"}
           /\ guard = "validateStoreUserAccess" =>
                 /\ Len(Order(guard)) = 4 /\ Order(guard)[4] = "store"
                 /\ ToSet(Order(guard)) = Credentials
BY DEF Order, Guards, ToSet, Credentials

LEMMA OrderCounts ==
    ASSUME NEW guard \in Guards
    PROVE  /\ Len(Order(guard)) \in {3, 4}
           /\ \A i \in 1 .. Len(Order(guard)) :
                 /\ Order(guard)[i] \in Credentials
                 /\ Order(guard)[i] \in ToSet(Order(guard))
                 /\ Order(guard)[i] = "api" => i = 3
                 /\ Order(guard)[i] = "admin" => i = 1
                 /\ \A j \in 1 .. Len(Order(guard)) : Order(guard)[i] = Order(guard)[j] => i = j
           /\ \A c \in ToSet(Order(guard)) :
                 \E i \in 1 .. Len(Order(guard)) : c = Order(guard)[i]
<1>1. CASE guard = "validateAdminUserAccess"
  <2>1. \A i : i \in 1 .. 3 <=> i = 1 \/ i = 2 \/ i = 3
    OBVIOUS
  <2> QED
    BY <1>1, <2>1, OrderIs DEF Credentials
<1>2. CASE guard = "validateStoreUserAccess"
  <2>1. \A i : i \in 1 .. 4 <=> i = 1 \/ i = 2 \/ i = 3 \/ i = 4
    OBVIOUS
  <2> QED
    BY <1>2, <2>1, OrderIs DEF Credentials
<1> QED
  BY <1>1, <1>2 DEF Guards

LEMMA FindingIs ==
    ASSUME NEW worth \in Worths, NEW guard
    PROVE  /\ Finding(worth, guard) \in {"absent", "invalid", "short", "granted"}
           /\ Finding(worth, guard) = "granted" <=> Meets(worth, guard)
           /\ Finding(worth, guard) = "absent" <=> worth = "absent"
           /\ Finding(worth, guard) \in {"short", "granted"} <=> worth \notin {"absent", "invalid"}
BY DEF Finding, Meets, Worths

------------------------------------------------------------------------------
(***************************************************************************)
(* The inductive invariant.                                                *)
(***************************************************************************)
\* The token of the API key may stand in the place of the admin's.
Displaced == (Threw("admin") \/ PassedOver("admin")) /\ brought["api"] \notin {"absent", "invalid"}

TokenInv(token) ==
    /\ token = "none" => brought["admin"] = "absent"
    /\ token = "api" => Displaced

\* A field that went on from credential c did so for a reason.
Judged(r, c) ==
    /\ r.found[c] # "granted"
    /\ \/ r.found[c] = "failed"
       \/ r.found[c] = Finding(brought[c], r.guard)
       \/ c = "admin" /\ Displaced /\ r.found[c] # "absent"

FieldInv(r) ==
    /\ r.stage = "checking" =>
          /\ r.next <= Len(Order(r.guard))
          /\ \A i \in 1 .. Len(Order(r.guard)) :
                IF i < r.next THEN Judged(r, Order(r.guard)[i])
                ELSE r.found[Order(r.guard)[i]] # "failed"
          /\ TokenInv(r.token)
    /\ r.stage = "over" =>
          IF r.result = "resolved"
          THEN \E c \in ToSet(Order(r.guard)) : Meets(brought[c], r.guard)
          ELSE /\ \A c \in ToSet(Order(r.guard)) : Judged(r, c)
               /\ r.result = Refusal(r.guard, r.found)

AccessInv ==
    AccessTypeOK /\ TokenInv(context) /\ \A f \in Fields : FieldInv(field[f])

LEMMA AccessStart == AccessInit => AccessInv
<1> SUFFICES ASSUME AccessInit PROVE AccessInv
  OBVIOUS
<1>1. AccessTypeOK
  BY DEF AccessInit, AccessTypeOK, Nothing, Worths
<1>2. TokenInv(context)
  BY DEF AccessInit, TokenInv, Nothing, Credentials
<1>3. \A f \in Fields : FieldInv(field[f])
  BY DEF AccessInit, FieldInv, Closed
<1> QED
  BY <1>1, <1>2, <1>3 DEF AccessInv

\* What a field under way is made of.
LEMMA FieldShape ==
    ASSUME AccessTypeOK, NEW f \in Fields
    PROVE  /\ field[f].stage = "checking" => field[f] \in Checking
           /\ field[f].stage = "over" => field[f] \in Over
           /\ field[f].stage \notin {"checking", "over"} => field[f] = Closed
           /\ field[f] = Closed => field[f].stage = "closed"
BY DEF AccessTypeOK, Checking, Over, Closed

\* When fields only go on, what was thrown and passed over stays so.
LEMMA DisplacedStays ==
    ASSUME UNCHANGED brought,
           \A g \in Fields : field[g] # Closed =>
               /\ field'[g] # Closed /\ field'[g].guard = field[g].guard
               /\ field[g].found["admin"] = "failed" => field'[g].found["admin"] = "failed"
    PROVE  /\ Displaced => Displaced'
           /\ \A token : TokenInv(token) => TokenInv(token)'
           /\ \A r, c : Judged(r, c) => Judged(r, c)'
<1>1. Displaced => Displaced'
  BY DEF Displaced, Threw, PassedOver
<1> QED
  BY <1>1 DEF TokenInv, Judged

LEMMA FieldInvStays ==
    ASSUME UNCHANGED brought, NEW r, FieldInv(r), Displaced => Displaced'
    PROVE  FieldInv(r)'
<1>1. TokenInv(r.token) => TokenInv(r.token)'
  BY DEF TokenInv
<1>2. \A c : Judged(r, c) => Judged(r, c)'
  BY DEF Judged
<1> QED
  BY <1>1, <1>2 DEF FieldInv

LEMMA ArriveKeeps ==
    ASSUME AccessInv, Arrive PROVE AccessInv'
<1>1. AccessTypeOK'
  BY DEF AccessInv, AccessTypeOK, Arrive
<1>2. TokenInv(context)'
  BY DEF Arrive, TokenInv
<1>3. \A f \in Fields : FieldInv(field[f])'
  BY DEF Arrive, FieldInv, Closed
<1> QED
  BY <1>1, <1>2, <1>3 DEF AccessInv

LEMMA OpenKeeps ==
    ASSUME AccessInv, NEW f \in Fields, NEW guard \in Guards, Open(f, guard)
    PROVE  AccessInv'
<1> DEFINE r == [stage |-> "checking", guard |-> guard, next |-> 1, token |-> context,
                 found |-> Nothing]
<1>1. /\ field[f] = Closed /\ field' = [field EXCEPT ![f] = r]
      /\ UNCHANGED <<brought, operation, context>>
  BY DEF Open
<1>2. r \in Checking
  BY DEF AccessInv, AccessTypeOK, Checking, Nothing, Findings
<1>3. AccessTypeOK'
  BY <1>1, <1>2 DEF AccessInv, AccessTypeOK
<1>4. /\ field'[f] = r
      /\ \A g \in Fields \ {f} : field'[g] = field[g]
  BY <1>1 DEF AccessInv, AccessTypeOK
<1>5. r # Closed
  BY DEF Closed
<1>6. FieldInv(r)
  <2>1. \A i \in 1 .. Len(Order(guard)) : ~(i < 1) /\ Nothing[Order(guard)[i]] # "failed"
    BY OrderCounts DEF Nothing
  <2>2. 1 <= Len(Order(guard))
    BY OrderCounts
  <2> QED
    BY <2>1, <2>2 DEF AccessInv, FieldInv
<1> HIDE DEF r
<1>7. /\ Displaced => Displaced'
      /\ \A token : TokenInv(token) => TokenInv(token)'
  BY <1>1, <1>4, <1>5, DisplacedStays
<1>8. \A g \in Fields : FieldInv(field'[g])
  BY <1>4, <1>6 DEF AccessInv
<1>9. \A g \in Fields : FieldInv(field[g])'
  BY <1>1, <1>7, <1>8, FieldInvStays
<1> QED
  BY <1>1, <1>3, <1>7, <1>9 DEF AccessInv

------------------------------------------------------------------------------
(***************************************************************************)
(* A credential is checked.                                                *)
(***************************************************************************)
LEMMA CurrentIs ==
    ASSUME AccessInv, NEW f \in Fields, field[f].stage = "checking"
    PROVE  /\ field[f] \in Checking /\ field[f].guard \in Guards
           /\ field[f].next \in 1 .. Len(Order(field[f].guard))
           /\ Current(f) = Order(field[f].guard)[field[f].next]
           /\ Current(f) \in Credentials
           /\ Current(f) \in ToSet(Order(field[f].guard))
           /\ TokenInv(field[f].token) /\ field[f].token \in {"none", "admin", "api"}
           /\ brought \in [Credentials -> Worths]
<1>1. field[f] \in Checking /\ brought \in [Credentials -> Worths]
  BY FieldShape DEF AccessInv, AccessTypeOK
<1>2. /\ field[f].guard \in Guards /\ field[f].next \in 1 .. 4
      /\ field[f].token \in {"none", "admin", "api"}
  BY <1>1 DEF Checking
<1>3. field[f].next <= Len(Order(field[f].guard)) /\ TokenInv(field[f].token)
  BY DEF AccessInv, FieldInv
<1>4. field[f].next \in 1 .. Len(Order(field[f].guard))
  BY <1>2, <1>3, OrderCounts
<1> QED
  BY <1>1, <1>2, <1>3, <1>4, OrderCounts DEF Current

LEMMA WorthIs ==
    ASSUME AccessInv, NEW f \in Fields, field[f].stage = "checking"
    PROVE  /\ Worth(f) \in {"absent", "invalid", "short", "granted"}
           /\ Worth(f) = "granted" =>
                 \E c \in ToSet(Order(field[f].guard)) : Meets(brought[c], field[f].guard)
           /\ \/ Worth(f) = Finding(brought[Current(f)], field[f].guard)
              \/ Current(f) = "admin" /\ Displaced /\ Worth(f) # "absent"
           /\ Current(f) = "api" => Worth(f) = Finding(brought["api"], field[f].guard)
<1> DEFINE guard == field[f].guard
           token == field[f].token
<1>1. /\ Current(f) \in Credentials /\ Current(f) \in ToSet(Order(guard)) /\ guard \in Guards
      /\ TokenInv(token) /\ token \in {"none", "admin", "api"}
      /\ brought \in [Credentials -> Worths]
  BY CurrentIs
<1>2. brought[Current(f)] \in Worths /\ brought["admin"] \in Worths /\ brought["api"] \in Worths
  BY <1>1 DEF Credentials
<1>3. "api" \in ToSet(Order(guard)) /\ "admin" \in ToSet(Order(guard))
  BY <1>1, OrderIs DEF Guards, Credentials
<1>4. CASE Current(f) # "admin"
  <2>1. Worth(f) = Finding(brought[Current(f)], guard)
    BY <1>1, <1>4 DEF Worth, Credentials
  <2>2. Worth(f) = "granted" => Meets(brought[Current(f)], guard)
    BY <1>2, <2>1, FindingIs
  <2>3. Worth(f) \in {"absent", "invalid", "short", "granted"}
    BY <1>2, <2>1, FindingIs
  <2> QED
    BY <1>1, <1>4, <2>1, <2>2, <2>3
<1>5. CASE Current(f) = "admin" /\ token = "none"
  <2>1. Worth(f) = "absent" /\ brought["admin"] = "absent"
    BY <1>1, <1>5 DEF Worth, TokenInv
  <2>2. Finding(brought["admin"], guard) = "absent"
    BY <2>1 DEF Finding
  <2> QED
    BY <1>5, <2>1, <2>2
<1>6. CASE Current(f) = "admin" /\ token = "admin"
  <2>1. Worth(f) = Finding(brought["admin"], guard)
    BY <1>6 DEF Worth
  <2> QED
    BY <1>2, <1>3, <1>6, <2>1, FindingIs
<1>7. CASE Current(f) = "admin" /\ token = "api"
  <2>1. Worth(f) = Finding(brought["api"], guard) /\ Displaced
    BY <1>1, <1>7 DEF Worth, TokenInv
  <2>2. Worth(f) # "absent"
    BY <1>2, <2>1, FindingIs DEF Displaced
  <2> QED
    BY <1>2, <1>3, <1>7, <2>1, <2>2, FindingIs
<1> QED
  BY <1>1, <1>4, <1>5, <1>6, <1>7

LEMMA FoundKeeps ==
    ASSUME AccessInv, UNCHANGED brought, NEW f \in Fields, field[f].stage = "checking",
           NEW finding \in Findings, finding = "failed" \/ finding = Worth(f),
           Found(f, finding)
    PROVE  /\ field' \in [Fields -> {Closed} \cup Checking \cup Over]
           /\ Displaced => Displaced'
           /\ \A token : TokenInv(token) => TokenInv(token)'
           /\ \A g \in Fields : FieldInv(field[g])'
<1> DEFINE r == field[f]
           c == Current(f)
           found == [r.found EXCEPT ![c] = finding]
           n == Len(Order(r.guard))
<1>1. /\ r \in Checking /\ r.guard \in Guards /\ r.next \in 1 .. n /\ n \in {3, 4}
      /\ c = Order(r.guard)[r.next] /\ c \in Credentials /\ c \in ToSet(Order(r.guard))
      /\ TokenInv(r.token) /\ r.token \in {"none", "admin", "api"}
  BY CurrentIs, OrderCounts
<1>2. /\ r.found \in [Credentials -> Findings] /\ found \in [Credentials -> Findings]
      /\ found[c] = finding
      /\ \A d \in Credentials \ {c} : found[d] = r.found[d]
  BY <1>1 DEF Checking
<1>3. /\ r.found[c] # "failed"
      /\ \A i \in 1 .. n : IF i < r.next THEN Judged(r, Order(r.guard)[i])
                           ELSE r.found[Order(r.guard)[i]] # "failed"
  BY <1>1 DEF AccessInv, FieldInv
<1>4. \A d : r.found[d] = "failed" /\ d \in Credentials => found[d] = "failed"
  BY <1>2, <1>3
<1>5. ASSUME NEW new \in {Closed} \cup Checking \cup Over, field' = [field EXCEPT ![f] = new],
             new.stage # "closed", new.guard = r.guard, new.found = found,
             FieldInv(new)
      PROVE  /\ field' \in [Fields -> {Closed} \cup Checking \cup Over]
             /\ Displaced => Displaced'
             /\ \A token : TokenInv(token) => TokenInv(token)'
             /\ \A g \in Fields : FieldInv(field[g])'
  <2>1. field \in [Fields -> {Closed} \cup Checking \cup Over]
    BY DEF AccessInv, AccessTypeOK
  <2>2. field' \in [Fields -> {Closed} \cup Checking \cup Over]
    BY <1>5, <2>1
  <2>3. field'[f] = new /\ \A g \in Fields \ {f} : field'[g] = field[g]
    BY <1>5, <2>1
  <2>4. new # Closed
    BY <1>5 DEF Closed
  <2>5. \A g \in Fields : field[g] # Closed =>
            /\ field'[g] # Closed /\ field'[g].guard = field[g].guard
            /\ field[g].found["admin"] = "failed" => field'[g].found["admin"] = "failed"
    <3> TAKE g \in Fields
    <3>1. CASE g = f
      <4>1. r.found["admin"] = "failed" => found["admin"] = "failed"
        BY <1>4 DEF Credentials
      <4> HIDE DEF found
      <4> QED
        BY <1>5, <2>3, <2>4, <3>1, <4>1
    <3>2. CASE g # f
      BY <2>3, <3>2
    <3> QED
      BY <3>1, <3>2
  <2>6. /\ Displaced => Displaced'
        /\ \A token : TokenInv(token) => TokenInv(token)'
    BY <2>5, DisplacedStays
  <2>7. \A g \in Fields : FieldInv(field'[g])
    BY <1>5, <2>3 DEF AccessInv
  <2>8. \A g \in Fields : FieldInv(field[g])'
    BY <2>6, <2>7, FieldInvStays
  <2> QED
    BY <2>2, <2>6, <2>8
<1> HIDE DEF found, c, n
<1>6. CASE finding = "granted"
  <2> DEFINE new == [stage |-> "over", guard |-> r.guard, result |-> "resolved", found |-> found]
  <2>1. field' = [field EXCEPT ![f] = new]
    BY <1>6 DEF Found, Done, found, c
  <2>2. new \in Over
    BY <1>1, <1>2 DEF Over, Results
  <2>3. \E d \in ToSet(Order(r.guard)) : Meets(brought[d], r.guard)
    BY <1>6, WorthIs
  <2>4. FieldInv(new)
    BY <2>3 DEF FieldInv
  <2>5. new.stage # "closed" /\ new.guard = r.guard /\ new.found = found
    OBVIOUS
  <2> HIDE DEF new
  <2> QED
    BY <1>5, <2>1, <2>2, <2>4, <2>5
\* The credential is judged, those before it still are.
<1>7. ASSUME finding # "granted", NEW new, new.guard = r.guard, new.found = found,
             NEW i \in 1 .. n, i <= r.next
      PROVE  Judged(new, Order(r.guard)[i])
  <2>1. CASE i = r.next
    <3>1. \/ finding = "failed"
          \/ finding = Finding(brought[c], r.guard)
          \/ c = "admin" /\ Displaced /\ finding # "absent"
      BY WorthIs DEF c
    <3> QED
      BY <1>1, <1>2, <1>7, <2>1, <3>1 DEF Judged
  <2>2. CASE i < r.next
    <3>1. Order(r.guard)[i] # c /\ Order(r.guard)[i] \in Credentials
      BY <1>1, <1>7, <2>2, OrderCounts DEF n
    <3>2. Judged(r, Order(r.guard)[i])
      BY <1>3, <1>7, <2>2
    <3> QED
      BY <1>2, <1>7, <3>1, <3>2 DEF Judged
  <2> QED
    BY <1>1, <1>7, <2>1, <2>2
<1>8. CASE finding # "granted" /\ r.next = n
  <2> DEFINE new == [stage |-> "over", guard |-> r.guard, result |-> Refusal(r.guard, found),
                     found |-> found]
  <2>1. field' = [field EXCEPT ![f] = new]
    BY <1>8 DEF Found, Done, found, c, n
  <2>2. Refusal(r.guard, found) \in {"no token", "forbidden"}
    BY DEF Refusal
  <2>3. new \in Over
    BY <1>1, <1>2, <2>2 DEF Over, Results
  <2>4. /\ new.stage = "over" /\ new.guard = r.guard /\ new.found = found
        /\ new.result = Refusal(r.guard, found)
    OBVIOUS
  <2> HIDE DEF new
  <2>5. \A i \in 1 .. n : Judged(new, Order(r.guard)[i])
    BY <1>1, <1>7, <1>8, <2>4
  <2>6. \A d \in ToSet(Order(r.guard)) : Judged(new, d)
    BY <1>1, <2>5, OrderCounts DEF n
  <2>7. FieldInv(new)
    BY <2>2, <2>4, <2>6 DEF FieldInv
  <2> QED
    BY <1>5, <2>1, <2>3, <2>4, <2>7
<1>9. CASE finding # "granted" /\ r.next # n
  <2> DEFINE new == [[r EXCEPT !.next = @ + 1] EXCEPT !.found = found]
  <2>1. field' = [field EXCEPT ![f] = new]
    <3>1. field' = [field EXCEPT ![f].next = @ + 1, ![f].found = found]
      BY <1>9 DEF Found, found, c, n
    <3> QED
      BY <3>1 DEF AccessInv, AccessTypeOK
  <2>2. r.next + 1 \in 1 .. n /\ r.next + 1 \in 1 .. 4
    BY <1>1, <1>9
  <2>3. new \in Checking
    BY <1>1, <1>2, <2>2 DEF Checking
  <2>4. /\ new.stage = "checking" /\ new.guard = r.guard /\ new.found = found
        /\ new.next = r.next + 1 /\ new.token = r.token
    BY <1>1 DEF Checking
  <2> HIDE DEF new
  <2>5. ASSUME NEW i \in 1 .. n
        PROVE  IF i < new.next THEN Judged(new, Order(r.guard)[i])
               ELSE found[Order(r.guard)[i]] # "failed"
    <3>1. CASE i < new.next
      BY <1>1, <1>7, <1>9, <2>4, <3>1
    <3>2. CASE ~(i < new.next)
      <4>1. ~(i < r.next) /\ i # r.next
        BY <1>1, <2>4, <3>2
      <4>2. Order(r.guard)[i] # c /\ Order(r.guard)[i] \in Credentials
        BY <1>1, <4>1, OrderCounts DEF n
      <4> QED
        BY <1>2, <1>3, <3>2, <4>1, <4>2
    <3> QED
      BY <3>1, <3>2
  <2>6. FieldInv(new)
    BY <1>1, <2>2, <2>4, <2>5 DEF FieldInv, n
  <2> QED
    BY <1>5, <2>1, <2>3, <2>4, <2>6
<1> QED
  BY <1>6, <1>8, <1>9

\* The key's token only comes into the context where the admin's did not do.
LEMMA LeavesKeeps ==
    ASSUME AccessInv, UNCHANGED brought, NEW f \in Fields, field[f].stage = "checking",
           \A token : TokenInv(token) => TokenInv(token)',
           context' = Leaves(Current(f), Worth(f) \in {"short", "granted"})
    PROVE  TokenInv(context)' /\ context' \in {"none", "admin", "api"}
<1>1. CASE context' = context
  BY <1>1 DEF AccessInv, AccessTypeOK
<1>2. CASE Current(f) = "api" /\ Worth(f) \in {"short", "granted"} /\ context' = "api"
  <2>1. /\ field[f] \in Checking /\ field[f].guard \in Guards
        /\ field[f].next \in 1 .. Len(Order(field[f].guard))
        /\ Order(field[f].guard)[field[f].next] = "api"
        /\ brought \in [Credentials -> Worths]
    BY <1>2, CurrentIs
  <2>2. field[f].next = 3 /\ 1 \in 1 .. Len(Order(field[f].guard))
    BY <2>1, OrderCounts
  <2>3. Order(field[f].guard)[1] = "admin"
    BY <2>1, OrderIs
  <2>4. Judged(field[f], "admin")
    <3>1. FieldInv(field[f])
      BY DEF AccessInv
    <3>2. Judged(field[f], Order(field[f].guard)[1])
      BY <2>1, <2>2, <3>1 DEF FieldInv
    <3> QED
      BY <2>3, <3>2
  <2>5. brought["api"] \in Worths /\ brought["admin"] \in Worths
    BY <2>1 DEF Credentials
  <2>6. Worth(f) = Finding(brought["api"], field[f].guard)
    BY <1>2, WorthIs
  <2>7. brought["api"] \notin {"absent", "invalid"}
    BY <1>2, <2>5, <2>6, FindingIs
  <2>8. field[f] # Closed
    BY DEF Closed
  <2>9. field[f].found["admin"] = "failed" \/ ~Meets(brought["admin"], field[f].guard)
        \/ Displaced
    BY <2>4, <2>5, FindingIs DEF Judged
  <2>10. Displaced
    BY <2>7, <2>8, <2>9 DEF Displaced, Threw, PassedOver
  <2>11. TokenInv("api")
    BY <2>10 DEF TokenInv
  <2> QED
    BY <1>2, <2>11
<1> QED
  BY <1>1, <1>2 DEF Leaves

LEMMA CheckKeeps ==
    ASSUME AccessInv, NEW f \in Fields, Check(f) PROVE AccessInv'
<1>1. /\ field[f].stage = "checking" /\ Found(f, Worth(f))
      /\ context' = Leaves(Current(f), Worth(f) \in {"short", "granted"})
      /\ UNCHANGED <<brought, operation>>
  BY DEF Check
<1>2. Worth(f) \in Findings
  BY <1>1, WorthIs DEF Findings
<1>3. /\ field' \in [Fields -> {Closed} \cup Checking \cup Over]
      /\ \A token : TokenInv(token) => TokenInv(token)'
      /\ \A g \in Fields : FieldInv(field[g])'
  BY <1>1, <1>2, FoundKeeps
<1>4. TokenInv(context)' /\ context' \in {"none", "admin", "api"}
  BY <1>1, <1>3, LeavesKeeps
<1> QED
  BY <1>1, <1>3, <1>4 DEF AccessInv, AccessTypeOK

LEMMA CheckFailsKeeps ==
    ASSUME AccessInv, NEW f \in Fields, CheckFails(f) PROVE AccessInv'
<1>1. /\ field[f].stage = "checking" /\ Found(f, "failed")
      /\ \/ UNCHANGED context
         \/ context' = Leaves(Current(f), Worth(f) \in {"short", "granted"})
      /\ UNCHANGED <<brought, operation>>
  BY DEF CheckFails
<1>2. "failed" \in Findings
  BY DEF Findings
<1>3. /\ field' \in [Fields -> {Closed} \cup Checking \cup Over]
      /\ \A token : TokenInv(token) => TokenInv(token)'
      /\ \A g \in Fields : FieldInv(field[g])'
  BY <1>1, <1>2, FoundKeeps
<1>4. TokenInv(context)' /\ context' \in {"none", "admin", "api"}
  <2>1. CASE UNCHANGED context
    BY <1>3, <2>1 DEF AccessInv, AccessTypeOK
  <2>2. CASE context' = Leaves(Current(f), Worth(f) \in {"short", "granted"})
    BY <1>1, <1>3, <2>2, LeavesKeeps
  <2> QED
    BY <1>1, <2>1, <2>2
<1> QED
  BY <1>1, <1>3, <1>4 DEF AccessInv, AccessTypeOK

LEMMA AccessStep ==
    ASSUME AccessInv, [AccessNext]_accessVars PROVE AccessInv'
<1>1. CASE Arrive
  BY <1>1, ArriveKeeps
<1>2. ASSUME NEW f \in Fields, NEW guard \in Guards, Open(f, guard) PROVE AccessInv'
  BY <1>2, OpenKeeps
<1>3. ASSUME NEW f \in Fields, Check(f) PROVE AccessInv'
  BY <1>3, CheckKeeps
<1>4. ASSUME NEW f \in Fields, CheckFails(f) PROVE AccessInv'
  BY <1>4, CheckFailsKeeps
<1>5. CASE UNCHANGED accessVars
  BY <1>5 DEF accessVars, AccessInv, AccessTypeOK, TokenInv, FieldInv, Judged, Displaced,
     Threw, PassedOver
<1> QED
  BY <1>1, <1>2, <1>3, <1>4, <1>5 DEF AccessNext

LEMMA AccessInvariant == AccessSpec => []AccessInv
<1>1. AccessInit => AccessInv
  BY AccessStart
<1>2. AccessInv /\ [AccessNext]_accessVars => AccessInv'
  BY AccessStep
<1> QED
  BY <1>1, <1>2, PTL DEF AccessSpec

(***************************************************************************)
(* Every variable always has its type.                                     *)
(***************************************************************************)
THEOREM AccessTypeCorrect == AccessSpec => []AccessTypeOK
<1>1. AccessInv => AccessTypeOK
  BY DEF AccessInv
<1> QED
  BY <1>1, AccessInvariant, PTL

------------------------------------------------------------------------------
\* A field that is over, what it was refused for, and what its credentials are worth.
LEMMA OverIs ==
    ASSUME AccessInv, NEW f \in Fields, Ended(f)
    PROVE  /\ field[f] \in Over /\ field[f] # Closed /\ field[f].guard \in Guards
           /\ field[f].found \in [Credentials -> Findings]
           /\ ToSet(Order(field[f].guard)) \subseteq Credentials
           /\ brought \in [Credentials -> Worths]
           /\ field[f].result = "resolved" =>
                 \E c \in Checked(f) : Meets(brought[c], field[f].guard)
           /\ field[f].result # "resolved" =>
                 /\ \A c \in Checked(f) : Judged(field[f], c)
                 /\ field[f].result = Refusal(field[f].guard, field[f].found)
<1>1. field[f] \in Over /\ field[f] # Closed /\ brought \in [Credentials -> Worths]
  BY FieldShape DEF Ended, AccessInv, AccessTypeOK, Closed
<1>2. field[f].guard \in Guards /\ field[f].found \in [Credentials -> Findings]
  BY <1>1 DEF Over
<1>3. ToSet(Order(field[f].guard)) \subseteq Credentials
  BY <1>2, OrderIs DEF Guards, Credentials
<1>4. FieldInv(field[f])
  BY DEF AccessInv
<1>5. /\ field[f].result = "resolved" =>
            \E c \in Checked(f) : Meets(brought[c], field[f].guard)
      /\ field[f].result # "resolved" =>
            /\ \A c \in Checked(f) : Judged(field[f], c)
            /\ field[f].result = Refusal(field[f].guard, field[f].found)
  BY <1>4 DEF Ended, FieldInv, Checked
<1> QED
  BY <1>1, <1>2, <1>3, <1>5

\* A credential that meets the guard and did not open the field has an excuse.
LEMMA Excused ==
    ASSUME AccessInv, NEW f \in Fields, Ended(f), NEW c \in Checked(f),
           Judged(field[f], c), Meets(brought[c], field[f].guard)
    PROVE  Threw(c) \/ PassedOver(c)
<1>1. brought[c] \in Worths /\ field[f] # Closed
  BY OverIs DEF Checked
<1>2. Finding(brought[c], field[f].guard) = "granted"
  BY <1>1, FindingIs
<1>3. CASE field[f].found[c] = "failed"
  BY <1>1, <1>3 DEF Threw
<1>4. CASE c = "admin" /\ Displaced
  BY <1>4 DEF Displaced
<1> QED
  BY <1>2, <1>3, <1>4 DEF Judged

(***************************************************************************)
(* A guard is exact: a field resolves only by a credential that passes its *)
(* checks, and one that does is refused only where a call about it threw   *)
(* or the key's token has displaced the admin's.                           *)
(***************************************************************************)
THEOREM GuardsAreExact == AccessSpec => []GuardIsExact
<1>1. AccessInv => GuardIsExact
  BY OverIs, Excused DEF GuardIsExact
<1> QED
  BY <1>1, AccessInvariant, PTL

------------------------------------------------------------------------------
\* Without throwing calls, and when the admin token does for both guards or for
\* neither, a field resolves just when one of its credentials meets its guard.
LEMMA ResolvesWhen ==
    ASSUME AccessInv, NoneThrew, brought["admin"] \notin {"viewer", "editor"},
           NEW f \in Fields, Ended(f)
    PROVE  field[f].result = "resolved" <=>
              \E c \in ToSet(Order(field[f].guard)) : Meets(brought[c], field[f].guard)
<1>1. ASSUME NEW c \in Checked(f), Judged(field[f], c), Meets(brought[c], field[f].guard)
      PROVE  FALSE
  <2>1. Threw(c) \/ PassedOver(c)
    BY <1>1, Excused
  <2>2. c \in Credentials
    BY OverIs DEF Checked
  <2>3. PassedOver(c)
    BY <2>1, <2>2 DEF NoneThrew
  <2>4. c = "admin" /\ \E guard : ~Meets(brought["admin"], guard)
    BY <2>3 DEF PassedOver
  <2>5. brought["admin"] = "granted"
    BY <1>1, <2>4 DEF Meets
  <2> QED
    BY <2>4, <2>5 DEF Meets
<1> QED
  BY <1>1, OverIs DEF Checked

\* And the error is that of no token just when none of those that count was brought.
LEMMA RefusedFor ==
    ASSUME AccessInv, NoneThrew, NEW f \in Fields, Ended(f), field[f].result # "resolved"
    PROVE  field[f].result = Refusal(field[f].guard, brought)
<1> DEFINE r == field[f]
<1>1. /\ r.guard \in Guards /\ r # Closed /\ r.found \in [Credentials -> Findings]
      /\ brought \in [Credentials -> Worths]
      /\ \A c \in ToSet(Order(r.guard)) : Judged(r, c)
      /\ r.result = Refusal(r.guard, r.found)
  BY OverIs DEF Checked
<1>2. ASSUME NEW c \in ToSet(Order(r.guard)), c \in Credentials
      PROVE  /\ r.found[c] = "absent" => brought[c] = "absent"
             /\ brought[c] = "absent" =>
                   r.found[c] = "absent" \/ (c = "admin" /\ Displaced)
  <2>1. Judged(r, c) /\ brought[c] \in Worths
    BY <1>1, <1>2
  <2>2. r.found[c] # "failed"
    BY <1>1, <1>2 DEF NoneThrew, Threw
  <2> QED
    BY <2>1, <2>2, FindingIs DEF Judged
<1>3. "admin" \in ToSet(Order(r.guard)) /\ "api" \in ToSet(Order(r.guard))
  BY <1>1, OrderIs DEF Guards, Credentials
<1>4. Displaced => brought["api"] # "absent"
  BY DEF Displaced
<1>5. /\ "header" \in ToSet(Order(r.guard))
      /\ r.guard = "validateStoreUserAccess" => "store" \in ToSet(Order(r.guard))
  BY <1>1, OrderIs DEF Guards, Credentials
<1>6. CASE r.guard = "validateAdminUserAccess"
  <2>1. (\A c \in {"admin", "header", "api"} : r.found[c] = "absent")
        <=> (\A c \in {"admin", "header", "api"} : brought[c] = "absent")
    BY <1>2, <1>3, <1>4, <1>5 DEF Credentials
  <2> QED
    BY <1>1, <1>6, <2>1 DEF Refusal
<1>7. CASE r.guard = "validateStoreUserAccess"
  <2>1. (\A c \in {"admin", "api", "store"} : r.found[c] = "absent")
        <=> (\A c \in {"admin", "api", "store"} : brought[c] = "absent")
    BY <1>2, <1>3, <1>4, <1>5, <1>7 DEF Credentials
  <2> QED
    BY <1>1, <1>7, <2>1 DEF Refusal
<1> QED
  BY <1>1, <1>6, <1>7 DEF Guards

(***************************************************************************)
(* Two fields of a request under one guard end alike, down to the error,   *)
(* if no call throws and the admin token does for both guards or neither.  *)
(***************************************************************************)
THEOREM SiblingsEndAlike == AccessSpec => []SiblingsAgree
<1>1. AccessInv => SiblingsAgree
  <2> SUFFICES ASSUME AccessInv, NEW f \in Fields, NEW g \in Fields, Ended(f), Ended(g),
                      field[f].guard = field[g].guard, NoneThrew,
                      brought["admin"] \notin {"viewer", "editor"}
               PROVE  field[f].result = field[g].result
    BY DEF SiblingsAgree
  <2>1. field[f].result = "resolved" <=> field[g].result = "resolved"
    BY ResolvesWhen
  <2> QED
    BY <2>1, RefusedFor
<1> QED
  BY <1>1, AccessInvariant, PTL

==============================================================================
