------------------------- MODULE Integrations_proofs -------------------------
(***************************************************************************)
(* Proofs about the integrations: what requests that overlap do not lose,  *)
(* and that a request which nothing interferes with leaves them in order.  *)
(***************************************************************************)
EXTENDS Integrations, FiniteSetTheorems, TLAPS

Statuses == {"none", "present", "deleted"}

Fields == {"status", "env", "active", "primary", "priority", "conditions"}

\* A $set that gives some of the fields.
Typed(set) ==
    /\ DOMAIN set \subseteq Fields
    /\ "status" \in DOMAIN set => set["status"] \in Statuses
    /\ "env" \in DOMAIN set => set["env"] \in Envs
    /\ "active" \in DOMAIN set => set["active"] \in BOOLEAN
    /\ "primary" \in DOMAIN set => set["primary"] \in BOOLEAN
    /\ "priority" \in DOMAIN set => set["priority"] \in Nat
    /\ "conditions" \in DOMAIN set => set["conditions"] \in BOOLEAN

Kinds == {"create", "update", "primary", "remove"}

PCs == {"highest", "bump", "find", "recalculate", "unset", "write", "delete"}

BusyRec(q) ==
    /\ q \in [kind : Kinds, pc : PCs, id : Ids, env : Envs \cup {Organization}, set : {q.set},
              strip : BOOLEAN, todo : SUBSET (Ids \X Nat), alone : BOOLEAN]
    /\ Typed(q.set)

TypeInv ==
    /\ store \in [Ids -> Entries]
    /\ req = [r \in Requests |-> req[r]]
    /\ \A r \in Requests : req[r] = Idle \/ BusyRec(req[r])
    /\ count \in 0..MaxRequests
    /\ tidy \in BOOLEAN
    /\ had \subseteq Envs /\ dropped \subseteq Envs

-----------------------------------------------------------------------------
(* Documents and what is written over them.                                 *)

LEMMA OnField ==
    ASSUME NEW set, NEW doc, NEW f \in DOMAIN set \cup DOMAIN doc
    PROVE  On(set, doc)[f] = IF f \in DOMAIN set THEN set[f] ELSE doc[f]
BY DEF On

LEMMA OnDomain ==
    ASSUME NEW set, NEW doc
    PROVE  DOMAIN On(set, doc) = DOMAIN set \cup DOMAIN doc
BY DEF On

LEMMA OnTyped ==
    ASSUME NEW a, NEW b, Typed(a), Typed(b)
    PROVE  Typed(On(a, b))
<1>1. DOMAIN On(a, b) \subseteq Fields
  BY OnDomain DEF Typed
<1>2. \A f \in DOMAIN On(a, b) :
        On(a, b)[f] = IF f \in DOMAIN a THEN a[f] ELSE b[f]
  BY DEF On
<1>3. \A f \in DOMAIN On(a, b) : f \notin DOMAIN a => f \in DOMAIN b
  BY OnDomain
<1> DEFINE o == On(a, b)
<1> HIDE DEF o
<1>4. "status" \in DOMAIN o => o["status"] \in Statuses
  BY <1>2, <1>3 DEF Typed, o
<1>5. "env" \in DOMAIN o => o["env"] \in Envs
  BY <1>2, <1>3 DEF Typed, o
<1>6. "active" \in DOMAIN o => o["active"] \in BOOLEAN
  BY <1>2, <1>3 DEF Typed, o
<1>7. "primary" \in DOMAIN o => o["primary"] \in BOOLEAN
  BY <1>2, <1>3 DEF Typed, o
<1>8. "priority" \in DOMAIN o => o["priority"] \in Nat
  BY <1>2, <1>3 DEF Typed, o
<1>9. "conditions" \in DOMAIN o => o["conditions"] \in BOOLEAN
  BY <1>2, <1>3 DEF Typed, o
<1> QED
  BY <1>1, <1>4, <1>5, <1>6, <1>7, <1>8, <1>9 DEF Typed, o

LEMMA OnEntry ==
    ASSUME NEW set, Typed(set), NEW doc \in Entries
    PROVE  /\ On(set, doc) \in Entries
           /\ \A f \in Fields : On(set, doc)[f] = IF f \in DOMAIN set THEN set[f] ELSE doc[f]
<1>1. DOMAIN doc = Fields
  BY DEF Entries, Fields
<1>2. \A f \in Fields : On(set, doc)[f] = IF f \in DOMAIN set THEN set[f] ELSE doc[f]
  BY <1>1, OnField
<1>3. DOMAIN On(set, doc) = Fields
  BY <1>1, OnDomain DEF Typed
<1> DEFINE o == On(set, doc)
<1>4. o = [f \in Fields |-> o[f]]
  BY <1>3, <1>1 DEF On, Typed
<1>5. o["status"] \in Statuses /\ o["env"] \in Envs /\ o["active"] \in BOOLEAN
      /\ o["primary"] \in BOOLEAN /\ o["priority"] \in Nat /\ o["conditions"] \in BOOLEAN
  BY <1>2 DEF Typed, Entries, Fields, Statuses
<1> HIDE DEF o
<1>6. o \in Entries
  BY <1>4, <1>5 DEF Entries, Fields, Statuses
<1> QED
  BY <1>2, <1>6 DEF o
-----------------------------------------------------------------------------
(* Types.                                                                   *)

LEMMA TypeInit == Init => TypeInv
BY IntegrationAssumption DEF Init, TypeInv, Active, Present, Primary

LEMMA NoFieldsTyped == Typed(NoFields)
BY DEF Typed, NoFields, Fields

LEMMA PayloadTyped ==
    ASSUME store \in [Ids -> Entries], NEW i \in Ids, NEW p \in Payloads
    PROVE  Typed(PayloadOf(i, p[1], p[2]))
<1>1. PICK D \in SUBSET {"active", "conditions"} : p[1] \in [D -> BOOLEAN]
  BY DEF Payloads
<1>2. Typed(p[1])
  <2> DEFINE given == p[1]
  <2> HIDE DEF given
  <2>1. given \in [D -> BOOLEAN] /\ DOMAIN given = D
    BY <1>1 DEF given
  <2>2. \A f \in DOMAIN given : (f = "active" \/ f = "conditions") /\ given[f] \in BOOLEAN
    BY <2>1
  <2>3. Typed(given)
    BY <2>2 DEF Typed, Fields
  <2> QED
    BY <2>3 DEF given
<1>3. p[2] = {} \/ \E e \in Envs : p[2] = {e}
  BY DEF Payloads
<1>4. Typed(Moved(p[2]))
  <2>1. CASE p[2] = {}
    BY <2>1, NoFieldsTyped DEF Moved
  <2>2. ASSUME NEW e \in Envs, p[2] = {e} PROVE Typed(Moved(p[2]))
    BY <2>2 DEF Moved, Typed, Fields
  <2> QED
    BY <1>3, <2>1, <2>2
<1>5. store[i].primary \in BOOLEAN
  BY DEF Entries
<1>6. \A b \in BOOLEAN : Typed([primary |-> b, priority |-> 0]) /\ Typed([primary |-> b])
  BY DEF Typed, Fields
<1> DEFINE changed == "active" \in DOMAIN p[1] /\ p[1]["active"] # store[i].active
           off     == IF changed /\ ~p[1]["active"] THEN [primary |-> FALSE, priority |-> 0] ELSE NoFields
           bare    == IF HaveConditions(p[1]) /\ store[i].primary THEN [primary |-> FALSE] ELSE NoFields
           kept    == IF changed THEN [primary |-> store[i].primary, priority |-> 0] ELSE NoFields
<1>7. Typed(off) /\ Typed(bare) /\ Typed(kept)
  BY <1>5, <1>6, NoFieldsTyped
<1>8. PayloadOf(i, p[1], p[2]) = On(p[1], On(Moved(p[2]), On(off, On(bare, kept))))
  BY DEF PayloadOf
<1> HIDE DEF off, bare, kept
<1>9. Typed(On(off, On(bare, kept)))
  BY <1>7, OnTyped
<1>10. Typed(On(Moved(p[2]), On(off, On(bare, kept))))
  BY <1>4, <1>9, OnTyped
<1> QED
  BY <1>2, <1>8, <1>10, OnTyped

LEMMA BeginTypes ==
    ASSUME TypeInv, NEW r \in Requests, NEW kind \in Kinds, NEW pc \in PCs, NEW id \in Ids,
           NEW env \in Envs, NEW set, Typed(set), Begin(r, kind, pc, id, env, set),
           tidy' \in BOOLEAN, dropped' \subseteq Envs
    PROVE  TypeInv'
<1> DEFINE new == [kind |-> kind, pc |-> pc, id |-> id, env |-> env, set |-> set,
                   strip |-> kind = "update" /\ HaveConditions(set) /\ store[id].primary,
                   todo |-> {}, alone |-> Busy = {}]
<1>1. BusyRec(new)
  <2> DEFINE s == kind = "update" /\ HaveConditions(set) /\ store[id].primary
             b == Busy = {}
  <2>1. s \in BOOLEAN /\ b \in BOOLEAN
    BY DEF TypeInv, Entries
  <2> HIDE DEF s, b
  <2>2. BusyRec([kind |-> kind, pc |-> pc, id |-> id, env |-> env, set |-> set, strip |-> s,
                 todo |-> {}, alone |-> b])
    BY <2>1 DEF BusyRec
  <2> QED
    BY <2>2 DEF s, b
<1> HIDE DEF new
<1>2. req' = [q \in Requests |-> IF q = r THEN new ELSE
                IF q \in Busy THEN [req[q] EXCEPT !.alone = FALSE] ELSE req[q]]
  BY DEF Begin, new
<1>3. \A q \in Requests : req'[q] = Idle \/ BusyRec(req'[q])
  <2> SUFFICES ASSUME NEW q \in Requests PROVE req'[q] = Idle \/ BusyRec(req'[q])
    OBVIOUS
  <2>1. CASE q = r
    BY <1>1, <1>2, <2>1
  <2>2. CASE q # r /\ q \in Busy
    <3>1. BusyRec(req[q])
      BY <2>2 DEF TypeInv, Busy, At, Idle
    <3>2. req'[q] = [req[q] EXCEPT !.alone = FALSE]
      BY <1>2, <2>2
    <3> QED
      BY <3>1, <3>2 DEF BusyRec
  <2>3. CASE q # r /\ q \notin Busy
    BY <1>2, <2>3 DEF TypeInv
  <2> QED
    BY <2>1, <2>2, <2>3
<1>4. count' \in 0..MaxRequests
  BY IntegrationAssumption DEF Begin, TypeInv
<1> QED
  BY <1>2, <1>3, <1>4 DEF Begin, TypeInv

\* A step of a request that is under way.
LEMMA GoesTypes ==
    ASSUME TypeInv, NEW r \in Requests, req' = [req EXCEPT ![r] = req'[r]],
           req'[r] = Idle \/ BusyRec(req'[r]),
           store' \in [Ids -> Entries], had' \subseteq Envs, UNCHANGED <<count, tidy, dropped>>
    PROVE  TypeInv'
BY DEF TypeInv

LEMMA BusyRecs ==
    ASSUME TypeInv, NEW r \in Requests, req[r].pc # "idle"
    PROVE  BusyRec(req[r]) /\ r \in Busy
BY DEF TypeInv, Busy, At, Idle

LEMMA SetPriority ==
    ASSUME NEW q, BusyRec(q), NEW n \in Nat, NEW pc \in PCs, NEW todo \in SUBSET (Ids \X Nat)
    PROVE  /\ BusyRec([q EXCEPT !.pc = pc, !.set.priority = n])
           /\ BusyRec([q EXCEPT !.pc = pc, !.set.priority = n, !.todo = todo])
<1>1. Typed([q.set EXCEPT !["priority"] = n])
  <2> DEFINE s == q.set
             o == [s EXCEPT !["priority"] = n]
  <2> HIDE DEF s
  <2>1. Typed(s)
    BY DEF BusyRec, s
  <2>2. DOMAIN o = DOMAIN s /\ \A f \in DOMAIN s : o[f] = IF f = "priority" THEN n ELSE s[f]
    OBVIOUS
  <2> HIDE DEF o
  <2>3. Typed(o)
    BY <2>1, <2>2 DEF Typed
  <2> QED
    BY <2>3 DEF o, s
<1> DEFINE t == [q.set EXCEPT !["priority"] = n]
<1> HIDE DEF t
<1>2. [q EXCEPT !.pc = pc, !.set.priority = n] = [q EXCEPT !.pc = pc, !.set = t]
  BY DEF t
<1>3. [q EXCEPT !.pc = pc, !.set.priority = n, !.todo = todo]
        = [q EXCEPT !.pc = pc, !.set = t, !.todo = todo]
  BY DEF t
<1>4. Typed(t)
  BY <1>1 DEF t
<1> QED
  BY <1>2, <1>3, <1>4 DEF BusyRec

LEMMA RankTypes ==
    ASSUME NEW ids \in SUBSET Ids, NEW first, NEW rank \in Rankings(ids, first)
    PROVE  /\ \A i \in ids : rank[i] \in Nat /\ rank[i] > 0
           /\ {<<i, rank[i]>> : i \in ids} \in SUBSET (Ids \X Nat)
<1>1. IsFiniteSet(ids) /\ Cardinality(ids) \in Nat
  BY IntegrationAssumption, FS_Subset, FS_CardinalityType
<1>2. \A i \in ids : rank[i] \in Nat /\ rank[i] > 0
  BY <1>1 DEF Rankings
<1> QED
  BY <1>2

LEMMA CalculateTypes ==
    ASSUME TypeInv, NEW r \in Requests, CalculatePriority(r)
    PROVE  TypeInv'
<1> DEFINE e == req[r].env
<1>1. BusyRec(req[r])
  BY BusyRecs DEF CalculatePriority, At
<1>2. CASE Active(e) = {} /\ req' = [req EXCEPT ![r].pc = "write", ![r].set.priority = 1]
  <2>1. req' = [req EXCEPT ![r] = [req[r] EXCEPT !.pc = "write", !.set.priority = 1]]
    BY <1>2
  <2>2. BusyRec([req[r] EXCEPT !.pc = "write", !.set.priority = 1])
    BY <1>1, SetPriority DEF PCs
  <2>3. BusyRec(req'[r]) /\ req' = [req EXCEPT ![r] = req'[r]]
    BY <2>1, <2>2 DEF TypeInv
  <2> QED
    BY <2>3, GoesTypes DEF CalculatePriority, TypeInv
<1>3. ASSUME NEW i \in Highest(e),
             req' = [req EXCEPT ![r] =
                IF store[i].primary
                THEN [@ EXCEPT !.pc = "bump", !.set.priority = store[i].priority,
                               !.todo = RoomFor(i)]
                ELSE [@ EXCEPT !.pc = "write", !.set.priority = store[i].priority + 1]]
      PROVE  TypeInv'
  <2>1. i \in Ids /\ store[i].priority \in Nat
    BY DEF TypeInv, Entries, Highest, Active, Present
  <2>2. RoomFor(i) \in SUBSET (Ids \X Nat)
    BY <2>1 DEF RoomFor
  <2>3. BusyRec([req[r] EXCEPT !.pc = "bump", !.set.priority = store[i].priority,
                               !.todo = RoomFor(i)])
    BY <1>1, <2>1, <2>2, SetPriority DEF PCs
  <2>4. BusyRec([req[r] EXCEPT !.pc = "write", !.set.priority = store[i].priority + 1])
    <3> DEFINE n == store[i].priority + 1
    <3>1. n \in Nat
      BY <2>1
    <3> HIDE DEF n
    <3>2. BusyRec([req[r] EXCEPT !.pc = "write", !.set.priority = n])
      BY <1>1, <3>1, SetPriority DEF PCs
    <3> QED
      BY <3>2 DEF n
  <2>5. BusyRec(req'[r]) /\ req' = [req EXCEPT ![r] = req'[r]]
    BY <1>3, <2>3, <2>4 DEF TypeInv
  <2> QED
    BY <2>5, GoesTypes DEF CalculatePriority, TypeInv
<1> QED
  BY <1>2, <1>3 DEF CalculatePriority

LEMMA FindTypes ==
    ASSUME TypeInv, NEW r \in Requests, FindActive(r)
    PROVE  TypeInv'
<1>1. BusyRec(req[r])
  BY BusyRecs DEF FindActive, At
<1> DEFINE first == IF req[r].kind = "remove" THEN {} ELSE {req[r].id}
           ids   == Active(req[r].env) \cup first
<1>2. PICK rank \in Rankings(ids, first) :
          req' = [req EXCEPT ![r].pc = "recalculate", ![r].todo = {<<i, rank[i]>> : i \in ids}]
  BY DEF FindActive
<1>3. ids \in SUBSET Ids
  BY <1>1 DEF BusyRec, Active, Present
<1> DEFINE t == {<<i, rank[i]>> : i \in ids}
<1> HIDE DEF first, ids
<1>4. t \in SUBSET (Ids \X Nat)
  BY <1>2, <1>3, RankTypes
<1> HIDE DEF t
<1>5. req' = [req EXCEPT ![r] = [req[r] EXCEPT !.pc = "recalculate", !.todo = t]]
  BY <1>2 DEF t
<1>6. BusyRec([req[r] EXCEPT !.pc = "recalculate", !.todo = t])
  BY <1>1, <1>4 DEF BusyRec, PCs
<1>7. BusyRec(req'[r]) /\ req' = [req EXCEPT ![r] = req'[r]]
  BY <1>5, <1>6 DEF TypeInv
<1> QED
  BY <1>7, GoesTypes DEF FindActive, TypeInv

LEMMA WritePriorityTypes ==
    ASSUME TypeInv, NEW r \in Requests, WritePriority(r)
    PROVE  TypeInv'
<1>1. BusyRec(req[r])
  BY BusyRecs DEF WritePriority
<1>2. PICK w \in req[r].todo :
          /\ store' = IF Matches(w[1], req[r].env) THEN [store EXCEPT ![w[1]].priority = w[2]]
                      ELSE store
          /\ req' = [req EXCEPT ![r].todo = @ \ {w}]
  BY DEF WritePriority
<1>3. w \in Ids \X Nat
  BY <1>1, <1>2 DEF BusyRec
<1>4. store' \in [Ids -> Entries]
  <2>1. [store[w[1]] EXCEPT !.priority = w[2]] \in Entries
    BY <1>3 DEF TypeInv, Entries
  <2> QED
    BY <1>2, <1>3, <2>1 DEF TypeInv
<1>5. BusyRec([req[r] EXCEPT !.todo = req[r].todo \ {w}])
  BY <1>1 DEF BusyRec
<1>6. BusyRec(req'[r]) /\ req' = [req EXCEPT ![r] = req'[r]]
  BY <1>2, <1>5 DEF TypeInv
<1> QED
  BY <1>4, <1>6, GoesTypes DEF WritePriority, TypeInv

\* A request that goes to another control state or ends.
LEMMA PcTypes ==
    ASSUME TypeInv, NEW r \in Requests, BusyRec(req[r]),
           End(r) \/ \E pc \in PCs : Goes(r, pc)
    PROVE  /\ req'[r] = Idle \/ BusyRec(req'[r])
           /\ req' = [req EXCEPT ![r] = req'[r]]
<1>1. CASE End(r)
  BY <1>1 DEF End, TypeInv
<1>2. ASSUME NEW pc \in PCs, Goes(r, pc)
      PROVE  BusyRec(req'[r]) /\ req' = [req EXCEPT ![r] = req'[r]]
  <2>1. BusyRec([req[r] EXCEPT !.pc = pc])
    BY DEF BusyRec
  <2> QED
    BY <1>2, <2>1 DEF Goes, TypeInv
<1> QED
  BY <1>1, <1>2

LEMMA RecalculatedTypes ==
    ASSUME TypeInv, NEW r \in Requests, Recalculated(r)
    PROVE  TypeInv'
<1>1. BusyRec(req[r])
  BY BusyRecs DEF Recalculated
<1>2. End(r) \/ \E pc \in PCs : Goes(r, pc)
  BY DEF Recalculated, PCs
<1> QED
  BY <1>1, <1>2, PcTypes, GoesTypes DEF Recalculated, TypeInv

LEMMA UnsetTypes ==
    ASSUME TypeInv, NEW r \in Requests, UnsetPrimary(r)
    PROVE  TypeInv'
<1>1. BusyRec(req[r])
  BY BusyRecs DEF UnsetPrimary, At
<1>2. store' \in [Ids -> Entries]
  <2>1. \A i \in Ids : [store[i] EXCEPT !.primary = FALSE] \in Entries
    BY DEF TypeInv, Entries
  <2> QED
    BY <2>1 DEF UnsetPrimary, TypeInv
<1>3. End(r) \/ \E pc \in PCs : Goes(r, pc)
  BY DEF UnsetPrimary, PCs
<1> QED
  BY <1>1, <1>2, <1>3, PcTypes, GoesTypes DEF UnsetPrimary, TypeInv

LEMMA WriteTypes ==
    ASSUME TypeInv, NEW r \in Requests, Write(r)
    PROVE  TypeInv'
<1>1. BusyRec(req[r])
  BY BusyRecs DEF Write, At
<1>2. req[r].id \in Ids /\ store[req[r].id] \in Entries /\ Typed(req[r].set)
  BY <1>1 DEF BusyRec, TypeInv
<1>3. store' \in [Ids -> Entries]
  <2>1. On(req[r].set, store[req[r].id]) \in Entries
    BY <1>2, OnEntry
  <2> QED
    BY <1>2, <2>1 DEF Write, TypeInv
<1>4. had' \subseteq Envs
  BY <1>2 DEF Write, Matches, Entries, TypeInv
<1>5. /\ req'[r] = Idle \/ BusyRec(req'[r])
      /\ req' = [req EXCEPT ![r] = req'[r]]
  <2>1. CASE req[r].kind # "primary" /\ req[r].strip
    <3>1. BusyRec([req[r] EXCEPT !.pc = "find", !.env = Organization])
      BY <1>1 DEF BusyRec, PCs
    <3>2. req' = [req EXCEPT ![r] = [req[r] EXCEPT !.pc = "find", !.env = Organization]]
      BY <2>1 DEF Write
    <3> QED
      BY <3>1, <3>2 DEF TypeInv
  <2>2. CASE ~(req[r].kind # "primary" /\ req[r].strip)
    <3>1. End(r) \/ \E pc \in PCs : Goes(r, pc)
      BY <2>2 DEF Write, PCs
    <3> QED
      BY <1>1, <3>1, PcTypes
  <2> QED
    BY <2>1, <2>2
<1> QED
  BY <1>3, <1>4, <1>5, GoesTypes DEF Write

LEMMA DeleteTypes ==
    ASSUME TypeInv, NEW r \in Requests, Delete(r)
    PROVE  TypeInv'
<1>1. BusyRec(req[r])
  BY BusyRecs DEF Delete, At
<1>2. req[r].id \in Ids
  BY <1>1 DEF BusyRec
<1>3. store' \in [Ids -> Entries]
  <2>1. [store[req[r].id] EXCEPT !.status = "deleted"] \in Entries
    BY <1>2 DEF TypeInv, Entries
  <2> QED
    BY <1>2, <2>1 DEF Delete, TypeInv
<1>4. End(r) \/ \E pc \in PCs : Goes(r, pc)
  BY DEF Delete, PCs
<1> QED
  BY <1>1, <1>3, <1>4, PcTypes, GoesTypes DEF Delete, TypeInv

-----------------------------------------------------------------------------
(* The requests that begin.                                                 *)

NewSet(i, e, active, conditions) ==
    [status |-> "present", env |-> e, active |-> active, primary |-> FALSE,
     priority |-> 0, conditions |-> conditions]

ChosenSet == [active |-> TRUE, primary |-> TRUE, conditions |-> FALSE]

LEMMA CreateTypes ==
    ASSUME TypeInv, NEW r \in Requests, CreateIntegration(r)
    PROVE  TypeInv'
<1>1. PICK i \in Ids, e \in Envs, active \in BOOLEAN, conditions \in BOOLEAN :
          Begin(r, "create", IF active THEN "highest" ELSE "write", i, e,
                NewSet(i, e, active, conditions))
  BY DEF CreateIntegration, NewSet
<1>2. Typed(NewSet(i, e, active, conditions))
  BY DEF Typed, NewSet, Fields, Statuses
<1>3. tidy' \in BOOLEAN /\ dropped' \subseteq Envs
  BY DEF CreateIntegration, TypeInv
<1>4. (IF active THEN "highest" ELSE "write") \in PCs /\ "create" \in Kinds
  BY DEF PCs, Kinds
<1> QED
  BY <1>1, <1>2, <1>3, <1>4, BeginTypes

LEMMA UpdateTypes ==
    ASSUME TypeInv, NEW r \in Requests, UpdateIntegration(r)
    PROVE  TypeInv'
<1>1. PICK i \in Ids, p \in Payloads :
          /\ Begin(r, "update",
                   IF "active" \notin DOMAIN p[1] \/ p[1]["active"] = store[i].active THEN "write"
                   ELSE IF p[1]["active"] THEN "highest" ELSE "find",
                   i, store[i].env, PayloadOf(i, p[1], p[2]))
          /\ tidy' = (tidy /\ Busy = {} /\ p[2] = {})
          /\ dropped' = IF \/ "active" \in DOMAIN p[1]
                           \/ "conditions" \in DOMAIN p[1] /\ p[1]["conditions"]
                           \/ p[2] # {}
                        THEN dropped \cup {store[i].env} \cup p[2] ELSE dropped
  BY DEF UpdateIntegration
<1>2. Typed(PayloadOf(i, p[1], p[2]))
  BY PayloadTyped DEF TypeInv
<1>3. store[i].env \in Envs /\ p[2] \subseteq Envs
  BY DEF TypeInv, Entries, Payloads
<1>4. tidy' \in BOOLEAN /\ dropped' \subseteq Envs
  BY <1>1, <1>3 DEF TypeInv
<1> DEFINE pc == IF "active" \notin DOMAIN p[1] \/ p[1]["active"] = store[i].active THEN "write"
                 ELSE IF p[1]["active"] THEN "highest" ELSE "find"
<1>5. pc \in PCs /\ "update" \in Kinds
  BY DEF PCs, Kinds
<1>6. Begin(r, "update", pc, i, store[i].env, PayloadOf(i, p[1], p[2]))
  BY <1>1
<1> HIDE DEF pc
<1> QED
  BY <1>2, <1>3, <1>4, <1>5, <1>6, BeginTypes

LEMMA ChoiceTypes ==
    ASSUME TypeInv, NEW r \in Requests, SetIntegrationAsPrimary(r)
    PROVE  TypeInv'
<1>1. PICK i \in Ids : Begin(r, "primary", "unset", i, store[i].env, ChosenSet)
  BY DEF SetIntegrationAsPrimary, ChosenSet
<1>2. Typed(ChosenSet)
  BY DEF Typed, ChosenSet, Fields
<1>3. store[i].env \in Envs
  BY DEF TypeInv, Entries
<1>4. tidy' \in BOOLEAN /\ dropped' \subseteq Envs
  BY DEF SetIntegrationAsPrimary, TypeInv
<1>5. "unset" \in PCs /\ "primary" \in Kinds
  BY DEF PCs, Kinds
<1> QED
  BY <1>1, <1>2, <1>3, <1>4, <1>5, BeginTypes

LEMMA RemoveTypes ==
    ASSUME TypeInv, NEW r \in Requests, RemoveIntegration(r)
    PROVE  TypeInv'
<1>1. PICK i \in Ids : /\ Begin(r, "remove", "delete", i, store[i].env, NoFields)
                       /\ dropped' = dropped \cup {store[i].env}
  BY DEF RemoveIntegration
<1>2. store[i].env \in Envs
  BY DEF TypeInv, Entries
<1>3. tidy' \in BOOLEAN /\ dropped' \subseteq Envs
  BY <1>1, <1>2 DEF RemoveIntegration, TypeInv
<1>4. "delete" \in PCs /\ "remove" \in Kinds
  BY DEF PCs, Kinds
<1> QED
  BY <1>1, <1>2, <1>3, <1>4, NoFieldsTyped, BeginTypes

LEMMA TypeStep == TypeInv /\ [Next]_vars => TypeInv'
<1> SUFFICES ASSUME TypeInv, [Next]_vars PROVE TypeInv'
  OBVIOUS
<1>1. CASE UNCHANGED vars
  BY <1>1 DEF TypeInv, vars, Idle
<1>2. CASE Next
  BY <1>2, CreateTypes, UpdateTypes, ChoiceTypes, RemoveTypes, CalculateTypes, FindTypes,
     WritePriorityTypes, RecalculatedTypes, UnsetTypes, WriteTypes, DeleteTypes DEF Next
<1> QED
  BY <1>1, <1>2

\* The types hold for any integrations, environments and requests: whatever $set an update puts
\* together, what is written is an integration, of an environment and not of an organization.
THEOREM TypeCorrect == Spec => []TypeOK
<1>1. TypeInv => TypeOK
  <2> SUFFICES ASSUME TypeInv PROVE TypeOK
    OBVIOUS
  <2>1. \A r \in Busy : BusyRec(req[r])
    BY DEF TypeInv, Busy, At, Idle
  <2>2. \A r \in Busy : On(req[r].set, store[req[r].id]) \in Entries
    BY <2>1, OnEntry DEF BusyRec, TypeInv
  <2> QED
    BY <2>1, <2>2 DEF TypeInv, TypeOK, BusyRec, Kinds, PCs
<1> QED
  BY <1>1, TypeInit, TypeStep, PTL DEF Spec

LEMMA Typing == Spec => []TypeInv
BY TypeInit, TypeStep, PTL DEF Spec

-----------------------------------------------------------------------------
(* The primary integration of an environment that nobody may give up.       *)

\* What kind of request is where, and what it is about to write.
Shape(q) ==
    /\ q.strip => q.kind = "update"
    /\ q.kind = "create" => /\ q.pc \in {"highest", "bump", "write"}
                            /\ DOMAIN q.set = Fields /\ q.set["primary"] = FALSE
                            /\ q.set["env"] = q.env /\ q.set["status"] = "present"
    /\ q.kind = "primary" => q.pc \in {"unset", "write", "find", "recalculate"} /\ q.set = ChosenSet
    /\ q.kind = "update" => /\ q.pc \in {"highest", "bump", "find", "recalculate", "write"}
                            /\ "status" \notin DOMAIN q.set
    /\ q.kind = "remove" => q.pc \in {"delete", "find", "recalculate"}

\* A created integration is not there yet, the others are, and what may leave an environment
\* or come to it has been noted.
Noted(q) ==
    /\ q.kind = "create" <=> store[q.id].status = "none"
    /\ q.kind = "update" /\ "env" \in DOMAIN q.set => q.set["env"] \in dropped
    /\ q.pc = "delete" => store[q.id].env \in dropped
    /\ q.env \in Envs \ dropped =>
          /\ q.kind # "remove"
          /\ q.kind = "primary" => Matches(q.id, q.env)
          /\ q.kind = "update" => q.pc = "write" /\ ~q.strip /\ DOMAIN q.set \subseteq {"conditions"}

OwnCreation == \A q, r \in Busy : q # r /\ req[q].kind = "create" => req[q].id # req[r].id

\* The two updates of a choice: the environment has a primary integration or is about to.
Held(e) ==
    \/ Primary(e) # {}
    \/ \E r \in Busy : req[r].kind = "primary" /\ req[r].pc = "write" /\ req[r].env = e

NotedInv ==
    /\ TypeInv
    /\ \A r \in Busy : Shape(req[r]) /\ Noted(req[r])
    /\ OwnCreation

HeldInv == NotedInv /\ \A e \in had \ dropped : Held(e)

-----------------------------------------------------------------------------
(* Steps that begin a request.                                              *)

LEMMA BeginNotes ==
    ASSUME NotedInv, NEW r \in Requests, NEW kind, NEW pc \in PCs, NEW id, NEW env, NEW set,
           Begin(r, kind, pc, id, env, set), dropped \subseteq dropped', TypeInv',
           Shape(req'[r]), Noted(req[r])',
           \A q \in Busy : kind = "create" => req[q].id # id,
           kind # "create" => store[id].status # "none"
    PROVE  NotedInv'
<1>1. req'[r].kind = kind /\ req'[r].id = id /\ req'[r].pc = pc /\ store' = store
  BY DEF Begin
<1>2. Busy' = Busy \cup {r} /\ r \notin Busy
  <2>1. \A q \in Requests : q # r => req'[q].pc = req[q].pc
    <3> SUFFICES ASSUME NEW q \in Requests, q # r PROVE req'[q].pc = req[q].pc
      OBVIOUS
    <3>1. CASE q \in Busy
      <4>1. req'[q] = [req[q] EXCEPT !.alone = FALSE]
        BY <3>1 DEF Begin
      <4>2. BusyRec(req[q])
        BY <3>1 DEF NotedInv, TypeInv, Busy, At, Idle
      <4> QED
        BY <4>1, <4>2 DEF BusyRec
    <3>2. CASE q \notin Busy
      BY <3>2 DEF Begin
    <3> QED
      BY <3>1, <3>2
  <2>2. req[r].pc = "idle" /\ req'[r].pc # "idle"
    BY <1>1 DEF Begin, At, PCs
  <2> QED
    BY <2>1, <2>2 DEF Busy, At
<1>3. ASSUME NEW q \in Busy
      PROVE  /\ req'[q].kind = req[q].kind /\ req'[q].id = req[q].id /\ req'[q].pc = req[q].pc
             /\ req'[q].env = req[q].env /\ req'[q].set = req[q].set /\ req'[q].strip = req[q].strip
  <2>1. req'[q] = [req[q] EXCEPT !.alone = FALSE]
    BY <1>2 DEF Begin, Busy
  <2>2. BusyRec(req[q])
    BY DEF NotedInv, TypeInv, Busy, At, Idle
  <2> QED
    BY <2>1, <2>2 DEF BusyRec
<1>4. \A q \in Busy : Shape(req'[q])
  BY <1>3 DEF NotedInv, Shape
<1>5. \A q \in Busy : Noted(req[q])'
  BY <1>1, <1>3 DEF NotedInv, Noted, Matches
<1>6. OwnCreation'
  <2>1. \A q \in Busy : req[q].kind = "create" => store[req[q].id].status = "none"
    BY DEF NotedInv, Noted
  <2> QED
    BY <1>1, <1>2, <1>3, <2>1 DEF NotedInv, OwnCreation
<1> QED
  BY <1>2, <1>4, <1>5, <1>6 DEF NotedInv

\* Nothing that was held is lost when a request begins.
LEMMA BeginHolds ==
    ASSUME HeldInv, NEW r \in Requests, NEW kind, NEW pc \in PCs, NEW id, NEW env, NEW set,
           Begin(r, kind, pc, id, env, set), dropped \subseteq dropped', NotedInv'
    PROVE  HeldInv'
<1>1. store' = store /\ had' = had
  BY DEF Begin
<1>2. ASSUME NEW q \in Busy
      PROVE  /\ q \in Busy' /\ req'[q].kind = req[q].kind /\ req'[q].pc = req[q].pc
             /\ req'[q].env = req[q].env
  <2>1. q \in Requests /\ q # r
    BY DEF Begin, Busy
  <2>2. req'[q] = [req[q] EXCEPT !.alone = FALSE]
    BY <2>1 DEF Begin
  <2>3. BusyRec(req[q])
    BY DEF HeldInv, NotedInv, TypeInv, Busy, At, Idle
  <2> QED
    BY <2>1, <2>2, <2>3 DEF BusyRec, Busy, At
<1>3. \A e \in had \ dropped : Held(e)'
  BY <1>1, <1>2 DEF HeldInv, Held, Primary, Active, Present
<1> QED
  BY <1>1, <1>3 DEF HeldInv

LEMMA CreateHolds ==
    ASSUME HeldInv, NEW r \in Requests, CreateIntegration(r), TypeInv'
    PROVE  HeldInv'
<1>1. PICK i \in Ids, e \in Envs, active \in BOOLEAN, conditions \in BOOLEAN :
          /\ store[i].status = "none" /\ \A q \in Busy : req[q].id # i
          /\ Begin(r, "create", IF active THEN "highest" ELSE "write", i, e,
                   NewSet(i, e, active, conditions))
          /\ dropped' = dropped
  BY DEF CreateIntegration, NewSet
<1> DEFINE pc == IF active THEN "highest" ELSE "write"
           set == NewSet(i, e, active, conditions)
<1>2. pc \in PCs /\ pc \in {"highest", "write"}
  BY DEF PCs
<1>3. DOMAIN set = Fields /\ set["primary"] = FALSE /\ set["env"] = e /\ set["status"] = "present"
  BY DEF NewSet, Fields
<1>4. Begin(r, "create", pc, i, e, set)
  BY <1>1
<1> HIDE DEF pc, set
<1>5. req'[r].kind = "create" /\ req'[r].pc = pc /\ req'[r].id = i /\ req'[r].env = e
      /\ req'[r].set = set /\ req'[r].strip = FALSE /\ store' = store
  BY <1>4 DEF Begin
<1>6. Shape(req'[r])
  BY <1>2, <1>3, <1>5 DEF Shape
<1>7. Noted(req[r])'
  BY <1>1, <1>2, <1>5 DEF Noted
<1>8. NotedInv'
  BY <1>1, <1>2, <1>4, <1>6, <1>7, BeginNotes DEF HeldInv
<1> QED
  BY <1>1, <1>2, <1>4, <1>8, BeginHolds

LEMMA ChoiceHolds ==
    ASSUME HeldInv, NEW r \in Requests, SetIntegrationAsPrimary(r), TypeInv'
    PROVE  HeldInv'
<1>1. PICK i \in Ids :
          /\ store[i].status = "present"
          /\ Begin(r, "primary", "unset", i, store[i].env, ChosenSet)
          /\ dropped' = dropped
  BY DEF SetIntegrationAsPrimary, ChosenSet
<1>2. req'[r].kind = "primary" /\ req'[r].pc = "unset" /\ req'[r].id = i
      /\ req'[r].env = store[i].env /\ req'[r].set = ChosenSet /\ req'[r].strip = FALSE
      /\ store' = store
  BY <1>1 DEF Begin
<1>3. Shape(req'[r])
  BY <1>2 DEF Shape
<1>4. Noted(req[r])'
  BY <1>1, <1>2 DEF Noted, Matches
<1>5. "unset" \in PCs /\ store[i].status # "none" /\ dropped \subseteq dropped'
  BY <1>1 DEF PCs
<1>6. NotedInv'
  BY <1>1, <1>3, <1>4, <1>5, BeginNotes DEF HeldInv
<1> QED
  BY <1>1, <1>5, <1>6, BeginHolds

LEMMA RemoveHolds ==
    ASSUME HeldInv, NEW r \in Requests, RemoveIntegration(r), TypeInv'
    PROVE  HeldInv'
<1>1. PICK i \in Ids :
          /\ store[i].status = "present"
          /\ Begin(r, "remove", "delete", i, store[i].env, NoFields)
          /\ dropped' = dropped \cup {store[i].env}
  BY DEF RemoveIntegration
<1>2. req'[r].kind = "remove" /\ req'[r].pc = "delete" /\ req'[r].id = i
      /\ req'[r].env = store[i].env /\ req'[r].strip = FALSE /\ store' = store
  BY <1>1 DEF Begin
<1>3. Shape(req'[r])
  BY <1>2 DEF Shape
<1>4. Noted(req[r])'
  BY <1>1, <1>2 DEF Noted
<1>5. "delete" \in PCs /\ store[i].status # "none" /\ dropped \subseteq dropped'
  BY <1>1 DEF PCs
<1>6. NotedInv'
  BY <1>1, <1>3, <1>4, <1>5, BeginNotes DEF HeldInv
<1> QED
  BY <1>1, <1>5, <1>6, BeginHolds

\* What an update writes: only fields that are given, or that go with those.
LEMMA PayloadFields ==
    ASSUME store \in [Ids -> Entries], NEW i \in Ids, NEW p \in Payloads
    PROVE  LET s == PayloadOf(i, p[1], p[2])
           IN  /\ "status" \notin DOMAIN s
               /\ "env" \in DOMAIN s => p[2] # {} /\ s["env"] \in p[2]
               /\ \A f \in DOMAIN p[1] : f \in DOMAIN s /\ s[f] = p[1][f]
               /\ "conditions" \in DOMAIN s => "conditions" \in DOMAIN p[1]
               /\ DOMAIN s \subseteq Fields
<1> DEFINE changed == "active" \in DOMAIN p[1] /\ p[1]["active"] # store[i].active
           off     == IF changed /\ ~p[1]["active"] THEN [primary |-> FALSE, priority |-> 0] ELSE NoFields
           bare    == IF HaveConditions(p[1]) /\ store[i].primary THEN [primary |-> FALSE] ELSE NoFields
           kept    == IF changed THEN [primary |-> store[i].primary, priority |-> 0] ELSE NoFields
           rest    == On(off, On(bare, kept))
           moved   == Moved(p[2])
           s       == PayloadOf(i, p[1], p[2])
<1>1. s = On(p[1], On(moved, rest))
  BY DEF PayloadOf
<1>2. DOMAIN off \subseteq {"primary", "priority"} /\ DOMAIN bare \subseteq {"primary", "priority"}
      /\ DOMAIN kept \subseteq {"primary", "priority"}
  BY DEF NoFields
<1> HIDE DEF off, bare, kept
<1>3. DOMAIN rest \subseteq {"primary", "priority"}
  <2>1. DOMAIN On(bare, kept) = DOMAIN bare \cup DOMAIN kept
    BY OnDomain
  <2>2. DOMAIN rest = DOMAIN off \cup DOMAIN On(bare, kept)
    BY OnDomain
  <2> QED
    BY <1>2, <2>1, <2>2
<1> HIDE DEF rest
<1>4. PICK D \in SUBSET {"active", "conditions"} : p[1] \in [D -> BOOLEAN]
  BY DEF Payloads
<1>5. DOMAIN p[1] \subseteq {"active", "conditions"}
  BY <1>4
<1>6. /\ p[2] = {} \/ \E e \in Envs : p[2] = {e}
      /\ DOMAIN moved \subseteq {"env"}
      /\ "env" \in DOMAIN moved => p[2] # {} /\ moved["env"] \in p[2]
  BY DEF Payloads, Moved, NoFields
<1> HIDE DEF moved
<1>7. DOMAIN On(moved, rest) = DOMAIN moved \cup DOMAIN rest
  BY OnDomain
<1>8. DOMAIN s = DOMAIN p[1] \cup DOMAIN moved \cup DOMAIN rest
  <2>1. DOMAIN On(p[1], On(moved, rest)) = DOMAIN p[1] \cup DOMAIN On(moved, rest)
    BY OnDomain
  <2> QED
    BY <1>1, <1>7, <2>1
<1>9. \A f \in DOMAIN p[1] : s[f] = p[1][f]
  BY <1>1, OnField
<1>10. "env" \in DOMAIN s => "env" \in DOMAIN moved /\ s["env"] = moved["env"]
  <2> SUFFICES ASSUME "env" \in DOMAIN s
               PROVE  "env" \in DOMAIN moved /\ s["env"] = moved["env"]
    OBVIOUS
  <2>1. "env" \in DOMAIN moved /\ "env" \notin DOMAIN p[1]
    BY <1>3, <1>5, <1>8
  <2>2. On(moved, rest)["env"] = moved["env"]
    BY <2>1, OnField
  <2>3. s["env"] = On(moved, rest)["env"]
    BY <1>1, <1>7, <2>1, OnField
  <2> QED
    BY <2>1, <2>2, <2>3
<1> HIDE DEF s
<1>11. "status" \notin DOMAIN s /\ ("conditions" \in DOMAIN s => "conditions" \in DOMAIN p[1])
       /\ DOMAIN s \subseteq Fields
  BY <1>3, <1>5, <1>6, <1>8 DEF Fields
<1>12. \A f \in DOMAIN p[1] : f \in DOMAIN s
  BY <1>8
<1> QED
  BY <1>6, <1>9, <1>10, <1>11, <1>12 DEF s

LEMMA UpdateHolds ==
    ASSUME HeldInv, NEW r \in Requests, UpdateIntegration(r), TypeInv'
    PROVE  HeldInv'
<1>1. PICK i \in Ids, p \in Payloads :
          /\ store[i].status = "present"
          /\ Begin(r, "update",
                   IF "active" \notin DOMAIN p[1] \/ p[1]["active"] = store[i].active THEN "write"
                   ELSE IF p[1]["active"] THEN "highest" ELSE "find",
                   i, store[i].env, PayloadOf(i, p[1], p[2]))
          /\ DOMAIN p[1] # {} \/ p[2] # {}
          /\ dropped' = IF \/ "active" \in DOMAIN p[1]
                           \/ "conditions" \in DOMAIN p[1] /\ p[1]["conditions"]
                           \/ p[2] # {}
                        THEN dropped \cup {store[i].env} \cup p[2] ELSE dropped
  BY DEF UpdateIntegration
<1> DEFINE pc == IF "active" \notin DOMAIN p[1] \/ p[1]["active"] = store[i].active THEN "write"
                 ELSE IF p[1]["active"] THEN "highest" ELSE "find"
           s  == PayloadOf(i, p[1], p[2])
<1>2. /\ "status" \notin DOMAIN s
      /\ "env" \in DOMAIN s => p[2] # {} /\ s["env"] \in p[2]
      /\ \A f \in DOMAIN p[1] : f \in DOMAIN s /\ s[f] = p[1][f]
      /\ "conditions" \in DOMAIN s => "conditions" \in DOMAIN p[1]
      /\ DOMAIN s \subseteq Fields
  BY PayloadFields DEF HeldInv, NotedInv, TypeInv
<1>3. Begin(r, "update", pc, i, store[i].env, s)
  BY <1>1
<1>4. pc \in PCs /\ pc \in {"write", "highest", "find"}
      /\ ("active" \notin DOMAIN p[1] => pc = "write")
  BY DEF PCs
<1>5. store[i].env \notin dropped' =>
          /\ p[2] = {} /\ "active" \notin DOMAIN p[1]
          /\ "conditions" \in DOMAIN p[1] => ~p[1]["conditions"]
  BY <1>1
<1>6. store[i].env \notin dropped' => DOMAIN s \subseteq {"conditions"} /\ ~HaveConditions(s)
  <2> SUFFICES ASSUME store[i].env \notin dropped'
               PROVE  DOMAIN s \subseteq {"conditions"} /\ ~HaveConditions(s)
    OBVIOUS
  <2>1. p[2] = {} /\ "active" \notin DOMAIN p[1]
        /\ ("conditions" \in DOMAIN p[1] => ~p[1]["conditions"])
    BY <1>5
  <2>2. ~HaveConditions(p[1])
    BY <2>1 DEF HaveConditions
  <2> DEFINE changed == "active" \in DOMAIN p[1] /\ p[1]["active"] # store[i].active
             off     == IF changed /\ ~p[1]["active"] THEN [primary |-> FALSE, priority |-> 0] ELSE NoFields
             bare    == IF HaveConditions(p[1]) /\ store[i].primary THEN [primary |-> FALSE] ELSE NoFields
             kept    == IF changed THEN [primary |-> store[i].primary, priority |-> 0] ELSE NoFields
  <2>3. ~changed
    BY <2>1
  <2>4. off = NoFields /\ bare = NoFields /\ kept = NoFields /\ Moved(p[2]) = NoFields
    BY <2>1, <2>2, <2>3 DEF Moved
  <2>5. s = On(p[1], On(Moved(p[2]), On(off, On(bare, kept))))
    BY DEF PayloadOf
  <2>6. s = On(p[1], On(NoFields, On(NoFields, On(NoFields, NoFields))))
    BY <2>4, <2>5
  <2>7. DOMAIN NoFields = {}
    BY DEF NoFields
  <2>8. DOMAIN On(NoFields, NoFields) = {}
    BY <2>7, OnDomain
  <2>9. DOMAIN On(NoFields, On(NoFields, NoFields)) = {}
    BY <2>7, <2>8, OnDomain
  <2>10. DOMAIN On(NoFields, On(NoFields, On(NoFields, NoFields))) = {}
    BY <2>7, <2>9, OnDomain
  <2>11. DOMAIN s = DOMAIN p[1]
    <3> DEFINE rest == On(NoFields, On(NoFields, On(NoFields, NoFields)))
    <3> HIDE DEF rest
    <3>1. DOMAIN On(p[1], rest) = DOMAIN p[1] \cup DOMAIN rest
      BY OnDomain
    <3> QED
      BY <2>6, <2>10, <3>1 DEF rest
  <2>12. PICK D \in SUBSET {"active", "conditions"} : p[1] \in [D -> BOOLEAN]
    BY DEF Payloads
  <2>13. DOMAIN s \subseteq {"conditions"}
    BY <2>1, <2>11, <2>12
  <2> HIDE DEF s
  <2> QED
    BY <1>2, <2>2, <2>11, <2>13 DEF HaveConditions
<1>7. p[2] \subseteq dropped' /\ dropped \subseteq dropped'
  BY <1>1
<1> HIDE DEF pc, s
<1>8. req'[r].kind = "update" /\ req'[r].pc = pc /\ req'[r].id = i
      /\ req'[r].env = store[i].env /\ req'[r].set = s /\ store' = store
      /\ req'[r].strip = (HaveConditions(s) /\ store[i].primary)
  BY <1>3 DEF Begin
<1>9. Shape(req'[r])
  BY <1>2, <1>4, <1>8 DEF Shape
<1>10. Noted(req[r])'
  BY <1>1, <1>2, <1>4, <1>5, <1>6, <1>7, <1>8 DEF Noted
<1>11. NotedInv'
  BY <1>1, <1>3, <1>4, <1>7, <1>9, <1>10, BeginNotes DEF HeldInv
<1> QED
  BY <1>3, <1>4, <1>7, <1>11, BeginHolds

-----------------------------------------------------------------------------
(* Steps of a request that is under way.                                    *)

\* Another integration keeps being there, and does not leave an environment that keeps its
\* primary integration.
Steady(r) ==
    \A i \in Ids :
        \/ req[r].kind = "create" /\ i = req[r].id
        \/ /\ store'[i].status = "none" <=> store[i].status = "none"
           /\ store[i].env \in dropped => store'[i].env \in dropped
           /\ store[i].status = "present" /\ store[i].env \notin dropped =>
                 store'[i].status = "present" /\ store'[i].env = store[i].env

LEMMA GoesNotes ==
    ASSUME NotedInv, NEW r \in Busy, req' = [req EXCEPT ![r] = req'[r]], dropped' = dropped,
           TypeInv', Steady(r),
           \/ req'[r] = Idle
           \/ /\ Shape(req'[r]) /\ Noted(req[r])'
              /\ req'[r].kind = req[r].kind /\ req'[r].id = req[r].id
    PROVE  NotedInv'
<1>1. Busy' \subseteq Busy /\ \A q \in Busy : q # r => req'[q] = req[q]
  <2>1. \A q \in Requests : q # r => req'[q] = req[q]
    BY DEF NotedInv, TypeInv
  <2> QED
    BY <2>1 DEF Busy, At
<1>2. ASSUME NEW q \in Busy, q # r PROVE Shape(req'[q]) /\ Noted(req[q])'
  <2>1. req'[q] = req[q]
    BY <1>1, <1>2
  <2>2. Shape(req[q]) /\ Noted(req[q])
    BY DEF NotedInv
  <2>8. BusyRec(req[q])
    BY DEF NotedInv, TypeInv, Busy, At, Idle
  <2>3. req[q].id \in Ids /\ store[req[q].id] \in Entries
    BY <2>8 DEF BusyRec, NotedInv, TypeInv
  <2>4. ~(req[r].kind = "create" /\ req[q].id = req[r].id)
    BY <1>2 DEF NotedInv, OwnCreation
  <2>5. Noted(req[q])'
    <3> DEFINE c == req[q]
               i == req[q].id
    <3>1. /\ store'[i].status = "none" <=> store[i].status = "none"
          /\ store[i].env \in dropped => store'[i].env \in dropped
          /\ store[i].status = "present" /\ store[i].env \notin dropped =>
                store'[i].status = "present" /\ store'[i].env = store[i].env
      BY <2>3, <2>4 DEF Steady
    <3> QED
      BY <2>1, <2>2, <3>1 DEF Noted, Matches
  <2> QED
    BY <2>1, <2>2, <2>5
<1>3. r \in Busy' => Shape(req'[r]) /\ Noted(req[r])' /\ req'[r].kind = req[r].kind
                     /\ req'[r].id = req[r].id
  BY DEF Busy, At, Idle
<1>4. OwnCreation'
  BY <1>1, <1>3 DEF NotedInv, OwnCreation
<1> QED
  BY <1>1, <1>2, <1>3, <1>4 DEF NotedInv

\* A step that takes no primary flag away, and is not the second update of a choice.
LEMMA GoesHolds ==
    ASSUME HeldInv, NEW r \in Busy, req' = [req EXCEPT ![r] = req'[r]], dropped' = dropped,
           had' = had, NotedInv', \A e \in Envs \ dropped : Primary(e) \subseteq Primary(e)',
           req[r].kind = "primary" => req[r].pc # "write"
    PROVE  HeldInv'
<1>1. \A q \in Busy : q # r => req'[q] = req[q] /\ q \in Busy'
  BY DEF Busy, At, HeldInv, NotedInv, TypeInv
<1>2. \A e \in had \ dropped : Held(e)'
  <2> SUFFICES ASSUME NEW e \in had \ dropped PROVE Held(e)'
    OBVIOUS
  <2>1. CASE Primary(e) # {}
    BY <2>1 DEF HeldInv, NotedInv, TypeInv, Held
  <2>2. CASE \E q \in Busy : req[q].kind = "primary" /\ req[q].pc = "write" /\ req[q].env = e
    BY <1>1, <2>2 DEF Held
  <2> QED
    BY <2>1, <2>2 DEF HeldInv, Held
<1> QED
  BY <1>2 DEF HeldInv

LEMMA SameStore ==
    ASSUME store' = store
    PROVE  /\ \A r \in Busy : dropped' = dropped => Steady(r)
           /\ \A e \in Envs : Primary(e)' = Primary(e)
BY DEF Steady, Primary, Active, Present

\* A step that gives a $set its priority.
PriorityOnly(q, p, n) ==
    /\ p.kind = q.kind /\ p.id = q.id /\ p.env = q.env /\ p.strip = q.strip /\ p.alone = q.alone
    /\ p.set = [q.set EXCEPT !["priority"] = n]
    /\ DOMAIN p.set = DOMAIN q.set
    /\ \A f \in DOMAIN q.set : p.set[f] = IF f = "priority" THEN n ELSE q.set[f]

WithPriority(q, n) == [q EXCEPT !.pc = "write", !.set.priority = n]

WithRoom(q, n, todo) == [q EXCEPT !.pc = "bump", !.set.priority = n, !.todo = todo]

LEMMA PriorityRecs ==
    ASSUME NEW q, BusyRec(q), NEW n, NEW todo
    PROVE  /\ PriorityOnly(q, WithPriority(q, n), n) /\ WithPriority(q, n).pc = "write"
           /\ PriorityOnly(q, WithRoom(q, n, todo), n) /\ WithRoom(q, n, todo).pc = "bump"
           /\ WithRoom(q, n, todo).todo = todo
<1> DEFINE s == q.set
           t == [s EXCEPT !["priority"] = n]
           p1 == WithPriority(q, n)
           p2 == WithRoom(q, n, todo)
<1>1. p1.kind = q.kind /\ p1.id = q.id /\ p1.env = q.env /\ p1.strip = q.strip
      /\ p1.alone = q.alone /\ p1.pc = "write" /\ p1.set = t
  BY DEF BusyRec, WithPriority
<1>2. p2.kind = q.kind /\ p2.id = q.id /\ p2.env = q.env /\ p2.strip = q.strip
      /\ p2.alone = q.alone /\ p2.pc = "bump" /\ p2.set = t /\ p2.todo = todo
  BY DEF BusyRec, WithRoom
<1> HIDE DEF s, p1, p2
<1>3. DOMAIN t = DOMAIN s /\ \A f \in DOMAIN s : t[f] = IF f = "priority" THEN n ELSE s[f]
  OBVIOUS
<1>4. p1.set = [q.set EXCEPT !["priority"] = n] /\ p2.set = [q.set EXCEPT !["priority"] = n]
  BY <1>1, <1>2 DEF s
<1> HIDE DEF t
<1>5. PriorityOnly(q, p1, n)
  BY <1>1, <1>3, <1>4 DEF PriorityOnly, s
<1>6. PriorityOnly(q, p2, n)
  BY <1>2, <1>3, <1>4 DEF PriorityOnly, s
<1> QED
  BY <1>1, <1>2, <1>5, <1>6 DEF p1, p2

\* What CalculatePriority does, case by case.
LEMMA Calculated ==
    ASSUME TypeInv, NEW r \in Requests, CalculatePriority(r)
    PROVE  LET q == req[r]
               p == req'[r]
           IN  /\ BusyRec(q) /\ r \in Busy /\ q.pc = "highest"
               /\ req' = [req EXCEPT ![r] = p]
               /\ \/ Active(q.env) = {} /\ PriorityOnly(q, p, 1) /\ p.pc = "write"
                  \/ \E i \in Highest(q.env) :
                        IF store[i].primary
                        THEN PriorityOnly(q, p, store[i].priority) /\ p.pc = "bump"
                             /\ p.todo = RoomFor(i)
                        ELSE PriorityOnly(q, p, store[i].priority + 1) /\ p.pc = "write"
<1> DEFINE q == req[r]
           p == req'[r]
<1>1. BusyRec(q) /\ r \in Busy /\ q.pc = "highest"
  BY BusyRecs DEF CalculatePriority, At
<1>2. CASE Active(q.env) = {} /\ req' = [req EXCEPT ![r].pc = "write", ![r].set.priority = 1]
  <2>1. p = WithPriority(q, 1)
    BY <1>2 DEF TypeInv, WithPriority
  <2>2. req' = [req EXCEPT ![r] = p]
    BY <1>2, <2>1 DEF TypeInv, WithPriority
  <2> HIDE DEF p, q
  <2>3. PriorityOnly(q, p, 1) /\ p.pc = "write"
    BY <1>1, <2>1, PriorityRecs
  <2> QED
    BY <1>1, <1>2, <2>2, <2>3 DEF p, q
<1>3. ASSUME NEW i \in Highest(q.env),
             req' = [req EXCEPT ![r] =
                IF store[i].primary
                THEN [@ EXCEPT !.pc = "bump", !.set.priority = store[i].priority,
                               !.todo = RoomFor(i)]
                ELSE [@ EXCEPT !.pc = "write", !.set.priority = store[i].priority + 1]]
      PROVE  /\ req' = [req EXCEPT ![r] = p]
             /\ IF store[i].primary
                THEN PriorityOnly(q, p, store[i].priority) /\ p.pc = "bump" /\ p.todo = RoomFor(i)
                ELSE PriorityOnly(q, p, store[i].priority + 1) /\ p.pc = "write"
  <2>1. p = IF store[i].primary
            THEN [q EXCEPT !.pc = "bump", !.set.priority = store[i].priority, !.todo = RoomFor(i)]
            ELSE [q EXCEPT !.pc = "write", !.set.priority = store[i].priority + 1]
    BY <1>3 DEF TypeInv
  <2>2. req' = [req EXCEPT ![r] = p]
    BY <1>3, <2>1 DEF TypeInv
  <2> DEFINE n == store[i].priority
             m == store[i].priority + 1
             t == RoomFor(i)
  <2> HIDE DEF p, q, n, m, t
  <2>3. p = IF store[i].primary
            THEN [q EXCEPT !.pc = "bump", !.set.priority = n, !.todo = t]
            ELSE [q EXCEPT !.pc = "write", !.set.priority = m]
    BY <2>1 DEF n, m, t
  <2>4. CASE store[i].primary
    <3>1. p = WithRoom(q, n, t)
      BY <2>3, <2>4 DEF WithRoom
    <3>2. PriorityOnly(q, p, n) /\ p.pc = "bump" /\ p.todo = t
      BY <1>1, <3>1, PriorityRecs
    <3> QED
      BY <2>2, <2>4, <3>2 DEF n, t
  <2>5. CASE ~store[i].primary
    <3>1. p = WithPriority(q, m)
      BY <2>3, <2>5 DEF WithPriority
    <3>2. PriorityOnly(q, p, m) /\ p.pc = "write"
      BY <1>1, <3>1, PriorityRecs
    <3> QED
      BY <2>2, <2>5, <3>2 DEF m
  <2> QED
    BY <2>4, <2>5
<1> QED
  BY <1>1, <1>2, <1>3 DEF CalculatePriority

LEMMA CalculateHolds ==
    ASSUME HeldInv, NEW r \in Requests, CalculatePriority(r), TypeInv'
    PROVE  HeldInv'
<1>1. BusyRec(req[r]) /\ r \in Busy /\ req[r].pc = "highest"
      /\ req' = [req EXCEPT ![r] = req'[r]]
  BY Calculated DEF HeldInv, NotedInv
<1>2. Shape(req[r]) /\ Noted(req[r])
  BY <1>1 DEF HeldInv, NotedInv
<1>3. req'[r].pc \in {"bump", "write"} /\ \E n : PriorityOnly(req[r], req'[r], n)
  BY Calculated DEF HeldInv, NotedInv
<1>4. store' = store /\ had' = had /\ dropped' = dropped
  BY DEF CalculatePriority
<1>5. Shape(req'[r])
  BY <1>1, <1>2, <1>3 DEF Shape, Fields, PriorityOnly
<1>6. Noted(req[r])'
  BY <1>1, <1>2, <1>3, <1>4, <1>5 DEF Noted, Shape, PriorityOnly
<1>8. req'[r].kind = req[r].kind /\ req'[r].id = req[r].id
  BY <1>3 DEF PriorityOnly
<1>7. NotedInv'
  BY <1>1, <1>4, <1>5, <1>6, <1>8, GoesNotes, SameStore DEF HeldInv
<1> QED
  BY <1>1, <1>4, <1>7, GoesHolds, SameStore

First(q) == IF q.kind = "remove" THEN {} ELSE {q.id}

\* A step that changes neither the integration of a request nor what is written to it.
SameTask(q, p) ==
    /\ p.kind = q.kind /\ p.id = q.id /\ p.env = q.env /\ p.set = q.set /\ p.strip = q.strip
    /\ p.alone = q.alone

LEMMA Found ==
    ASSUME TypeInv, NEW r \in Requests, FindActive(r)
    PROVE  /\ BusyRec(req[r]) /\ r \in Busy /\ req[r].pc = "find"
           /\ req' = [req EXCEPT ![r] = req'[r]]
           /\ SameTask(req[r], req'[r]) /\ req'[r].pc = "recalculate"
           /\ \E rank \in Rankings(Active(req[r].env) \cup First(req[r]), First(req[r])) :
                 req'[r].todo = {<<i, rank[i]>> : i \in Active(req[r].env) \cup First(req[r])}
<1>1. BusyRec(req[r]) /\ r \in Busy /\ req[r].pc = "find"
  BY BusyRecs DEF FindActive, At
<1> DEFINE q   == req[r]
           ids == Active(q.env) \cup First(q)
<1>2. PICK rank \in Rankings(ids, First(q)) :
          req' = [req EXCEPT ![r].pc = "recalculate", ![r].todo = {<<i, rank[i]>> : i \in ids}]
  BY DEF FindActive, First
<1> DEFINE t == {<<i, rank[i]>> : i \in ids}
           p == req'[r]
<1> HIDE DEF t
<1>3. p = [q EXCEPT !.pc = "recalculate", !.todo = t] /\ req' = [req EXCEPT ![r] = p]
  BY <1>2 DEF t, TypeInv
<1> HIDE DEF q, ids, p
<1>4. SameTask(q, p) /\ p.pc = "recalculate" /\ p.todo = t
  BY <1>1, <1>3 DEF BusyRec, SameTask, q
<1> QED
  BY <1>1, <1>2, <1>3, <1>4 DEF q, p, t, ids

LEMMA FindHolds ==
    ASSUME HeldInv, NEW r \in Requests, FindActive(r), TypeInv'
    PROVE  HeldInv'
<1>1. r \in Busy /\ req[r].pc = "find" /\ req' = [req EXCEPT ![r] = req'[r]]
      /\ SameTask(req[r], req'[r]) /\ req'[r].pc = "recalculate"
  BY Found DEF HeldInv, NotedInv
<1>2. Shape(req[r]) /\ Noted(req[r])
  BY <1>1 DEF HeldInv, NotedInv
<1>3. store' = store /\ had' = had /\ dropped' = dropped
  BY DEF FindActive
<1>4. Shape(req'[r])
  BY <1>1, <1>2 DEF Shape, SameTask
<1>5. Noted(req[r])'
  BY <1>1, <1>2, <1>3 DEF Noted, Matches, SameTask
<1>6. NotedInv'
  BY <1>1, <1>3, <1>4, <1>5, GoesNotes, SameStore DEF HeldInv, SameTask
<1> QED
  BY <1>1, <1>3, <1>6, GoesHolds, SameStore

\* An update of a priority.
LEMMA PriorityWritten ==
    ASSUME TypeInv, NEW r \in Requests, WritePriority(r)
    PROVE  /\ BusyRec(req[r]) /\ r \in Busy /\ req[r].pc \in {"bump", "recalculate"}
           /\ req' = [req EXCEPT ![r] = req'[r]]
           /\ SameTask(req[r], req'[r]) /\ req'[r].pc = req[r].pc
           /\ \E i \in Ids, n \in Nat :
                 /\ <<i, n>> \in req[r].todo /\ req'[r].todo = req[r].todo \ {<<i, n>>}
                 /\ \A j \in Ids :
                       /\ \A f \in {"status", "env", "active", "primary", "conditions"} :
                             store'[j][f] = store[j][f]
                       /\ store'[j].priority =
                             IF j = i /\ Matches(i, req[r].env) THEN n ELSE store[j].priority
<1>1. BusyRec(req[r]) /\ r \in Busy /\ req[r].pc \in {"bump", "recalculate"}
  BY BusyRecs DEF WritePriority
<1>2. PICK w \in req[r].todo :
          /\ store' = IF Matches(w[1], req[r].env) THEN [store EXCEPT ![w[1]].priority = w[2]]
                      ELSE store
          /\ req' = [req EXCEPT ![r].todo = @ \ {w}]
  BY DEF WritePriority
<1>3. PICK i \in Ids, n \in Nat : w = <<i, n>>
  BY <1>1, <1>2 DEF BusyRec
<1> DEFINE q == req[r]
           p == req'[r]
<1>4. p = [q EXCEPT !.todo = q.todo \ {w}] /\ req' = [req EXCEPT ![r] = p]
  BY <1>2 DEF TypeInv
<1>5. ASSUME NEW j \in Ids
      PROVE  /\ \A f \in {"status", "env", "active", "primary", "conditions"} :
                    store'[j][f] = store[j][f]
             /\ store'[j].priority =
                    IF j = i /\ Matches(i, req[r].env) THEN n ELSE store[j].priority
  <2>1. CASE j = i /\ Matches(i, req[r].env)
    <3>1. store'[j] = [store[j] EXCEPT !.priority = n]
      BY <1>2, <1>3, <2>1 DEF TypeInv
    <3>2. store[j] \in Entries
      BY DEF TypeInv
    <3> QED
      BY <2>1, <3>1, <3>2 DEF Entries
  <2>2. CASE ~(j = i /\ Matches(i, req[r].env))
    <3>1. store'[j] = store[j]
      BY <1>2, <1>3, <2>2 DEF TypeInv
    <3> QED
      BY <2>2, <3>1
  <2> QED
    BY <2>1, <2>2
<1> HIDE DEF q, p
<1>6. SameTask(q, p) /\ p.pc = q.pc /\ p.todo = q.todo \ {w}
  BY <1>1, <1>4 DEF BusyRec, SameTask, q
<1> QED
  BY <1>1, <1>2, <1>3, <1>4, <1>5, <1>6 DEF q, p

LEMMA WritePriorityHolds ==
    ASSUME HeldInv, NEW r \in Requests, WritePriority(r), TypeInv'
    PROVE  HeldInv'
<1>1. r \in Busy /\ req[r].pc \in {"bump", "recalculate"} /\ req' = [req EXCEPT ![r] = req'[r]]
      /\ SameTask(req[r], req'[r]) /\ req'[r].pc = req[r].pc
      /\ BusyRec(req[r])
  BY PriorityWritten DEF HeldInv, NotedInv
<1>2. Shape(req[r]) /\ Noted(req[r])
  BY <1>1 DEF HeldInv, NotedInv
<1>3. \A j \in Ids : store'[j].status = store[j].status /\ store'[j].env = store[j].env
                     /\ store'[j].active = store[j].active /\ store'[j].primary = store[j].primary
  BY PriorityWritten DEF HeldInv, NotedInv
<1>4. had' = had /\ dropped' = dropped
  BY DEF WritePriority
<1>5. Shape(req'[r])
  BY <1>1, <1>2 DEF Shape, SameTask
<1>6. req[r].id \in Ids
  BY <1>1 DEF BusyRec
<1>7. Noted(req[r])'
  BY <1>1, <1>2, <1>3, <1>4, <1>6 DEF Noted, Matches, SameTask
<1>8. Steady(r)
  BY <1>3 DEF Steady
<1>9. NotedInv'
  BY <1>1, <1>4, <1>5, <1>7, <1>8, GoesNotes DEF HeldInv, SameTask
<1>10. \A e \in Envs \ dropped : Primary(e) \subseteq Primary(e)'
  BY <1>3 DEF Primary, Active, Present
<1> QED
  BY <1>1, <1>4, <1>9, <1>10, GoesHolds

\* A step to another control state.
LEMMA Went ==
    ASSUME TypeInv, NEW r \in Busy, NEW pc, Goes(r, pc)
    PROVE  /\ req' = [req EXCEPT ![r] = req'[r]]
           /\ SameTask(req[r], req'[r]) /\ req'[r].pc = pc /\ req'[r].todo = req[r].todo
<1> DEFINE q == req[r]
           p == req'[r]
<1>1. p = [q EXCEPT !.pc = pc] /\ req' = [req EXCEPT ![r] = p]
  BY DEF Goes, TypeInv, Busy
<1>2. BusyRec(q)
  BY DEF TypeInv, Busy, At, Idle
<1> HIDE DEF p, q
<1>3. SameTask(q, p) /\ p.pc = pc /\ p.todo = q.todo
  BY <1>1, <1>2 DEF BusyRec, SameTask
<1> QED
  BY <1>1, <1>3 DEF p, q

LEMMA Ended ==
    ASSUME TypeInv, NEW r \in Busy, End(r)
    PROVE  req' = [req EXCEPT ![r] = req'[r]] /\ req'[r] = Idle
BY DEF End, TypeInv, Busy

LEMMA RecalculatedHolds ==
    ASSUME HeldInv, NEW r \in Requests, Recalculated(r), TypeInv'
    PROVE  HeldInv'
<1>1. BusyRec(req[r]) /\ r \in Busy /\ req[r].pc \in {"bump", "recalculate"}
  BY BusyRecs DEF Recalculated, HeldInv, NotedInv
<1>2. Shape(req[r]) /\ Noted(req[r])
  BY <1>1 DEF HeldInv, NotedInv
<1>3. store' = store /\ had' = had /\ dropped' = dropped
  BY DEF Recalculated
<1>4. req' = [req EXCEPT ![r] = req'[r]]
      /\ (\/ req'[r] = Idle
          \/ /\ SameTask(req[r], req'[r]) /\ req'[r].pc = "write"
             /\ req[r].kind \in {"create", "update"})
  <2>1. CASE At(r, "bump") \/ (req[r].kind = "update" /\ req[r].env \in Envs)
    <3>1. req[r].kind \in {"create", "update"}
      BY <1>1, <1>2, <2>1 DEF Shape, At, BusyRec, Kinds
    <3> QED
      BY <1>1, <2>1, <3>1, Went DEF Recalculated, HeldInv, NotedInv
  <2>2. CASE ~(At(r, "bump") \/ (req[r].kind = "update" /\ req[r].env \in Envs))
    BY <1>1, <2>2, Ended DEF Recalculated, HeldInv, NotedInv
  <2> QED
    BY <2>1, <2>2
<1>6. req'[r] # Idle => Shape(req'[r])
  BY <1>2, <1>4 DEF Shape, SameTask
<1>7. req'[r] # Idle => Noted(req[r])'
  BY <1>1, <1>2, <1>3, <1>4 DEF Noted, Matches, SameTask
<1>8. NotedInv'
  BY <1>1, <1>3, <1>4, <1>6, <1>7, GoesNotes, SameStore DEF HeldInv, SameTask
<1> QED
  BY <1>1, <1>3, <1>4, <1>8, GoesHolds, SameStore

LEMMA UnsetHolds ==
    ASSUME HeldInv, NEW r \in Requests, UnsetPrimary(r), TypeInv'
    PROVE  HeldInv'
<1>1. BusyRec(req[r]) /\ r \in Busy /\ req[r].pc = "unset"
  BY BusyRecs DEF UnsetPrimary, At, HeldInv, NotedInv
<1>2. Shape(req[r]) /\ Noted(req[r])
  BY <1>1 DEF HeldInv, NotedInv
<1>3. req' = [req EXCEPT ![r] = req'[r]] /\ SameTask(req[r], req'[r]) /\ req'[r].pc = "write"
  BY <1>1, Went DEF UnsetPrimary, HeldInv, NotedInv
<1>4. had' = had /\ dropped' = dropped
  BY DEF UnsetPrimary
<1>5. ASSUME NEW j \in Ids
      PROVE  /\ store'[j].status = store[j].status /\ store'[j].env = store[j].env
             /\ store'[j].active = store[j].active
             /\ store[j].env # req[r].env => store'[j].primary = store[j].primary
  <2>1. store[j] \in Entries
    BY DEF HeldInv, NotedInv, TypeInv
  <2>2. store'[j] = IF j \in Unset(req[r].env) THEN [store[j] EXCEPT !.primary = FALSE] ELSE store[j]
    BY DEF UnsetPrimary
  <2>3. j \in Unset(req[r].env) => store[j].env = req[r].env
    BY DEF Unset, Primary, Active, Present
  <2> QED
    BY <2>1, <2>2, <2>3 DEF Entries
<1>6. req[r].kind = "primary" /\ req[r].id \in Ids
  BY <1>1, <1>2 DEF Shape, BusyRec, Kinds
<1>7. Shape(req'[r])
  BY <1>2, <1>3, <1>6 DEF Shape, SameTask
<1>8. Noted(req[r])'
  BY <1>1, <1>2, <1>3, <1>4, <1>5, <1>6 DEF Noted, Matches, SameTask
<1>9. Steady(r)
  BY <1>5 DEF Steady
<1>10. NotedInv'
  BY <1>1, <1>3, <1>4, <1>7, <1>8, <1>9, GoesNotes DEF HeldInv, SameTask
<1>11. \A q \in Busy : q # r => req'[q] = req[q] /\ q \in Busy'
  BY <1>3 DEF Busy, At, HeldInv, NotedInv, TypeInv
<1>12. r \in Busy' /\ req'[r].kind = "primary" /\ req'[r].env = req[r].env
  BY <1>1, <1>3, <1>6 DEF Busy, At, SameTask
<1>13. ASSUME NEW e \in had \ dropped PROVE Held(e)'
  <2>1. CASE e = req[r].env
    BY <1>3, <1>12, <2>1 DEF Held
  <2>2. CASE e # req[r].env
    <3>1. Primary(e) \subseteq Primary(e)'
      BY <1>5, <2>2 DEF Primary, Active, Present
    <3>2. CASE Primary(e) # {}
      BY <3>1, <3>2 DEF Held
    <3>3. CASE \E q \in Busy : req[q].kind = "primary" /\ req[q].pc = "write" /\ req[q].env = e
      BY <1>11, <2>2, <3>3 DEF Held
    <3> QED
      BY <3>2, <3>3 DEF HeldInv, Held
  <2> QED
    BY <2>1, <2>2
<1> QED
  BY <1>4, <1>10, <1>13 DEF HeldInv

LEMMA DeleteHolds ==
    ASSUME HeldInv, NEW r \in Requests, Delete(r), TypeInv'
    PROVE  HeldInv'
<1>1. BusyRec(req[r]) /\ r \in Busy /\ req[r].pc = "delete"
  BY BusyRecs DEF Delete, At, HeldInv, NotedInv
<1>2. Shape(req[r]) /\ Noted(req[r])
  BY <1>1 DEF HeldInv, NotedInv
<1>3. had' = had /\ dropped' = dropped
  BY DEF Delete
<1>4. req[r].kind = "remove" /\ req[r].id \in Ids
  BY <1>1, <1>2 DEF Shape, BusyRec, Kinds
<1>5. CASE store[req[r].id].status = "present"
  <2>1. req' = [req EXCEPT ![r] = req'[r]] /\ SameTask(req[r], req'[r]) /\ req'[r].pc = "find"
    BY <1>1, <1>5, Went DEF Delete, HeldInv, NotedInv
  <2>2. ASSUME NEW j \in Ids
        PROVE  /\ store'[j].env = store[j].env /\ store'[j].active = store[j].active
               /\ store'[j].primary = store[j].primary
               /\ store'[j].status = IF j = req[r].id THEN "deleted" ELSE store[j].status
    <3>1. store[j] \in Entries
      BY DEF HeldInv, NotedInv, TypeInv
    <3>2. store'[j] = IF j = req[r].id THEN [store[j] EXCEPT !.status = "deleted"] ELSE store[j]
      BY <1>4, <1>5 DEF Delete, HeldInv, NotedInv, TypeInv
    <3> QED
      BY <3>1, <3>2 DEF Entries
  <2>3. store[req[r].id].env \in dropped
    BY <1>1, <1>2 DEF Noted
  <2>4. Shape(req'[r])
    BY <1>2, <1>4, <2>1 DEF Shape, SameTask
  <2>5. Noted(req[r])'
    BY <1>2, <1>3, <1>4, <1>5, <2>1, <2>2 DEF Noted, SameTask
  <2>6. Steady(r)
    BY <1>4, <1>5, <2>2, <2>3 DEF Steady
  <2>7. NotedInv'
    BY <1>1, <1>3, <2>1, <2>4, <2>5, <2>6, GoesNotes DEF HeldInv, SameTask
  <2>8. \A e \in Envs \ dropped : Primary(e) \subseteq Primary(e)'
    BY <2>2, <2>3 DEF Primary, Active, Present
  <2> QED
    BY <1>1, <1>3, <2>1, <2>7, <2>8, GoesHolds
<1>6. CASE store[req[r].id].status # "present"
  <2>1. store' = store /\ req' = [req EXCEPT ![r] = req'[r]] /\ req'[r] = Idle
    BY <1>1, <1>6, Ended DEF Delete, HeldInv, NotedInv
  <2>2. NotedInv'
    BY <1>1, <1>3, <2>1, GoesNotes, SameStore DEF HeldInv
  <2> QED
    BY <1>1, <1>3, <2>1, <2>2, GoesHolds, SameStore
<1> QED
  BY <1>5, <1>6

\* The fields of the integrations after a request has written its own.
LEMMA Written ==
    ASSUME TypeInv, NEW r \in Requests, Write(r)
    PROVE  /\ BusyRec(req[r]) /\ r \in Busy /\ req[r].pc = "write"
           /\ req[r].id \in Ids
           /\ \A j \in Ids \ {req[r].id} : store'[j] = store[j]
           /\ IF req[r].kind = "create" \/ Matches(req[r].id, req[r].env)
              THEN \A f \in Fields : store'[req[r].id][f] =
                      IF f \in DOMAIN req[r].set THEN req[r].set[f] ELSE store[req[r].id][f]
              ELSE store' = store
           /\ IF req[r].kind # "primary" /\ ~req[r].strip THEN req'[r] = Idle
              ELSE /\ req'[r].kind = req[r].kind /\ req'[r].id = req[r].id
                   /\ req'[r].set = req[r].set /\ req'[r].strip = req[r].strip
                   /\ req'[r].alone = req[r].alone /\ req'[r].pc = "find"
                   /\ req'[r].env = IF req[r].kind = "primary" THEN req[r].env ELSE Organization
           /\ req' = [req EXCEPT ![r] = req'[r]]
<1>1. BusyRec(req[r]) /\ r \in Busy /\ req[r].pc = "write"
  BY BusyRecs DEF Write, At
<1>2. req[r].id \in Ids /\ store[req[r].id] \in Entries /\ Typed(req[r].set)
  BY <1>1 DEF BusyRec, TypeInv
<1> DEFINE i == req[r].id
           q == req[r]
           p == req'[r]
<1>3. store' = IF q.kind = "create" \/ Matches(i, q.env)
               THEN [store EXCEPT ![i] = On(q.set, store[i])] ELSE store
  BY DEF Write
<1>4. \A f \in Fields :
          On(q.set, store[i])[f] = IF f \in DOMAIN q.set THEN q.set[f] ELSE store[i][f]
  BY <1>2, OnEntry
<1>5. \A j \in Ids \ {i} : store'[j] = store[j]
  BY <1>3 DEF TypeInv
<1>6. q.kind = "create" \/ Matches(i, q.env) => store'[i] = On(q.set, store[i])
  BY <1>2, <1>3 DEF TypeInv
<1>7. IF q.kind = "create" \/ Matches(i, q.env)
      THEN \A f \in Fields :
              store'[i][f] = IF f \in DOMAIN q.set THEN q.set[f] ELSE store[i][f]
      ELSE store' = store
  BY <1>3, <1>4, <1>6
<1>8. CASE q.kind = "primary"
  <2>1. Goes(r, "find")
    BY <1>8 DEF Write
  <2> QED
    BY <1>1, <1>2, <1>5, <1>7, <1>8, <2>1, Went DEF SameTask
<1>9. CASE q.kind # "primary" /\ ~q.strip
  <2>1. End(r)
    BY <1>9 DEF Write
  <2> QED
    BY <1>1, <1>2, <1>5, <1>7, <1>9, <2>1, Ended
<1>10. CASE q.kind # "primary" /\ q.strip
  <2>1. req' = [req EXCEPT ![r].pc = "find", ![r].env = Organization]
    BY <1>10 DEF Write
  <2>2. p = [q EXCEPT !.pc = "find", !.env = Organization] /\ req' = [req EXCEPT ![r] = p]
    BY <2>1 DEF TypeInv
  <2>3. BusyRec(q)
    BY <1>1
  <2> HIDE DEF p, q
  <2>4. p.kind = q.kind /\ p.id = q.id /\ p.set = q.set /\ p.strip = q.strip
        /\ p.alone = q.alone /\ p.pc = "find" /\ p.env = Organization
    BY <2>2, <2>3 DEF BusyRec
  <2>5. p.kind = req[r].kind /\ p.id = req[r].id /\ p.set = req[r].set /\ p.strip = req[r].strip
        /\ p.alone = req[r].alone /\ p.pc = "find" /\ p.env = Organization
    BY <2>4 DEF q
  <2> QED
    BY <1>1, <1>2, <1>5, <1>7, <1>10, <2>2, <2>5 DEF p, q
<1> QED
  BY <1>8, <1>9, <1>10

LEMMA WriteHolds ==
    ASSUME HeldInv, NEW r \in Requests, Write(r), TypeInv'
    PROVE  HeldInv'
<1> DEFINE q == req[r]
           i == req[r].id
<1>1. /\ BusyRec(req[r]) /\ r \in Busy /\ req[r].pc = "write" /\ req[r].id \in Ids
      /\ req' = [req EXCEPT ![r] = req'[r]]
      /\ \A j \in Ids \ {i} : store'[j] = store[j]
  BY Written DEF HeldInv, NotedInv
<1>2. Shape(q) /\ Noted(q)
  BY <1>1 DEF HeldInv, NotedInv
<1>3. dropped' = dropped
  BY DEF Write
<1>4. q.kind \in {"create", "update", "primary"} /\ store[i] \in Entries
      /\ (q.kind = "create" => ~q.strip)
  BY <1>1, <1>2 DEF Shape, BusyRec, Kinds, HeldInv, NotedInv, TypeInv
<1>5. CASE q.kind = "create"
  <2>1. store'[i].primary = FALSE /\ store'[i].env = q.env /\ store'[i].status = "present"
        /\ req'[r] = Idle
    BY <1>2, <1>4, <1>5, Written DEF HeldInv, NotedInv, Shape, Fields
  <2>2. store[i].status = "none"
    BY <1>2, <1>5 DEF Noted
  <2>3. Steady(r)
    BY <1>1, <1>5 DEF Steady
  <2>4. NotedInv'
    BY <1>1, <1>3, <2>1, <2>3, GoesNotes DEF HeldInv
  <2>5. \A e \in Envs \ dropped : Primary(e) \subseteq Primary(e)'
    BY <1>1, <2>2 DEF Primary, Active, Present
  <2>6. had' = had
    BY <1>5 DEF Write
  <2> QED
    BY <1>1, <1>3, <1>5, <2>4, <2>5, <2>6, GoesHolds
<1>6. CASE q.kind = "update"
  <2>1. store[i].status # "none" /\ "status" \notin DOMAIN q.set
        /\ ("env" \in DOMAIN q.set => q.set["env"] \in dropped)
    BY <1>2, <1>6 DEF Noted, Shape
  <2>2. /\ store'[i].status = store[i].status
        /\ store'[i].env = store[i].env \/ store'[i].env \in dropped
        /\ store[i].status = "present" /\ store[i].env \notin dropped =>
              /\ store'[i].env = store[i].env /\ store'[i].active = store[i].active
              /\ store'[i].primary = store[i].primary
    <3>1. CASE Matches(i, q.env)
      <4>1. \A f \in Fields :
                store'[i][f] = IF f \in DOMAIN q.set THEN q.set[f] ELSE store[i][f]
        BY <3>1, Written DEF HeldInv, NotedInv
      <4>2. store[i].env \notin dropped => DOMAIN q.set \subseteq {"conditions"}
        BY <1>2, <1>4, <1>6, <3>1 DEF Noted, Matches, Entries
      <4> QED
        BY <2>1, <4>1, <4>2 DEF Fields
    <3>2. CASE ~Matches(i, q.env)
      <4>1. store' = store
        BY <1>6, <3>2, Written DEF HeldInv, NotedInv
      <4> QED
        BY <4>1
    <3> QED
      BY <3>1, <3>2
  <2>3. Steady(r)
    BY <1>1, <1>3, <2>2 DEF Steady
  <2>4. req'[r] = Idle \/ (/\ req'[r].kind = "update" /\ req'[r].id = i /\ req'[r].set = q.set
                           /\ req'[r].strip = q.strip /\ req'[r].pc = "find"
                           /\ req'[r].env = Organization)
    BY <1>6, Written DEF HeldInv, NotedInv
  <2>5. req'[r] # Idle => Shape(req'[r])
    BY <2>1, <2>4 DEF Shape
  <2>6. req'[r] # Idle => Noted(req[r])'
    BY <1>3, <2>1, <2>2, <2>4, IntegrationAssumption DEF Noted
  <2>7. NotedInv'
    BY <1>1, <1>3, <1>6, <2>3, <2>4, <2>5, <2>6, GoesNotes DEF HeldInv
  <2>8. \A e \in Envs \ dropped : Primary(e) \subseteq Primary(e)'
    BY <1>1, <2>2 DEF Primary, Active, Present
  <2>9. had' = had
    BY <1>6 DEF Write
  <2> QED
    BY <1>1, <1>3, <1>6, <2>7, <2>8, <2>9, GoesHolds
<1>7. CASE q.kind = "primary"
  <2>1. q.set = ChosenSet /\ store[i].status # "none"
    BY <1>2, <1>7 DEF Shape, Noted
  <2>2. /\ store'[i].status = store[i].status /\ store'[i].env = store[i].env
        /\ Matches(i, q.env) => store'[i].active = TRUE /\ store'[i].primary = TRUE
        /\ ~Matches(i, q.env) => store' = store
    <3>1. CASE Matches(i, q.env)
      <4>1. \A f \in Fields :
                store'[i][f] = IF f \in DOMAIN ChosenSet THEN ChosenSet[f] ELSE store[i][f]
        BY <2>1, <3>1, Written DEF HeldInv, NotedInv
      <4> QED
        BY <3>1, <4>1 DEF ChosenSet, Fields
    <3>2. CASE ~Matches(i, q.env)
      <4>1. store' = store
        BY <1>7, <3>2, Written DEF HeldInv, NotedInv
      <4> QED
        BY <3>2, <4>1
    <3> QED
      BY <3>1, <3>2
  <2>3. Steady(r)
    BY <1>1, <1>3, <2>2 DEF Steady
  <2>4. req'[r].kind = "primary" /\ req'[r].id = i /\ req'[r].set = q.set
        /\ req'[r].strip = q.strip /\ req'[r].pc = "find" /\ req'[r].env = q.env
    BY <1>7, Written DEF HeldInv, NotedInv
  <2>5. Shape(req'[r])
    BY <1>2, <1>7, <2>4 DEF Shape
  <2>6. Noted(req[r])'
    BY <1>2, <1>3, <1>7, <2>2, <2>4 DEF Noted, Matches
  <2>7. NotedInv'
    BY <1>1, <1>3, <1>7, <2>3, <2>4, <2>5, <2>6, GoesNotes DEF HeldInv
  <2>8. had' = IF Matches(i, q.env) THEN had \cup {q.env} ELSE had
    BY <1>7 DEF Write
  <2>9. \A p \in Busy : p # r => req'[p] = req[p] /\ p \in Busy'
    BY <1>1 DEF Busy, At, HeldInv, NotedInv, TypeInv
  <2>10. ASSUME NEW e \in had' \ dropped PROVE Held(e)'
    <3>1. CASE e = q.env
      <4>1. e \in Envs \ dropped
        BY <2>7, <3>1 DEF NotedInv, TypeInv
      <4>2. Matches(i, q.env)
        BY <1>2, <1>7, <3>1, <4>1 DEF Noted
      <4>3. i \in Primary(e)'
        BY <1>1, <2>2, <3>1, <4>2 DEF Primary, Active, Present, Matches
      <4> QED
        BY <4>3 DEF Held
    <3>2. CASE e # q.env
      <4>1. e \in had /\ Held(e)
        BY <2>8, <2>10, <3>2 DEF HeldInv
      <4>2. CASE Primary(e) # {}
        <5>1. Primary(e) \subseteq Primary(e)'
          BY <1>1, <2>2, <3>2 DEF Primary, Active, Present, Matches
        <5> QED
          BY <4>2, <5>1 DEF Held
      <4>3. CASE \E p \in Busy : req[p].kind = "primary" /\ req[p].pc = "write" /\ req[p].env = e
        BY <2>9, <3>2, <4>3 DEF Held
      <4> QED
        BY <4>1, <4>2, <4>3 DEF Held
    <3> QED
      BY <3>1, <3>2
  <2> QED
    BY <1>3, <2>7, <2>10 DEF HeldInv
<1> QED
  BY <1>4, <1>5, <1>6, <1>7

LEMMA HeldInit == Init => HeldInv
<1> SUFFICES ASSUME Init PROVE HeldInv
  OBVIOUS
<1>1. TypeInv /\ Busy = {}
  BY TypeInit DEF Init, Busy, At, Idle
<1>2. \A e \in had : Primary(e) # {}
  BY DEF Init
<1> QED
  BY <1>1, <1>2 DEF HeldInv, NotedInv, OwnCreation, Held

LEMMA HeldStep == HeldInv /\ [Next]_vars => HeldInv'
<1> SUFFICES ASSUME HeldInv, [Next]_vars PROVE HeldInv'
  OBVIOUS
<1>1. TypeInv'
  BY TypeStep DEF HeldInv, NotedInv
<1>2. CASE UNCHANGED vars
  BY <1>1, <1>2 DEF HeldInv, NotedInv, OwnCreation, Busy, At, Shape, Noted, Matches, Held,
     Primary, Active, Present, vars
<1>3. CASE Next
  BY <1>1, <1>3, CreateHolds, UpdateHolds, ChoiceHolds, RemoveHolds, CalculateHolds, FindHolds,
     WritePriorityHolds, RecalculatedHolds, UnsetHolds, WriteHolds, DeleteHolds DEF Next
<1> QED
  BY <1>2, <1>3

\* An environment with a primary integration does not lose it for good to creations, choices
\* and harmless updates, however many of them overlap, in however many environments.
THEOREM PrimariesStay == Spec => []PrimaryIsNotLost
<1>1. HeldInv => PrimaryIsNotLost
  BY DEF HeldInv, Held, PrimaryIsNotLost
<1> QED
  BY <1>1, HeldInit, HeldStep, PTL DEF Spec

-----------------------------------------------------------------------------
(* A choice that nothing interferes with.                                   *)

\* The new priorities are different, and the first integration has the highest.  A primary
\* one comes before the others.
RankOK(e, rank, first) ==
    \A i, j \in Active(e) :
        /\ rank[i] > 0
        /\ rank[i] = rank[j] => i = j
        /\ i \in first /\ j \notin first => rank[i] > rank[j]
        /\ i \notin first /\ j \notin first /\ i \in Primary(e) => rank[i] >= rank[j]

\* An active integration has its new priority or it is still to be written.
Settles(e, rank, todo) ==
    /\ todo \subseteq {<<i, rank[i]>> : i \in Active(e)}
    /\ \A i \in Active(e) : <<i, rank[i]>> \in todo \/ store[i].priority = rank[i]

Turn(q) ==
    \E rank \in [Active(q.env) -> Nat] :
        RankOK(q.env, rank, First(q)) /\ Settles(q.env, rank, q.todo)

LEMMA FoundTurn ==
    ASSUME TypeInv, NEW r \in Requests, FindActive(r), First(req[r]) \subseteq Active(req[r].env),
           \A i \in Primary(req[r].env) \ First(req[r]), j \in Active(req[r].env) :
               i # j => store[i].priority > store[j].priority
    PROVE  Turn(req[r])'
<1> DEFINE q == req[r]
           e == req[r].env
<1>1. /\ SameTask(q, req'[r])
      /\ \E rank \in Rankings(Active(e) \cup First(q), First(q)) :
             req'[r].todo = {<<i, rank[i]>> : i \in Active(e) \cup First(q)}
  BY Found
<1>2. Active(e) \cup First(q) = Active(e)
  OBVIOUS
<1>3. PICK rank \in Rankings(Active(e), First(q)) :
          req'[r].todo = {<<i, rank[i]>> : i \in Active(e)}
  BY <1>1, <1>2
<1>4. \A i \in Active(e) : rank[i] \in Nat /\ rank[i] > 0
  BY RankTypes DEF Active, Present
<1>5. rank \in [Active(e) -> Nat]
  BY <1>3, <1>4 DEF Rankings
<1>6. store' = store
  BY DEF FindActive
<1>7. ASSUME NEW i \in Active(e), NEW j \in Active(e)
      PROVE  /\ rank[i] = rank[j] => i = j
             /\ i \in First(q) /\ j \notin First(q) => rank[i] > rank[j]
             /\ i \notin First(q) /\ j \notin First(q) /\ i \in Primary(e) => rank[i] >= rank[j]
  <2>1. /\ rank[i] = rank[j] => i = j
        /\ i \in First(q) /\ j \notin First(q) => rank[i] > rank[j]
        /\ i \notin First(q) /\ j \notin First(q) /\ store[i].priority > store[j].priority =>
              rank[i] > rank[j]
    BY DEF Rankings
  <2>2. i \notin First(q) /\ j \notin First(q) /\ i \in Primary(e) => rank[i] >= rank[j]
    BY <1>4, <2>1
  <2> QED
    BY <2>1, <2>2
<1>8. req'[r].env = e /\ First(req'[r]) = First(q)
  BY <1>1 DEF SameTask, First
<1>9. Active(req[r].env)' = Active(e) /\ Primary(req[r].env)' = Primary(e)
  BY <1>6, <1>8 DEF Active, Primary, Present
<1>10. RankOK(req[r].env, rank, First(req[r]))'
  BY <1>4, <1>7, <1>8, <1>9 DEF RankOK
<1>11. Settles(req[r].env, rank, req[r].todo)'
  BY <1>3, <1>9 DEF Settles
<1> QED
  BY <1>5, <1>9, <1>10, <1>11 DEF Turn

\* The integrations but for their priorities.
SameButPriorities ==
    \A j \in Ids : /\ store'[j].status = store[j].status /\ store'[j].env = store[j].env
                   /\ store'[j].active = store[j].active /\ store'[j].primary = store[j].primary
                   /\ store'[j].conditions = store[j].conditions

LEMMA SameSets ==
    ASSUME SameButPriorities
    PROVE  \A e \in Envs : /\ Present(e)' = Present(e) /\ Active(e)' = Active(e)
                           /\ Primary(e)' = Primary(e)
BY DEF SameButPriorities, Present, Active, Primary

LEMMA SameTurn ==
    ASSUME NEW r, store' = store, req'[r] = req[r], Turn(req[r])
    PROVE  Turn(req[r])'
<1> DEFINE e == req[r].env
<1>1. PICK rank \in [Active(e) -> Nat] :
          RankOK(e, rank, First(req[r])) /\ Settles(e, rank, req[r].todo)
  BY DEF Turn
<1>2. Active(req[r].env)' = Active(e) /\ Primary(req[r].env)' = Primary(e)
  BY DEF Active, Primary, Present
<1>3. RankOK(req[r].env, rank, First(req[r]))'
  BY <1>1, <1>2 DEF RankOK, First
<1>4. Settles(req[r].env, rank, req[r].todo)'
  BY <1>1, <1>2 DEF Settles
<1> QED
  BY <1>2, <1>3, <1>4 DEF Turn

LEMMA PriorityTurn ==
    ASSUME TypeInv, NEW r \in Requests, WritePriority(r), req[r].env \in Envs, Turn(req[r])
    PROVE  /\ Turn(req[r])'
           /\ SameButPriorities
           /\ \A j \in Ids \ Active(req[r].env) : store'[j].priority = store[j].priority
<1> DEFINE q == req[r]
           e == req[r].env
<1>1. /\ SameTask(q, req'[r]) /\ SameButPriorities
  BY PriorityWritten DEF SameButPriorities
<1>2. PICK i \in Ids, n \in Nat :
          /\ <<i, n>> \in q.todo /\ req'[r].todo = q.todo \ {<<i, n>>}
          /\ \A j \in Ids : store'[j].priority =
                 IF j = i /\ Matches(i, e) THEN n ELSE store[j].priority
  BY PriorityWritten
<1>3. PICK rank \in [Active(e) -> Nat] : RankOK(e, rank, First(q)) /\ Settles(e, rank, q.todo)
  BY DEF Turn
<1>4. i \in Active(e) /\ n = rank[i] /\ Matches(i, e)
  BY <1>2, <1>3 DEF Settles, Active, Present, Matches
<1>5. Active(e)' = Active(e) /\ Primary(e)' = Primary(e)
  BY <1>1, SameSets DEF SameTask, Active, Primary, Present, SameButPriorities
<1>6. Active(e) \subseteq Ids
  BY DEF Active, Present
<1>7. req'[r].todo \subseteq {<<j, rank[j]>> : j \in Active(e)}
  BY <1>2, <1>3 DEF Settles
<1>8. ASSUME NEW j \in Active(e)
      PROVE  <<j, rank[j]>> \in req'[r].todo \/ store'[j].priority = rank[j]
  <2>1. CASE j = i
    BY <1>2, <1>4, <1>6, <2>1
  <2>2. CASE j # i
    BY <1>2, <1>3, <1>6, <2>2 DEF Settles
  <2> QED
    BY <2>1, <2>2
<1>9. req'[r].env = e /\ First(req'[r]) = First(q)
  BY <1>1 DEF SameTask, First
<1>10. Active(req[r].env)' = Active(e) /\ Primary(req[r].env)' = Primary(e)
  BY <1>5, <1>9 DEF Active, Primary, Present
<1>11. RankOK(req[r].env, rank, First(req[r]))'
  BY <1>3, <1>9, <1>10 DEF RankOK
<1>12. Settles(req[r].env, rank, req[r].todo)'
  BY <1>7, <1>8, <1>10 DEF Settles
<1>13. Turn(req[r])'
  BY <1>10, <1>11, <1>12 DEF Turn
<1> QED
  BY <1>1, <1>2, <1>4, <1>13

\* When all is written.
LEMMA TurnDone ==
    ASSUME TypeInv, NEW q, Turn(q), q.todo = {}
    PROVE  \A i, j \in Active(q.env) :
               /\ store[i].priority > 0
               /\ i # j => store[i].priority # store[j].priority
               /\ i \in First(q) /\ j \notin First(q) => store[i].priority > store[j].priority
               /\ i \notin First(q) /\ j \notin First(q) /\ i \in Primary(q.env) =>
                     store[i].priority >= store[j].priority
<1>1. PICK rank \in [Active(q.env) -> Nat] :
          RankOK(q.env, rank, First(q)) /\ Settles(q.env, rank, q.todo)
  BY DEF Turn
<1>2. \A i \in Active(q.env) : store[i].priority = rank[i]
  BY <1>1 DEF Settles
<1> QED
  BY <1>1, <1>2 DEF RankOK

\* A request that nothing interferes with is the only one.
AloneOK == \A r \in Busy : req[r].alone => Busy = {r}

LoneChoice(q) ==
    /\ Matches(q.id, q.env)
    /\ q.pc = "write" => Primary(q.env) = {}
    /\ q.pc \in {"find", "recalculate"} => Primary(q.env) = {q.id}
    /\ q.pc = "recalculate" => Turn(q)

LoneInv ==
    /\ NotedInv /\ AloneOK
    /\ \A r \in Busy : req[r].alone /\ req[r].kind = "primary" => LoneChoice(req[r])

Begins(r) ==
    \/ CreateIntegration(r) \/ UpdateIntegration(r)
    \/ SetIntegrationAsPrimary(r) \/ RemoveIntegration(r)

Continues(r) ==
    \/ CalculatePriority(r) \/ FindActive(r) \/ WritePriority(r) \/ Recalculated(r)
    \/ UnsetPrimary(r) \/ Write(r) \/ Delete(r)

LEMMA BeginsAlone ==
    ASSUME NotedInv, AloneOK, NEW r \in Requests, Begins(r), NotedInv'
    PROVE  /\ AloneOK' /\ store' = store /\ r \notin Busy /\ Busy' = Busy \cup {r}
           /\ \A q \in Busy : ~req'[q].alone
           /\ req'[r].alone <=> Busy = {}
           /\ tidy' => tidy /\ Busy = {}
<1>1. PICK kind, pc, id, env, set : Begin(r, kind, pc, id, env, set)
  BY DEF Begins, CreateIntegration, UpdateIntegration, SetIntegrationAsPrimary, RemoveIntegration
<1>2. /\ r \notin Busy /\ store' = store
      /\ req'[r].alone <=> Busy = {}
      /\ req'[r].pc = pc
  BY <1>1 DEF Begin, Busy
<1>3. ASSUME NEW q \in Busy PROVE ~req'[q].alone /\ q \in Busy'
  <2>1. req'[q] = [req[q] EXCEPT !.alone = FALSE]
    BY <1>1, <1>2 DEF Begin, Busy
  <2>2. BusyRec(req[q])
    BY DEF NotedInv, TypeInv, Busy, At, Idle
  <2> QED
    BY <2>1, <2>2 DEF BusyRec, Busy, At
<1>4. \A q \in Requests : q # r /\ q \notin Busy => req'[q] = req[q]
  BY <1>1 DEF Begin
<1>5. r \in Busy'
  <2>1. req'[r] # Idle
    BY <1>1 DEF Begin, Idle
  <2> QED
    BY <2>1 DEF NotedInv, TypeInv, Busy, At, BusyRec, PCs
<1>6. Busy' = Busy \cup {r}
  BY <1>3, <1>4, <1>5 DEF Busy, At
<1>7. AloneOK'
  BY <1>2, <1>3, <1>6 DEF AloneOK
<1>8. tidy' => tidy /\ Busy = {}
  BY DEF Begins, CreateIntegration, UpdateIntegration, SetIntegrationAsPrimary, RemoveIntegration
<1> QED
  BY <1>2, <1>3, <1>6, <1>7, <1>8

LEMMA ContinuesAlone ==
    ASSUME NotedInv, AloneOK, NEW r \in Requests, Continues(r), NotedInv'
    PROVE  /\ AloneOK' /\ r \in Busy /\ tidy' = tidy
           /\ \A q \in Busy' \ {r} : req'[q] = req[q] /\ q \in Busy /\ ~req'[q].alone
           /\ r \in Busy' => req'[r].alone = req[r].alone
           /\ req'[r] = Idle \/ r \in Busy'
<1>1. r \in Busy /\ req' = [req EXCEPT ![r] = req'[r]]
      /\ (req'[r] = Idle \/ req'[r].alone = req[r].alone)
  <2>1. CASE CalculatePriority(r)
    BY <2>1, Calculated DEF NotedInv, PriorityOnly
  <2>2. CASE FindActive(r)
    BY <2>2, Found DEF NotedInv, SameTask
  <2>3. CASE WritePriority(r)
    BY <2>3, PriorityWritten DEF NotedInv, SameTask
  <2>4. CASE Recalculated(r)
    <3>1. r \in Busy
      BY <2>4, BusyRecs DEF NotedInv, Recalculated
    <3>2. End(r) \/ Goes(r, "write")
      BY <2>4 DEF Recalculated
    <3> QED
      BY <3>1, <3>2, Ended, Went DEF NotedInv, SameTask
  <2>5. CASE UnsetPrimary(r)
    <3>1. r \in Busy
      BY <2>5, BusyRecs DEF NotedInv, UnsetPrimary, At
    <3> QED
      BY <2>5, <3>1, Went DEF NotedInv, SameTask, UnsetPrimary
  <2>6. CASE Write(r)
    BY <2>6, Written DEF NotedInv
  <2>7. CASE Delete(r)
    <3>1. r \in Busy
      BY <2>7, BusyRecs DEF NotedInv, Delete, At
    <3>2. End(r) \/ Goes(r, "find")
      BY <2>7 DEF Delete
    <3> QED
      BY <3>1, <3>2, Ended, Went DEF NotedInv, SameTask
  <2> QED
    BY <2>1, <2>2, <2>3, <2>4, <2>5, <2>6, <2>7 DEF Continues
<1>2. \A q \in Requests : q # r => req'[q] = req[q]
  BY <1>1 DEF NotedInv, TypeInv
<1>3. \A q \in Busy : q # r => ~req[q].alone
  BY <1>1 DEF AloneOK
<1>4. ASSUME NEW q \in Busy' \ {r} PROVE req'[q] = req[q] /\ q \in Busy /\ ~req'[q].alone
  BY <1>2, <1>3 DEF Busy, At
<1>5. r \in Busy' => req'[r].alone = req[r].alone
  BY <1>1 DEF Busy, At, Idle
<1>6. AloneOK'
  <2> SUFFICES ASSUME NEW q \in Busy', req'[q].alone PROVE Busy' = {q}
    BY DEF AloneOK
  <2>1. q = r /\ req[r].alone
    BY <1>4, <1>5
  <2>2. Busy = {r}
    BY <1>1, <2>1 DEF AloneOK
  <2> QED
    BY <1>4, <2>1, <2>2
<1>7. req'[r] = Idle \/ r \in Busy'
  BY <1>1 DEF NotedInv, TypeInv, Busy, At, BusyRec, PCs
<1>8. tidy' = tidy
  BY DEF Continues, CalculatePriority, FindActive, WritePriority, Recalculated, UnsetPrimary, Write, Delete
<1> QED
  BY <1>1, <1>4, <1>5, <1>6, <1>7, <1>8

\* One step of a choice that nothing interferes with.
LEMMA LoneChoiceGoes ==
    ASSUME NotedInv, NEW r \in Busy, Continues(r), req[r].kind = "primary", LoneChoice(req[r]),
           r \in Busy'
    PROVE  LoneChoice(req[r])'
<1> DEFINE q == req[r]
           p == req'[r]
<1>1. BusyRec(q) /\ Shape(q) /\ TypeInv /\ r \in Requests
  BY DEF NotedInv, TypeInv, Busy, At, Idle
<1>2. q.pc \in {"unset", "write", "find", "recalculate"} /\ q.id \in Ids /\ q.set = ChosenSet
  BY <1>1 DEF Shape, BusyRec
<1>3. Matches(q.id, q.env) /\ q.env \in Envs
  BY <1>1, <1>2 DEF LoneChoice, Matches, TypeInv, Entries
<1>4. CASE UnsetPrimary(r)
  <2>1. SameTask(q, p) /\ p.pc = "write"
    BY <1>1, <1>4, Went DEF UnsetPrimary
  <2>2. \A j \in Ids : store'[j] = IF j \in Primary(q.env) THEN [store[j] EXCEPT !.primary = FALSE]
                                   ELSE store[j]
    BY <1>4 DEF UnsetPrimary, Unset
  <2>3. ASSUME NEW j \in Ids
        PROVE  /\ store'[j].status = store[j].status /\ store'[j].env = store[j].env
               /\ store'[j].active = store[j].active
               /\ store'[j].primary => store[j].primary /\ j \notin Primary(q.env)
    <3>1. store[j] \in Entries
      BY <1>1 DEF TypeInv
    <3> QED
      BY <2>2, <3>1 DEF Entries
  <2>4. Primary(req[r].env)' = {}
    BY <2>1, <2>3 DEF SameTask, Primary, Active, Present
  <2>5. Matches(req[r].id, req[r].env)'
    BY <1>2, <1>3, <2>1, <2>3 DEF SameTask, Matches
  <2> QED
    BY <2>1, <2>4, <2>5 DEF LoneChoice
<1>5. CASE Write(r)
  <2>1. p.id = q.id /\ p.env = q.env /\ p.pc = "find" /\ q.pc = "write"
        /\ (\A j \in Ids \ {q.id} : store'[j] = store[j])
    BY <1>1, <1>5, Written
  <2>2. \A f \in Fields : store'[q.id][f] = IF f \in DOMAIN ChosenSet THEN ChosenSet[f] ELSE store[q.id][f]
    BY <1>1, <1>2, <1>3, <1>5, Written
  <2>3. store'[q.id].status = store[q.id].status /\ store'[q.id].env = store[q.id].env
        /\ store'[q.id].active = TRUE /\ store'[q.id].primary = TRUE
    BY <2>2 DEF Fields, ChosenSet
  <2>4. Primary(q.env) = {}
    BY <2>1 DEF LoneChoice
  <2>5. Primary(req[r].env)' = {p.id}
    BY <1>2, <1>3, <2>1, <2>3, <2>4 DEF Primary, Active, Present, Matches
  <2>6. Matches(req[r].id, req[r].env)'
    BY <1>3, <2>1, <2>3 DEF Matches
  <2> QED
    BY <2>1, <2>5, <2>6 DEF LoneChoice
<1>6. CASE FindActive(r)
  <2>1. SameTask(q, p) /\ p.pc = "recalculate" /\ q.pc = "find" /\ store' = store
    BY <1>1, <1>6, Found DEF FindActive
  <2>2. Primary(q.env) = {q.id}
    BY <2>1 DEF LoneChoice
  <2>3. First(q) = {q.id}
    BY DEF First
  <2>4. Turn(req[r])'
    BY <1>1, <1>6, <2>2, <2>3, FoundTurn DEF Primary
  <2>5. Primary(req[r].env)' = {p.id}
    BY <2>1, <2>2 DEF SameTask, Primary, Active, Present
  <2>6. Matches(req[r].id, req[r].env)'
    BY <1>3, <2>1 DEF SameTask, Matches
  <2> QED
    BY <2>1, <2>4, <2>5, <2>6 DEF LoneChoice
<1>7. CASE WritePriority(r)
  <2>1. SameTask(q, p) /\ p.pc = "recalculate" /\ q.pc = "recalculate"
    BY <1>1, <1>2, <1>7, PriorityWritten
  <2>2. Turn(req[r])' /\ SameButPriorities
    BY <1>1, <1>3, <1>7, <2>1, PriorityTurn DEF LoneChoice
  <2>3. Primary(req[r].env)' = Primary(q.env)
    BY <2>1, <2>2 DEF SameTask, SameButPriorities, Primary, Active, Present
  <2>4. Primary(q.env) = {p.id}
    BY <2>1 DEF LoneChoice, SameTask
  <2>5. Matches(req[r].id, req[r].env)'
    BY <1>2, <1>3, <2>1, <2>2 DEF SameTask, SameButPriorities, Matches
  <2> QED
    BY <2>1, <2>2, <2>3, <2>4, <2>5 DEF LoneChoice
<1>8. CASE Recalculated(r)
  <2>1. req'[r] = Idle
    BY <1>1, <1>2, <1>8, Ended DEF Recalculated, At
  <2> QED
    BY <2>1 DEF Busy, At, Idle
<1>9. ~CalculatePriority(r) /\ ~Delete(r)
  BY <1>2 DEF CalculatePriority, Delete, At
<1> QED
  BY <1>4, <1>5, <1>6, <1>7, <1>8, <1>9 DEF Continues

LEMMA NotedStep ==
    ASSUME HeldInv, [Next]_vars
    PROVE  HeldInv' /\ NotedInv /\ NotedInv' /\ TypeInv
BY HeldStep DEF HeldInv, NotedInv

LEMMA LoneStep ==
    ASSUME HeldInv, LoneInv, [Next]_vars
    PROVE  LoneInv'
<1>1. NotedInv /\ NotedInv' /\ AloneOK
  BY NotedStep DEF LoneInv
<1>2. CASE UNCHANGED vars
  <2>1. store' = store /\ req' = req
    BY <1>2 DEF vars
  <2>2. ASSUME NEW r \in Busy, LoneChoice(req[r]) PROVE LoneChoice(req[r])'
    <3>1. Turn(req[r]) => Turn(req[r])'
      BY <2>1, SameTurn
    <3> QED
      BY <2>1, <2>2, <3>1 DEF LoneChoice, Matches, Primary, Active, Present
  <2>3. Busy' = Busy /\ AloneOK'
    BY <1>1, <2>1 DEF AloneOK, Busy, At
  <2> QED
    BY <1>1, <2>1, <2>2, <2>3 DEF LoneInv
<1>3. ASSUME NEW r \in Requests, Begins(r) PROVE LoneInv'
  <2>1. /\ AloneOK' /\ store' = store /\ r \notin Busy /\ Busy' = Busy \cup {r}
        /\ \A q \in Busy : ~req'[q].alone
    BY <1>1, <1>3, BeginsAlone
  <2>2. ASSUME req'[r].kind = "primary" PROVE LoneChoice(req[r])'
    <3>1. SetIntegrationAsPrimary(r)
      BY <1>3, <2>2 DEF Begins, CreateIntegration, UpdateIntegration, RemoveIntegration, Begin
    <3>2. PICK i \in Ids : /\ store[i].status = "present"
                           /\ Begin(r, "primary", "unset", i, store[i].env, ChosenSet)
      BY <3>1 DEF SetIntegrationAsPrimary, ChosenSet
    <3>3. req'[r].id = i /\ req'[r].env = store[i].env /\ req'[r].pc = "unset"
      BY <3>2 DEF Begin
    <3> QED
      BY <2>1, <3>2, <3>3 DEF LoneChoice, Matches
  <2> QED
    BY <1>1, <2>1, <2>2 DEF LoneInv
<1>4. ASSUME NEW r \in Requests, Continues(r) PROVE LoneInv'
  <2>1. /\ AloneOK' /\ r \in Busy
        /\ \A q \in Busy' \ {r} : ~req'[q].alone
        /\ r \in Busy' => req'[r].alone = req[r].alone
        /\ req'[r] = Idle \/ r \in Busy'
    BY <1>1, <1>4, ContinuesAlone
  <2>2. ASSUME r \in Busy', req'[r].alone, req'[r].kind = "primary" PROVE LoneChoice(req[r])'
    <3>1. req[r].kind = "primary"
      <4>1. CASE CalculatePriority(r)
        BY <1>1, <2>2, <4>1, Calculated DEF NotedInv, PriorityOnly
      <4>2. CASE FindActive(r)
        BY <1>1, <2>2, <4>2, Found DEF NotedInv, SameTask
      <4>3. CASE WritePriority(r)
        BY <1>1, <2>2, <4>3, PriorityWritten DEF NotedInv, SameTask
      <4>4. CASE Recalculated(r) \/ UnsetPrimary(r) \/ Delete(r)
        <5>1. End(r) \/ \E pc \in PCs : Goes(r, pc)
          BY <4>4 DEF Recalculated, UnsetPrimary, Delete, PCs
        <5>2. req'[r].pc # "idle"
          BY <2>2 DEF Busy, At
        <5> QED
          BY <1>1, <2>1, <2>2, <5>1, <5>2, Ended, Went DEF NotedInv, SameTask, Idle
      <4>5. CASE Write(r)
        BY <1>1, <2>2, <4>5, Written DEF NotedInv, Idle, Busy, At
      <4> QED
        BY <1>4, <4>1, <4>2, <4>3, <4>4, <4>5 DEF Continues
    <3>2. LoneChoice(req[r])
      BY <2>1, <2>2, <3>1 DEF LoneInv
    <3> QED
      BY <1>1, <1>4, <2>1, <2>2, <3>1, <3>2, LoneChoiceGoes
  <2> QED
    BY <1>1, <2>1, <2>2 DEF LoneInv
<1>5. Next => \E r \in Requests : Begins(r) \/ Continues(r)
  BY DEF Next, Begins, Continues
<1> QED
  BY <1>2, <1>3, <1>4, <1>5

LEMMA LoneInit == Init => LoneInv
<1> SUFFICES ASSUME Init PROVE LoneInv
  OBVIOUS
<1>1. HeldInv /\ Busy = {}
  BY HeldInit DEF Init, Busy, At, Idle
<1> QED
  BY <1>1 DEF LoneInv, AloneOK, HeldInv

\* A choice of the primary integration that nothing interferes with leaves it the only primary
\* one, above all others, each with a priority of its own: whatever requests that overlapped have
\* left behind, for any number of integrations.
THEOREM LoneChoicesRepair == Spec => LoneChoiceRepairs
<1> DEFINE Repairs(r) ==
        req[r].pc = "recalculate" /\ req[r].kind = "primary" /\ req[r].alone /\ req'[r] = Idle =>
            InOrder(req[r].env) /\ Primary(req[r].env) = {req[r].id}
<1>1. HeldInv /\ LoneInv /\ [Next]_vars => [\A r \in Requests : Repairs(r)]_vars
  <2> SUFFICES ASSUME HeldInv, LoneInv, [Next]_vars, NEW r \in Requests,
                      req[r].pc = "recalculate", req[r].kind = "primary", req[r].alone, req'[r] = Idle
               PROVE  InOrder(req[r].env) /\ Primary(req[r].env) = {req[r].id}
    OBVIOUS
  <2>1. NotedInv /\ NotedInv' /\ AloneOK /\ r \in Busy
    BY NotedStep DEF LoneInv, Busy, At
  <2>2. LoneChoice(req[r])
    BY <2>1 DEF LoneInv
  <2>3. Primary(req[r].env) = {req[r].id} /\ Turn(req[r])
    BY <2>2 DEF LoneChoice
  <2>4. req'[r] # req[r]
    BY DEF Idle
  <2>5. ASSUME NEW q \in Requests, Begins(q) \/ Continues(q), q # r PROVE FALSE
    <3>1. CASE Begins(q)
      <4>1. PICK kind, pc, id, env, set : Begin(q, kind, pc, id, env, set)
        BY <3>1 DEF Begins, CreateIntegration, UpdateIntegration, SetIntegrationAsPrimary, RemoveIntegration
      <4>2. req'[r] = [req[r] EXCEPT !.alone = FALSE]
        BY <2>1, <2>5, <4>1 DEF Begin
      <4>3. BusyRec(req[r])
        BY <2>1 DEF NotedInv, TypeInv, Busy, At, Idle
      <4>4. req'[r].pc = "recalculate"
        BY <4>2, <4>3 DEF BusyRec
      <4> QED
        BY <4>4 DEF Idle
    <3>2. CASE Continues(q)
      <4>1. q \in Busy
        BY <2>1, <2>5, <3>2, ContinuesAlone
      <4>2. Busy = {r}
        BY <2>1 DEF AloneOK
      <4> QED
        BY <2>5, <4>1, <4>2
    <3> QED
      BY <2>5, <3>1, <3>2
  <2>6. Begins(r) \/ Continues(r)
    BY <2>4, <2>5 DEF Next, Begins, Continues, vars
  <2>7. req[r].todo = {}
    <3>1. ~Begins(r)
      BY <2>1, BeginsAlone
    <3>2. ~CalculatePriority(r) /\ ~FindActive(r) /\ ~UnsetPrimary(r) /\ ~Write(r) /\ ~Delete(r)
      BY DEF CalculatePriority, FindActive, UnsetPrimary, Write, Delete, At
    <3>3. ~WritePriority(r)
      <4> SUFFICES ASSUME WritePriority(r) PROVE FALSE
        OBVIOUS
      <4>1. req'[r].pc = req[r].pc
        BY <2>1, PriorityWritten DEF NotedInv
      <4> QED
        BY <4>1 DEF Idle
    <3> QED
      BY <2>6, <3>1, <3>2, <3>3 DEF Continues, Recalculated
  <2>8. /\ First(req[r]) = {req[r].id}
        /\ \A i, j \in Active(req[r].env) :
               /\ i # j => store[i].priority # store[j].priority
               /\ i = req[r].id /\ j # req[r].id => store[i].priority > store[j].priority
    BY <2>1, <2>3, <2>7, TurnDone DEF First, NotedInv
  <2>9. \A i \in Active(req[r].env) : store[i].priority \in Nat
    BY <2>1 DEF NotedInv, TypeInv, Entries, Active, Present
  <2>10. \A i \in Primary(req[r].env), j \in Active(req[r].env) :
             store[j].priority <= store[i].priority
    BY <2>3, <2>8, <2>9 DEF Primary
  <2>11. \A i, j \in Primary(req[r].env) : i = j
    BY <2>3
  <2> QED
    BY <2>3, <2>8, <2>10, <2>11 DEF InOrder
<1>2. Spec => [](HeldInv /\ LoneInv)
  <2>1. Init => HeldInv /\ LoneInv
    BY HeldInit, LoneInit
  <2>2. (HeldInv /\ LoneInv) /\ [Next]_vars => (HeldInv /\ LoneInv)'
    BY HeldStep, LoneStep
  <2> QED
    BY <2>1, <2>2, PTL DEF Spec
<1> QED
  BY <1>1, <1>2, PTL DEF Spec, LoneChoiceRepairs

-----------------------------------------------------------------------------
(* Requests that come one after the other.                                  *)

\* At most one integration is primary, and that is active and free of conditions; what is
\* inactive has no priority.
Sound(e) ==
    /\ \A i, j \in Primary(e) : i = j
    /\ \A i \in Present(e) : store[i].primary => store[i].active /\ ~store[i].conditions
    /\ \A i \in Present(e) \ Active(e) : store[i].priority = 0

\* A priority that no integration has, below the primary one.
Fits(e, n) ==
    /\ n > 0
    /\ \A j \in Active(e) : store[j].priority # n
    /\ \A j \in Primary(e) : store[j].priority > n

Sets(q) == {"active", "primary", "priority"} \subseteq DOMAIN q.set

\* An integration that is to be active finds its place, for which the primary one makes room.
Joins(q) ==
    /\ q.id \notin Active(q.env) /\ Orderly(q.env)
    /\ Sets(q) /\ q.set["active"] /\ ~q.set["primary"]
    /\ q.pc \in {"highest", "bump", "write"}
    /\ q.pc = "bump" =>
          \/ q.todo = {} /\ Fits(q.env, q.set["priority"])
          \/ \E i \in Primary(q.env) : /\ store[i].priority = q.set["priority"]
                                       /\ q.todo = {<<i, q.set["priority"] + 1>>}
    /\ q.pc = "write" => Fits(q.env, q.set["priority"])

\* An integration that is not to be active any more comes first once again before it goes.
Leaves(q) ==
    /\ q.id \in Active(q.env)
    /\ Sets(q) /\ ~q.set["active"] /\ ~q.set["primary"] /\ q.set["priority"] = 0
    /\ q.pc \in {"find", "recalculate", "write"}
    /\ q.pc = "find" => Orderly(q.env)
    /\ q.pc = "recalculate" => Turn(q)
    /\ q.pc = "write" => Turn(q) /\ q.todo = {}

\* An update that leaves an integration as active as it was.
Stays(q) ==
    /\ q.pc = "write" /\ Orderly(q.env)
    /\ "priority" \notin DOMAIN q.set
    /\ "active" \in DOMAIN q.set => q.set["active"] = store[q.id].active
    /\ "primary" \in DOMAIN q.set => ~q.set["primary"]
    /\ HaveConditions(q.set) /\ store[q.id].primary => "primary" \in DOMAIN q.set

\* An integration that is created, but not as an active one.
Rests(q) ==
    /\ q.pc = "write" /\ Orderly(q.env)
    /\ ~q.set["active"] /\ q.set["priority"] = 0

\* How far a request has come that nothing interferes with.
Midway(q) ==
    /\ \A e \in Envs \ {q.env} : Orderly(e)
    /\ q.env \notin Envs => q.kind = "update" /\ q.pc \in {"find", "recalculate"}
    /\ q.env \in Envs =>
          /\ Sound(q.env)
          /\ q.kind = "create" => Joins(q) \/ Rests(q)
          /\ q.kind = "update" => /\ Matches(q.id, q.env) /\ "env" \notin DOMAIN q.set
                                  /\ Joins(q) \/ Leaves(q) \/ Stays(q)
          /\ q.kind = "primary" /\ q.pc \in {"unset", "write"} => Orderly(q.env)
          /\ q.kind = "remove" => IF q.pc = "recalculate" THEN Turn(q) ELSE Orderly(q.env)

UnderWay == {req[r] : r \in Busy}

TidyInv ==
    tidy => /\ \A q \in UnderWay : q.alone /\ Midway(q)
            /\ Busy = {} => \A e \in Envs : Orderly(e)

-----------------------------------------------------------------------------

\* An environment in which nothing changes.
Alike(e) ==
    /\ Present(e)' = Present(e)
    /\ \A j \in Present(e) :
          /\ store'[j].active = store[j].active /\ store'[j].primary = store[j].primary
          /\ store'[j].priority = store[j].priority /\ store'[j].conditions = store[j].conditions

LEMMA AlikeSets ==
    ASSUME NEW e, Alike(e)
    PROVE  Active(e)' = Active(e) /\ Primary(e)' = Primary(e)
<1>1. Active(e)' = Active(e)
  BY DEF Alike, Active
<1>2. Active(e) \subseteq Present(e)
  BY DEF Active
<1> QED
  BY <1>1, <1>2 DEF Alike, Primary

LEMMA AlikeIsOrderly ==
    ASSUME NEW e, Alike(e)
    PROVE  /\ Orderly(e)' <=> Orderly(e)
           /\ Sound(e)' <=> Sound(e)
           /\ \A n : Fits(e, n)' <=> Fits(e, n)
<1>1. Active(e)' = Active(e) /\ Primary(e)' = Primary(e)
  BY AlikeSets
<1>2. Active(e) \subseteq Present(e) /\ Primary(e) \subseteq Present(e)
  BY DEF Active, Primary
<1>3. InOrder(e)' <=> InOrder(e)
  BY <1>1, <1>2 DEF Alike, InOrder
<1>4. Orderly(e)' <=> Orderly(e)
  BY <1>1, <1>2, <1>3 DEF Alike, Orderly
<1>5. Sound(e)' <=> Sound(e)
  BY <1>1, <1>2 DEF Alike, Sound
<1>6. \A n : Fits(e, n)' <=> Fits(e, n)
  BY <1>1, <1>2 DEF Alike, Fits
<1> QED
  BY <1>4, <1>5, <1>6

LEMMA SameIsAlike ==
    ASSUME store' = store
    PROVE  \A e : Alike(e)
BY DEF Alike, Present

LEMMA OrderlyIsSound ==
    ASSUME NEW e, Orderly(e)
    PROVE  Sound(e)
BY DEF Orderly, InOrder, Sound

\* The turn of a request is told by its environment, its first integration and what is to do.
LEMMA TurnOf ==
    ASSUME NEW r, NEW p, p = req'[r], Turn(req[r])'
    PROVE  Turn(p)'
<1>1. Active(p.env)' = Active(req[r].env)' /\ Primary(p.env)' = Primary(req[r].env)'
  BY DEF Active, Primary, Present
<1>2. PICK rank \in [Active(p.env)' -> Nat] :
          RankOK(req[r].env, rank, First(req[r]))' /\ Settles(req[r].env, rank, req[r].todo)'
  BY <1>1 DEF Turn
<1>3. RankOK(p.env, rank, First(p))'
  BY <1>1, <1>2 DEF RankOK, First
<1>4. Settles(p.env, rank, p.todo)'
  BY <1>1, <1>2 DEF Settles
<1> QED
  BY <1>3, <1>4 DEF Turn

LEMMA UnderWayRecs ==
    ASSUME NotedInv, NEW r \in Busy, NEW q, q = req[r]
    PROVE  /\ BusyRec(q) /\ Shape(q) /\ TypeInv /\ r \in Requests
           /\ q.id \in Ids /\ q.kind \in Kinds /\ q.pc \in PCs
BY DEF NotedInv, TypeInv, Busy, At, Idle, BusyRec

LEMMA SameStoreKeeps ==
    ASSUME store' = store
    PROVE  /\ \A e : Present(e)' = Present(e) /\ Active(e)' = Active(e) /\ Primary(e)' = Primary(e)
           /\ \A e : (Orderly(e)' <=> Orderly(e)) /\ (Sound(e)' <=> Sound(e))
           /\ \A e, n : Fits(e, n)' <=> Fits(e, n)
<1> SUFFICES ASSUME NEW e
             PROVE  /\ Present(e)' = Present(e) /\ Active(e)' = Active(e) /\ Primary(e)' = Primary(e)
                    /\ (Orderly(e)' <=> Orderly(e)) /\ (Sound(e)' <=> Sound(e))
                    /\ \A n : Fits(e, n)' <=> Fits(e, n)
  OBVIOUS
<1>1. Alike(e)
  BY SameIsAlike
<1> QED
  BY <1>1, AlikeSets, AlikeIsOrderly DEF Alike

LEMMA CalculateMidway ==
    ASSUME NotedInv, NEW r \in Busy, CalculatePriority(r), NEW q, q = req[r], Midway(q),
           NEW p, p = req'[r]
    PROVE  Midway(p)'
<1>1. BusyRec(q) /\ Shape(q) /\ TypeInv /\ r \in Requests
  BY UnderWayRecs
<1>2. store' = store
  BY DEF CalculatePriority
<1>3. q.pc = "highest"
        /\ (\/ Active(q.env) = {} /\ PriorityOnly(q, p, 1) /\ p.pc = "write"
            \/ \E i \in Highest(q.env) :
                  IF store[i].primary
                  THEN PriorityOnly(q, p, store[i].priority) /\ p.pc = "bump" /\ p.todo = RoomFor(i)
                  ELSE PriorityOnly(q, p, store[i].priority + 1) /\ p.pc = "write")
  BY <1>1, Calculated
<1>4. q.env \in Envs /\ q.kind \in {"create", "update"}
  BY <1>1, <1>3 DEF Midway, Shape, BusyRec, Kinds
<1>5. Joins(q)
  BY <1>3, <1>4 DEF Midway, Leaves, Stays, Rests
<1>6. /\ p.env = q.env /\ p.kind = q.kind /\ p.id = q.id /\ DOMAIN p.set = DOMAIN q.set
      /\ p.set["active"] = q.set["active"] /\ p.set["primary"] = q.set["primary"]
  BY <1>3, <1>5 DEF PriorityOnly, Joins, Sets
<1>7. InOrder(q.env) /\ \A i \in Active(q.env) : store[i].priority > 0 /\ store[i].priority \in Nat
  BY <1>1, <1>5 DEF Joins, Orderly, TypeInv, Entries, Active, Present
<1> DEFINE Below == p.pc = "write" /\ Fits(q.env, p.set["priority"])
           Room  == /\ p.pc = "bump"
                    /\ \E i \in Primary(q.env) : /\ store[i].priority = p.set["priority"]
                                                 /\ p.todo = {<<i, p.set["priority"] + 1>>}
<1>8. Below \/ Room
  <2>1. \A n : PriorityOnly(q, p, n) => p.set["priority"] = n
    BY <1>5 DEF PriorityOnly, Joins, Sets
  <2>2. CASE Active(q.env) = {} /\ PriorityOnly(q, p, 1) /\ p.pc = "write"
    BY <2>1, <2>2 DEF Fits, Primary
  <2>3. ASSUME NEW i \in Highest(q.env),
               IF store[i].primary
               THEN PriorityOnly(q, p, store[i].priority) /\ p.pc = "bump" /\ p.todo = RoomFor(i)
               ELSE PriorityOnly(q, p, store[i].priority + 1) /\ p.pc = "write"
        PROVE  Below \/ Room
    <3>1. i \in Active(q.env) /\ \A j \in Active(q.env) : store[j].priority <= store[i].priority
      BY DEF Highest
    <3>2. CASE store[i].primary
      <4>1. i \in Primary(q.env)
        BY <3>1, <3>2 DEF Primary
      <4>2. p.set["priority"] = store[i].priority /\ p.pc = "bump" /\ p.todo = RoomFor(i)
        BY <2>1, <2>3, <3>2
      <4> QED
        BY <4>1, <4>2 DEF RoomFor
    <3>3. CASE ~store[i].primary
      <4>1. p.set["priority"] = store[i].priority + 1 /\ p.pc = "write"
        BY <2>1, <2>3, <3>3
      <4>2. Primary(q.env) = {}
        <5> SUFFICES ASSUME NEW j \in Primary(q.env) PROVE FALSE
          OBVIOUS
        <5>1. j \in Active(q.env) /\ store[j].primary
          BY DEF Primary
        <5>2. store[i].priority <= store[j].priority /\ store[j].priority <= store[i].priority
          BY <1>7, <3>1, <5>1 DEF InOrder
        <5>3. store[i].priority = store[j].priority
          BY <1>7, <3>1, <5>1, <5>2
        <5> QED
          BY <1>7, <3>1, <3>3, <5>1, <5>3 DEF InOrder
      <4>3. \A j \in Active(q.env) : store[j].priority # store[i].priority + 1
        BY <1>7, <3>1
      <4>4. store[i].priority + 1 > 0
        BY <1>7, <3>1
      <4> QED
        BY <4>1, <4>2, <4>3, <4>4 DEF Fits
    <3> QED
      BY <3>2, <3>3
  <2> QED
    BY <1>3, <2>2, <2>3
<1>9. Joins(p)'
  <2>1. p.id \notin Active(p.env)' /\ Orderly(p.env)'
    BY <1>2, <1>5, <1>6, SameStoreKeeps DEF Joins
  <2>2. Sets(p) /\ p.set["active"] /\ ~p.set["primary"]
    BY <1>5, <1>6 DEF Joins, Sets
  <2>3. CASE Below
    <3>1. Fits(p.env, p.set["priority"])'
      BY <1>2, <1>6, <2>3, SameStoreKeeps
    <3> QED
      BY <2>1, <2>2, <2>3, <3>1 DEF Joins, Sets
  <2>4. CASE Room
    <3>1. \E i \in Primary(p.env)' : /\ store'[i].priority = p.set["priority"]
                                     /\ p.todo = {<<i, p.set["priority"] + 1>>}
      BY <1>2, <1>6, <2>4, SameStoreKeeps
    <3> QED
      BY <2>1, <2>2, <2>4, <3>1 DEF Joins, Sets
  <2> QED
    BY <1>8, <2>3, <2>4
<1>10. Sound(p.env)' /\ \A e \in Envs \ {p.env} : Orderly(e)'
  BY <1>2, <1>4, <1>6, SameStoreKeeps DEF Midway
<1>11. p.kind = "update" => Matches(p.id, p.env)' /\ "env" \notin DOMAIN p.set
  BY <1>2, <1>4, <1>6 DEF Midway, Matches
<1> QED
  BY <1>4, <1>6, <1>9, <1>10, <1>11 DEF Midway

LEMMA FindMidway ==
    ASSUME NotedInv, NEW r \in Busy, FindActive(r), NEW q, q = req[r], Midway(q),
           NEW p, p = req'[r]
    PROVE  Midway(p)'
<1>1. BusyRec(q) /\ Shape(q) /\ TypeInv /\ r \in Requests
  BY UnderWayRecs
<1>2. store' = store
  BY DEF FindActive
<1>3. q.pc = "find" /\ SameTask(q, p) /\ p.pc = "recalculate"
  BY <1>1, Found
<1>4. p.env = q.env /\ p.kind = q.kind /\ p.id = q.id /\ p.set = q.set
  BY <1>3 DEF SameTask
<1>5. q.kind # "create" /\ q.kind \in Kinds
  BY <1>1, <1>3 DEF Shape, BusyRec
<1>6. \A e \in Envs \ {p.env} : Orderly(e)'
  BY <1>2, <1>4, SameStoreKeeps DEF Midway
<1>7. CASE q.env \notin Envs
  BY <1>3, <1>4, <1>6, <1>7 DEF Midway
<1>8. ASSUME q.env \in Envs, Orderly(q.env), First(q) \subseteq Active(q.env) PROVE Turn(p)'
  <2>1. \A i \in Active(q.env) : store[i].priority \in Nat
    BY <1>1 DEF TypeInv, Entries, Active, Present
  <2>2. InOrder(q.env) /\ Primary(q.env) \subseteq Active(q.env)
    BY <1>8 DEF Orderly, Primary
  <2>3. \A i \in Primary(q.env) \ First(q), j \in Active(q.env) :
            i # j => store[i].priority > store[j].priority
    BY <2>1, <2>2 DEF InOrder
  <2>4. Turn(req[r])'
    BY <1>1, <1>8, <2>3, FoundTurn
  <2> QED
    BY <2>4, TurnOf
<1>9. CASE q.env \in Envs
  <2>1. Sound(p.env)'
    BY <1>2, <1>4, <1>9, SameStoreKeeps DEF Midway
  <2>2. CASE q.kind = "update"
    <3>1. Leaves(q) /\ Matches(q.id, q.env) /\ "env" \notin DOMAIN q.set
      BY <1>3, <1>9, <2>2 DEF Midway, Joins, Stays
    <3>2. First(q) \subseteq Active(q.env) /\ Orderly(q.env)
      BY <1>3, <2>2, <3>1 DEF Leaves, First
    <3>3. Turn(p)'
      BY <1>8, <1>9, <3>2
    <3>4. p.id \in Active(p.env)'
      BY <1>2, <1>4, <3>1, SameStoreKeeps DEF Leaves
    <3>5. Leaves(p)'
      BY <1>3, <1>4, <3>1, <3>3, <3>4 DEF Leaves, Sets
    <3>6. Matches(p.id, p.env)' /\ "env" \notin DOMAIN p.set
      BY <1>2, <1>4, <3>1 DEF Matches
    <3> QED
      BY <1>4, <1>6, <1>9, <2>1, <2>2, <3>5, <3>6 DEF Midway
  <2>3. CASE q.kind = "primary"
    BY <1>3, <1>4, <1>6, <1>9, <2>1, <2>3 DEF Midway
  <2>4. CASE q.kind = "remove"
    <3>1. Orderly(q.env) /\ First(q) = {}
      BY <1>3, <1>9, <2>4 DEF Midway, First
    <3>2. Turn(p)'
      BY <1>8, <1>9, <3>1
    <3> QED
      BY <1>3, <1>4, <1>6, <1>9, <2>1, <2>4, <3>2 DEF Midway
  <2> QED
    BY <1>5, <2>2, <2>3, <2>4 DEF Kinds
<1> QED
  BY <1>7, <1>9

\* A priority that makes room, or one of those that are given anew.
LEMMA PriorityMidway ==
    ASSUME NotedInv, NEW r \in Busy, WritePriority(r), NEW q, q = req[r], Midway(q),
           NEW p, p = req'[r], q.kind = "primary" => LoneChoice(q)
    PROVE  Midway(p)'
<1>1. BusyRec(q) /\ Shape(q) /\ TypeInv /\ r \in Requests /\ q.kind \in Kinds
  BY UnderWayRecs
<1>2. /\ q.pc \in {"bump", "recalculate"} /\ SameTask(q, p) /\ p.pc = q.pc
      /\ \E i \in Ids, n \in Nat :
            /\ <<i, n>> \in q.todo /\ p.todo = q.todo \ {<<i, n>>}
            /\ \A j \in Ids :
                  /\ \A f \in {"status", "env", "active", "primary", "conditions"} :
                        store'[j][f] = store[j][f]
                  /\ store'[j].priority = IF j = i /\ Matches(i, q.env) THEN n ELSE store[j].priority
  BY <1>1, PriorityWritten
<1>3. p.env = q.env /\ p.kind = q.kind /\ p.id = q.id /\ p.set = q.set
  BY <1>2 DEF SameTask
<1>4. PICK i \in Ids, n \in Nat :
          /\ <<i, n>> \in q.todo /\ p.todo = q.todo \ {<<i, n>>}
          /\ \A j \in Ids : store'[j].priority =
                 IF j = i /\ Matches(i, q.env) THEN n ELSE store[j].priority
  BY <1>2
<1>5. SameButPriorities
  BY <1>2 DEF SameButPriorities
<1>6. \A e \in Envs : Present(e)' = Present(e) /\ Active(e)' = Active(e) /\ Primary(e)' = Primary(e)
  BY <1>5, SameSets
<1>7. \A e \in Envs : Present(e) \subseteq Ids /\ Active(e) \subseteq Present(e)
                      /\ Primary(e) \subseteq Active(e)
  BY DEF Present, Active, Primary
<1>8. \A e \in Envs \ {p.env} : Orderly(e)'
  <2> SUFFICES ASSUME NEW e \in Envs \ {p.env} PROVE Orderly(e)'
    OBVIOUS
  <2>1. \A j \in Present(e) : store'[j].priority = store[j].priority
    BY <1>3, <1>4, <1>7 DEF Present, Matches
  <2>2. Alike(e)
    BY <1>5, <1>6, <1>7, <2>1 DEF Alike, SameButPriorities
  <2> QED
    BY <1>3, <2>2, AlikeIsOrderly DEF Midway
<1>9. CASE q.env \notin Envs
  BY <1>2, <1>3, <1>8, <1>9 DEF Midway
<1>10. CASE q.env \in Envs /\ q.pc = "bump"
  <2> DEFINE e == q.env
             n0 == q.set["priority"]
  <2>1. Joins(q) /\ q.kind \in {"create", "update"}
    BY <1>1, <1>10 DEF Midway, Leaves, Stays, Rests, Shape, Kinds
  <2>2. i \in Primary(e) /\ store[i].priority = n0 /\ n = n0 + 1 /\ p.todo = {}
    BY <1>4, <1>10, <2>1 DEF Joins
  <2>3. Matches(i, e) /\ i \in Active(e)
    BY <2>2 DEF Primary, Active, Present, Matches
  <2>4. /\ store'[i].priority = store[i].priority + 1
        /\ \A j \in Ids : j # i => store'[j].priority = store[j].priority
    BY <1>4, <2>2, <2>3
  <2>5. \A j \in Active(e) : store[j].priority \in Nat /\ store[j].priority > 0
    BY <1>1, <1>10, <2>1 DEF Joins, Orderly, TypeInv, Entries, Active, Present
  <2>6. /\ \A j \in Active(e) : j # i => store[j].priority < store[i].priority
        /\ \A j \in Primary(e) : j = i
    <3>1. InOrder(e)
      BY <2>1 DEF Joins, Orderly
    <3> QED
      BY <1>7, <1>10, <2>2, <2>3, <2>5, <3>1 DEF InOrder
  <2>7. \A j \in Active(e) : /\ store'[j].priority > 0 /\ store'[j].priority <= store'[i].priority
                             /\ j # i => store'[j].priority = store[j].priority
    <3> SUFFICES ASSUME NEW j \in Active(e)
                 PROVE  /\ store'[j].priority > 0 /\ store'[j].priority <= store'[i].priority
                        /\ j # i => store'[j].priority = store[j].priority
      OBVIOUS
    <3>1. j \in Ids /\ store[j].priority \in Nat /\ store[j].priority > 0
          /\ store[i].priority \in Nat
      BY <1>7, <1>10, <2>3, <2>5
    <3>2. CASE j = i
      BY <2>4, <3>1, <3>2
    <3>3. CASE j # i
      BY <2>4, <2>6, <3>1, <3>3
    <3> QED
      BY <3>2, <3>3
  <2>8. \A j \in Active(e) : j # i => store'[j].priority # store'[i].priority
    BY <1>7, <1>10, <2>3, <2>4, <2>5, <2>6
  <2>9. InOrder(e)'
    <3>1. \A j, k \in Active(e) : j # k => store'[j].priority # store'[k].priority
      <4>1. \A j, k \in Active(e) : j # k => store[j].priority # store[k].priority
        BY <2>1 DEF Joins, Orderly, InOrder
      <4> QED
        BY <2>7, <2>8, <4>1
    <3>2. \A j \in Primary(e), k \in Active(e) : store'[k].priority <= store'[j].priority
      BY <2>6, <2>7
    <3> QED
      BY <1>6, <1>10, <2>6, <3>1, <3>2 DEF InOrder
  <2>10. Orderly(e)'
    <3>1. \A j \in Active(e) : store'[j].priority > 0
      BY <2>7
    <3>2. \A j \in Present(e) : store'[j].primary => store'[j].active /\ ~store'[j].conditions
      BY <1>5, <1>7, <1>10, <2>1 DEF Joins, Orderly, SameButPriorities
    <3>3. \A j \in Present(e) \ Active(e) : store'[j].priority = 0
      BY <1>7, <1>10, <2>1, <2>3, <2>4 DEF Joins, Orderly
    <3> QED
      BY <1>6, <1>10, <2>9, <3>1, <3>2, <3>3 DEF Orderly
  <2>11. Fits(e, n0)'
    <3>1. n0 > 0 /\ n0 \in Nat
      BY <2>2, <2>3, <2>5
    <3>2. \A j \in Active(e) : store'[j].priority # n0
      BY <2>2, <2>4, <2>5, <2>6, <2>7, <3>1
    <3>3. \A j \in Primary(e) : store'[j].priority > n0
      BY <2>2, <2>4, <2>6, <3>1
    <3> QED
      BY <1>6, <1>10, <3>1, <3>2, <3>3 DEF Fits
  <2>12. Joins(p)'
    BY <1>2, <1>3, <1>6, <1>10, <2>1, <2>2, <2>10, <2>11 DEF Joins, Sets
  <2>13. Sound(e)'
    <3>1. Orderly(e)' => Sound(e)'
      BY DEF Orderly, InOrder, Sound
    <3> QED
      BY <2>10, <3>1
  <2>14. q.kind = "update" => Matches(p.id, p.env)' /\ "env" \notin DOMAIN p.set
    BY <1>1, <1>3, <1>5, <1>10 DEF Midway, Matches, SameButPriorities, BusyRec
  <2> QED
    BY <1>3, <1>8, <1>10, <2>1, <2>12, <2>13, <2>14 DEF Midway
<1>11. CASE q.env \in Envs /\ q.pc = "recalculate"
  <2>1. q.kind # "create" /\ Turn(q)
    BY <1>1, <1>11 DEF Midway, Leaves, Joins, Stays, LoneChoice, Shape, Kinds
  <2>2. Turn(req[r])' /\ \A j \in Ids \ Active(q.env) : store'[j].priority = store[j].priority
    BY <1>1, <1>11, <2>1, PriorityTurn
  <2>3. Turn(p)'
    BY <2>2, TurnOf
  <2>4. Sound(p.env)'
    <3>1. Sound(q.env)
      BY <1>11 DEF Midway
    <3>2. \A j \in Present(q.env) : store'[j].primary => store'[j].active /\ ~store'[j].conditions
      BY <1>5, <1>7, <1>11, <3>1 DEF Sound, SameButPriorities
    <3>3. \A j \in Present(q.env) \ Active(q.env) : store'[j].priority = 0
      BY <1>7, <1>11, <2>2, <3>1 DEF Sound
    <3> QED
      BY <1>3, <1>6, <1>11, <3>1, <3>2, <3>3 DEF Sound
  <2>5. q.kind = "update" => /\ Matches(p.id, p.env)' /\ "env" \notin DOMAIN p.set
                             /\ Leaves(p)'
    <3> SUFFICES ASSUME q.kind = "update"
                 PROVE  Matches(p.id, p.env)' /\ "env" \notin DOMAIN p.set /\ Leaves(p)'
      OBVIOUS
    <3>1. Matches(q.id, q.env) /\ "env" \notin DOMAIN q.set /\ Leaves(q)
      BY <1>11 DEF Midway, Joins, Stays
    <3>2. Matches(p.id, p.env)'
      BY <1>1, <1>3, <1>5, <3>1 DEF Matches, SameButPriorities, BusyRec
    <3>3. Leaves(p)'
      BY <1>2, <1>3, <1>6, <1>11, <2>3, <3>1 DEF Leaves, Sets
    <3> QED
      BY <1>3, <3>1, <3>2, <3>3
  <2> QED
    BY <1>2, <1>3, <1>8, <1>11, <2>1, <2>3, <2>4, <2>5 DEF Midway
<1> QED
  BY <1>2, <1>9, <1>10, <1>11

LEMMA TurnIsOrderly ==
    ASSUME TypeInv, NEW q, q.env \in Envs, Sound(q.env), Turn(q), q.todo = {},
           \A i \in Primary(q.env) : q.kind = "remove" \/ i = q.id
    PROVE  Orderly(q.env)
<1> DEFINE e == q.env
<1>1. \A i, j \in Active(e) :
          /\ store[i].priority > 0
          /\ i # j => store[i].priority # store[j].priority
          /\ i \in First(q) /\ j \notin First(q) => store[i].priority > store[j].priority
          /\ i \notin First(q) /\ j \notin First(q) /\ i \in Primary(e) =>
                store[i].priority >= store[j].priority
  BY TurnDone
<1>2. \A i \in Active(e) : store[i].priority \in Nat
  BY DEF TypeInv, Entries, Active, Present
<1>3. Primary(e) \subseteq Active(e)
  BY DEF Primary
<1>4. \A i \in Primary(e), j \in Active(e) : store[j].priority <= store[i].priority
  <2> SUFFICES ASSUME NEW i \in Primary(e), NEW j \in Active(e)
               PROVE  store[j].priority <= store[i].priority
    OBVIOUS
  <2>1. First(q) = IF q.kind = "remove" THEN {} ELSE {q.id}
    BY DEF First
  <2>2. CASE q.kind = "remove"
    BY <1>1, <1>2, <1>3, <2>1, <2>2
  <2>3. CASE i = q.id /\ q.kind # "remove"
    <3>1. CASE j = i
      BY <1>2, <3>1
    <3>2. CASE j # i
      BY <1>1, <1>2, <1>3, <2>1, <2>3, <3>2
    <3> QED
      BY <3>1, <3>2
  <2> QED
    BY <2>2, <2>3
<1>5. InOrder(e)
  BY <1>1, <1>4 DEF InOrder, Sound
<1> QED
  BY <1>1, <1>5 DEF Orderly, Sound

LEMMA RecalculatedMidway ==
    ASSUME NotedInv, NEW r \in Busy, Recalculated(r), NEW q, q = req[r], Midway(q),
           NEW p, p = req'[r], q.kind = "primary" => LoneChoice(q)
    PROVE  IF p = Idle THEN \A e \in Envs : Orderly(e)' ELSE Midway(p)'
<1>1. BusyRec(q) /\ Shape(q) /\ TypeInv /\ r \in Requests /\ q.kind \in Kinds
  BY UnderWayRecs
<1>2. store' = store /\ q.pc \in {"bump", "recalculate"} /\ q.todo = {}
  BY DEF Recalculated
<1>3. CASE q.pc = "bump" \/ (q.kind = "update" /\ q.env \in Envs)
  <2>1. SameTask(q, p) /\ p.pc = "write" /\ p.todo = {}
    BY <1>1, <1>2, <1>3, Went DEF Recalculated, At
  <2>2. p.env = q.env /\ p.kind = q.kind /\ p.id = q.id /\ p.set = q.set /\ p # Idle
    BY <2>1 DEF SameTask, Idle
  <2>3. q.env \in Envs /\ q.kind \in {"create", "update"}
    BY <1>1, <1>3 DEF Midway, Shape, Kinds
  <2>4. \A e \in Envs \ {p.env} : Orderly(e)'
    BY <1>2, <2>2, SameStoreKeeps DEF Midway
  <2>5. Sound(p.env)'
    BY <1>2, <2>2, <2>3, SameStoreKeeps DEF Midway
  <2>6. q.kind = "update" => Matches(p.id, p.env)' /\ "env" \notin DOMAIN p.set
    BY <1>2, <2>2, <2>3 DEF Midway, Matches
  <2>7. CASE q.pc = "bump"
    <3>1. Joins(q)
      BY <2>3, <2>7 DEF Midway, Leaves, Stays, Rests
    <3>2. Fits(q.env, q.set["priority"])
      BY <1>2, <2>7, <3>1 DEF Joins
    <3>3. Fits(p.env, p.set["priority"])'
      BY <1>2, <2>2, <3>2, SameStoreKeeps
    <3>4. p.id \notin Active(p.env)' /\ Orderly(p.env)'
      BY <1>2, <2>2, <3>1, SameStoreKeeps DEF Joins
    <3>5. Joins(p)'
      BY <2>1, <2>2, <3>1, <3>3, <3>4 DEF Joins, Sets
    <3> QED
      BY <2>2, <2>3, <2>4, <2>5, <2>6, <3>5 DEF Midway
  <2>8. CASE q.pc = "recalculate"
    <3>1. q.kind = "update" /\ Leaves(q)
      BY <1>3, <2>3, <2>8 DEF Midway, Joins, Stays
    <3>2. Turn(q)
      BY <2>8, <3>1 DEF Leaves
    <3>3. Active(p.env)' = Active(q.env) /\ Primary(p.env)' = Primary(q.env)
      BY <1>2, <2>2, SameStoreKeeps
    <3>4. Turn(p)'
      <4>1. PICK rank \in [Active(q.env) -> Nat] :
                RankOK(q.env, rank, First(q)) /\ Settles(q.env, rank, q.todo)
        BY <3>2 DEF Turn
      <4>2. RankOK(p.env, rank, First(p))'
        BY <2>2, <3>3, <4>1 DEF RankOK, First
      <4>3. Settles(p.env, rank, p.todo)'
        BY <1>2, <2>1, <3>3, <4>1 DEF Settles
      <4> QED
        BY <3>3, <4>1, <4>2, <4>3 DEF Turn
    <3>5. Leaves(p)'
      BY <2>1, <2>2, <3>1, <3>3, <3>4 DEF Leaves, Sets
    <3> QED
      BY <2>2, <2>3, <2>4, <2>5, <2>6, <3>1, <3>5 DEF Midway
  <2> QED
    BY <1>2, <2>7, <2>8
<1>4. CASE ~(q.pc = "bump" \/ (q.kind = "update" /\ q.env \in Envs))
  <2>1. p = Idle
    BY <1>1, <1>4, Ended DEF Recalculated, At
  <2>2. q.pc = "recalculate"
    BY <1>2, <1>4
  <2>3. q.env \in Envs => Orderly(q.env)
    <3> SUFFICES ASSUME q.env \in Envs PROVE Orderly(q.env)
      OBVIOUS
    <3>1. q.kind \in {"primary", "remove"}
      BY <1>1, <1>4, <2>2 DEF Kinds, Shape
    <3>2. Turn(q) /\ Sound(q.env)
      BY <2>2, <3>1 DEF Midway, LoneChoice
    <3>3. \A i \in Primary(q.env) : q.kind = "remove" \/ i = q.id
      BY <2>2, <3>1 DEF LoneChoice
    <3> QED
      BY <1>1, <1>2, <3>2, <3>3, TurnIsOrderly
  <2>4. \A e \in Envs : Orderly(e)
    BY <2>3 DEF Midway
  <2> QED
    BY <1>2, <2>1, <2>4, SameStoreKeeps
<1> QED
  BY <1>3, <1>4

LEMMA UnsetMidway ==
    ASSUME NotedInv, NEW r \in Busy, UnsetPrimary(r), NEW q, q = req[r], Midway(q),
           NEW p, p = req'[r]
    PROVE  Midway(p)'
<1>1. BusyRec(q) /\ Shape(q) /\ TypeInv /\ r \in Requests /\ q.kind \in Kinds
  BY UnderWayRecs
<1>2. q.pc = "unset" /\ SameTask(q, p) /\ p.pc = "write"
  BY <1>1, Went DEF UnsetPrimary, At
<1>3. q.kind = "primary"
  BY <1>1, <1>2 DEF Shape, Kinds
<1>4. p.env = q.env /\ p.kind = q.kind /\ q.env \in Envs
  BY <1>2, <1>3 DEF SameTask, Midway
<1>5. ASSUME NEW j \in Ids
      PROVE  /\ store'[j].status = store[j].status /\ store'[j].env = store[j].env
             /\ store'[j].active = store[j].active /\ store'[j].priority = store[j].priority
             /\ store'[j].conditions = store[j].conditions
             /\ store'[j].primary <=> store[j].primary /\ j \notin Primary(q.env)
  <2>1. store[j] \in Entries
    BY <1>1 DEF TypeInv
  <2>2. store'[j] = IF j \in Primary(q.env) THEN [store[j] EXCEPT !.primary = FALSE] ELSE store[j]
    BY DEF UnsetPrimary, Unset
  <2> QED
    BY <2>1, <2>2 DEF Entries
<1>6. \A e \in Envs : /\ Present(e)' = Present(e) /\ Active(e)' = Active(e)
                      /\ Present(e) \subseteq Ids /\ Active(e) \subseteq Present(e)
  BY <1>5 DEF Present, Active
<1>7. \A e \in Envs \ {p.env} : Orderly(e)'
  <2> SUFFICES ASSUME NEW e \in Envs \ {p.env} PROVE Orderly(e)'
    OBVIOUS
  <2>1. \A j \in Present(e) : j \notin Primary(q.env)
    BY <1>4 DEF Primary, Active, Present
  <2>2. \A j \in Present(e) : store'[j].primary = store[j].primary
    <3> SUFFICES ASSUME NEW j \in Present(e) PROVE store'[j].primary = store[j].primary
      OBVIOUS
    <3>1. j \in Ids /\ store[j] \in Entries /\ store'[j] \in Entries
      BY <1>1, <1>6 DEF TypeInv, UnsetPrimary, Entries
    <3> QED
      BY <1>5, <2>1, <3>1 DEF Entries
  <2>3. Alike(e)
    BY <1>5, <1>6, <2>2 DEF Alike
  <2> QED
    BY <1>4, <2>3, AlikeIsOrderly DEF Midway
<1>8. Orderly(p.env)'
  <2>1. Orderly(q.env)
    BY <1>2, <1>3, <1>4 DEF Midway
  <2>2. Primary(p.env)' = {}
    BY <1>4, <1>5 DEF Primary, Active, Present
  <2>3. InOrder(p.env)'
    BY <1>4, <1>5, <1>6, <2>1, <2>2 DEF InOrder, Orderly
  <2>4. \A j \in Present(q.env) : store'[j].primary => store'[j].active /\ ~store'[j].conditions
    BY <1>4, <1>5, <1>6, <2>1 DEF Orderly
  <2> QED
    BY <1>4, <1>5, <1>6, <2>1, <2>3, <2>4 DEF Orderly
<1>9. Sound(p.env)'
  <2>1. Orderly(p.env)' => Sound(p.env)'
    BY DEF Orderly, InOrder, Sound
  <2> QED
    BY <1>8, <2>1
<1> QED
  BY <1>3, <1>4, <1>7, <1>8, <1>9 DEF Midway

LEMMA DeleteMidway ==
    ASSUME NotedInv, NEW r \in Busy, Delete(r), NEW q, q = req[r], Midway(q), NEW p, p = req'[r]
    PROVE  IF p = Idle THEN \A e \in Envs : Orderly(e)' ELSE Midway(p)'
<1>1. BusyRec(q) /\ Shape(q) /\ TypeInv /\ r \in Requests /\ q.kind \in Kinds /\ q.id \in Ids
  BY UnderWayRecs
<1>2. q.pc = "delete" /\ q.kind = "remove"
  BY <1>1 DEF Delete, At, Shape, Kinds
<1>3. q.env \in Envs
  BY <1>2 DEF Midway
<1>4. \A e \in Envs : Orderly(e)
  BY <1>2, <1>3 DEF Midway
<1>5. CASE store[q.id].status = "present"
  <2>1. SameTask(q, p) /\ p.pc = "find"
    BY <1>1, <1>5, Went DEF Delete
  <2>2. p.env = q.env /\ p.kind = q.kind /\ p # Idle
    BY <2>1 DEF SameTask, Idle
  <2>3. ASSUME NEW j \in Ids
        PROVE  /\ store'[j].env = store[j].env /\ store'[j].active = store[j].active
               /\ store'[j].primary = store[j].primary /\ store'[j].priority = store[j].priority
               /\ store'[j].conditions = store[j].conditions
               /\ store'[j].status = IF j = q.id THEN "deleted" ELSE store[j].status
    <3>1. store[j] \in Entries
      BY <1>1 DEF TypeInv
    <3>2. store'[j] = IF j = q.id THEN [store[j] EXCEPT !.status = "deleted"] ELSE store[j]
      BY <1>1, <1>5 DEF Delete, TypeInv
    <3> QED
      BY <3>1, <3>2 DEF Entries
  <2>4. \A e \in Envs : Orderly(e)'
    <3> SUFFICES ASSUME NEW e \in Envs PROVE Orderly(e)'
      OBVIOUS
    <3>1. /\ Present(e)' = Present(e) \ {q.id} /\ Active(e)' = Active(e) \ {q.id}
          /\ Primary(e)' = Primary(e) \ {q.id}
          /\ Present(e) \subseteq Ids /\ Active(e) \subseteq Present(e)
          /\ Primary(e) \subseteq Active(e)
      BY <2>3 DEF Present, Active, Primary
    <3>2. Orderly(e)
      BY <1>4
    <3>3. InOrder(e)'
      BY <2>3, <3>1, <3>2 DEF Orderly, InOrder
    <3> QED
      BY <2>3, <3>1, <3>2, <3>3 DEF Orderly
  <2>5. Sound(p.env)'
    <3>1. Orderly(p.env)' => Sound(p.env)'
      BY DEF Orderly, InOrder, Sound
    <3> QED
      BY <1>3, <2>2, <2>4, <3>1
  <2> QED
    BY <1>2, <1>3, <2>1, <2>2, <2>4, <2>5 DEF Midway
<1>6. CASE store[q.id].status # "present"
  <2>1. store' = store /\ p = Idle
    BY <1>1, <1>6, Ended DEF Delete
  <2> QED
    BY <1>4, <2>1, SameStoreKeeps
<1> QED
  BY <1>5, <1>6

\* One integration of an environment is written: the others stay as they are.
OnlyWritten(i, e) ==
    /\ \A j \in Ids \ {i} : store'[j] = store[j]
    /\ store'[i].status = "present" /\ store'[i].env = e

LEMMA WrittenSets ==
    ASSUME NEW e \in Envs, NEW i \in Ids, OnlyWritten(i, e)
    PROVE  /\ Present(e)' = Present(e) \cup {i}
           /\ Active(e)' = (Active(e) \ {i}) \cup (IF store'[i].active THEN {i} ELSE {})
           /\ Primary(e)' = (Primary(e) \ {i})
                               \cup (IF store'[i].active /\ store'[i].primary THEN {i} ELSE {})
           /\ Present(e) \subseteq Ids /\ Active(e) \subseteq Present(e)
           /\ Primary(e) \subseteq Active(e)
<1>1. Present(e)' = Present(e) \cup {i}
  BY DEF Present, OnlyWritten
<1>2. Active(e)' = (Active(e) \ {i}) \cup (IF store'[i].active THEN {i} ELSE {})
  BY DEF Present, Active, OnlyWritten
<1>3. Primary(e)' = (Primary(e) \ {i})
                       \cup (IF store'[i].active /\ store'[i].primary THEN {i} ELSE {})
  BY DEF Present, Active, Primary, OnlyWritten
<1> QED
  BY <1>1, <1>2, <1>3 DEF Present, Active, Primary

LEMMA JoinedIsOrderly ==
    ASSUME TypeInv, NEW e \in Envs, NEW i \in Ids \ Active(e), OnlyWritten(i, e), Orderly(e),
           Fits(e, store'[i].priority), store'[i].priority \in Nat,
           store'[i].active, ~store'[i].primary
    PROVE  Orderly(e)'
<1>1. /\ Present(e)' = Present(e) \cup {i} /\ Active(e)' = Active(e) \cup {i}
      /\ Primary(e)' = Primary(e)
      /\ Present(e) \subseteq Ids /\ Active(e) \subseteq Present(e) /\ Primary(e) \subseteq Active(e)
  BY WrittenSets DEF Primary
<1>2. \A j \in Present(e) : j # i => store'[j] = store[j]
  BY <1>1 DEF OnlyWritten
<1>3. \A j \in Active(e) : j # i /\ store'[j] = store[j] /\ store[j].priority \in Nat
  BY <1>1, <1>2 DEF TypeInv, Entries
<1>4. InOrder(e)'
  <2>1. \A j, k \in Active(e)' : j # k => store'[j].priority # store'[k].priority
    BY <1>1, <1>3 DEF Fits, Orderly, InOrder
  <2>2. \A j \in Primary(e)', k \in Active(e)' : store'[k].priority <= store'[j].priority
    BY <1>1, <1>3 DEF Fits, Orderly, InOrder
  <2>3. \A j, k \in Primary(e)' : j = k
    BY <1>1 DEF Orderly, InOrder
  <2> QED
    BY <2>1, <2>2, <2>3 DEF InOrder
<1>5. \A j \in Active(e)' : store'[j].priority > 0
  BY <1>1, <1>3 DEF Fits, Orderly
<1>6. \A j \in Present(e)' : store'[j].primary => store'[j].active /\ ~store'[j].conditions
  BY <1>1, <1>2 DEF Orderly
<1>7. \A j \in Present(e)' \ Active(e)' : store'[j].priority = 0
  BY <1>1, <1>2 DEF Orderly
<1> QED
  BY <1>4, <1>5, <1>6, <1>7 DEF Orderly

LEMMA LeftIsOrderly ==
    ASSUME TypeInv, NEW q, q.env \in Envs, q.id \in Active(q.env), OnlyWritten(q.id, q.env),
           Sound(q.env), Turn(q), q.todo = {}, q.kind # "remove",
           ~store'[q.id].active, ~store'[q.id].primary, store'[q.id].priority = 0
    PROVE  Orderly(q.env)'
<1> DEFINE e == q.env
           i == q.id
<1>1. /\ Present(e)' = Present(e) \cup {i} /\ Active(e)' = Active(e) \ {i}
      /\ Primary(e)' = Primary(e) \ {i}
      /\ Present(e) \subseteq Ids /\ Active(e) \subseteq Present(e) /\ Primary(e) \subseteq Active(e)
  <2>1. i \in Ids
    BY DEF Active, Present
  <2> QED
    BY <2>1, WrittenSets
<1>2. \A j \in Present(e) : j # i => store'[j] = store[j]
  BY <1>1 DEF OnlyWritten
<1>3. \A j, k \in Active(e) \ {i} :
          /\ store[j].priority > 0
          /\ j # k => store[j].priority # store[k].priority
          /\ j \in Primary(e) => store[j].priority >= store[k].priority
  BY TurnDone DEF First
<1>4. \A j \in Active(e) \ {i} : store'[j] = store[j] /\ store[j].priority \in Nat
  BY <1>1, <1>2 DEF TypeInv, Entries
<1>5. InOrder(e)'
  <2>1. \A j, k \in Active(e)' : j # k => store'[j].priority # store'[k].priority
    BY <1>1, <1>3, <1>4
  <2>2. \A j \in Primary(e)', k \in Active(e)' : store'[k].priority <= store'[j].priority
    BY <1>1, <1>3, <1>4
  <2>3. \A j, k \in Primary(e)' : j = k
    BY <1>1 DEF Sound
  <2> QED
    BY <2>1, <2>2, <2>3 DEF InOrder
<1>6. \A j \in Active(e)' : store'[j].priority > 0
  BY <1>1, <1>3, <1>4
<1>7. \A j \in Present(e)' : store'[j].primary => store'[j].active /\ ~store'[j].conditions
  BY <1>1, <1>2 DEF Sound
<1>8. \A j \in Present(e)' \ Active(e)' : store'[j].priority = 0
  BY <1>1, <1>2 DEF Sound
<1> QED
  BY <1>5, <1>6, <1>7, <1>8 DEF Orderly

\* An integration that is written without its activity or its priority being changed, or that
\* comes as an inactive one.
LEMMA KeptIsOrderly ==
    ASSUME TypeInv, NEW e \in Envs, NEW i \in Ids, OnlyWritten(i, e), Orderly(e),
           store'[i].primary => ~store'[i].conditions,
           \/ /\ i \in Present(e) /\ store'[i].active = store[i].active
              /\ store'[i].priority = store[i].priority
              /\ store'[i].primary => store[i].primary
           \/ /\ i \notin Present(e) /\ ~store'[i].active /\ ~store'[i].primary
              /\ store'[i].priority = 0
    PROVE  Orderly(e)'
<1>1. /\ Present(e)' = Present(e) \cup {i} /\ Active(e)' = Active(e)
      /\ Primary(e)' \subseteq Primary(e)
      /\ Present(e) \subseteq Ids /\ Active(e) \subseteq Present(e) /\ Primary(e) \subseteq Active(e)
  BY WrittenSets DEF Active, Primary
<1>2. \A j \in Present(e) : j # i => store'[j] = store[j]
  BY <1>1 DEF OnlyWritten
<1>3. \A j \in Active(e) : store'[j].priority = store[j].priority
  BY <1>1, <1>2
<1>4. InOrder(e)'
  BY <1>1, <1>3 DEF Orderly, InOrder
<1>5. \A j \in Active(e)' : store'[j].priority > 0
  BY <1>1, <1>3 DEF Orderly
<1>6. \A j \in Present(e)' : store'[j].primary => store'[j].active /\ ~store'[j].conditions
  BY <1>1, <1>2 DEF Orderly
<1>7. \A j \in Present(e)' \ Active(e)' : store'[j].priority = 0
  BY <1>1, <1>2 DEF Orderly
<1> QED
  BY <1>4, <1>5, <1>6, <1>7 DEF Orderly

LEMMA ChosenIsSound ==
    ASSUME TypeInv, NEW e \in Envs, NEW i \in Present(e), OnlyWritten(i, e), Orderly(e),
           Primary(e) = {}, store'[i].active, store'[i].primary, ~store'[i].conditions
    PROVE  Sound(e)'
<1>1. /\ Present(e)' = Present(e) /\ Active(e)' = Active(e) \cup {i} /\ Primary(e)' = {i}
      /\ Present(e) \subseteq Ids /\ Active(e) \subseteq Present(e)
  <2>1. i \in Ids
    BY DEF Present
  <2> QED
    BY <2>1, WrittenSets
<1>2. \A j \in Present(e) : j # i => store'[j] = store[j]
  BY <1>1 DEF OnlyWritten
<1>3. \A j \in Present(e)' : store'[j].primary => store'[j].active /\ ~store'[j].conditions
  BY <1>1, <1>2 DEF Orderly
<1>4. \A j \in Present(e)' \ Active(e)' : store'[j].priority = 0
  BY <1>1, <1>2 DEF Orderly
<1> QED
  BY <1>1, <1>3, <1>4 DEF Sound

LEMMA WriteMidway ==
    ASSUME NotedInv, NotedInv', NEW r \in Busy, Write(r), NEW q, q = req[r], Midway(q),
           NEW p, p = req'[r], q.kind = "primary" => LoneChoice(q)
    PROVE  IF p = Idle THEN \A e \in Envs : Orderly(e)' ELSE Midway(p)'
<1>1. BusyRec(q) /\ Shape(q) /\ TypeInv /\ r \in Requests /\ q.kind \in Kinds /\ q.id \in Ids
  BY UnderWayRecs
<1>2. Noted(q) /\ store'[q.id] \in Entries /\ store[q.id] \in Entries
  BY <1>1 DEF NotedInv, TypeInv
<1>3. /\ q.pc = "write"
      /\ \A j \in Ids \ {q.id} : store'[j] = store[j]
      /\ IF q.kind = "create" \/ Matches(q.id, q.env)
         THEN \A f \in Fields : store'[q.id][f] =
                 IF f \in DOMAIN q.set THEN q.set[f] ELSE store[q.id][f]
         ELSE store' = store
      /\ IF q.kind # "primary" /\ ~q.strip THEN p = Idle
         ELSE /\ p.kind = q.kind /\ p.id = q.id /\ p.set = q.set /\ p.pc = "find"
              /\ p.env = IF q.kind = "primary" THEN q.env ELSE Organization
  BY <1>1, Written
<1>4. q.env \in Envs /\ q.kind \in {"create", "update", "primary"}
  BY <1>1, <1>3 DEF Midway, Shape, Kinds
<1>5. q.kind = "create" => /\ DOMAIN q.set = Fields /\ q.set["primary"] = FALSE
                           /\ q.set["env"] = q.env /\ q.set["status"] = "present"
                           /\ store[q.id].status = "none"
  BY <1>1, <1>2 DEF Shape, Noted
<1>6. q.kind # "create" => Matches(q.id, q.env) /\ "env" \notin DOMAIN q.set
                           /\ "status" \notin DOMAIN q.set
  <2>1. CASE q.kind = "primary"
    <3>1. q.set = ChosenSet /\ Matches(q.id, q.env)
      BY <1>1, <2>1 DEF Shape, LoneChoice
    <3> QED
      BY <3>1 DEF ChosenSet
  <2>2. CASE q.kind = "update"
    BY <1>1, <1>4, <2>2 DEF Midway, Shape
  <2> QED
    BY <1>4, <2>1, <2>2
<1> DEFINE i == q.id
           e0 == q.env
           Given(f) == IF f \in DOMAIN q.set THEN q.set[f] ELSE store[i][f]
<1>7. \A f \in Fields : store'[i][f] = Given(f)
  BY <1>3, <1>6
<1>8. /\ store'[i].status = Given("status") /\ store'[i].env = Given("env")
      /\ store'[i].active = Given("active") /\ store'[i].primary = Given("primary")
      /\ store'[i].priority = Given("priority") /\ store'[i].conditions = Given("conditions")
  BY <1>7 DEF Fields
<1>9. OnlyWritten(i, e0)
  <2>1. store'[i].status = "present" /\ store'[i].env = e0
    BY <1>5, <1>6, <1>8 DEF Matches, Fields
  <2> QED
    BY <1>3, <2>1 DEF OnlyWritten
<1>10. i \in Present(e0) <=> q.kind # "create"
  BY <1>1, <1>5, <1>6 DEF Present, Matches
<1>11. \A e \in Envs \ {e0} : Orderly(e)'
  <2> SUFFICES ASSUME NEW e \in Envs \ {e0} PROVE Orderly(e)'
    OBVIOUS
  <2>1. i \notin Present(e) /\ i \notin Present(e)'
    BY <1>5, <1>6, <1>9 DEF Present, Matches, OnlyWritten
  <2>2. Alike(e)
    BY <1>9, <2>1 DEF Alike, Present, OnlyWritten
  <2> QED
    BY <2>2, AlikeIsOrderly DEF Midway
<1>12. CASE q.kind = "primary"
  <2>1. Primary(e0) = {} /\ Orderly(e0) /\ i \in Present(e0)
    BY <1>3, <1>4, <1>10, <1>12 DEF Midway, LoneChoice
  <2>2. q.set = ChosenSet
    BY <1>1, <1>12 DEF Shape
  <2>3. store'[i].active /\ store'[i].primary /\ ~store'[i].conditions
    BY <1>8, <2>2 DEF ChosenSet
  <2>4. Sound(e0)'
    BY <1>1, <1>4, <1>9, <2>1, <2>3, ChosenIsSound
  <2>5. p.env = e0 /\ p.kind = "primary" /\ p.pc = "find" /\ p # Idle
    BY <1>3, <1>12 DEF Idle
  <2> QED
    BY <1>4, <1>11, <2>4, <2>5 DEF Midway
<1>13. CASE q.kind \in {"create", "update"}
  <2>1. Joins(q) \/ Leaves(q) \/ (q.kind = "update" /\ Stays(q)) \/ (q.kind = "create" /\ Rests(q))
    BY <1>4, <1>13 DEF Midway
  <2>2. ASSUME Joins(q) PROVE Orderly(e0)'
    <3>1. Fits(e0, store'[i].priority) /\ store'[i].active /\ ~store'[i].primary
      BY <1>3, <1>8, <2>2 DEF Joins, Sets
    <3>2. i \notin Active(e0) /\ Orderly(e0) /\ store'[i].priority \in Nat
      BY <1>2, <2>2 DEF Joins, Entries
    <3> QED
      BY <1>1, <1>4, <1>9, <3>1, <3>2, JoinedIsOrderly
  <2>3. ASSUME Leaves(q) PROVE Orderly(e0)'
    <3>1. ~store'[i].active /\ ~store'[i].primary /\ store'[i].priority = 0
      BY <1>8, <2>3 DEF Leaves, Sets
    <3>2. i \in Active(e0) /\ Turn(q) /\ q.todo = {} /\ Sound(e0)
      BY <1>3, <1>4, <2>3 DEF Leaves, Midway
    <3> QED
      BY <1>1, <1>4, <1>9, <1>13, <3>1, <3>2, LeftIsOrderly
  <2>4. ASSUME q.kind = "update" /\ Stays(q) PROVE Orderly(e0)'
    <3>1. i \in Present(e0) /\ Orderly(e0)
      BY <1>10, <2>4 DEF Stays
    <3>2. /\ store'[i].active = store[i].active /\ store'[i].priority = store[i].priority
          /\ store'[i].primary => store[i].primary /\ "primary" \notin DOMAIN q.set
      BY <1>8, <2>4 DEF Stays
    <3>3. store'[i].primary => ~store'[i].conditions
      <4> SUFFICES ASSUME store'[i].primary, store'[i].conditions PROVE FALSE
        OBVIOUS
      <4>1. store[i].primary /\ "primary" \notin DOMAIN q.set
        BY <3>2
      <4>2. ~HaveConditions(q.set)
        BY <2>4, <4>1 DEF Stays
      <4>3. store[i].conditions
        BY <1>8, <4>2 DEF HaveConditions
      <4> QED
        BY <3>1, <4>1, <4>3 DEF Orderly
    <3> QED
      BY <1>1, <1>4, <1>9, <3>1, <3>2, <3>3, KeptIsOrderly
  <2>5. ASSUME q.kind = "create" /\ Rests(q) PROVE Orderly(e0)'
    <3>1. ~store'[i].active /\ ~store'[i].primary /\ store'[i].priority = 0
      BY <1>5, <1>8, <2>5 DEF Rests, Fields
    <3>2. i \notin Present(e0) /\ Orderly(e0)
      BY <1>10, <2>5 DEF Rests
    <3> QED
      BY <1>1, <1>4, <1>9, <3>1, <3>2, KeptIsOrderly
  <2>6. Orderly(e0)'
    BY <2>1, <2>2, <2>3, <2>4, <2>5
  <2>7. \A e \in Envs : Orderly(e)'
    BY <1>11, <2>6
  <2>8. CASE ~q.strip
    BY <1>3, <1>13, <2>7, <2>8
  <2>9. CASE q.strip
    <3>1. p.kind = "update" /\ p.pc = "find" /\ p.env = Organization /\ p # Idle
      BY <1>1, <1>3, <1>13, <2>9 DEF Shape, Idle
    <3>2. p.env \notin Envs
      BY <3>1, IntegrationAssumption
    <3> QED
      BY <2>7, <3>1, <3>2 DEF Midway
  <2> QED
    BY <2>8, <2>9
<1> QED
  BY <1>4, <1>12, <1>13

-----------------------------------------------------------------------------

\* What an update gives to the fields that a request may not choose freely.
LEMMA PayloadValues ==
    ASSUME store \in [Ids -> Entries], NEW i \in Ids, NEW p \in Payloads
    PROVE  LET s       == PayloadOf(i, p[1], p[2])
               changed == "active" \in DOMAIN p[1] /\ p[1]["active"] # store[i].active
           IN  /\ "active" \in DOMAIN s <=> "active" \in DOMAIN p[1]
               /\ changed => /\ {"primary", "priority"} \subseteq DOMAIN s
                             /\ ~p[1]["active"] => s["primary"] = FALSE /\ s["priority"] = 0
                             /\ ~store[i].primary => s["primary"] = FALSE
               /\ ~changed => /\ "priority" \notin DOMAIN s
                              /\ "primary" \in DOMAIN s => s["primary"] = FALSE
                              /\ HaveConditions(s) /\ store[i].primary => "primary" \in DOMAIN s
<1> DEFINE changed == "active" \in DOMAIN p[1] /\ p[1]["active"] # store[i].active
           off     == IF changed /\ ~p[1]["active"] THEN [primary |-> FALSE, priority |-> 0] ELSE NoFields
           bare    == IF HaveConditions(p[1]) /\ store[i].primary THEN [primary |-> FALSE] ELSE NoFields
           kept    == IF changed THEN [primary |-> store[i].primary, priority |-> 0] ELSE NoFields
           inner   == On(bare, kept)
           rest    == On(off, inner)
           moved   == Moved(p[2])
           outer   == On(moved, rest)
           s       == PayloadOf(i, p[1], p[2])
<1>1. s = On(p[1], outer)
  BY DEF PayloadOf
<1>2. /\ DOMAIN off = (IF changed /\ ~p[1]["active"] THEN {"primary", "priority"} ELSE {})
      /\ DOMAIN bare = (IF HaveConditions(p[1]) /\ store[i].primary THEN {"primary"} ELSE {})
      /\ DOMAIN kept = (IF changed THEN {"primary", "priority"} ELSE {})
  BY DEF NoFields
<1>3. /\ changed /\ ~p[1]["active"] => off["primary"] = FALSE /\ off["priority"] = 0
      /\ HaveConditions(p[1]) /\ store[i].primary => bare["primary"] = FALSE
      /\ changed => kept["primary"] = store[i].primary
  OBVIOUS
<1>4. DOMAIN p[1] \subseteq {"active", "conditions"} /\ DOMAIN moved \subseteq {"env"}
  <2>1. PICK D \in SUBSET {"active", "conditions"} : p[1] \in [D -> BOOLEAN]
    BY DEF Payloads
  <2>2. DOMAIN p[1] \subseteq {"active", "conditions"}
    BY <2>1
  <2>3. DOMAIN moved \subseteq {"env"}
    BY DEF Moved, NoFields
  <2> QED
    BY <2>2, <2>3
<1> HIDE DEF off, bare, kept, moved
<1>5. DOMAIN inner = DOMAIN bare \cup DOMAIN kept
  BY OnDomain
<1>6. \A f \in DOMAIN inner : inner[f] = IF f \in DOMAIN bare THEN bare[f] ELSE kept[f]
  BY <1>5, OnField
<1> HIDE DEF inner
<1>7. DOMAIN rest = DOMAIN off \cup DOMAIN inner
  BY OnDomain
<1>8. \A f \in DOMAIN rest : rest[f] = IF f \in DOMAIN off THEN off[f] ELSE inner[f]
  BY <1>7, OnField
<1> HIDE DEF rest
<1>9. DOMAIN outer = DOMAIN moved \cup DOMAIN rest
  BY OnDomain
<1>10. \A f \in DOMAIN outer : outer[f] = IF f \in DOMAIN moved THEN moved[f] ELSE rest[f]
  BY <1>9, OnField
<1> HIDE DEF outer
<1>11. DOMAIN s = DOMAIN p[1] \cup DOMAIN outer
  <2>1. DOMAIN On(p[1], outer) = DOMAIN p[1] \cup DOMAIN outer
    BY OnDomain
  <2> QED
    BY <1>1, <2>1
<1>12. \A f \in DOMAIN s : s[f] = IF f \in DOMAIN p[1] THEN p[1][f] ELSE outer[f]
  BY <1>1, <1>11, OnField
<1> HIDE DEF s
<1>13. \A f \in {"primary", "priority"} :
           /\ f \in DOMAIN s <=> f \in DOMAIN rest
           /\ f \in DOMAIN rest => s[f] = rest[f]
  BY <1>4, <1>9, <1>10, <1>11, <1>12
<1>14. DOMAIN rest \subseteq {"primary", "priority"}
  BY <1>2, <1>5, <1>7
<1>15. \A f \in {"active", "conditions"} : f \in DOMAIN s <=> f \in DOMAIN p[1]
  BY <1>4, <1>9, <1>11, <1>14
<1>16. HaveConditions(s) => HaveConditions(p[1])
  BY <1>12, <1>15 DEF HaveConditions
<1>17. ASSUME changed
       PROVE  /\ {"primary", "priority"} \subseteq DOMAIN s
              /\ ~p[1]["active"] => s["primary"] = FALSE /\ s["priority"] = 0
              /\ ~store[i].primary => s["primary"] = FALSE
  <2>1. {"primary", "priority"} \subseteq DOMAIN rest
    BY <1>2, <1>5, <1>7, <1>17
  <2>2. ~p[1]["active"] => rest["primary"] = FALSE /\ rest["priority"] = 0
    BY <1>2, <1>3, <1>8, <1>17, <2>1
  <2>3. ~store[i].primary => rest["primary"] = FALSE
    BY <1>2, <1>3, <1>5, <1>6, <1>8, <1>17, <2>1, <2>2
  <2> QED
    BY <1>13, <2>1, <2>2, <2>3
<1>18. ASSUME ~changed
       PROVE  /\ "priority" \notin DOMAIN s
              /\ "primary" \in DOMAIN s => s["primary"] = FALSE
              /\ HaveConditions(s) /\ store[i].primary => "primary" \in DOMAIN s
  <2>1. DOMAIN off = {} /\ DOMAIN kept = {}
    BY <1>2, <1>18
  <2>2. DOMAIN rest = DOMAIN bare /\ DOMAIN inner = DOMAIN bare
    BY <1>5, <1>7, <2>1
  <2>3. "priority" \notin DOMAIN rest /\ ("primary" \in DOMAIN rest => rest["primary"] = FALSE)
    BY <1>2, <1>3, <1>6, <1>8, <2>1, <2>2
  <2>4. HaveConditions(p[1]) /\ store[i].primary => "primary" \in DOMAIN rest
    BY <1>2, <2>2
  <2> QED
    BY <1>13, <1>16, <2>3, <2>4
<1> QED
  BY <1>15, <1>17, <1>18 DEF s

LEMMA BeginMidway ==
    ASSUME NotedInv, NEW r \in Requests, Begins(r), tidy', \A e \in Envs : Orderly(e),
           NEW p, p = req'[r]
    PROVE  Midway(p)'
<1>1. TypeInv
  BY DEF NotedInv
<1>2. store' = store
  BY DEF Begins, CreateIntegration, UpdateIntegration, SetIntegrationAsPrimary, RemoveIntegration, Begin
<1>3. \A e \in Envs : Orderly(e)' /\ Sound(e)' /\ Sound(e) /\ Active(e)' = Active(e)
  BY <1>2, SameStoreKeeps, OrderlyIsSound
<1>4. CASE CreateIntegration(r)
  <2>1. PICK i \in Ids, e \in Envs, active \in BOOLEAN, conditions \in BOOLEAN :
            /\ store[i].status = "none"
            /\ Begin(r, "create", IF active THEN "highest" ELSE "write", i, e,
                     NewSet(i, e, active, conditions))
    BY <1>4 DEF CreateIntegration, NewSet
  <2> DEFINE set == NewSet(i, e, active, conditions)
  <2>2. p.kind = "create" /\ p.pc = (IF active THEN "highest" ELSE "write") /\ p.id = i
        /\ p.env = e /\ p.set = set
    BY <2>1 DEF Begin
  <2>3. {"active", "primary", "priority"} \subseteq DOMAIN set /\ set["active"] = active
        /\ set["primary"] = FALSE /\ set["priority"] = 0
    BY DEF NewSet
  <2>4. i \notin Active(e)
    BY <2>1 DEF Active, Present
  <2> HIDE DEF set
  <2>5. Joins(p)' \/ Rests(p)'
    BY <1>3, <2>2, <2>3, <2>4 DEF Joins, Rests, Sets
  <2> QED
    BY <1>3, <2>2, <2>5 DEF Midway
<1>5. CASE SetIntegrationAsPrimary(r)
  <2>1. PICK i \in Ids : Begin(r, "primary", "unset", i, store[i].env, ChosenSet)
    BY <1>5 DEF SetIntegrationAsPrimary, ChosenSet
  <2>2. p.kind = "primary" /\ p.env = store[i].env /\ store[i].env \in Envs
    BY <1>1, <2>1 DEF Begin, TypeInv, Entries
  <2> QED
    BY <1>3, <2>2 DEF Midway
<1>6. CASE RemoveIntegration(r)
  <2>1. PICK i \in Ids : Begin(r, "remove", "delete", i, store[i].env, NoFields)
    BY <1>6 DEF RemoveIntegration
  <2>2. p.kind = "remove" /\ p.pc = "delete" /\ p.env = store[i].env /\ store[i].env \in Envs
    BY <1>1, <2>1 DEF Begin, TypeInv, Entries
  <2> QED
    BY <1>3, <2>2 DEF Midway
<1>7. CASE UpdateIntegration(r)
  <2>1. PICK i \in Ids, g \in Payloads :
            /\ store[i].status = "present"
            /\ Begin(r, "update",
                     IF "active" \notin DOMAIN g[1] \/ g[1]["active"] = store[i].active THEN "write"
                     ELSE IF g[1]["active"] THEN "highest" ELSE "find",
                     i, store[i].env, PayloadOf(i, g[1], g[2]))
            /\ tidy' = (tidy /\ Busy = {} /\ g[2] = {})
    BY <1>7 DEF UpdateIntegration
  <2> DEFINE changed == "active" \in DOMAIN g[1] /\ g[1]["active"] # store[i].active
             s       == PayloadOf(i, g[1], g[2])
             e       == store[i].env
  <2>2. /\ "env" \in DOMAIN s => g[2] # {}
        /\ \A f \in DOMAIN g[1] : f \in DOMAIN s /\ s[f] = g[1][f]
    BY <1>1, PayloadFields DEF TypeInv
  <2>3. /\ "active" \in DOMAIN s <=> "active" \in DOMAIN g[1]
        /\ changed => /\ {"primary", "priority"} \subseteq DOMAIN s
                      /\ ~g[1]["active"] => s["primary"] = FALSE /\ s["priority"] = 0
                      /\ ~store[i].primary => s["primary"] = FALSE
        /\ ~changed => /\ "priority" \notin DOMAIN s
                       /\ "primary" \in DOMAIN s => s["primary"] = FALSE
                       /\ HaveConditions(s) /\ store[i].primary => "primary" \in DOMAIN s
    BY <1>1, PayloadValues DEF TypeInv
  <2> HIDE DEF s
  <2>4. /\ p.kind = "update" /\ p.id = i /\ p.env = e /\ p.set = s
        /\ p.pc = IF ~changed THEN "write" ELSE IF g[1]["active"] THEN "highest" ELSE "find"
    BY <2>1 DEF Begin, s
  <2>5. e \in Envs /\ i \in Present(e) /\ store[i].active \in BOOLEAN
    BY <1>1, <2>1 DEF TypeInv, Entries, Present
  <2>6. Matches(p.id, p.env)' /\ "env" \notin DOMAIN p.set
    BY <1>2, <2>1, <2>2, <2>4 DEF Matches
  <2>7. g[1]["active"] \in BOOLEAN \/ "active" \notin DOMAIN g[1]
    <3>1. PICK D \in SUBSET {"active", "conditions"} : g[1] \in [D -> BOOLEAN]
      BY DEF Payloads
    <3> QED
      BY <3>1
  <2>8. ASSUME ~changed PROVE Stays(p)'
    <3>1. p.pc = "write" /\ "priority" \notin DOMAIN s
          /\ ("primary" \in DOMAIN s => ~s["primary"])
          /\ (HaveConditions(s) /\ store[i].primary => "primary" \in DOMAIN s)
      BY <2>3, <2>4, <2>8
    <3>2. "active" \in DOMAIN s => s["active"] = store[i].active
      BY <2>2, <2>3, <2>8
    <3> QED
      BY <1>2, <1>3, <2>4, <2>5, <3>1, <3>2 DEF Stays, HaveConditions
  <2>9. ASSUME changed, g[1]["active"] PROVE Joins(p)'
    <3>1. ~store[i].active /\ i \notin Active(e)
      BY <2>5, <2>9 DEF Active
    <3>2. ~store[i].primary
      BY <1>3, <2>5, <3>1 DEF Sound
    <3>3. Sets(p) /\ s["active"] /\ ~s["primary"]
      BY <2>2, <2>3, <2>4, <2>9, <3>2 DEF Sets
    <3> QED
      BY <1>3, <2>4, <2>5, <2>9, <3>1, <3>3 DEF Joins, Sets
  <2>10. ASSUME changed, ~g[1]["active"] PROVE Leaves(p)'
    <3>1. i \in Active(e)
      BY <2>5, <2>7, <2>10 DEF Active
    <3>2. Sets(p) /\ ~s["active"] /\ ~s["primary"] /\ s["priority"] = 0
      BY <2>2, <2>3, <2>4, <2>10 DEF Sets
    <3> QED
      BY <1>3, <2>4, <2>5, <2>10, <3>1, <3>2 DEF Leaves, Sets
  <2>11. Joins(p)' \/ Leaves(p)' \/ Stays(p)'
    BY <2>8, <2>9, <2>10
  <2> QED
    BY <1>3, <2>4, <2>5, <2>6, <2>11 DEF Midway
<1> QED
  BY <1>4, <1>5, <1>6, <1>7 DEF Begins

LEMMA ContinuesMidway ==
    ASSUME NotedInv, NotedInv', NEW r \in Busy, Continues(r), NEW q, q = req[r], Midway(q),
           NEW p, p = req'[r], q.kind = "primary" => LoneChoice(q)
    PROVE  /\ p = Idle => \A e \in Envs : Orderly(e)'
           /\ p # Idle => Midway(p)'
<1>1. BusyRec(q) /\ TypeInv /\ r \in Requests
  BY UnderWayRecs
<1>2. CASE CalculatePriority(r)
  <2>1. p # Idle
    BY <1>1, <1>2, Calculated DEF Idle
  <2> QED
    BY <1>2, <2>1, CalculateMidway
<1>3. CASE FindActive(r)
  <2>1. p.pc = "recalculate"
    BY <1>1, <1>3, Found
  <2>2. p # Idle
    BY <2>1 DEF Idle
  <2> QED
    BY <1>3, <2>2, FindMidway
<1>4. CASE WritePriority(r)
  <2>1. p # Idle
    BY <1>1, <1>4, PriorityWritten DEF Idle
  <2> QED
    BY <1>4, <2>1, PriorityMidway
<1>5. CASE Recalculated(r)
  BY <1>5, RecalculatedMidway
<1>6. CASE UnsetPrimary(r)
  <2>1. p # Idle
    BY <1>1, <1>6, Went DEF UnsetPrimary, Idle
  <2> QED
    BY <1>6, <2>1, UnsetMidway
<1>7. CASE Write(r)
  BY <1>7, WriteMidway
<1>8. CASE Delete(r)
  BY <1>8, DeleteMidway
<1> QED
  BY <1>2, <1>3, <1>4, <1>5, <1>6, <1>7, <1>8 DEF Continues

LEMMA SameStoreMidway ==
    ASSUME store' = store, NEW q, Midway(q)
    PROVE  Midway(q)'
<1>1. /\ \A e : Present(e)' = Present(e) /\ Active(e)' = Active(e) /\ Primary(e)' = Primary(e)
      /\ \A e : (Orderly(e)' <=> Orderly(e)) /\ (Sound(e)' <=> Sound(e))
      /\ \A e, n : Fits(e, n)' <=> Fits(e, n)
  BY SameStoreKeeps
<1>2. Turn(q) => Turn(q)'
  BY <1>1 DEF Turn, RankOK, Settles
<1>3. Joins(q) => Joins(q)'
  BY <1>1 DEF Joins
<1>4. Leaves(q) => Leaves(q)'
  BY <1>1, <1>2 DEF Leaves
<1>5. (Stays(q) => Stays(q)') /\ (Rests(q) => Rests(q)')
  BY <1>1 DEF Stays, Rests
<1> QED
  BY <1>1, <1>2, <1>3, <1>4, <1>5 DEF Midway, Matches

LEMMA TidyStep ==
    ASSUME HeldInv, LoneInv, TidyInv, [Next]_vars
    PROVE  TidyInv'
<1>1. NotedInv /\ NotedInv' /\ AloneOK
  BY NotedStep DEF LoneInv
<1>2. CASE UNCHANGED vars
  <2>1. store' = store /\ tidy' = tidy /\ req' = req
    BY <1>2 DEF vars
  <2>2. UnderWay' = UnderWay /\ Busy' = Busy
    BY <2>1 DEF UnderWay, Busy, At
  <2>3. \A e \in Envs : Orderly(e) => Orderly(e)'
    BY <2>1, SameStoreKeeps
  <2>4. ASSUME NEW q \in UnderWay, Midway(q) PROVE Midway(q)'
    BY <2>1, <2>4, SameStoreMidway
  <2> QED
    BY <2>1, <2>2, <2>3, <2>4 DEF TidyInv
<1>3. ASSUME NEW r \in Requests, Begins(r), tidy' PROVE TidyInv'
  <2>1. /\ r \notin Busy /\ Busy' = Busy \cup {r} /\ tidy /\ Busy = {}
        /\ req'[r].alone
    BY <1>1, <1>3, BeginsAlone
  <2>2. \A e \in Envs : Orderly(e)
    BY <2>1 DEF TidyInv
  <2>3. UnderWay' = {req'[r]}
    BY <2>1 DEF UnderWay
  <2>4. \A q \in UnderWay' : Midway(q)'
    BY <1>1, <1>3, <2>2, <2>3, BeginMidway
  <2> QED
    BY <2>1, <2>3, <2>4 DEF TidyInv
<1>4. ASSUME NEW r \in Requests, Continues(r), tidy' PROVE TidyInv'
  <2>1. /\ r \in Busy /\ tidy
        /\ \A q \in Busy' \ {r} : q \in Busy
        /\ r \in Busy' => req'[r].alone = req[r].alone
        /\ req'[r] = Idle \/ r \in Busy'
    BY <1>1, <1>4, ContinuesAlone
  <2>2. PICK q : q = req[r]
    OBVIOUS
  <2>3. PICK p : p = req'[r]
    OBVIOUS
  <2>4. q.alone /\ Midway(q)
    BY <2>1, <2>2 DEF TidyInv, UnderWay
  <2>5. Busy = {r}
    BY <1>1, <2>1, <2>2, <2>4 DEF AloneOK
  <2>6. q.kind = "primary" => LoneChoice(q)
    BY <2>1, <2>2, <2>4 DEF LoneInv
  <2>7. (p = Idle => \A e \in Envs : Orderly(e)') /\ (p # Idle => Midway(p)')
    BY <1>1, <1>4, <2>1, <2>2, <2>3, <2>4, <2>6, ContinuesMidway
  <2>8. CASE p = Idle
    <3>1. Busy' = {}
      <4>1. Busy' \subseteq {r}
        BY <2>1, <2>5
      <4>2. r \notin Busy'
        <5>1. req'[r].pc = "idle"
          BY <2>3, <2>8 DEF Idle
        <5> QED
          BY <5>1 DEF Busy, At
      <4> QED
        BY <4>1, <4>2
    <3>2. UnderWay' = {}
      BY <3>1 DEF UnderWay
    <3> QED
      BY <2>7, <2>8, <3>1, <3>2 DEF TidyInv
  <2>9. CASE p # Idle
    <3>1. Busy' = {r}
      BY <2>1, <2>3, <2>5, <2>9
    <3>2. UnderWay' = {p} /\ p.alone
      BY <2>1, <2>2, <2>3, <2>4, <3>1 DEF UnderWay
    <3>3. Midway(p)'
      BY <2>7, <2>9
    <3> QED
      BY <3>1, <3>2, <3>3 DEF TidyInv
  <2> QED
    BY <2>8, <2>9
<1>5. Next => \E r \in Requests : Begins(r) \/ Continues(r)
  BY DEF Next, Begins, Continues
<1>6. ~tidy' => TidyInv'
  BY DEF TidyInv
<1> QED
  BY <1>2, <1>3, <1>4, <1>5, <1>6

LEMMA TidyInit == Init => TidyInv
<1> SUFFICES ASSUME Init PROVE TidyInv
  OBVIOUS
<1>1. Busy = {}
  BY DEF Init, Busy, At, Idle
<1>2. UnderWay = {} /\ (tidy => \A e \in Envs : Orderly(e))
  BY <1>1 DEF Init, UnderWay
<1> QED
  BY <1>1, <1>2 DEF TidyInv

\* Requests that come one after the other keep every environment in order: a creation or an
\* activation finds a place below the primary integration, a deactivation and a removal leave the
\* others with a priority each, and what is primary stays active and free of conditions.
THEOREM TidyStaysOrdered == Spec => []TidyIsOrdered
<1>1. Init => HeldInv /\ LoneInv /\ TidyInv
  BY HeldInit, LoneInit, TidyInit
<1>2. (HeldInv /\ LoneInv /\ TidyInv) /\ [Next]_vars => (HeldInv /\ LoneInv /\ TidyInv)'
  BY HeldStep, LoneStep, TidyStep
<1>3. HeldInv /\ LoneInv /\ TidyInv => TidyIsOrdered
  BY DEF TidyInv, TidyIsOrdered
<1> QED
  BY <1>1, <1>2, <1>3, PTL DEF Spec
=============================================================================
