---------------------------- MODULE Integrations ----------------------------
(***************************************************************************)
(* The integrations of one organization and of a channel that supports a   *)
(* primary one: their creation, update, removal and choice as primary, and *)
(* the priorities that go with them.  Every request awaits one query after *)
(* the other; requests of the same organization interleave.                *)
(***************************************************************************)
EXTENDS Integers, FiniteSets

CONSTANTS
    Ids,            \* integrations, those that are yet to be created included
    Envs,           \* environments
    Organization,   \* the organization, where an environment is expected
    Requests,       \* requests that may be under way at the same time
    FirstStores,    \* the integrations at first
    MaxRequests     \* bound: requests in a run

\* conditions: whether there are any
Entries == [status : {"none", "present", "deleted"}, env : Envs, active : BOOLEAN,
            primary : BOOLEAN, priority : Nat, conditions : BOOLEAN]

ASSUME IntegrationAssumption ==
    /\ IsFiniteSet(Ids)
    /\ Organization \notin Envs
    /\ FirstStores \subseteq [Ids -> Entries]
    /\ MaxRequests \in Nat

VARIABLES
    store,     \* the integrations
    req,       \* control state of every request
    count,     \* requests so far
    tidy,      \* history: in order at first, and no request overlapped another or moved
               \* an integration
    had,       \* history: environments that had a primary integration
    dropped    \* history: environments in which one may have been given up

vars == <<store, req, count, tidy, had, dropped>>

Present(e) == {i \in Ids : store[i].status = "present" /\ store[i].env = e}

Active(e) == {i \in Present(e) : store[i].active}

Primary(e) == {i \in Active(e) : store[i].primary}

\* The active integrations have different priorities, at most one of them is primary, and
\* that one comes first.
InOrder(e) ==
    /\ \A i, j \in Active(e) : i # j => store[i].priority # store[j].priority
    /\ \A i \in Primary(e), j \in Active(e) : store[j].priority <= store[i].priority
    /\ \A i, j \in Primary(e) : i = j

\* Moreover what is inactive has no priority and is not primary, and what is primary has no
\* conditions.
Orderly(e) ==
    /\ InOrder(e)
    /\ \A i \in Active(e) : store[i].priority > 0
    /\ \A i \in Present(e) : store[i].primary => store[i].active /\ ~store[i].conditions
    /\ \A i \in Present(e) \ Active(e) : store[i].priority = 0

Idle == [kind |-> "none", pc |-> "idle"]

Init ==
    /\ store \in FirstStores
    /\ req = [r \in Requests |-> Idle]
    /\ count = 0
    /\ tidy = (\A e \in Envs : Orderly(e))
    /\ had = {e \in Envs : Primary(e) # {}}
    /\ dropped = {}

-----------------------------------------------------------------------------
NoFields == [f \in {} |-> FALSE]

\* A document with the fields of $set in the place of its own.
On(set, doc) ==
    [f \in DOMAIN set \cup DOMAIN doc |-> IF f \in DOMAIN set THEN set[f] ELSE doc[f]]

At(r, pc) == req[r].pc = pc

Busy == {r \in Requests : ~At(r, "idle")}

Goes(r, pc) == req' = [req EXCEPT ![r].pc = pc]

End(r) == req' = [req EXCEPT ![r] = Idle]

\* Mutant: an empty list of conditions counts as well.
AnyConditions(set) == "conditions" \in DOMAIN set

HaveConditions(set) == "conditions" \in DOMAIN set /\ set.conditions

\* A request has found (or is to create) the integration id in env; set is its $set.
\* Those that are under way are not alone any more.
Begin(r, kind, pc, id, env, set) ==
    /\ At(r, "idle")
    /\ count < MaxRequests
    /\ count' = count + 1
    /\ req' = [q \in Requests |->
          IF q = r THEN [kind |-> kind, pc |-> pc, id |-> id, env |-> env, set |-> set,
                         strip |-> kind = "update" /\ HaveConditions(set) /\ store[id].primary,
                         todo |-> {}, alone |-> Busy = {}]
          ELSE IF q \in Busy THEN [req[q] EXCEPT !.alone = FALSE] ELSE req[q]]
    /\ UNCHANGED <<store, had>>

-----------------------------------------------------------------------------
(* calculatePriorityAndPrimary, recalculatePriorityForAllActive             *)

\* findHighestPriorityIntegration
Highest(e) == {i \in Active(e) : \A j \in Active(e) : store[j].priority <= store[i].priority}

\* Mutant: the primary integration makes no room.
NoRoom(i) == {}

RoomFor(i) == {<<i, store[i].priority + 1>>}

\* The new integration comes on top, or right below the primary one.
CalculatePriority(r) ==
    /\ At(r, "highest")
    /\ \/ /\ Active(req[r].env) = {}
          /\ req' = [req EXCEPT ![r].pc = "write", ![r].set.priority = 1]
       \/ \E i \in Highest(req[r].env) :
             req' = [req EXCEPT ![r] =
                IF store[i].primary
                THEN [@ EXCEPT !.pc = "bump", !.set.priority = store[i].priority,
                               !.todo = RoomFor(i)]
                ELSE [@ EXCEPT !.pc = "write", !.set.priority = store[i].priority + 1]]
    /\ UNCHANGED <<store, count, tidy, had, dropped>>

\* The orders in which the active integrations may be found: by falling priority, behind the
\* one that comes first.  The rank of an integration is its new priority.
Rankings(ids, first) ==
    {rank \in [ids -> 1..Cardinality(ids)] :
        \A i, j \in ids :
            /\ rank[i] = rank[j] => i = j
            /\ i \in first /\ j \notin first => rank[i] > rank[j]
            /\ i \notin first /\ j \notin first /\ store[i].priority > store[j].priority =>
                  rank[i] > rank[j]}

\* All get new priorities, the integration of the request the highest.
FindActive(r) ==
    /\ At(r, "find")
    /\ LET first == IF req[r].kind = "remove" THEN {} ELSE {req[r].id}
           ids   == Active(req[r].env) \cup first
       IN  \E rank \in Rankings(ids, first) :
              req' = [req EXCEPT ![r].pc = "recalculate",
                                 ![r].todo = {<<i, rank[i]>> : i \in ids}]
    /\ UNCHANGED <<store, count, tidy, had, dropped>>

Matches(i, e) == store[i].status = "present" /\ store[i].env = e

\* One update of a priority; they are awaited in any order.
WritePriority(r) ==
    /\ req[r].pc \in {"bump", "recalculate"}
    /\ \E w \in req[r].todo :
          /\ store' = IF Matches(w[1], req[r].env)
                      THEN [store EXCEPT ![w[1]].priority = w[2]] ELSE store
          /\ req' = [req EXCEPT ![r].todo = @ \ {w}]
    /\ UNCHANGED <<count, tidy, had, dropped>>

\* The priorities are written: a deactivation has its own update still to come.
Recalculated(r) ==
    /\ req[r].pc \in {"bump", "recalculate"}
    /\ req[r].todo = {}
    /\ IF At(r, "bump") \/ (req[r].kind = "update" /\ req[r].env \in Envs)
       THEN Goes(r, "write") ELSE End(r)
    /\ UNCHANGED <<store, count, tidy, had, dropped>>

-----------------------------------------------------------------------------
(* CreateIntegration                                                        *)

CreateIntegration(r) ==
    \E i \in Ids, e \in Envs, active \in BOOLEAN, conditions \in BOOLEAN :
        /\ store[i].status = "none" /\ \A q \in Busy : req[q].id # i
        /\ Begin(r, "create", IF active THEN "highest" ELSE "write", i, e,
                 [status |-> "present", env |-> e, active |-> active, primary |-> FALSE,
                  priority |-> 0, conditions |-> conditions])
        /\ tidy' = (tidy /\ Busy = {})
        /\ UNCHANGED dropped

-----------------------------------------------------------------------------
(* UpdateIntegration                                                        *)

\* What may be given: any of active, conditions and the environment.
Payloads ==
    (UNION {[D -> BOOLEAN] : D \in SUBSET {"active", "conditions"}})
        \X ({{}} \cup {{e} : e \in Envs})

\* Mutant: the id of the organization is taken for that of the environment.
MovedAstray(env) == IF env = {} THEN NoFields ELSE [env |-> Organization]

Moved(env) == IF env = {} THEN NoFields ELSE [env |-> CHOOSE e \in env : TRUE]

\* The $set of an update of the integration i.
PayloadOf(i, given, env) ==
    LET changed == "active" \in DOMAIN given /\ given["active"] # store[i].active
        strip   == HaveConditions(given) /\ store[i].primary
        off     == IF changed /\ ~given["active"] THEN [primary |-> FALSE, priority |-> 0] ELSE NoFields
        bare    == IF strip THEN [primary |-> FALSE] ELSE NoFields
        kept    == IF changed THEN [primary |-> store[i].primary, priority |-> 0] ELSE NoFields
    IN  On(given, On(Moved(env), On(off, On(bare, kept))))

\* An activation looks for its priority, a deactivation recalculates those of the others.
UpdateIntegration(r) ==
    \E i \in Ids, p \in Payloads :
        LET given == p[1]
        IN  /\ store[i].status = "present"
            /\ DOMAIN given # {} \/ p[2] # {}
            /\ Begin(r, "update",
                     IF "active" \notin DOMAIN given \/ given["active"] = store[i].active THEN "write"
                     ELSE IF given["active"] THEN "highest" ELSE "find",
                     i, store[i].env, PayloadOf(i, given, p[2]))
            /\ tidy' = (tidy /\ Busy = {} /\ p[2] = {})
            /\ dropped' = IF \/ "active" \in DOMAIN given
                             \/ "conditions" \in DOMAIN given /\ given["conditions"]
                             \/ p[2] # {}
                          THEN dropped \cup {store[i].env} \cup p[2] ELSE dropped

-----------------------------------------------------------------------------
(* SetIntegrationAsPrimary                                                  *)

SetIntegrationAsPrimary(r) ==
    \E i \in Ids :
        /\ store[i].status = "present" /\ ~store[i].primary
        /\ Begin(r, "primary", "unset", i, store[i].env,
                 [active |-> TRUE, primary |-> TRUE, conditions |-> FALSE])
        /\ tidy' = (tidy /\ Busy = {})
        /\ UNCHANGED dropped

\* Mutant: only the first primary integration that is found is unset.
FirstUnset(e) == IF Primary(e) = {} THEN {} ELSE {CHOOSE i \in Primary(e) : TRUE}

Unset(e) == Primary(e)

\* updatePrimaryFlag, first update
UnsetPrimary(r) ==
    /\ At(r, "unset")
    /\ store' = [i \in Ids |-> IF i \in Unset(req[r].env) THEN [store[i] EXCEPT !.primary = FALSE]
                               ELSE store[i]]
    /\ Goes(r, "write")
    /\ UNCHANGED <<count, tidy, had, dropped>>

-----------------------------------------------------------------------------
\* The integration itself is created or updated.  Where conditions took the primary flag
\* away the priorities of an environment with the id of the organization are recalculated.
Write(r) ==
    /\ At(r, "write")
    /\ LET q == req[r]
       IN  /\ store' = IF q.kind = "create" \/ Matches(q.id, q.env)
                       THEN [store EXCEPT ![q.id] = On(q.set, @)] ELSE store
           /\ had' = IF q.kind = "primary" /\ Matches(q.id, q.env) THEN had \cup {q.env} ELSE had
           /\ IF q.kind = "primary" THEN Goes(r, "find")
              ELSE IF q.strip THEN req' = [req EXCEPT ![r].pc = "find", ![r].env = Organization]
              ELSE End(r)
    /\ UNCHANGED <<count, tidy, dropped>>

-----------------------------------------------------------------------------
(* RemoveIntegration                                                        *)

RemoveIntegration(r) ==
    \E i \in Ids :
        /\ store[i].status = "present"
        /\ Begin(r, "remove", "delete", i, store[i].env, NoFields)
        /\ tidy' = (tidy /\ Busy = {})
        /\ dropped' = dropped \cup {store[i].env}

\* Somebody may have been faster.
Delete(r) ==
    /\ At(r, "delete")
    /\ IF store[req[r].id].status = "present"
       THEN /\ store' = [store EXCEPT ![req[r].id].status = "deleted"]
            /\ Goes(r, "find")
       ELSE End(r) /\ UNCHANGED store
    /\ UNCHANGED <<count, tidy, had, dropped>>

Next ==
    \E r \in Requests :
        \/ CreateIntegration(r) \/ UpdateIntegration(r)
        \/ SetIntegrationAsPrimary(r) \/ RemoveIntegration(r)
        \/ CalculatePriority(r) \/ FindActive(r) \/ WritePriority(r) \/ Recalculated(r)
        \/ UnsetPrimary(r) \/ Write(r) \/ Delete(r)

Spec == Init /\ [][Next]_vars

-----------------------------------------------------------------------------
\* Type invariant.
TypeOK ==
    /\ store \in [Ids -> Entries]
    /\ \A r \in Busy :
          /\ req[r].kind \in {"create", "update", "primary", "remove"}
          /\ req[r].pc \in {"highest", "bump", "find", "recalculate", "unset", "write", "delete"}
          /\ req[r].id \in Ids /\ req[r].env \in Envs \cup {Organization}
          /\ On(req[r].set, store[req[r].id]) \in Entries
          /\ req[r].todo \subseteq Ids \X Nat
    /\ count \in 0..MaxRequests
    /\ tidy \in BOOLEAN
    /\ had \subseteq Envs /\ dropped \subseteq Envs

\* Requests that come one after the other keep the integrations in order.
TidyIsOrdered == tidy /\ Busy = {} => \A e \in Envs : Orderly(e)

\* A choice of the primary integration that nothing interferes with puts the environment in
\* order, whatever requests that overlapped before had left behind.
LoneChoiceRepairs ==
    [][\A r \in Requests :
          req[r].pc = "recalculate" /\ req[r].kind = "primary" /\ req[r].alone /\ req'[r] = Idle =>
              InOrder(req[r].env) /\ Primary(req[r].env) = {req[r].id}]_vars

\* An environment with a primary integration does not lose it to creations and choices, even
\* if they all overlap: the two updates of a choice leave it without one, but not for good.
\* (An update that gives active and overlaps the choice of its integration may undo it.)
PrimaryIsNotLost ==
    Busy = {} => \A e \in had \ dropped : Primary(e) # {}
=============================================================================
