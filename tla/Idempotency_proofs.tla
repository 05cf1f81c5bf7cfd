------------------------- MODULE Idempotency_proofs -------------------------
(***************************************************************************)
(* Proofs about the idempotency of requests.  OncePerMark is inductive     *)
(* once the free key is counted as well: a key without an entry has an     *)
(* expiry to its credit.  That the answers agree needs to know that an     *)
(* execution ends once, which follows from the numbers of the executions.  *)
(***************************************************************************)
EXTENDS Idempotency, TLAPS

Credit ==
    \A k \in Keys : /\ started[k] <= 1 + expiries[k]
                    /\ cache[k] = {} => started[k] <= expiries[k]

\* Every answer that is stored, on its way, or given is that of an execution that ended.
EntriesAreTrue ==
    \A k \in Keys : \A e \in cache[k] : e.status \in Outcomes =>
        [key |-> k, run |-> e.run, body |-> e.body, outcome |-> e.status] \in ended

WritesAreTrue == writes \subseteq ended

StoringIsTrue ==
    \A r \in Requests : At(r, "storing") => Execution(r, "success") \in ended

TrueInv ==
    /\ TypeOK
    /\ EntriesAreTrue
    /\ WritesAreTrue
    /\ StoringIsTrue
    /\ AnswerIsItsOwn
    /\ RefusalIsJust

\* A running execution has its own number, and has not ended.
RunningIsOpen ==
    \A r \in Requests : At(r, "running") =>
        /\ reqs[r].run \in 1 .. started[KeyOf[r]]
        /\ \A e \in ended : ~(e.key = KeyOf[r] /\ e.run = reqs[r].run)
        /\ \A s \in Requests : At(s, "running") /\ KeyOf[s] = KeyOf[r] /\ reqs[s].run = reqs[r].run
                                  => s = r

EndedOnce ==
    /\ \A e \in ended : e.run \in 1 .. started[e.key]
    /\ \A e, f \in ended : e.key = f.key /\ e.run = f.run => e = f

RunInv == TypeOK /\ RunningIsOpen /\ EndedOnce

-----------------------------------------------------------------------------
LEMMA Typing == Spec => []TypeOK
<1>1. Init => TypeOK
  BY DEF Init, TypeOK, Answers
<1>2. TypeOK /\ [Next]_vars => TypeOK'
  <2> SUFFICES ASSUME TypeOK, [Next]_vars PROVE TypeOK'
    OBVIOUS
  <2> USE RequestAssumption DEF TypeOK
  <2>1. ASSUME NEW r \in Requests, First(r) PROVE TypeOK'
    BY <2>1 DEF First, Put, Mark, Is, Entries, Answers
  <2>2. ASSUME NEW r \in Requests, Duplicate(r) PROVE TypeOK'
    BY <2>2 DEF Duplicate, Is, Answers
  <2>3. ASSUME NEW r \in Requests, MarkFails(r) PROVE TypeOK'
    <3>1. Mark(r, 0) \in Entries
      BY DEF Mark, Entries
    <3> QED
      BY <2>3, <3>1 DEF MarkFails, Put, Is, Answers
  <2>4. ASSUME NEW r \in Requests, Replay(r) PROVE TypeOK'
    <3>1. PICK e \in cache[KeyOf[r]] : Is(r, "done", Reply(BodyOf[r], e), e.run)
      BY <2>4 DEF Replay
    <3>2. e \in Entries
      BY <3>1
    <3>3. Reply(BodyOf[r], e) \in Answers /\ e.run \in Nat
      BY <3>2 DEF Reply, Entries, Answers, Outcomes
    <3> QED
      BY <2>4, <3>1, <3>3 DEF Replay, Is
  <2>5. ASSUME NEW r \in Requests, Unavailable(r) PROVE TypeOK'
    BY <2>5 DEF Unavailable, Is, Answers
  <2>6. ASSUME NEW r \in Requests, HandlerReturns(r) PROVE TypeOK'
    BY <2>6 DEF HandlerReturns, Is, Execution, Executions, Answers, Outcomes
  <2>7. ASSUME NEW r \in Requests, StoreAnswer(r) PROVE TypeOK'
    BY <2>7 DEF StoreAnswer, Is, Put, Stored, Entries, Answers, Outcomes
  <2>8. ASSUME NEW r \in Requests, HandlerThrows(r) PROVE TypeOK'
    BY <2>8 DEF HandlerThrows, Is, Execution, Executions, Answers, Outcomes
  <2>9. ASSUME NEW r \in Requests, Crash(r) PROVE TypeOK'
    BY <2>9 DEF Crash, Is, Answers
  <2>10. ASSUME NEW w \in writes, StoreError(w) PROVE TypeOK'
    <3>1. [status |-> w.outcome, body |-> w.body, run |-> w.run] \in Entries /\ w.key \in Keys
      BY DEF Executions, Entries
    <3> QED
      BY <2>10, <3>1 DEF StoreError, KeepError, Put
  <2>11. ASSUME NEW k \in Keys, Expire(k) PROVE TypeOK'
    BY <2>11 DEF Expire, Disappears
  <2>12. CASE UNCHANGED vars
    BY <2>12 DEF vars
  <2> QED
    BY <2>1, <2>2, <2>3, <2>4, <2>5, <2>6, <2>7, <2>8, <2>9, <2>10, <2>11, <2>12 DEF Next, Serve
<1> QED
  BY <1>1, <1>2, PTL DEF Spec

\* The types hold for every number of requests, keys and bodies, and for any bounds.
THEOREM TypeCorrect == Spec => []TypeOK
BY Typing

-----------------------------------------------------------------------------
\* The handler is never run more often than the key was free.
THEOREM RunsOncePerMark == Spec => []OncePerMark
<1>1. Init => Credit
  BY DEF Init, Credit
<1>2. TypeOK /\ Credit /\ [Next]_vars => Credit'
  <2> SUFFICES ASSUME TypeOK, Credit, [Next]_vars PROVE Credit'
    OBVIOUS
  <2> USE RequestAssumption DEF TypeOK, Credit
  <2>1. ASSUME NEW r \in Requests, First(r) PROVE Credit'
    <3> DEFINE n == KeyOf[r]
    <3>1. n \in Keys /\ started[n] <= expiries[n]
      BY <2>1 DEF First, IsNewReq
    <3>2. cache'[n] # {} /\ started'[n] = started[n] + 1 /\ expiries'[n] = expiries[n]
      BY <2>1, <3>1 DEF First, Put
    <3>3. \A k \in Keys \ {n} : cache'[k] = cache[k] /\ started'[k] = started[k] /\ expiries'[k] = expiries[k]
      BY <2>1 DEF First, Put
    <3> QED
      BY <3>1, <3>2, <3>3
  <2>2. ASSUME NEW k \in Keys, NEW e, Put(k, e) \/ UNCHANGED cache, UNCHANGED <<started, expiries>>
        PROVE  Credit'
    <3>1. \A j \in Keys : cache'[j] = {} => cache[j] = {}
      <4>1. CASE Put(k, e)
        <5>1. cache'[k] = {e}
          BY <4>1 DEF Put
        <5> QED
          BY <4>1, <5>1 DEF Put
      <4> QED
        BY <2>2, <4>1
    <3> QED
      BY <2>2, <3>1
  <2>3. ASSUME NEW r \in Requests, MarkFails(r) \/ StoreAnswer(r) PROVE Credit'
    BY <2>2, <2>3 DEF MarkFails, StoreAnswer
  <2>4. ASSUME NEW w \in writes, StoreError(w) PROVE Credit'
    <3>1. w.key \in Keys
      BY DEF Executions
    <3> QED
      BY <2>2, <2>4, <3>1 DEF StoreError, KeepError
  <2>5. ASSUME NEW k \in Keys, Expire(k) PROVE Credit'
    <3> SUFFICES ASSUME NEW j \in Keys
                 PROVE  started[j] <= expiries'[j]  \/  (cache'[j] = cache[j] /\ expiries'[j] = expiries[j])
      BY <2>5 DEF Expire
    <3> QED
      BY <2>5 DEF Expire, Disappears
  <2>6. ASSUME NEW r \in Requests,
               Duplicate(r) \/ Replay(r) \/ Unavailable(r) \/ HandlerReturns(r) \/ HandlerThrows(r)
                 \/ Crash(r)
        PROVE  Credit'
    BY <2>6 DEF Duplicate, Replay, Unavailable, HandlerReturns, HandlerThrows, Crash
  <2>7. CASE UNCHANGED vars
    BY <2>7 DEF vars
  <2> QED
    BY <2>1, <2>2, <2>3, <2>4, <2>5, <2>6, <2>7 DEF Next, Serve
<1>3. Credit => OncePerMark
  BY DEF Credit, OncePerMark
<1> QED
  BY <1>1, <1>2, <1>3, Typing, PTL DEF Spec

-----------------------------------------------------------------------------
\* An entry that is put for a key is the only one that changes.
LEMMA PutEntry ==
    ASSUME TypeOK, NEW k \in Keys, NEW e, Put(k, e)
    PROVE  \A j \in Keys : cache'[j] = IF j = k THEN {e} ELSE cache[j]
BY DEF TypeOK, Put

LEMMA ReqChange ==
    ASSUME TypeOK, NEW r \in Requests, NEW pc, NEW a, NEW n, Is(r, pc, a, n)
    PROVE  \A s \in Requests : reqs'[s] = IF s = r THEN [pc |-> pc, answer |-> a, run |-> n]
                                                  ELSE reqs[s]
BY DEF TypeOK, Is

\* What the requests are told stays true when one request is told something true.
LEMMA AnswerStep ==
    ASSUME TrueInv, NEW r \in Requests, NEW pc, NEW a, NEW n, Is(r, pc, a, n),
           ended \subseteq ended',
           a \in Outcomes =>
             [key |-> KeyOf[r], run |-> n, body |-> BodyOf[r], outcome |-> a] \in ended',
           a = "unprocessable" => \E e \in ended : e.key = KeyOf[r] /\ e.body # BodyOf[r],
           pc = "storing" =>
             [key |-> KeyOf[r], run |-> n, body |-> BodyOf[r], outcome |-> "success"] \in ended'
    PROVE  StoringIsTrue' /\ AnswerIsItsOwn' /\ RefusalIsJust'
<1>1. \A s \in Requests : reqs'[s] = IF s = r THEN [pc |-> pc, answer |-> a, run |-> n]
                                             ELSE reqs[s]
  BY ReqChange DEF TrueInv
<1>2. StoringIsTrue'
  <2> SUFFICES ASSUME NEW s \in Requests, At(s, "storing")' PROVE Execution(s, "success")' \in ended'
    BY DEF StoringIsTrue
  <2>1. CASE s = r
    BY <1>1, <2>1 DEF At, Execution
  <2>2. CASE s # r
    BY <1>1, <2>2 DEF At, Execution, TrueInv, StoringIsTrue
  <2> QED
    BY <2>1, <2>2
<1>3. AnswerIsItsOwn'
  <2> SUFFICES ASSUME NEW s \in Requests, reqs'[s].answer \in Outcomes
               PROVE  [key |-> KeyOf[s], run |-> reqs'[s].run, body |-> BodyOf[s],
                       outcome |-> reqs'[s].answer] \in ended'
    BY DEF AnswerIsItsOwn
  <2>1. CASE s = r
    BY <1>1, <2>1
  <2>2. CASE s # r
    BY <1>1, <2>2 DEF TrueInv, AnswerIsItsOwn
  <2> QED
    BY <2>1, <2>2
<1>4. RefusalIsJust'
  <2> SUFFICES ASSUME NEW s \in Requests, reqs'[s].answer = "unprocessable"
               PROVE  \E e \in ended' : e.key = KeyOf[s] /\ e.body # BodyOf[s]
    BY DEF RefusalIsJust
  <2>1. CASE s = r
    BY <1>1, <2>1
  <2>2. CASE s # r
    BY <1>1, <2>2 DEF TrueInv, RefusalIsJust
  <2> QED
    BY <2>1, <2>2
<1> QED
  BY <1>2, <1>3, <1>4

\* The entries stay true when one is put that is a mark or true itself.
LEMMA EntryStep ==
    ASSUME TypeOK, EntriesAreTrue, NEW k \in Keys, NEW e, Put(k, e), ended \subseteq ended',
           e.status \in Outcomes =>
             [key |-> k, run |-> e.run, body |-> e.body, outcome |-> e.status] \in ended'
    PROVE  EntriesAreTrue'
<1> SUFFICES ASSUME NEW j \in Keys, NEW f \in cache'[j], f.status \in Outcomes
             PROVE  [key |-> j, run |-> f.run, body |-> f.body, outcome |-> f.status] \in ended'
  BY DEF EntriesAreTrue
<1>1. cache'[j] = IF j = k THEN {e} ELSE cache[j]
  BY PutEntry
<1>2. CASE j = k
  <2>1. f = e
    BY <1>1, <1>2
  <2> QED
    BY <1>2, <2>1
<1>3. CASE j # k
  BY <1>1, <1>3 DEF EntriesAreTrue
<1> QED
  BY <1>2, <1>3

LEMMA Truth == Spec => []TrueInv
<1>1. Init => TrueInv
  <2> SUFFICES ASSUME Init PROVE TrueInv
    OBVIOUS
  <2>1. TypeOK
    BY DEF Init, TypeOK, Answers
  <2> QED
    BY <2>1 DEF Init, TrueInv, EntriesAreTrue, WritesAreTrue, StoringIsTrue, AnswerIsItsOwn,
        RefusalIsJust, At, Outcomes
<1>2. TrueInv /\ TypeOK' /\ [Next]_vars => TrueInv'
  <2> SUFFICES ASSUME TrueInv, TypeOK', [Next]_vars PROVE TrueInv'
    OBVIOUS
  <2> USE RequestAssumption
  <2>0. TypeOK
    BY DEF TrueInv
  <2>1. ASSUME NEW r \in Requests, First(r) PROVE TrueInv'
    <3>1. "none" \notin Outcomes /\ "in-progress" \notin Outcomes
      BY DEF Outcomes
    <3>2. StoringIsTrue' /\ AnswerIsItsOwn' /\ RefusalIsJust'
      <4>1. PICK n : Is(r, "running", "none", n)
        BY <2>1 DEF First
      <4> QED
        BY <2>1, <3>1, <4>1, AnswerStep DEF First
    <3>3. EntriesAreTrue'
      BY <2>0, <2>1, <3>1, EntryStep DEF First, TrueInv, Mark
    <3> QED
      BY <2>1, <3>2, <3>3 DEF First, TrueInv, WritesAreTrue
  <2>2. ASSUME NEW r \in Requests, Duplicate(r) PROVE TrueInv'
    <3>1. StoringIsTrue' /\ AnswerIsItsOwn' /\ RefusalIsJust'
      BY <2>2, AnswerStep DEF Duplicate, Outcomes
    <3> QED
      BY <2>2, <3>1 DEF Duplicate, TrueInv, WritesAreTrue, EntriesAreTrue
  <2>3. ASSUME NEW r \in Requests, MarkFails(r) PROVE TrueInv'
    <3>1. StoringIsTrue' /\ AnswerIsItsOwn' /\ RefusalIsJust'
      BY <2>3, AnswerStep DEF MarkFails, Outcomes
    <3>2. CASE Put(KeyOf[r], Mark(r, 0))
      <4>1. EntriesAreTrue'
        BY <2>0, <2>3, <3>2, EntryStep DEF MarkFails, TrueInv, Mark, Outcomes
      <4> QED
        BY <2>3, <3>1, <4>1 DEF MarkFails, TrueInv, WritesAreTrue
    <3>3. CASE UNCHANGED cache
      BY <2>3, <3>1, <3>3 DEF MarkFails, TrueInv, WritesAreTrue, EntriesAreTrue
    <3> QED
      BY <2>3, <3>2, <3>3 DEF MarkFails
  <2>4. ASSUME NEW r \in Requests, Replay(r) PROVE TrueInv'
    <3>1. PICK e \in cache[KeyOf[r]] : Is(r, "done", Reply(BodyOf[r], e), e.run)
      BY <2>4 DEF Replay
    <3>2. e \in Entries /\ KeyOf[r] \in Keys
      BY <2>0, <3>1 DEF TypeOK
    <3>3. e.status \in Outcomes =>
            [key |-> KeyOf[r], run |-> e.run, body |-> e.body, outcome |-> e.status] \in ended
      BY <3>1, <3>2 DEF TrueInv, EntriesAreTrue
    <3>4. Reply(BodyOf[r], e) \in Outcomes =>
            [key |-> KeyOf[r], run |-> e.run, body |-> BodyOf[r], outcome |-> Reply(BodyOf[r], e)]
              \in ended
      BY <3>2, <3>3 DEF Reply, Entries, Outcomes
    <3>5. Reply(BodyOf[r], e) = "unprocessable" =>
            \E x \in ended : x.key = KeyOf[r] /\ x.body # BodyOf[r]
      BY <3>2, <3>3 DEF Reply, Entries, Outcomes
    <3>6. StoringIsTrue' /\ AnswerIsItsOwn' /\ RefusalIsJust'
      <4> DEFINE a == Reply(BodyOf[r], e)
      <4>1. ended' = ended
        BY <2>4 DEF Replay
      <4> HIDE DEF a
      <4>2. Is(r, "done", a, e.run)
        BY <3>1 DEF a
      <4>3. a \in Outcomes => [key |-> KeyOf[r], run |-> e.run, body |-> BodyOf[r], outcome |-> a] \in ended
        BY <3>4 DEF a
      <4>4. a = "unprocessable" => \E x \in ended : x.key = KeyOf[r] /\ x.body # BodyOf[r]
        BY <3>5 DEF a
      <4> QED
        BY <4>1, <4>2, <4>3, <4>4, AnswerStep
    <3> QED
      BY <2>4, <3>6 DEF Replay, TrueInv, WritesAreTrue, EntriesAreTrue
  <2>5. ASSUME NEW r \in Requests, Unavailable(r) PROVE TrueInv'
    <3>1. StoringIsTrue' /\ AnswerIsItsOwn' /\ RefusalIsJust'
      BY <2>5, AnswerStep DEF Unavailable, Outcomes
    <3> QED
      BY <2>5, <3>1 DEF Unavailable, TrueInv, WritesAreTrue, EntriesAreTrue
  <2>6. ASSUME NEW r \in Requests, HandlerReturns(r) PROVE TrueInv'
    <3>1. StoringIsTrue' /\ AnswerIsItsOwn' /\ RefusalIsJust'
      <4> DEFINE n == reqs[r].run
      <4>1. Is(r, "storing", "none", n) /\ ended \subseteq ended'
        BY <2>6 DEF HandlerReturns
      <4>2. [key |-> KeyOf[r], run |-> n, body |-> BodyOf[r], outcome |-> "success"] \in ended'
        BY <2>6 DEF HandlerReturns, Execution
      <4>3. "none" \notin Outcomes
        BY DEF Outcomes
      <4> HIDE DEF n
      <4> QED
        BY <4>1, <4>2, <4>3, AnswerStep
    <3> QED
      BY <2>6, <3>1 DEF HandlerReturns, TrueInv, WritesAreTrue, EntriesAreTrue
  <2>7. ASSUME NEW r \in Requests, StoreAnswer(r) PROVE TrueInv'
    <3>1. [key |-> KeyOf[r], run |-> reqs[r].run, body |-> BodyOf[r], outcome |-> "success"] \in ended
      BY <2>7 DEF StoreAnswer, TrueInv, StoringIsTrue, Execution
    <3>2. StoringIsTrue' /\ AnswerIsItsOwn' /\ RefusalIsJust'
      BY <2>7, <3>1, AnswerStep DEF StoreAnswer
    <3>3. CASE Put(KeyOf[r], Stored(r, "success"))
      <4>1. EntriesAreTrue'
        BY <2>0, <2>7, <3>1, <3>3, EntryStep DEF StoreAnswer, TrueInv, Stored
      <4> QED
        BY <2>7, <3>2, <4>1 DEF StoreAnswer, TrueInv, WritesAreTrue
    <3>4. CASE UNCHANGED cache
      BY <2>7, <3>2, <3>4 DEF StoreAnswer, TrueInv, WritesAreTrue, EntriesAreTrue
    <3> QED
      BY <2>7, <3>3, <3>4 DEF StoreAnswer
  <2>8. ASSUME NEW r \in Requests, HandlerThrows(r) PROVE TrueInv'
    <3>1. StoringIsTrue' /\ AnswerIsItsOwn' /\ RefusalIsJust'
      <4> DEFINE n == reqs[r].run
      <4>1. Is(r, "done", "error", n) /\ ended \subseteq ended'
        BY <2>8 DEF HandlerThrows
      <4>2. [key |-> KeyOf[r], run |-> n, body |-> BodyOf[r], outcome |-> "error"] \in ended'
        BY <2>8 DEF HandlerThrows, Execution
      <4> HIDE DEF n
      <4> QED
        BY <4>1, <4>2, AnswerStep
    <3> QED
      BY <2>8, <3>1 DEF HandlerThrows, TrueInv, WritesAreTrue, EntriesAreTrue
  <2>9. ASSUME NEW r \in Requests, Crash(r) PROVE TrueInv'
    <3>1. StoringIsTrue' /\ AnswerIsItsOwn' /\ RefusalIsJust'
      BY <2>9, AnswerStep DEF Crash, Outcomes
    <3> QED
      BY <2>9, <3>1 DEF Crash, TrueInv, WritesAreTrue, EntriesAreTrue
  <2>10. ASSUME NEW w \in writes, StoreError(w) PROVE TrueInv'
    <3>1. w \in ended /\ w \in Executions /\ w.key \in Keys
      BY <2>0 DEF TrueInv, WritesAreTrue, TypeOK, Executions
    <3>2. [key |-> w.key, run |-> w.run, body |-> w.body, outcome |-> w.outcome] = w
      BY <3>1 DEF Executions
    <3>3. StoringIsTrue' /\ AnswerIsItsOwn' /\ RefusalIsJust'
      BY <2>10 DEF StoreError, TrueInv, StoringIsTrue, AnswerIsItsOwn, RefusalIsJust, At, Execution
    <3>4. CASE KeepError(w)
      <4>1. EntriesAreTrue'
        BY <2>0, <2>10, <3>1, <3>2, <3>4, EntryStep DEF StoreError, KeepError, TrueInv
      <4> QED
        BY <2>10, <3>3, <4>1 DEF StoreError, TrueInv, WritesAreTrue
    <3>5. CASE UNCHANGED cache
      BY <2>10, <3>3, <3>5 DEF StoreError, TrueInv, WritesAreTrue, EntriesAreTrue
    <3> QED
      BY <2>10, <3>4, <3>5 DEF StoreError
  <2>11. ASSUME NEW k \in Keys, Expire(k) PROVE TrueInv'
    <3>1. \A j \in Keys : cache'[j] \subseteq cache[j]
      BY <2>0, <2>11 DEF Expire, Disappears, TypeOK
    <3>2. EntriesAreTrue'
      BY <2>11, <3>1 DEF Expire, TrueInv, EntriesAreTrue
    <3> QED
      BY <2>11, <3>2 DEF Expire, TrueInv, WritesAreTrue, StoringIsTrue, AnswerIsItsOwn,
          RefusalIsJust, At, Execution
  <2>12. CASE UNCHANGED vars
    BY <2>12 DEF vars, TrueInv, TypeOK, EntriesAreTrue, WritesAreTrue, StoringIsTrue,
        AnswerIsItsOwn, RefusalIsJust, At, Execution
  <2> QED
    BY <2>1, <2>2, <2>3, <2>4, <2>5, <2>6, <2>7, <2>8, <2>9, <2>10, <2>11, <2>12 DEF Next, Serve
<1> QED
  BY <1>1, <1>2, Typing, PTL DEF Spec

\* Every answer of a handler is the answer to the key and the body of the request.
THEOREM AnswersAreTrue == Spec => []AnswerIsItsOwn
<1>1. TrueInv => AnswerIsItsOwn
  BY DEF TrueInv
<1> QED
  BY <1>1, Truth, PTL

\* A 422 always has an answer to another body behind it.
THEOREM RefusalsAreJust == Spec => []RefusalIsJust
<1>1. TrueInv => RefusalIsJust
  BY DEF TrueInv
<1> QED
  BY <1>1, Truth, PTL

-----------------------------------------------------------------------------
\* A request that goes elsewhere is not running, and the others stay as they are.
LEMMA OtherRequests ==
    ASSUME TypeOK, NEW r \in Requests, NEW pc, pc # "running", NEW a, NEW n, Is(r, pc, a, n)
    PROVE  \A s \in Requests : At(s, "running")' => s # r /\ reqs'[s] = reqs[s]
<1>1. \A s \in Requests : reqs'[s] = IF s = r THEN [pc |-> pc, answer |-> a, run |-> n]
                                             ELSE reqs[s]
  BY ReqChange
<1>2. reqs'[r].pc = pc
  BY <1>1
<1> QED
  BY <1>1, <1>2 DEF At

\* Nothing is said of the runs by a step that neither starts nor ends one.
LEMMA NoRunStep ==
    ASSUME RunInv, TypeOK', UNCHANGED <<started, ended>>,
           \A s \in Requests : At(s, "running")' => reqs'[s] = reqs[s]
    PROVE  RunInv'
<1>1. RunningIsOpen'
  BY DEF RunInv, RunningIsOpen, At
<1> QED
  BY <1>1 DEF RunInv, EndedOnce

\* An execution that ends is open until then, and so ends once.
LEMMA EndStep ==
    ASSUME RunInv, TypeOK', NEW r \in Requests, At(r, "running"), NEW o \in Outcomes,
           NEW pc \in {"storing", "done"}, NEW a, NEW n, Is(r, pc, a, n),
           ended' = ended \cup {Execution(r, o)}, UNCHANGED started
    PROVE  RunInv'
<1> USE RequestAssumption
<1> DEFINE x == Execution(r, o)
<1>0. TypeOK
  BY DEF RunInv
<1>1. x.key = KeyOf[r] /\ x.run = reqs[r].run
  BY DEF Execution
<1>2. x.run \in 1 .. started[x.key] /\ \A e \in ended : ~(e.key = x.key /\ e.run = x.run)
  BY <1>1 DEF RunInv, RunningIsOpen
<1>3. \A s \in Requests : At(s, "running")' => s # r /\ reqs'[s] = reqs[s]
  BY <1>0, OtherRequests
<1> HIDE DEF x
<1>4. EndedOnce'
  BY <1>2 DEF RunInv, EndedOnce, x
<1>5. RunningIsOpen'
  <2> SUFFICES ASSUME NEW s \in Requests, At(s, "running")'
               PROVE  /\ reqs'[s].run \in 1 .. started'[KeyOf[s]]
                      /\ \A e \in ended' : ~(e.key = KeyOf[s] /\ e.run = reqs'[s].run)
                      /\ \A t \in Requests : At(t, "running")' /\ KeyOf[t] = KeyOf[s]
                                               /\ reqs'[t].run = reqs'[s].run => t = s
    BY DEF RunningIsOpen
  <2>1. s # r /\ reqs'[s] = reqs[s] /\ At(s, "running")
    BY <1>3 DEF At
  <2>2. ~(x.key = KeyOf[s] /\ x.run = reqs[s].run)
    BY <1>1, <2>1 DEF RunInv, RunningIsOpen
  <2>3. \A e \in ended' : ~(e.key = KeyOf[s] /\ e.run = reqs'[s].run)
    BY <2>1, <2>2 DEF RunInv, RunningIsOpen, x
  <2>4. \A t \in Requests : At(t, "running")' => At(t, "running") /\ reqs'[t] = reqs[t]
    BY <1>3 DEF At
  <2> QED
    BY <2>1, <2>3, <2>4 DEF RunInv, RunningIsOpen
<1> QED
  BY <1>4, <1>5 DEF RunInv

\* A new execution gets a number that nobody has.
LEMMA StartStep ==
    ASSUME RunInv, TypeOK', NEW r \in Requests, First(r)
    PROVE  RunInv'
<1> USE RequestAssumption
<1> DEFINE n == started[KeyOf[r]] + 1
<1>0. TypeOK /\ started \in [Keys -> Nat] /\ KeyOf[r] \in Keys
  BY DEF RunInv, TypeOK
<1>1. reqs'[r].run = n /\ \A s \in Requests \ {r} : reqs'[s] = reqs[s]
  BY <1>0 DEF First, Is, TypeOK
<1>2. ended' = ended /\ started'[KeyOf[r]] = n
      /\ \A k \in Keys \ {KeyOf[r]} : started'[k] = started[k]
  BY <1>0 DEF First
<1>3. \A k \in Keys : started[k] \in Nat /\ started'[k] \in Nat /\ started[k] <= started'[k]
  BY <1>0, <1>2
<1>4. EndedOnce'
  <2>1. \A e \in ended : e.key \in Keys /\ e.run \in Nat
    BY <1>0 DEF TypeOK, Executions
  <2> QED
    BY <1>2, <1>3, <2>1 DEF RunInv, EndedOnce
<1>5. RunningIsOpen'
  <2> SUFFICES ASSUME NEW s \in Requests, At(s, "running")'
               PROVE  /\ reqs'[s].run \in 1 .. started'[KeyOf[s]]
                      /\ \A e \in ended : ~(e.key = KeyOf[s] /\ e.run = reqs'[s].run)
                      /\ \A t \in Requests : At(t, "running")' /\ KeyOf[t] = KeyOf[s]
                                               /\ reqs'[t].run = reqs'[s].run => t = s
    BY <1>2 DEF RunningIsOpen
  <2>1. \A t \in Requests \ {r} : At(t, "running")' =>
           At(t, "running") /\ reqs'[t].run \in 1 .. started[KeyOf[t]]
    BY <1>1 DEF RunInv, RunningIsOpen, At
  <2>2. \A t \in Requests \ {r} : At(t, "running")' /\ KeyOf[t] = KeyOf[r] => reqs'[t].run # n
    BY <1>3, <2>1
  <2>3. KeyOf[s] \in Keys
    OBVIOUS
  <2>4. CASE s = r
    <3>1. \A e \in ended : ~(e.key = KeyOf[r] /\ e.run = n)
      BY <1>3 DEF RunInv, EndedOnce
    <3>2. n \in 1 .. n
      BY <1>3, <2>3
    <3> QED
      BY <1>1, <1>2, <2>2, <2>4, <3>1, <3>2
  <2>5. CASE s # r
    <3>1. reqs'[s].run \in 1 .. started'[KeyOf[s]]
      BY <1>3, <2>1, <2>3, <2>5
    <3>2. \A e \in ended : ~(e.key = KeyOf[s] /\ e.run = reqs'[s].run)
      BY <1>1, <2>1, <2>5 DEF RunInv, RunningIsOpen
    <3>3. \A t \in Requests \ {r} : At(t, "running")' /\ KeyOf[t] = KeyOf[s]
                                     /\ reqs'[t].run = reqs'[s].run => t = s
      BY <1>1, <2>1, <2>5 DEF RunInv, RunningIsOpen
    <3> QED
      BY <1>1, <2>2, <2>5, <3>1, <3>2, <3>3
  <2> QED
    BY <2>4, <2>5
<1> QED
  BY <1>4, <1>5 DEF RunInv

LEMMA Runs == Spec => []RunInv
<1>1. Init => RunInv
  BY DEF Init, RunInv, TypeOK, Answers, RunningIsOpen, EndedOnce, At
<1>2. RunInv /\ TypeOK' /\ [Next]_vars => RunInv'
  <2> SUFFICES ASSUME RunInv, TypeOK', [Next]_vars PROVE RunInv'
    OBVIOUS
  <2>0. TypeOK
    BY DEF RunInv
  <2>1. ASSUME NEW r \in Requests, First(r) PROVE RunInv'
    BY <2>1, StartStep
  <2>2. ASSUME NEW r \in Requests, HandlerReturns(r) PROVE RunInv'
    <3> DEFINE n == reqs[r].run
    <3>1. Is(r, "storing", "none", n) /\ At(r, "running")
      BY <2>2 DEF HandlerReturns
    <3>2. ended' = ended \cup {Execution(r, "success")} /\ UNCHANGED started
      BY <2>2 DEF HandlerReturns
    <3> HIDE DEF n
    <3> QED
      BY <3>1, <3>2, EndStep DEF Outcomes
  <2>3. ASSUME NEW r \in Requests, HandlerThrows(r) PROVE RunInv'
    <3> DEFINE n == reqs[r].run
    <3>1. Is(r, "done", "error", n) /\ At(r, "running")
      BY <2>3 DEF HandlerThrows
    <3>2. ended' = ended \cup {Execution(r, "error")} /\ UNCHANGED started
      BY <2>3 DEF HandlerThrows
    <3> HIDE DEF n
    <3> QED
      BY <3>1, <3>2, EndStep DEF Outcomes
  <2>4. ASSUME NEW r \in Requests, NEW pc \in {"duplicate", "done"}, NEW a, NEW n,
               Is(r, pc, a, n), UNCHANGED <<started, ended>>
        PROVE  RunInv'
    <3>1. \A s \in Requests : At(s, "running")' => reqs'[s] = reqs[s]
      BY <2>0, <2>4, OtherRequests
    <3> QED
      BY <2>4, <3>1, NoRunStep
  <2>5. ASSUME NEW r \in Requests, Duplicate(r) \/ MarkFails(r) \/ Unavailable(r) \/ Crash(r)
        PROVE  RunInv'
    <3>1. \E pc \in {"duplicate", "done"}, a \in {"none", "unavailable"} :
             Is(r, pc, a, 0) /\ UNCHANGED <<started, ended>>
      BY <2>5 DEF Duplicate, MarkFails, Unavailable, Crash
    <3> QED
      BY <2>4, <3>1
  <2>6. ASSUME NEW r \in Requests, Replay(r) PROVE RunInv'
    <3>1. PICK a, n : Is(r, "done", a, n) /\ UNCHANGED <<started, ended>>
      BY <2>6 DEF Replay
    <3> QED
      BY <2>4, <3>1
  <2>7. ASSUME NEW r \in Requests, StoreAnswer(r) PROVE RunInv'
    <3>1. PICK n : Is(r, "done", "success", n) /\ UNCHANGED <<started, ended>>
      BY <2>7 DEF StoreAnswer
    <3> QED
      BY <2>4, <3>1
  <2>8. ASSUME UNCHANGED <<reqs, started, ended>> PROVE RunInv'
    BY <2>8, NoRunStep
  <2> QED
    BY <2>1, <2>2, <2>3, <2>5, <2>6, <2>7, <2>8 DEF Next, Serve, StoreError, Expire, vars
<1> QED
  BY <1>1, <1>2, Typing, PTL DEF Spec

\* As long as the entry of a key has not disappeared, all its answers are one answer.
THEOREM OneAnswer == Spec => []AnswersAgree
<1>1. TypeOK /\ OncePerMark /\ RunInv /\ AnswerIsItsOwn => AnswersAgree
  <2> SUFFICES ASSUME TypeOK, OncePerMark, RunInv, AnswerIsItsOwn,
                      NEW r \in Requests, NEW s \in Requests, KeyOf[r] = KeyOf[s],
                      expiries[KeyOf[r]] = 0,
                      reqs[r].answer \in Outcomes, reqs[s].answer \in Outcomes
               PROVE  reqs[r].answer = reqs[s].answer /\ reqs[r].run = reqs[s].run
    BY DEF AnswersAgree
  <2> DEFINE x(q) == [key |-> KeyOf[q], run |-> reqs[q].run, body |-> BodyOf[q],
                      outcome |-> reqs[q].answer]
  <2>1. x(r) \in ended /\ x(s) \in ended
    BY DEF AnswerIsItsOwn
  <2>2. started[KeyOf[r]] \in Nat /\ started[KeyOf[r]] <= 1
    BY RequestAssumption DEF OncePerMark, TypeOK
  <2>3. x(r).run \in 1 .. started[KeyOf[r]] /\ x(s).run \in 1 .. started[KeyOf[r]]
    BY <2>1 DEF RunInv, EndedOnce
  <2>4. x(r).run = x(s).run /\ x(r).key = x(s).key
    BY <2>2, <2>3
  <2>5. x(r) = x(s)
    BY <2>1, <2>4 DEF RunInv, EndedOnce
  <2> QED
    BY <2>5
<1> QED
  BY <1>1, Typing, RunsOncePerMark, Runs, AnswersAreTrue, PTL
=============================================================================
