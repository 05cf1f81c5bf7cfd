----------------------------- MODULE Idempotency -----------------------------
(***************************************************************************)
(* The idempotency of API requests (apps/api, IdempotencyInterceptor): a   *)
(* mark in Redis, set by the first request with an Idempotency-Key, and in *)
(* its place the answer of the handler, replayed to the requests with the  *)
(* same key and body that come later.                                      *)
(*                                                                         *)
(* The requests are those the interceptor guards: POST and PATCH with an   *)
(* API key and an Idempotency-Key of at most 255 characters, of an         *)
(* organization for which the feature is on.  A client sends its request   *)
(* again as long as it got no answer of a handler.                         *)
(***************************************************************************)
EXTENDS Naturals, FiniteSets

CONSTANTS
    Requests,
    Keys,         \* environment, organization and Idempotency-Key
    Bodies,       \* hashes of the bodies
    KeyOf,        \* the key of a request
    BodyOf,       \* its body
    MaxExpiries,  \* bound: how often an entry that is in use disappears
    MaxFaults     \* bound: crashes of a server and failures of Redis

ASSUME RequestAssumption ==
    /\ KeyOf \in [Requests -> Keys]
    /\ BodyOf \in [Requests -> Bodies]

ASSUME BoundAssumption == MaxExpiries \in Nat /\ MaxFaults \in Nat

VARIABLES
    cache,     \* Redis: for every key a set of at most one entry
    reqs,      \* control state of every request, its answer, and the execution behind it
    writes,    \* error answers on their way to Redis, which nobody awaits
    started,   \* history: how often the handler was run for a key
    ended,     \* history: the executions that came to an end, and how
    expiries,  \* history: how often the entry of a key disappeared
    faults     \* history: crashes and failures so far

vars == <<cache, reqs, writes, started, ended, expiries, faults>>

Outcomes == {"success", "error"}

\* The answers: 503, 409, 422, what a handler answered, or none at all.
Answers == {"none", "unavailable", "conflict", "unprocessable"} \cup Outcomes

\* What is stored for a key; run is the execution, and stands for the data it answered.
Entries == [status : {"in-progress"} \cup Outcomes, body : Bodies, run : Nat]

Executions == [key : Keys, run : Nat, body : Bodies, outcome : Outcomes]

Init ==
    /\ cache = [k \in Keys |-> {}]
    /\ reqs = [r \in Requests |-> [pc |-> "idle", answer |-> "none", run |-> 0]]
    /\ writes = {}
    /\ started = [k \in Keys |-> 0]
    /\ ended = {}
    /\ expiries = [k \in Keys |-> 0]
    /\ faults = 0

-----------------------------------------------------------------------------
Is(r, pc, answer, run) == reqs' = [reqs EXCEPT ![r] = [pc |-> pc, answer |-> answer, run |-> run]]

At(r, pc) == reqs[r].pc = pc

Put(k, entry) == cache' = [cache EXCEPT ![k] = {entry}]

\* An answer after which the client does not ask again.
Settled(r) == reqs[r].answer \in Outcomes \cup {"unprocessable"}

Sends(r) == At(r, "idle") \/ (At(r, "done") /\ ~Settled(r))

\* Mutant: whoever comes is the first.
IsAlwaysNew(k) == cache[k] \subseteq Entries

\* SET NX.
IsNewReq(k) == cache[k] = {}

Mark(r, n) == [status |-> "in-progress", body |-> BodyOf[r], run |-> n]

\* The first request with the key: it marks the key and runs the handler.
First(r) ==
    /\ Sends(r)
    /\ IsNewReq(KeyOf[r])
    /\ Put(KeyOf[r], Mark(r, started[KeyOf[r]] + 1))
    /\ started' = [started EXCEPT ![KeyOf[r]] = @ + 1]
    /\ Is(r, "running", "none", started[KeyOf[r]] + 1)
    /\ UNCHANGED <<writes, ended, expiries, faults>>

Duplicate(r) ==
    /\ Sends(r)
    /\ ~IsNewReq(KeyOf[r])
    /\ Is(r, "duplicate", "none", 0)
    /\ UNCHANGED <<cache, writes, started, ended, expiries, faults>>

\* setCache swallows the error and returns null: the request is taken for a duplicate,
\* whether or not its mark has reached Redis.
MarkFails(r) ==
    /\ Sends(r)
    /\ faults < MaxFaults
    /\ faults' = faults + 1
    /\ Is(r, "duplicate", "none", 0)
    /\ \/ IsNewReq(KeyOf[r]) /\ Put(KeyOf[r], Mark(r, 0))
       \/ UNCHANGED cache
    /\ UNCHANGED <<writes, started, ended, expiries>>

-----------------------------------------------------------------------------
(* handlerDuplicateRequest                                                  *)

\* Mutant: the body is compared before the status.
ReplyToBody(body, entry) ==
    IF entry.body # body THEN "unprocessable"
    ELSE IF entry.status = "in-progress" THEN "conflict"
    ELSE entry.status

\* Mutant: the body is not compared.
ReplyToKey(body, entry) ==
    IF entry.status = "in-progress" THEN "conflict" ELSE entry.status

Reply(body, entry) ==
    IF entry.status = "in-progress" THEN "conflict"
    ELSE IF entry.body # body THEN "unprocessable"
    ELSE entry.status

Replay(r) ==
    /\ At(r, "duplicate")
    /\ \E entry \in cache[KeyOf[r]] : Is(r, "done", Reply(BodyOf[r], entry), entry.run)
    /\ UNCHANGED <<cache, writes, started, ended, expiries, faults>>

\* The entry has gone since, or Redis fails: JSON.parse(null) or the error itself ends in a 503.
Unavailable(r) ==
    /\ At(r, "duplicate")
    /\ \/ cache[KeyOf[r]] = {} /\ UNCHANGED faults
       \/ faults < MaxFaults /\ faults' = faults + 1
    /\ Is(r, "done", "unavailable", 0)
    /\ UNCHANGED <<cache, writes, started, ended, expiries>>

-----------------------------------------------------------------------------
(* handleNewRequest                                                         *)

\* Mutant: the body itself is kept, not its hash.
StoredUnhashed(r, outcome) == [status |-> outcome, body |-> r, run |-> reqs[r].run]

Stored(r, outcome) == [status |-> outcome, body |-> BodyOf[r], run |-> reqs[r].run]

Execution(r, outcome) ==
    [key |-> KeyOf[r], run |-> reqs[r].run, body |-> BodyOf[r], outcome |-> outcome]

HandlerReturns(r) ==
    /\ At(r, "running")
    /\ ended' = ended \cup {Execution(r, "success")}
    /\ Is(r, "storing", "none", reqs[r].run)
    /\ UNCHANGED <<cache, writes, started, expiries, faults>>

\* The answer is stored, or the failure of it swallowed, before the client gets it.
StoreAnswer(r) ==
    /\ At(r, "storing")
    /\ \/ Put(KeyOf[r], Stored(r, "success")) /\ UNCHANGED faults
       \/ faults < MaxFaults /\ faults' = faults + 1 /\ UNCHANGED cache
    /\ Is(r, "done", "success", reqs[r].run)
    /\ UNCHANGED <<writes, started, ended, expiries>>

\* The client gets the error while it is still on its way to Redis.
HandlerThrows(r) ==
    /\ At(r, "running")
    /\ ended' = ended \cup {Execution(r, "error")}
    /\ writes' = writes \cup {Execution(r, "error")}
    /\ Is(r, "done", "error", reqs[r].run)
    /\ UNCHANGED <<cache, started, expiries, faults>>

\* Mutant: an error makes room for another try.
ForgetError(w) == cache' = [cache EXCEPT ![w.key] = {}]

KeepError(w) == Put(w.key, [status |-> w.outcome, body |-> w.body, run |-> w.run])

StoreError(w) ==
    /\ w \in writes
    /\ writes' = writes \ {w}
    /\ \/ KeepError(w) /\ UNCHANGED faults
       \/ faults < MaxFaults /\ faults' = faults + 1 /\ UNCHANGED cache
    /\ UNCHANGED <<reqs, started, ended, expiries>>

-----------------------------------------------------------------------------
\* The server of the request dies; what the handler has done is done.
Crash(r) ==
    /\ reqs[r].pc \in {"duplicate", "running", "storing"}
    /\ faults < MaxFaults
    /\ faults' = faults + 1
    /\ Is(r, "done", "none", 0)
    /\ UNCHANGED <<cache, writes, started, ended, expiries>>

\* Nobody will put an answer in the place of the mark.
Orphaned(k) ==
    /\ \E entry \in cache[k] : entry.status = "in-progress"
    /\ \A r \in Requests : KeyOf[r] = k => reqs[r].pc \notin {"running", "storing"}
    /\ \A w \in writes : w.key # k

\* The bound of the expiry, which always lets an orphaned mark go.
MayExpire(k) == expiries[k] < MaxExpiries \/ Orphaned(k)

\* Mutant: a mark has no time to live.
OnlyAnswersDisappear(k) ==
    /\ \E entry \in cache[k] : entry.status # "in-progress"
    /\ cache' = [cache EXCEPT ![k] = {}]

Disappears(k) == cache[k] # {} /\ cache' = [cache EXCEPT ![k] = {}]

\* The time to live is over: 5 minutes for a mark, 24 hours for an answer, give or take
\* a tenth.  The handler may still be running.
Expire(k) ==
    /\ MayExpire(k)
    /\ Disappears(k)
    /\ expiries' = [expiries EXCEPT ![k] = @ + 1]
    /\ UNCHANGED <<reqs, writes, started, ended, faults>>

Serve(r) ==
    \/ Replay(r) \/ Unavailable(r)
    \/ HandlerReturns(r) \/ StoreAnswer(r) \/ HandlerThrows(r)

Retry(r) == At(r, "done") /\ (First(r) \/ Duplicate(r))

Next ==
    \/ \E r \in Requests : First(r) \/ Duplicate(r) \/ MarkFails(r) \/ Serve(r) \/ Crash(r)
    \/ \E w \in writes : StoreError(w)
    \/ \E k \in Keys : Expire(k)

Spec == Init /\ [][Next]_vars

\* A server goes on with what it has begun, a client that was told to wait (Retry-After)
\* or was told nothing asks again, an error reaches Redis, and Redis lets a mark expire.
Fairness ==
    /\ \A r \in Requests : WF_vars(Serve(r)) /\ WF_vars(Retry(r))
    /\ WF_vars(\E w \in writes : StoreError(w))
    /\ \A k \in Keys : WF_vars(Expire(k))

FairSpec == Spec /\ Fairness

-----------------------------------------------------------------------------
\* Type invariant.
TypeOK ==
    /\ cache \in [Keys -> SUBSET Entries]
    /\ reqs \in [Requests -> [pc : {"idle", "duplicate", "running", "storing", "done"},
                              answer : Answers, run : Nat]]
    /\ writes \subseteq Executions
    /\ started \in [Keys -> Nat]
    /\ ended \subseteq Executions
    /\ expiries \in [Keys -> Nat]
    /\ faults \in Nat

\* The handler runs at most once for a key, and once more for every time the entry of the
\* key has disappeared: neither a crash, nor a failure of Redis at any point, nor requests
\* that come together run it again.
OncePerMark == \A k \in Keys : started[k] <= 1 + expiries[k]

\* Whatever answer of a handler a client gets, at first hand or replayed, is the answer of
\* an execution that really ended that way, for its own key and its own body.
AnswerIsItsOwn ==
    \A r \in Requests : reqs[r].answer \in Outcomes =>
        [key |-> KeyOf[r], run |-> reqs[r].run, body |-> BodyOf[r],
         outcome |-> reqs[r].answer] \in ended

\* While the entry of a key has not disappeared, everybody who gets an answer of a handler
\* for it gets the same one.
AnswersAgree ==
    \A r, s \in Requests :
        /\ KeyOf[r] = KeyOf[s] /\ expiries[KeyOf[r]] = 0
        /\ reqs[r].answer \in Outcomes /\ reqs[s].answer \in Outcomes
        => reqs[r].answer = reqs[s].answer /\ reqs[r].run = reqs[s].run

\* A request is refused for good (422) only when the handler has really answered another
\* body under the same key, not already when another body is merely being tried.
RefusalIsJust ==
    \A r \in Requests : reqs[r].answer = "unprocessable" =>
        \E e \in ended : e.key = KeyOf[r] /\ e.body # BodyOf[r]

\* A client that keeps asking gets a final answer, whatever was lost on the way.
EverybodySettles ==
    \A r \in Requests : ~At(r, "idle") ~> Settled(r)
=============================================================================
