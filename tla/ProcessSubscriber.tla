-------------------------- MODULE ProcessSubscriber --------------------------
(***************************************************************************)
(* One subscriber and everybody who gets, creates, updates or removes it:  *)
(* triggers (ProcessSubscriber), the endpoints of the API, and the readers *)
(* of its cache entry.  The subscriber is a document of the database, of   *)
(* which a secondary has an older view, and an entry of the cache that all *)
(* servers share.                                                          *)
(***************************************************************************)
EXTENDS Naturals, FiniteSets

CONSTANTS
    Callers,       \* calls that are made, each once
    Readers,       \* those who get the subscriber over and over
    Calls,         \* what a call may be
    FirstDocs,     \* the document at first, or Null
    Values, Unset, \* values of a field, and of one that is not given
    Null,          \* no subscriber
    Missing,       \* no entry in the cache
    MaxFaults      \* bound: failures of the cache

Fields == {"email", "locale"}

Docs == [Fields -> Values \cup {Unset}]

Kinds == {"process", "create", "update", "remove", "bulk"}

ASSUME SubscriberAssumption ==
    /\ Calls \subseteq [kind : Kinds, gives : Docs]
    /\ FirstDocs \subseteq Docs \cup {Null}
    /\ Unset \notin Values /\ Null \notin Docs /\ Missing \notin Docs \cup {Null}
    /\ Callers \cap Readers = {} /\ MaxFaults \in Nat

VARIABLES
    call,      \* the calls
    db,        \* the document and its status; deletion keeps the document
    replica,   \* what the secondary shows
    cache,     \* the entry of buildSubscriberKey
    proc,      \* everybody's control state: pc, stage, val (the subscriber as it was read)
    sighted,   \* history: calls that began with the subscriber in sight (see InSight)
    removed,   \* history: the subscriber was removed
    faulty     \* history: calls that met a failure of the cache

vars == <<call, db, replica, cache, proc, sighted, removed, faulty>>

Procs == Callers \cup Readers

Nothing == [f \in Fields |-> Unset]

\* A query: deleted documents are not found.
View(d) == IF d.status = "present" THEN d.doc ELSE Null

Init ==
    /\ call \in [Callers -> Calls]
    /\ \E d \in FirstDocs :
          db = IF d = Null THEN [status |-> "absent", doc |-> Nothing]
               ELSE [status |-> "present", doc |-> d]
    /\ replica = View(db)
    /\ cache = Missing
    /\ proc = [p \in Procs |-> [pc |-> "new", stage |-> "new", val |-> Null]]
    /\ sighted = {}
    /\ removed = FALSE
    /\ faulty = {}

-----------------------------------------------------------------------------
At(p, pc) == proc[p].pc = pc

State(pc, stage, val) == [pc |-> pc, stage |-> stage, val |-> val]

Goes(p, state) == proc' = [proc EXCEPT ![p] = state]

\* What the call of p gives; a reader gives nothing.
Gives(p) == IF p \in Callers THEN call[p].gives ELSE Nothing

\* The document d with the fields that are given.
Merge(d, gives) == [f \in Fields |-> IF gives[f] = Unset THEN d[f] ELSE gives[f]]

\* Mutant: only the email is compared.
NeedsEmail(d, gives) == d["email"] # gives["email"]

\* subscriberNeedUpdate: an email that is not given is a difference, another field is not.
NeedUpdate(d, gives) ==
    \/ d["email"] # gives["email"]
    \/ gives["locale"] # Unset /\ d["locale"] # gives["locale"]

\* Where p goes with the subscriber it has looked up.
After(p, stage, val) ==
    CASE stage = "process" /\ val = Null -> State("lookup", "create", Null)
      [] stage = "create"  /\ val = Null -> State("invalidate", "insert", Null)
      [] stage = "remove"  /\ val # Null -> State("invalidate", "delete", val)
      [] stage \in {"process", "create", "update"} /\ val # Null /\ NeedUpdate(val, Gives(p))
            -> State("invalidate", "write", val)
      [] OTHER -> State("done", stage, val)

-----------------------------------------------------------------------------
(* CachedEntity                                                             *)

Free(p) == At(p, "new") \/ (p \in Readers /\ At(p, "done"))

\* The secondary shows the subscriber, the cache does not say that there is none, and
\* nobody is about to fill that in.
InSight(p) ==
    /\ replica # Null
    /\ cache # Null
    /\ \A q \in Procs \ {p} : At(q, "fill") => proc[q].val # Null

Begin(p) ==
    /\ Free(p)
    /\ p \in Callers => call[p].kind # "bulk"
    /\ LET kind == IF p \in Readers THEN "get" ELSE call[p].kind
       IN  Goes(p, State(IF kind = "update" THEN "read" ELSE "lookup", kind, Null))
    /\ sighted' = IF InSight(p) THEN sighted \cup ({p} \cap Callers) ELSE sighted
    /\ UNCHANGED <<call, db, replica, cache, removed, faulty>>

\* A subscriber that was not found is an entry like any other: the text null.
Lookup(p) ==
    /\ At(p, "lookup")
    /\ Goes(p, IF cache = Missing THEN [proc[p] EXCEPT !.pc = "read"]
               ELSE After(p, proc[p].stage, cache))
    /\ UNCHANGED <<call, db, replica, cache, sighted, removed, faulty>>

\* findBySubscriberId: from the primary, or from whatever is preferred to it.
Sources(stage) == IF stage \in {"update", "remove"} THEN {View(db)} ELSE {View(db), replica}

\* Only UpdateSubscriber without a subscriber reads past the cache.
Read(p) ==
    /\ At(p, "read")
    /\ \E v \in Sources(proc[p].stage) :
          Goes(p, IF proc[p].stage = "update" THEN After(p, "update", v)
                  ELSE State("fill", proc[p].stage, v))
    /\ UNCHANGED <<call, db, replica, cache, sighted, removed, faulty>>

Fill(p) ==
    /\ At(p, "fill")
    /\ cache' = proc[p].val
    /\ Goes(p, After(p, proc[p].stage, proc[p].val))
    /\ UNCHANGED <<call, db, replica, sighted, removed, faulty>>

\* Mutant: the entry is emptied, not deleted.
InvalidateByNull(p) == cache' = Null

\* invalidateByKey
InvalidateByKey(p) == cache' = Missing

\* Always before the write.
Invalidate(p) ==
    /\ At(p, "invalidate")
    /\ InvalidateByKey(p)
    /\ Goes(p, [proc[p] EXCEPT !.pc = "write"])
    /\ UNCHANGED <<call, db, replica, sighted, removed, faulty>>

\* A failure of the cache is logged: it counts as a miss, or nothing is done.
CacheFails(p) ==
    /\ p \in Callers \ faulty
    /\ Cardinality(faulty) < MaxFaults
    /\ \/ At(p, "lookup") /\ Goes(p, [proc[p] EXCEPT !.pc = "read"])
       \/ At(p, "fill") /\ Goes(p, After(p, proc[p].stage, proc[p].val))
       \/ At(p, "invalidate") /\ Goes(p, [proc[p] EXCEPT !.pc = "write"])
    /\ faulty' = faulty \cup {p}
    /\ UNCHANGED <<call, db, replica, cache, sighted, removed>>

\* Mutant: an entry without a subscriber is kept.
HasTtlIfFound(entry) == entry \notin {Missing, Null}

\* CacheService.set gives every entry a TTL.
HasTtl(entry) == entry # Missing

Expire ==
    /\ HasTtl(cache)
    /\ cache' = Missing
    /\ UNCHANGED <<call, db, replica, proc, sighted, removed, faulty>>

\* The secondary catches up.
Replicate ==
    /\ replica # View(db)
    /\ replica' = View(db)
    /\ UNCHANGED <<call, db, cache, proc, sighted, removed, faulty>>

-----------------------------------------------------------------------------
(* CreateSubscriber, UpdateSubscriber, RemoveSubscriber, bulk creation      *)

Writing(p, stage) == At(p, "write") /\ proc[p].stage = stage

Insert(p) ==
    /\ Writing(p, "insert")
    /\ db.status = "absent"
    /\ db' = [status |-> "present", doc |-> Gives(p)]
    /\ Goes(p, State("done", "insert", Gives(p)))
    /\ UNCHANGED <<call, replica, cache, sighted, removed, faulty>>

\* The index is unique over deleted documents, too.  The error goes up and the call fails:
\* its code is the number 11000 and is compared with the string '11000', so the branch that
\* would fetch the subscriber is never taken.
InsertDuplicate(p) ==
    /\ Writing(p, "insert")
    /\ db.status # "absent"
    /\ Goes(p, State("done", "rejected", Null))
    /\ UNCHANGED <<call, db, replica, cache, sighted, removed, faulty>>

\* Mutant: the subscriber is saved as it was read.
SavedWhole(p) == Merge(proc[p].val, Gives(p))

\* $set of the fields that are given
Saved(p) == Merge(db.doc, Gives(p))

Update(p) ==
    /\ Writing(p, "write")
    /\ db' = IF db.status = "present" THEN [db EXCEPT !.doc = Saved(p)] ELSE db
    /\ Goes(p, State("done", "write", Merge(proc[p].val, Gives(p))))
    /\ UNCHANGED <<call, replica, cache, sighted, removed, faulty>>

\* Mutant: nothing is kept of a deleted subscriber.
Erased(d) == [status |-> "deleted", doc |-> Null]

Deleted(d) == [d EXCEPT !.status = "deleted"]

Remove(p) ==
    /\ Writing(p, "delete")
    /\ db' = IF db.status = "present" THEN Deleted(db) ELSE db
    /\ removed' = (removed \/ db.status = "present")
    /\ Goes(p, State("done", "delete", Null))
    /\ UNCHANGED <<call, replica, cache, sighted, faulty>>

\* An upsert that finds deleted documents and knows nothing of the cache.
BulkUpsert(p) ==
    /\ p \in Callers /\ At(p, "new")
    /\ call[p].kind = "bulk"
    /\ db' = [status |-> "present", doc |-> Merge(db.doc, Gives(p))]
    /\ Goes(p, State("done", "bulk", Null))
    /\ UNCHANGED <<call, replica, cache, sighted, removed, faulty>>

Step(p) ==
    \/ Begin(p) \/ Lookup(p) \/ Read(p) \/ Fill(p) \/ Invalidate(p)
    \/ Insert(p) \/ InsertDuplicate(p) \/ Update(p) \/ Remove(p) \/ BulkUpsert(p)

Next ==
    \/ \E p \in Procs : Step(p) \/ CacheFails(p)
    \/ Expire
    \/ Replicate

Spec == Init /\ [][Next]_vars

\* Servers go on, entries expire and the secondary follows the primary.
Fairness ==
    /\ \A p \in Procs : WF_vars(Step(p))
    /\ WF_vars(Expire)
    /\ WF_vars(Replicate)

FairSpec == Spec /\ Fairness

-----------------------------------------------------------------------------
\* Type invariant.
TypeOK ==
    /\ call \in [Callers -> Calls]
    /\ db \in [status : {"absent", "present", "deleted"}, doc : Docs]
    /\ replica \in Docs \cup {Null}
    /\ cache \in Docs \cup {Null, Missing}
    /\ proc \in [Procs -> [pc : {"new", "lookup", "read", "fill", "invalidate", "write", "done"},
                           stage : Kinds \cup {"new", "get", "insert", "rejected", "write", "delete"},
                           val : Docs \cup {Null}]]
    /\ sighted \subseteq Callers
    /\ removed \in BOOLEAN
    /\ faulty \subseteq Callers

Done(p) == At(p, "done")

\* What one call was told to have stored stays, whatever the others update at the same time
\* from older copies of the subscriber, unless another call gives the same field.
DetailsAreKept ==
    \A p \in Callers, f \in Fields :
        /\ Done(p) /\ proc[p].val # Null
        /\ Gives(p)[f] # Unset /\ proc[p].val[f] = Gives(p)[f]
        /\ \A q \in Callers \ {p} : Gives(q)[f] = Unset
        /\ ~removed
        => db.doc[f] = Gives(p)[f]

\* A trigger that is not rejected works with the details it came with, however old the entry
\* in the cache was.
CallerGetsHisDetails ==
    \A p \in Callers :
        Done(p) /\ call[p].kind \in {"process", "create"} /\ proc[p].stage # "rejected" =>
            \A f \in Fields : Gives(p)[f] # Unset => proc[p].val[f] = Gives(p)[f]

\* A call that begins with the subscriber in sight gets it and is not rejected, whatever
\* creations, updates and bulk creations of it are under way or join in, and even if the cache
\* fails: none of them makes the entry of the cache deny a subscriber that is there.
NobodyIsLostInSight ==
    \A p \in sighted :
        Done(p) /\ call[p].kind \in {"process", "create"} /\ ~removed => proc[p].val # Null

\* In the end the cache tells what the database has: an entry that was filled while the
\* subscriber changed, or by a bulk creation that does not invalidate it, does not stay.
CacheIsFreshAgain == <>[](cache \in {Missing, View(db)})

\* A trigger that loses the race of the creation gets the subscriber that was faster:
\* 'Possible race condition on subscriber creation, try fetch newly created the subscriber'
\* (create-subscriber.usecase.ts:80).
RaceIsSurvived ==
    \A p \in Callers :
        Done(p) /\ call[p].kind \in {"process", "create"} /\ ~removed => proc[p].val # Null
=============================================================================
