----------------------- MODULE ProcessSubscriber_proofs -----------------------
(***************************************************************************)
(* Proofs about the subscriber and its copies.  A copy, in the cache, on   *)
(* the secondary or in somebody's hands, may be old but is never ahead of  *)
(* the document in a field that only one call gives; that is why nobody    *)
(* who merges into, or judges by, an old copy destroys the field.          *)
(***************************************************************************)
EXTENDS ProcessSubscriber, TLAPS

PCs == {"new", "lookup", "read", "fill", "invalidate", "write", "done"}

Stages == Kinds \cup {"new", "get", "insert", "rejected", "write", "delete"}

ProcState == [pc : PCs, stage : Stages, val : Docs \cup {Null}]

\* Stages that look the subscriber up.
LookupStages == {"process", "create", "update", "remove", "get"}

\* Control state: who updates has a subscriber.
Control ==
    \A p \in Procs :
        /\ proc[p].pc \in {"lookup", "read", "fill"} => proc[p].stage \in LookupStages
        /\ proc[p].pc \in {"invalidate", "write"} => proc[p].stage \in {"insert", "write", "delete"}
        /\ proc[p].pc \in {"invalidate", "write"} /\ proc[p].stage = "write" => proc[p].val \in Docs

Copies == ({cache, replica} \cup {proc[p].val : p \in Procs}) \cap Docs

Existence ==
    /\ db.status = "absent" => Copies = {}
    /\ db.status = "deleted" => removed

\* The field f is p's alone.
Owns(p, f) ==
    /\ Gives(p)[f] # Unset
    /\ \A q \in Callers \ {p} : Gives(q)[f] = Unset

NoCopyAhead ==
    \A p \in Callers, f \in Fields :
        Owns(p, f) /\ ~removed => \A c \in Copies : c[f] = Gives(p)[f] => db.doc[f] = Gives(p)[f]

-----------------------------------------------------------------------------
LEMMA GivesType == ASSUME TypeOK, NEW p \in Procs PROVE Gives(p) \in Docs
<1>1. Nothing \in Docs
  BY DEF Nothing, Docs
<1>2. p \in Callers => call[p].gives \in Docs
  BY SubscriberAssumption DEF TypeOK
<1> QED
  BY <1>1, <1>2 DEF Gives

LEMMA MergeType ==
    ASSUME NEW d \in Docs, NEW gives \in Docs
    PROVE  Merge(d, gives) \in Docs
BY DEF Merge, Docs

LEMMA ViewType ==
    ASSUME TypeOK
    PROVE  View(db) \in Docs \cup {Null} /\ (View(db) \in Docs => db.status = "present" /\ View(db) = db.doc)
BY SubscriberAssumption DEF View, TypeOK

\* Where a lookup leads to.
LEMMA AfterType ==
    ASSUME NEW p, NEW stage \in LookupStages, NEW val \in Docs \cup {Null}
    PROVE  LET st == After(p, stage, val)
           IN  /\ st \in ProcState
               /\ st.val = val
               /\ st.pc \in {"lookup", "read", "fill"} => st.stage \in LookupStages
               /\ st.pc \in {"invalidate", "write"} => st.stage \in {"insert", "write", "delete"}
               /\ st.pc \in {"invalidate", "write"} /\ st.stage = "write" => st.val \in Docs
BY DEF After, State, ProcState, LookupStages, PCs, Stages, Kinds

LEMMA Moves ==
    ASSUME TypeOK, NEW p \in Procs, NEW st, Goes(p, st)
    PROVE  proc'[p] = st /\ \A q \in Procs \ {p} : proc'[q] = proc[q]
BY DEF TypeOK, Goes

\* The control state p gets in a step, with what the step leaves alone.
Sound(st) ==
    /\ st \in ProcState
    /\ st.pc \in {"lookup", "read", "fill"} => st.stage \in LookupStages
    /\ st.pc \in {"invalidate", "write"} => st.stage \in {"insert", "write", "delete"}
    /\ st.pc \in {"invalidate", "write"} /\ st.stage = "write" => st.val \in Docs

LEMMA StepIsSound ==
    ASSUME TypeOK, Control, NEW p \in Procs, Step(p) \/ CacheFails(p)
    PROVE  \E st : Goes(p, st) /\ Sound(st)
<1> USE DEF Sound
<1>1. CASE Begin(p)
  <2> DEFINE kind == IF p \in Readers THEN "get" ELSE call[p].kind
  <2>1. kind \in LookupStages
    BY <1>1, SubscriberAssumption DEF Begin, TypeOK, Procs, Kinds, LookupStages
  <2>2. \A pc \in {"read", "lookup"} : Sound(State(pc, kind, Null))
    BY <2>1 DEF State, ProcState, PCs, Stages, LookupStages, Kinds
  <2> QED
    BY <1>1, <2>2 DEF Begin
<1>2. CASE Lookup(p)
  <2>1. proc[p].stage \in LookupStages /\ proc[p] \in ProcState
    BY <1>2 DEF Lookup, At, Control, TypeOK, ProcState, PCs, Stages
  <2>2. CASE cache = Missing
    <3>1. Goes(p, [proc[p] EXCEPT !.pc = "read"])
      BY <1>2, <2>2 DEF Lookup
    <3>2. Sound([proc[p] EXCEPT !.pc = "read"])
      BY <2>1 DEF ProcState, PCs
    <3> QED
      BY <3>1, <3>2
  <2>3. CASE cache # Missing
    <3>1. cache \in Docs \cup {Null}
      BY <2>3 DEF TypeOK
    <3>2. Goes(p, After(p, proc[p].stage, cache))
      BY <1>2, <2>3 DEF Lookup
    <3> QED
      BY <2>1, <3>1, <3>2, AfterType
  <2> QED
    BY <2>2, <2>3
<1>3. CASE Read(p)
  <2>1. proc[p].stage \in LookupStages
    BY <1>3 DEF Read, At, Control
  <2>2. PICK v \in Sources(proc[p].stage) :
           Goes(p, IF proc[p].stage = "update" THEN After(p, "update", v)
                   ELSE State("fill", proc[p].stage, v))
    BY <1>3 DEF Read
  <2>3. v \in Docs \cup {Null}
    BY <2>2, ViewType DEF Sources, TypeOK
  <2>4. Sound(State("fill", proc[p].stage, v))
    BY <2>1, <2>3 DEF State, ProcState, PCs, Stages, LookupStages, Kinds
  <2>5. Sound(After(p, "update", v))
    <3>1. "update" \in LookupStages
      BY DEF LookupStages
    <3> QED
      BY <2>3, <3>1, AfterType
  <2> QED
    BY <2>2, <2>4, <2>5
<1>4. CASE Fill(p)
  <2>1. proc[p].stage \in LookupStages /\ proc[p].val \in Docs \cup {Null}
    BY <1>4 DEF Fill, At, Control, TypeOK
  <2> QED
    BY <1>4, <2>1, AfterType DEF Fill
<1>5. ASSUME At(p, "invalidate"), Goes(p, [proc[p] EXCEPT !.pc = "write"])
      PROVE  Sound([proc[p] EXCEPT !.pc = "write"])
  <2>1. proc[p] \in ProcState
    BY DEF TypeOK, ProcState, PCs, Stages
  <2>2. /\ proc[p].stage \in {"insert", "write", "delete"}
        /\ proc[p].stage = "write" => proc[p].val \in Docs
    BY <1>5 DEF At, Control
  <2> QED
    BY <2>1, <2>2 DEF ProcState, PCs
<1>6. CASE Invalidate(p)
  BY <1>5, <1>6 DEF Invalidate
<1>7. CASE Insert(p) \/ InsertDuplicate(p) \/ Remove(p) \/ BulkUpsert(p)
  <2>1. \A st \in {State("done", "insert", Gives(p)), State("done", "rejected", Null),
                   State("done", "delete", Null), State("done", "bulk", Null)} : Sound(st)
    BY GivesType DEF State, ProcState, PCs, Stages, LookupStages, Kinds
  <2> QED
    BY <1>7, <2>1 DEF Insert, InsertDuplicate, Remove, BulkUpsert
<1>8. CASE Update(p)
  <2>1. proc[p].val \in Docs
    BY <1>8 DEF Update, Writing, At, Control
  <2>2. Merge(proc[p].val, Gives(p)) \in Docs
    BY <2>1, GivesType, MergeType
  <2>3. Sound(State("done", "write", Merge(proc[p].val, Gives(p))))
    BY <2>2 DEF State, ProcState, PCs, Stages
  <2> QED
    BY <1>8, <2>3 DEF Update
<1>9. CASE CacheFails(p)
  <2>1. CASE At(p, "lookup") /\ Goes(p, [proc[p] EXCEPT !.pc = "read"])
    <3>1. proc[p] \in ProcState /\ proc[p].stage \in LookupStages
      BY <2>1 DEF At, Control, TypeOK, ProcState, PCs, Stages
    <3>2. Sound([proc[p] EXCEPT !.pc = "read"])
      BY <3>1 DEF ProcState, PCs
    <3> QED
      BY <2>1, <3>2
  <2>2. CASE At(p, "fill") /\ Goes(p, After(p, proc[p].stage, proc[p].val))
    <3>1. proc[p].stage \in LookupStages /\ proc[p].val \in Docs \cup {Null}
      BY <2>2 DEF At, Control, TypeOK
    <3> QED
      BY <2>2, <3>1, AfterType
  <2> QED
    BY <1>5, <1>9, <2>1, <2>2 DEF CacheFails
<1> QED
  BY <1>1, <1>2, <1>3, <1>4, <1>6, <1>7, <1>8, <1>9 DEF Step

LEMMA Typing == Spec => [](TypeOK /\ Control)
<1>1. Init => TypeOK /\ Control
  <2> SUFFICES ASSUME Init PROVE TypeOK /\ Control
    OBVIOUS
  <2>1. Nothing \in Docs
    BY DEF Nothing, Docs
  <2>2. db \in [status : {"absent", "present", "deleted"}, doc : Docs]
    BY <2>1, SubscriberAssumption DEF Init
  <2>3. replica \in Docs \cup {Null}
    BY <2>2 DEF Init, View
  <2> QED
    BY <2>2, <2>3 DEF Init, TypeOK, Control
<1>2. ASSUME TypeOK, Control, [Next]_vars PROVE TypeOK' /\ Control'
  <2>1. ASSUME NEW p \in Procs, Step(p) \/ CacheFails(p) PROVE TypeOK' /\ Control'
    <3>1. PICK st : Goes(p, st) /\ Sound(st)
      BY <1>2, <2>1, StepIsSound
    <3>2. proc' \in [Procs -> ProcState]
      BY <1>2, <3>1 DEF Goes, TypeOK, Sound, ProcState, PCs, Stages
    <3>3. Control'
      BY <1>2, <3>1, Moves DEF Sound, Control
    <3>4. db' \in [status : {"absent", "present", "deleted"}, doc : Docs]
      <4>1. Gives(p) \in Docs /\ db.doc \in Docs /\ Merge(db.doc, Gives(p)) \in Docs
        BY <1>2, GivesType, MergeType DEF TypeOK
      <4> QED
        BY <1>2, <2>1, <4>1 DEF TypeOK, Step, Begin, Lookup, Read, Fill, Invalidate, Insert,
             InsertDuplicate, Update, Saved, Remove, Deleted, BulkUpsert, CacheFails
    <3>5. /\ call' = call /\ replica' = replica
          /\ cache' \in {cache, Missing, proc[p].val}
          /\ sighted' \subseteq sighted \cup Callers
          /\ faulty' \subseteq faulty \cup Callers
          /\ removed' \in BOOLEAN
      BY <1>2, <2>1 DEF TypeOK, Step, Begin, Lookup, Read, Fill, Invalidate, InvalidateByKey, Insert,
           InsertDuplicate, Update, Remove, BulkUpsert, CacheFails
    <3>6. proc[p].val \in Docs \cup {Null}
      BY <1>2 DEF TypeOK
    <3> QED
      BY <1>2, <3>2, <3>3, <3>4, <3>5, <3>6 DEF TypeOK, ProcState, PCs, Stages
  <2>2. CASE Expire
    BY <1>2, <2>2 DEF Expire, TypeOK, Control
  <2>3. CASE Replicate
    BY <1>2, <2>3, ViewType DEF Replicate, TypeOK, Control
  <2>4. CASE UNCHANGED vars
    BY <1>2, <2>4 DEF vars, TypeOK, Control
  <2> QED
    BY <1>2, <2>1, <2>2, <2>3, <2>4 DEF Next
<1> QED
  BY <1>1, <1>2, PTL DEF Spec

\* The types hold for every number of callers and readers, any documents and any calls.
THEOREM TypeCorrect == Spec => []TypeOK
BY Typing, PTL

-----------------------------------------------------------------------------
\* A call of a trigger or of POST, and the control state st it is in.
Asks(p) == call[p].kind \in {"process", "create"}

Knows(p, st) ==
    /\ st.stage \in {"new", "process", "create", "insert", "rejected", "write"}
    /\ st.pc \in {"lookup", "read", "fill"} => st.stage \in {"process", "create"}
    /\ st.pc = "done" /\ st.stage # "rejected" =>
          \A f \in Fields : Gives(p)[f] # Unset => st.val[f] = Gives(p)[f]

DetailsInv == \A p \in Callers : Asks(p) => Knows(p, proc[p])

LEMMA AfterKnows ==
    ASSUME TypeOK, NEW p \in Callers, NEW stage \in {"process", "create"},
           NEW val \in Docs \cup {Null}
    PROVE  Knows(p, After(p, stage, val))
<1>1. CASE val = Null
  BY <1>1 DEF After, Knows, State
<1>2. CASE val # Null /\ NeedUpdate(val, Gives(p))
  <2>1. After(p, stage, val) = State("invalidate", "write", val)
    BY <1>2 DEF After
  <2> QED
    BY <2>1 DEF Knows, State
<1>3. CASE val # Null /\ ~NeedUpdate(val, Gives(p))
  <2>1. After(p, stage, val) = State("done", stage, val)
    BY <1>3 DEF After
  <2>2. \A f \in Fields : Gives(p)[f] # Unset => val[f] = Gives(p)[f]
    BY <1>3 DEF NeedUpdate, Fields
  <2> QED
    BY <1>3, <2>1, <2>2 DEF Knows, State
<1> QED
  BY <1>1, <1>2, <1>3

\* A trigger never works with other details than it came with, whatever the cache, the secondary
\* and other calls have told it, unless it is rejected.
THEOREM DetailsArrive == Spec => []CallerGetsHisDetails
<1>1. Init => DetailsInv
  BY DEF Init, DetailsInv, Knows, Procs
<1>2. ASSUME TypeOK, Control, DetailsInv, [Next]_vars PROVE DetailsInv'
  <2>1. ASSUME NEW p \in Procs, Step(p) \/ CacheFails(p) PROVE DetailsInv'
    <3>1. PICK st : Goes(p, st) /\ Sound(st)
      BY <1>2, <2>1, StepIsSound
    <3>2. call' = call
      BY <2>1 DEF Step, Begin, Lookup, Read, Fill, Invalidate, Insert, InsertDuplicate, Update,
                  Remove, BulkUpsert, CacheFails
    <3>3. ASSUME p \in Callers, Asks(p) PROVE Knows(p, proc'[p])
      <4>0. Knows(p, proc[p])
        BY <1>2, <3>3 DEF DetailsInv
      <4>1. ASSUME At(p, "lookup") \/ At(p, "read") \/ At(p, "fill"), NEW v \in Docs \cup {Null},
                   Goes(p, After(p, proc[p].stage, v))
            PROVE  Knows(p, proc'[p])
        <5>1. proc[p].stage \in {"process", "create"}
          BY <4>0, <4>1 DEF At, Knows
        <5>2. Knows(p, After(p, proc[p].stage, v))
          BY <1>2, <3>3, <5>1, AfterKnows
        <5> QED
          BY <1>2, <2>1, <4>1, <5>2, Moves
      <4>2. ASSUME NEW pc \in {"read", "write"}, Goes(p, [proc[p] EXCEPT !.pc = pc]),
                   At(p, "lookup") \/ At(p, "invalidate"), pc = "write" <=> At(p, "invalidate")
            PROVE  Knows(p, proc'[p])
        <5>1. proc[p] \in ProcState
          BY <1>2, <2>1 DEF TypeOK, ProcState, PCs, Stages
        <5>2. Knows(p, [proc[p] EXCEPT !.pc = pc])
          BY <4>0, <4>2, <5>1 DEF Knows, ProcState, At
        <5> QED
          BY <1>2, <2>1, <4>2, <5>2, Moves
      <4>3. CASE Begin(p)
        <5>1. p \notin Readers /\ call[p].kind # "update"
          BY <3>3, SubscriberAssumption DEF Asks
        <5>2. Goes(p, State("lookup", call[p].kind, Null))
          BY <4>3, <5>1 DEF Begin
        <5>3. Knows(p, State("lookup", call[p].kind, Null))
          BY <3>3 DEF Knows, State, Asks
        <5> QED
          BY <1>2, <2>1, <5>2, <5>3, Moves
      <4>4. CASE Lookup(p)
        <5>1. CASE cache = Missing
          BY <4>2, <4>4, <5>1 DEF Lookup, At
        <5>2. CASE cache # Missing
          <6>1. cache \in Docs \cup {Null}
            BY <1>2, <5>2 DEF TypeOK
          <6> QED
            BY <4>1, <4>4, <5>2, <6>1 DEF Lookup
        <5> QED
          BY <5>1, <5>2
      <4>5. CASE Read(p)
        <5>1. proc[p].stage \in {"process", "create"}
          BY <4>0, <4>5 DEF Read, At, Knows
        <5>2. PICK v : Goes(p, State("fill", proc[p].stage, v))
          BY <4>5, <5>1 DEF Read
        <5>3. Knows(p, State("fill", proc[p].stage, v))
          BY <5>1 DEF Knows, State
        <5> QED
          BY <1>2, <2>1, <5>2, <5>3, Moves
      <4>6. CASE Fill(p)
        <5>1. proc[p].val \in Docs \cup {Null}
          BY <1>2, <2>1 DEF TypeOK
        <5> QED
          BY <4>1, <4>6, <5>1 DEF Fill
      <4>7. CASE Invalidate(p)
        BY <4>2, <4>7 DEF Invalidate
      <4>8. CASE CacheFails(p)
        <5>1. proc[p].val \in Docs \cup {Null}
          BY <1>2, <2>1 DEF TypeOK
        <5>2. CASE At(p, "lookup") /\ Goes(p, [proc[p] EXCEPT !.pc = "read"])
          BY <4>2, <5>2 DEF At
        <5>3. CASE At(p, "fill") /\ Goes(p, After(p, proc[p].stage, proc[p].val))
          BY <4>1, <5>1, <5>3
        <5>4. CASE At(p, "invalidate") /\ Goes(p, [proc[p] EXCEPT !.pc = "write"])
          BY <4>2, <5>4
        <5> QED
          BY <4>8, <5>2, <5>3, <5>4 DEF CacheFails
      <4>9. CASE Insert(p)
        <5>1. Knows(p, State("done", "insert", Gives(p)))
          BY DEF Knows, State
        <5> QED
          BY <1>2, <2>1, <4>9, <5>1, Moves DEF Insert
      <4>10. CASE InsertDuplicate(p)
        <5>1. Knows(p, State("done", "rejected", Null))
          BY DEF Knows, State
        <5> QED
          BY <1>2, <2>1, <4>10, <5>1, Moves DEF InsertDuplicate
      <4>11. CASE Update(p)
        <5>1. Knows(p, State("done", "write", Merge(proc[p].val, Gives(p))))
          BY DEF Knows, State, Merge
        <5> QED
          BY <1>2, <2>1, <4>11, <5>1, Moves DEF Update
      <4>12. ~Remove(p) /\ ~BulkUpsert(p)
        BY <3>3, <4>0 DEF Remove, BulkUpsert, Writing, Knows, Asks
      <4> QED
        BY <2>1, <4>3, <4>4, <4>5, <4>6, <4>7, <4>8, <4>9, <4>10, <4>11, <4>12 DEF Step
    <3>4. \A q \in Callers \ {p} : proc'[q] = proc[q]
      BY <1>2, <2>1, <3>1, Moves DEF Procs
    <3> QED
      BY <1>2, <3>2, <3>3, <3>4 DEF DetailsInv, Knows, Asks, Gives
  <2>2. CASE Expire \/ Replicate \/ UNCHANGED vars
    BY <1>2, <2>2 DEF Expire, Replicate, vars, DetailsInv, Knows, Asks, Gives
  <2> QED
    BY <1>2, <2>1, <2>2 DEF Next
<1>3. DetailsInv => CallerGetsHisDetails
  BY DEF DetailsInv, Knows, CallerGetsHisDetails, Done, At, Asks
<1> QED
  BY <1>1, <1>2, <1>3, Typing, PTL DEF Spec

-----------------------------------------------------------------------------
KeptInv == TypeOK /\ Control /\ Existence /\ NoCopyAhead

\* A step that leaves the document alone makes copies of copies, or of the document.
LEMMA CopiesOfCopies ==
    ASSUME Existence, NoCopyAhead, TypeOK, UNCHANGED <<call, db, removed>>,
           \A c \in Copies' : c \in Copies \/ c = View(db)
    PROVE  Existence' /\ NoCopyAhead'
<1>1. \A c \in Copies' : c \in Copies \/ (db.status = "present" /\ c = db.doc)
  BY ViewType DEF Copies
<1>2. Existence'
  BY <1>1 DEF Existence
<1>3. NoCopyAhead'
  BY <1>1 DEF NoCopyAhead, Owns, Gives
<1> QED
  BY <1>2, <1>3

\* The copies after a step of p.
LEMMA NewCopies ==
    ASSUME TypeOK, NEW p \in Procs, NEW st, Goes(p, st), replica' = replica,
           cache' \in {cache, Missing, proc[p].val}
    PROVE  \A c \in Copies' : c \in Copies \/ c = st.val
<1> SUFFICES ASSUME NEW c \in Copies' PROVE c \in Copies \/ c = st.val
  OBVIOUS
<1>1. c \in Docs /\ Missing \notin Docs
  BY SubscriberAssumption DEF Copies
<1>2. CASE c = cache' \/ c = replica'
  BY <1>1, <1>2 DEF Copies
<1>3. CASE \E q \in Procs : c = proc'[q].val
  BY <1>1, <1>3, Moves DEF Copies
<1> QED
  BY <1>2, <1>3 DEF Copies

\* A step that reads, looks up or fills.
LEMMA ReadersCopy ==
    ASSUME TypeOK, Control, NEW p \in Procs,
           \/ Begin(p) \/ Lookup(p) \/ Read(p) \/ Fill(p) \/ Invalidate(p)
           \/ InsertDuplicate(p) \/ CacheFails(p)
    PROVE  /\ UNCHANGED <<call, db, removed>>
           /\ \A c \in Copies' : c \in Copies \/ c = View(db)
<1>1. /\ UNCHANGED <<call, db, removed, replica>>
      /\ cache' \in {cache, Missing, proc[p].val}
  BY DEF Begin, Lookup, Read, Fill, Invalidate, InvalidateByKey, InsertDuplicate, CacheFails
<1>2. \E st : Goes(p, st) /\ st.val \in {Null, cache, replica, proc[p].val, View(db)}
  <2>1. proc[p] \in ProcState
    BY DEF TypeOK, ProcState, PCs, Stages
  <2>2. \A pc \in {"read", "write"} : [proc[p] EXCEPT !.pc = pc].val = proc[p].val
    BY <2>1 DEF ProcState
  <2>3. \A stage, v, pc : State(pc, stage, v).val = v
    BY DEF State
  <2>4. CASE Begin(p) \/ InsertDuplicate(p)
    BY <2>3, <2>4 DEF Begin, InsertDuplicate
  <2>5. CASE Lookup(p)
    <3>1. proc[p].stage \in LookupStages
      BY <2>5 DEF Lookup, At, Control
    <3>2. cache # Missing => After(p, proc[p].stage, cache).val = cache
      BY <3>1, AfterType DEF TypeOK
    <3> QED
      BY <2>2, <2>5, <3>2 DEF Lookup
  <2>6. CASE Read(p)
    <3>1. PICK v \in Sources(proc[p].stage) :
             Goes(p, IF proc[p].stage = "update" THEN After(p, "update", v)
                     ELSE State("fill", proc[p].stage, v))
      BY <2>6 DEF Read
    <3>2. v \in {View(db), replica} /\ v \in Docs \cup {Null}
      BY <3>1, ViewType DEF Sources, TypeOK
    <3>3. After(p, "update", v).val = v
      BY <3>2, AfterType DEF LookupStages
    <3> QED
      BY <2>3, <3>1, <3>2, <3>3
  <2>7. CASE At(p, "fill") /\ Goes(p, After(p, proc[p].stage, proc[p].val))
    <3>1. proc[p].stage \in LookupStages /\ proc[p].val \in Docs \cup {Null}
      BY <2>7 DEF At, Control, TypeOK
    <3> QED
      BY <2>7, <3>1, AfterType
  <2>8. CASE \E pc \in {"read", "write"} : Goes(p, [proc[p] EXCEPT !.pc = pc])
    BY <2>2, <2>8
  <2> QED
    BY <2>4, <2>5, <2>6, <2>7, <2>8 DEF Fill, Invalidate, CacheFails
<1>3. ASSUME NEW c \in Copies' PROVE c \in Copies \/ c = View(db)
  <2>1. PICK st : Goes(p, st) /\ st.val \in {Null, cache, replica, proc[p].val, View(db)}
    BY <1>2
  <2>2. c \in Docs /\ (c \in Copies \/ c = st.val)
    BY <1>1, <1>3, <2>1, NewCopies DEF Copies
  <2>3. c # Null
    BY <2>2, SubscriberAssumption
  <2> QED
    BY <2>1, <2>2, <2>3 DEF Copies
<1> QED
  BY <1>1, <1>3

LEMMA Keeping == Spec => []KeptInv
<1>1. Init => Existence /\ NoCopyAhead
  <2> SUFFICES ASSUME Init PROVE Existence /\ NoCopyAhead
    OBVIOUS
  <2>1. Copies \subseteq {replica}
    BY SubscriberAssumption DEF Init, Copies
  <2>2. replica \in Docs => db.status = "present" /\ replica = db.doc
    BY SubscriberAssumption DEF Init, View
  <2>3. db.status \in {"absent", "present"}
    BY DEF Init
  <2>4. Copies # {} => db.status = "present" /\ Copies = {db.doc}
    BY <2>1, <2>2 DEF Copies
  <2> QED
    BY <2>3, <2>4 DEF Existence, NoCopyAhead
<1>2. ASSUME KeptInv, [Next]_vars PROVE Existence' /\ NoCopyAhead'
  <2> USE DEF KeptInv
  <2>1. ASSUME NEW p \in Procs,
               \/ Begin(p) \/ Lookup(p) \/ Read(p) \/ Fill(p) \/ Invalidate(p)
               \/ InsertDuplicate(p) \/ CacheFails(p)
        PROVE  Existence' /\ NoCopyAhead'
    BY <1>2, <2>1, ReadersCopy, CopiesOfCopies
  <2>2. ASSUME NEW p \in Procs, Insert(p) PROVE Existence' /\ NoCopyAhead'
    <3>1. Copies = {} /\ db.status = "absent"
      BY <1>2, <2>2 DEF Insert, Existence
    <3>2. \A c \in Copies' : c = Gives(p)
      BY <1>2, <2>2, <3>1, NewCopies DEF Insert, State
    <3>3. db'.status = "present" /\ db'.doc = Gives(p) /\ call' = call
      BY <2>2 DEF Insert
    <3> QED
      BY <3>2, <3>3 DEF Existence, NoCopyAhead, Owns, Gives
  <2>3. ASSUME NEW p \in Procs, Update(p) PROVE Existence' /\ NoCopyAhead'
    <3>1. proc[p].val \in Copies /\ proc[p].val \in Docs
      BY <1>2, <2>3 DEF Update, Writing, At, Control, Copies
    <3>2. \A c \in Copies' : c \in Copies \/ c = Merge(proc[p].val, Gives(p))
      BY <1>2, <2>3, NewCopies DEF Update, State
    <3>3. call' = call /\ removed' = removed
      BY <2>3 DEF Update
    <3>4. CASE db.status = "present"
      <4>1. db' = [db EXCEPT !.doc = Merge(db.doc, Gives(p))]
        BY <2>3, <3>4 DEF Update, Saved
      <4>2. db'.doc = Merge(db.doc, Gives(p)) /\ db'.status = "present"
        BY <1>2, <3>4, <4>1 DEF TypeOK
      <4>3. ASSUME NEW q \in Callers, NEW f \in Fields, Owns(q, f), ~removed, NEW c \in Copies',
                   c[f] = Gives(q)[f]
            PROVE  db'.doc[f] = Gives(q)[f]
        <5>1. p # q => Gives(p)[f] = Unset
          BY <4>3, SubscriberAssumption DEF Owns, Gives, Nothing, Procs
        <5>2. CASE p = q
          BY <4>2, <4>3, <5>2 DEF Merge, Owns
        <5>3. CASE p # q
          <6>1. c \in Copies \/ c[f] = proc[p].val[f]
            BY <3>2, <5>1, <5>3 DEF Merge
          <6>2. db.doc[f] = Gives(q)[f]
            BY <1>2, <3>1, <4>3, <6>1 DEF NoCopyAhead
          <6> QED
            BY <4>2, <5>1, <5>3, <6>2 DEF Merge
        <5> QED
          BY <5>2, <5>3
      <4> QED
        BY <3>3, <4>2, <4>3 DEF Existence, NoCopyAhead, Owns, Gives
    <3>5. CASE db.status # "present"
      <4>1. db.status = "deleted" /\ removed
        BY <1>2, <3>1, <3>5 DEF Existence, TypeOK
      <4>2. db' = db
        BY <2>3, <3>5 DEF Update
      <4> QED
        BY <3>3, <4>1, <4>2 DEF Existence, NoCopyAhead
    <3> QED
      BY <3>4, <3>5
  <2>4. ASSUME NEW p \in Procs, Remove(p) PROVE Existence' /\ NoCopyAhead'
    <3>1. CASE db.status = "present"
      <4>1. removed' /\ db'.status = "deleted"
        BY <1>2, <2>4, <3>1 DEF Remove, Deleted, TypeOK
      <4> QED
        BY <4>1 DEF Existence, NoCopyAhead
    <3>2. CASE db.status # "present"
      <4>1. UNCHANGED <<call, db, removed>>
        BY <1>2, <2>4, <3>2 DEF Remove, TypeOK
      <4>2. \A c \in Copies' : c \in Copies \/ c = Null
        BY <1>2, <2>4, NewCopies DEF Remove, State
      <4>3. \A c \in Copies' : c \in Copies
        BY <4>2, SubscriberAssumption DEF Copies
      <4> QED
        BY <1>2, <4>1, <4>3, CopiesOfCopies
    <3> QED
      BY <3>1, <3>2
  <2>5. ASSUME NEW p \in Procs, BulkUpsert(p) PROVE Existence' /\ NoCopyAhead'
    <3>1. /\ db'.doc = Merge(db.doc, Gives(p)) /\ db'.status = "present"
          /\ call' = call /\ removed' = removed
      BY <2>5 DEF BulkUpsert
    <3>2. \A c \in Copies' : c \in Copies
      <4>1. \A c \in Copies' : c \in Copies \/ c = Null
        BY <1>2, <2>5, NewCopies DEF BulkUpsert, State
      <4> QED
        BY <4>1, SubscriberAssumption DEF Copies
    <3>3. ASSUME NEW q \in Callers, NEW f \in Fields, Owns(q, f), ~removed, NEW c \in Copies',
                 c[f] = Gives(q)[f]
          PROVE  db'.doc[f] = Gives(q)[f]
      <4>1. p # q => Gives(p)[f] = Unset
        BY <2>5, <3>3 DEF Owns, BulkUpsert
      <4>2. db.doc[f] = Gives(q)[f]
        BY <1>2, <3>2, <3>3 DEF NoCopyAhead
      <4> QED
        BY <3>1, <4>1, <4>2 DEF Merge
    <3> QED
      BY <3>1, <3>3 DEF Existence, NoCopyAhead, Owns, Gives
  <2>6. CASE Expire
    <3>1. \A c \in Copies' : c \in Copies
      BY <2>6, SubscriberAssumption DEF Expire, Copies
    <3> QED
      BY <1>2, <2>6, <3>1, CopiesOfCopies DEF Expire
  <2>7. CASE Replicate
    <3>1. \A c \in Copies' : c \in Copies \/ c = View(db)
      BY <2>7 DEF Replicate, Copies
    <3> QED
      BY <1>2, <2>7, <3>1, CopiesOfCopies DEF Replicate
  <2>8. CASE UNCHANGED vars
    BY <1>2, <2>8 DEF vars, Existence, NoCopyAhead, Copies, Owns, Gives
  <2> QED
    BY <1>2, <2>1, <2>2, <2>3, <2>4, <2>5, <2>6, <2>7, <2>8 DEF Next, Step
<1> QED
  BY <1>1, <1>2, Typing, PTL DEF Spec, KeptInv

\* What a call was told to have stored is in the document, however many calls overlapped and
\* whatever copies they worked from, unless another call gives the field or removes the subscriber.
THEOREM DetailsStay == Spec => []DetailsAreKept
<1>1. KeptInv => DetailsAreKept
  <2> SUFFICES ASSUME KeptInv, NEW p \in Callers, NEW f \in Fields,
                      proc[p].val # Null, Owns(p, f), proc[p].val[f] = Gives(p)[f], ~removed
               PROVE  db.doc[f] = Gives(p)[f]
    BY DEF DetailsAreKept, Owns
  <2>1. proc[p].val \in Copies
    BY DEF KeptInv, TypeOK, Copies, Procs
  <2> QED
    BY <2>1 DEF KeptInv, NoCopyAhead
<1> QED
  BY <1>1, Keeping, PTL

-----------------------------------------------------------------------------
\* A call on its way to the subscriber: it never gets as far as a creation.
Finds(st) ==
    /\ st.pc # "new"
    /\ st.stage \in {"process", "create", "write"}
    /\ st.pc = "done" => st.val # Null

\* Whoever looks the subscriber up sees it.
Seen ==
    /\ replica # Null
    /\ cache # Null
    /\ \A q \in Procs : At(q, "fill") => proc[q].val # Null

FoundInv ==
    ~removed => /\ sighted # {} => Seen
                /\ \A p \in sighted : Asks(p) => Finds(proc[p])

\* What is shown by the secondary is there.
LEMMA SeenIsThere ==
    ASSUME KeptInv, ~removed, replica # Null
    PROVE  View(db) # Null /\ db.status = "present"
<1>1. Copies # {}
  BY DEF KeptInv, TypeOK, Copies
<1>2. db.status = "present"
  BY <1>1 DEF KeptInv, Existence, TypeOK
<1> QED
  BY <1>2, SubscriberAssumption DEF View, KeptInv, TypeOK

\* Where a lookup that finds the subscriber leads to.
LEMMA AfterFinds ==
    ASSUME NEW p, NEW stage \in {"process", "create"}, NEW val, val # Null
    PROVE  Finds(After(p, stage, val))
<1>1. CASE NeedUpdate(val, Gives(p))
  <2>1. After(p, stage, val) = State("invalidate", "write", val)
    BY <1>1 DEF After
  <2> QED
    BY <2>1 DEF Finds, State
<1>2. CASE ~NeedUpdate(val, Gives(p))
  <2>1. After(p, stage, val) = State("done", stage, val)
    BY <1>2 DEF After
  <2> QED
    BY <2>1 DEF Finds, State
<1> QED
  BY <1>1, <1>2

LEMMA AfterLooks ==
    ASSUME NEW p, NEW stage, NEW val
    PROVE  After(p, stage, val).pc # "fill"
BY DEF After, State

\* Nobody reads that there is no subscriber once a call has begun with it in sight.
LEMMA SeenStays ==
    ASSUME KeptInv, FoundInv, NEW p \in Procs, Step(p) \/ CacheFails(p), ~removed, sighted' # {}
    PROVE  Seen'
<1>1. /\ TypeOK /\ proc[p] \in ProcState /\ replica' = replica
      /\ cache' \in {cache, Missing} \/ (At(p, "fill") /\ cache' = proc[p].val)
  BY DEF KeptInv, TypeOK, ProcState, PCs, Stages, Step, Begin, Lookup, Read, Fill, Invalidate,
         InvalidateByKey, Insert, InsertDuplicate, Update, Remove, BulkUpsert, CacheFails
<1>2. PICK st : Goes(p, st) /\ Sound(st)
  BY StepIsSound DEF KeptInv
<1>3. proc'[p] = st /\ \A q \in Procs \ {p} : proc'[q] = proc[q]
  BY <1>1, <1>2, Moves
<1>4. CASE sighted = {}
  <2>1. Begin(p) /\ InSight(p)
    BY <1>4 DEF Step, Begin, Lookup, Read, Fill, Invalidate, Insert, InsertDuplicate, Update,
                Remove, BulkUpsert, CacheFails
  <2>2. cache' = cache /\ \E pc \in {"read", "lookup"} : \E stage : Goes(p, State(pc, stage, Null))
    BY <2>1 DEF Begin
  <2>3. proc'[p].pc # "fill"
    BY <1>1, <2>2, Moves DEF State
  <2> QED
    BY <1>1, <1>3, <2>1, <2>2, <2>3 DEF Seen, InSight, At
<1>5. CASE sighted # {}
  <2>1. Seen /\ View(db) # Null
    BY <1>5, SeenIsThere DEF FoundInv, Seen
  <2>2. st.pc = "fill" => st.val # Null
    <3>1. CASE Read(p)
      <4>1. PICK v \in Sources(proc[p].stage) :
               Goes(p, IF proc[p].stage = "update" THEN After(p, "update", v)
                       ELSE State("fill", proc[p].stage, v))
        BY <3>1 DEF Read
      <4>2. st = (IF proc[p].stage = "update" THEN After(p, "update", v)
                  ELSE State("fill", proc[p].stage, v))
        BY <1>1, <1>3, <4>1, Moves
      <4>3. v # Null
        BY <2>1, <4>1 DEF Sources, Seen
      <4> QED
        BY <4>2, <4>3, AfterLooks DEF State
    <3>2. ASSUME NEW s, Goes(p, s), s.pc # "fill" PROVE st.pc # "fill"
      BY <1>1, <1>3, <3>2, Moves
    <3>3. \A pc \in {"read", "write"} : [proc[p] EXCEPT !.pc = pc].pc # "fill"
      BY <1>1 DEF ProcState
    <3>4. \A stage, v : \A pc \in {"read", "lookup", "done"} : State(pc, stage, v).pc # "fill"
      BY DEF State
    <3> QED
      BY <3>1, <3>2, <3>3, <3>4, AfterLooks
         DEF Step, Begin, Lookup, Fill, Invalidate, Insert, InsertDuplicate, Update, Remove,
             BulkUpsert, CacheFails
  <2>3. cache' # Null
    BY <1>1, <2>1, SubscriberAssumption DEF Seen
  <2> QED
    BY <1>1, <1>3, <2>1, <2>2, <2>3 DEF Seen, At
<1> QED
  BY <1>4, <1>5

\* The steps of such a call.
LEMMA CallerFinds ==
    ASSUME KeptInv, Seen, ~removed, NEW p \in Callers, Step(p) \/ CacheFails(p), Asks(p),
           Finds(proc[p])
    PROVE  Finds(proc'[p])
<1>1. /\ TypeOK /\ Control /\ p \in Procs /\ p \notin Readers /\ proc[p] \in ProcState
      /\ Null \notin Docs /\ cache # Null
  BY SubscriberAssumption DEF KeptInv, TypeOK, Procs, ProcState, PCs, Stages, Seen
<1>2. ASSUME NEW st, Goes(p, st), Finds(st) PROVE Finds(proc'[p])
  BY <1>1, <1>2, Moves
<1>3. At(p, "lookup") \/ At(p, "read") \/ At(p, "fill") => proc[p].stage \in {"process", "create"}
  BY <1>1 DEF Control, At, Finds, LookupStages
<1>4. ASSUME At(p, "lookup") \/ At(p, "fill"), NEW v, v # Null, Goes(p, After(p, proc[p].stage, v))
      PROVE  Finds(proc'[p])
  BY <1>2, <1>3, <1>4, AfterFinds
<1>5. ASSUME NEW pc \in {"read", "write"}, Goes(p, [proc[p] EXCEPT !.pc = pc])
      PROVE  Finds(proc'[p])
  <2> DEFINE st == [proc[p] EXCEPT !.pc = pc]
  <2>1. st.pc = pc /\ st.stage = proc[p].stage
    BY <1>1 DEF ProcState
  <2>2. Finds(st)
    BY <1>5, <2>1 DEF Finds
  <2> QED
    BY <1>2, <1>5, <2>2
<1>6. ~Begin(p) /\ ~BulkUpsert(p)
  BY <1>1 DEF Begin, Free, BulkUpsert, At, Finds
<1>7. CASE Lookup(p)
  <2>1. CASE cache = Missing
    BY <1>5, <1>7, <2>1 DEF Lookup
  <2>2. CASE cache # Missing
    BY <1>1, <1>4, <1>7, <2>2 DEF Lookup
  <2> QED
    BY <2>1, <2>2
<1>8. CASE Read(p)
  <2>1. proc[p].stage \in {"process", "create"}
    BY <1>3, <1>8 DEF Read
  <2>2. PICK v : Goes(p, State("fill", proc[p].stage, v))
    BY <1>8, <2>1 DEF Read
  <2>3. Finds(State("fill", proc[p].stage, v))
    BY <2>1 DEF Finds, State
  <2> QED
    BY <1>2, <2>2, <2>3
<1>9. CASE Fill(p)
  <2>1. At(p, "fill") /\ proc[p].val # Null
    BY <1>1, <1>9 DEF Fill, Seen
  <2> QED
    BY <1>4, <1>9, <2>1 DEF Fill
<1>10. CASE Invalidate(p)
  BY <1>5, <1>10 DEF Invalidate
<1>11. ~Insert(p) /\ ~InsertDuplicate(p) /\ ~Remove(p)
  BY <1>1 DEF Insert, InsertDuplicate, Remove, Writing, Finds
<1>12. CASE Update(p)
  <2>1. proc[p].val \in Docs
    BY <1>1, <1>12 DEF Update, Writing, At, Control
  <2>2. Merge(proc[p].val, Gives(p)) # Null
    BY <1>1, <2>1, GivesType, MergeType
  <2>3. Finds(State("done", "write", Merge(proc[p].val, Gives(p))))
    BY <2>2 DEF Finds, State
  <2> QED
    BY <1>2, <1>12, <2>3 DEF Update
<1>13. CASE CacheFails(p)
  <2>1. CASE At(p, "lookup") /\ Goes(p, [proc[p] EXCEPT !.pc = "read"])
    BY <1>5, <2>1
  <2>2. CASE At(p, "fill") /\ Goes(p, After(p, proc[p].stage, proc[p].val))
    BY <1>1, <1>4, <2>2 DEF Seen
  <2>3. CASE At(p, "invalidate") /\ Goes(p, [proc[p] EXCEPT !.pc = "write"])
    BY <1>5, <2>3
  <2> QED
    BY <1>13, <2>1, <2>2, <2>3 DEF CacheFails
<1> QED
  BY <1>6, <1>7, <1>8, <1>9, <1>10, <1>11, <1>12, <1>13 DEF Step

LEMMA FoundStep ==
    ASSUME KeptInv, FoundInv, [Next]_vars
    PROVE  FoundInv'
<1>1. ASSUME NEW p \in Procs, Step(p) \/ CacheFails(p), ~removed' PROVE FoundInv'
  <2>1. /\ TypeOK /\ ~removed /\ call' = call
        /\ sighted' = sighted \/ (sighted' = sighted \cup ({p} \cap Callers) /\ Begin(p))
    BY <1>1 DEF KeptInv, TypeOK, Step, Begin, Lookup, Read, Fill, Invalidate, Insert,
                InsertDuplicate, Update, Remove, BulkUpsert, CacheFails
  <2>2. sighted' # {} => Seen'
    BY <1>1, <2>1, SeenStays
  <2>3. ASSUME NEW q \in sighted', Asks(q)' PROVE Finds(proc'[q])
    <3>1. Asks(q) /\ q \in Callers /\ q \in Procs /\ (q \in sighted => Seen /\ Finds(proc[q]))
      BY <2>1, <2>3 DEF Asks, FoundInv, Procs, KeptInv, TypeOK
    <3>2. CASE q = p /\ Begin(p)
      <4>1. Goes(p, State("lookup", call[p].kind, Null)) /\ call[p].kind \in {"process", "create"}
        BY <3>1, <3>2, SubscriberAssumption DEF Begin, Asks
      <4>2. proc'[p] = State("lookup", call[p].kind, Null)
        BY <2>1, <4>1, <1>1, Moves
      <4> QED
        BY <3>2, <4>1, <4>2 DEF Finds, State
    <3>3. CASE q = p /\ ~Begin(p)
      BY <1>1, <2>1, <2>3, <3>1, <3>3, CallerFinds
    <3>4. CASE q # p
      <4>1. \E st : Goes(p, st)
        BY <1>1, StepIsSound DEF KeptInv
      <4>2. q \in sighted /\ proc'[q] = proc[q]
        BY <1>1, <2>1, <2>3, <3>1, <3>4, <4>1, Moves
      <4> QED
        BY <3>1, <4>2
    <3> QED
      BY <3>2, <3>3, <3>4
  <2> QED
    BY <2>2, <2>3 DEF FoundInv, Finds
<1>2. CASE Expire
  <2>1. cache' = Missing /\ Missing # Null /\ UNCHANGED <<call, replica, proc, sighted, removed>>
    BY <1>2, SubscriberAssumption DEF Expire
  <2> QED
    BY <2>1 DEF FoundInv, Seen, Finds, Asks, At
<1>3. CASE Replicate
  <2>1. replica' = View(db) /\ UNCHANGED <<call, cache, proc, sighted, removed>>
    BY <1>3 DEF Replicate
  <2>2. ~removed /\ sighted # {} => replica' # Null
    BY <2>1, SeenIsThere DEF FoundInv, Seen
  <2> QED
    BY <2>1, <2>2 DEF FoundInv, Seen, Finds, Asks, At
<1>4. CASE UNCHANGED vars
  BY <1>4 DEF vars, FoundInv, Seen, Finds, Asks, At
<1>5. removed' => FoundInv'
  BY DEF FoundInv
<1> QED
  BY <1>1, <1>2, <1>3, <1>4, <1>5 DEF Next

\* A call that begins with the subscriber in sight gets it and does not run into the unique
\* index, however many creations, updates and bulk creations are under way or join in later and
\* however often the cache fails: as long as the subscriber is not removed nobody can bring back
\* an entry that denies it.
THEOREM SightedCallsFind == Spec => []NobodyIsLostInSight
<1>1. Init => FoundInv
  BY DEF Init, FoundInv
<1>2. FoundInv => NobodyIsLostInSight
  BY DEF FoundInv, Finds, NobodyIsLostInSight, Done, At, Asks
<1> QED
  BY <1>1, <1>2, FoundStep, Keeping, PTL DEF Spec
=============================================================================
