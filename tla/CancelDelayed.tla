---------------------------- MODULE CancelDelayed ----------------------------
(***************************************************************************)
(* CancelDelayed (apps/api): DELETE /events/trigger/:transactionId.  A     *)
(* call for transaction x runs in the API process, concurrently with the   *)
(* workers; its control state is cc[x], with one action per await.         *)
(***************************************************************************)
EXTENDS JobStore

CancelAt(x, pc) == cc[x].pc = pc

\* The jobs of the transaction that are DELAYED or MERGED.  A call that finds none
\* changes nothing and returns false.
CancelFind(x) ==
    LET found == JobsOf(x) \cap WithStatus({"delayed", "merged"})
        mains == {j \in found : IsDigest(j) /\ status[j] = "delayed"}
    IN  /\ CancelAt(x, "off")
        /\ found # {}
        /\ \E main \in IF mains = {} THEN {NoJob} ELSE mains :
              cc' = [cc EXCEPT ![x].pc = IF \E j \in found : IsAction(j)
                                         THEN "pending" ELSE "write",
                               ![x].ids = found,
                               ![x].main = main]
        /\ UNCHANGED <<db, waiting, lock, wk, history, faults>>

\* With a digest or a delay among them, the PENDING jobs of the transaction too.
CancelFindPending(x) ==
    /\ CancelAt(x, "pending")
    /\ cc' = [cc EXCEPT ![x].pc = "write",
                        ![x].ids = @ \cup (JobsOf(x) \cap WithStatus({"pending"}))]
    /\ UNCHANGED <<db, waiting, lock, wk, history, faults>>

\* No slot works on notification n, no digest has collected it, and none of its jobs
\* waits in the queue but digests and delays that are cancelled now (ids): the
\* cancellation comes in time.
InTime(n, ids) ==
    /\ \A w \in Workers : /\ n \notin wk[w].batch
                          /\ \A f \in {"bull", "cur", "add"} :
                                wk[w][f] # NoJob => wk[w][f][1] # n
    /\ \A j \in Jobs : n \notin events[j]
    /\ \A j \in Jobs : j[1] = n /\ (\E a \in 0..MaxStarts : waiting[j][a] > 0)
                          => j \in ids /\ IsAction(j)
    /\ \A j \in Jobs : j[1] = n /\ status[j] \in {"delayed", "merged"} => j \in ids
    /\ \A j \in Jobs : j[1] = n => status[j] # "absent"

\* All of them become CANCELED, whatever their status is by now.
CancelWrite(x) ==
    /\ CancelAt(x, "write")
    /\ status' = [j \in Jobs |-> IF j \in cc[x].ids THEN "canceled" ELSE status[j]]
    /\ silenced' = silenced \cup {n \in Notifs : TransactionOf[n] = x /\ InTime(n, cc[x].ids)}
    /\ cc' = [cc EXCEPT ![x].pc = IF cc[x].main = NoJob THEN "done" ELSE "find"]
    /\ UNCHANGED <<mergedInto, events, waiting, lock, wk, delivered, missed, faults>>

Oldest(S) == {f \in S : \A g \in S : CreatedAt[f[1]] <= CreatedAt[g[1]]}

\* assignNextDigestJob: the oldest follower of the cancelled main digest.
FindNextMain(x) ==
    /\ CancelAt(x, "find")
    /\ \E f \in Oldest(Followers(cc[x].main)) :
          cc' = [cc EXCEPT ![x].pc = "promote", ![x].next = f]
    /\ UNCHANGED <<db, waiting, lock, wk, history, faults>>

\* Without one the call is over; a merge into the main digest that is still being
\* written is missed.
NoNextMain(x) ==
    /\ CancelAt(x, "find")
    /\ Followers(cc[x].main) = {}
    /\ cc' = [cc EXCEPT ![x].pc = "done"]
    /\ missed' = missed \cup InFlight(cc[x].main)
    /\ UNCHANGED <<db, waiting, lock, wk, delivered, silenced, faults>>

\* The follower becomes the main digest, if it is still MERGED; its bull delivery is
\* that of the cancelled main.
Promote(x) ==
    LET f == cc[x].next
    IN  /\ CancelAt(x, "promote")
        /\ IF status[f] = "merged"
           THEN /\ status' = [status EXCEPT ![f] = "delayed"]
                /\ mergedInto' = [mergedInto EXCEPT ![f] = NoJob]
           ELSE UNCHANGED <<status, mergedInto>>
        /\ cc' = [cc EXCEPT ![x].pc = IF HasChild(f) THEN "children" ELSE "repoint",
                            ![x].todo = f[2] + 1 .. NumSteps]
        /\ UNCHANGED <<events, waiting, lock, wk, history, faults>>

\* updateAllChildJobStatus: the descendants of the new main, one after the other.
PromoteChild(x) ==
    LET f == cc[x].next
    IN  /\ CancelAt(x, "children")
        /\ \E s \in cc[x].todo :
              /\ \A r \in cc[x].todo : s <= r
              /\ status' = [status EXCEPT ![<<f[1], s>>] = "pending"]
              /\ mergedInto' = [mergedInto EXCEPT ![<<f[1], s>>] = f]
              /\ cc' = [cc EXCEPT ![x].todo = @ \ {s},
                                  ![x].pc = IF cc[x].todo = {s} THEN "repoint" ELSE "children"]
        /\ UNCHANGED <<events, waiting, lock, wk, history, faults>>

\* Mutant: only the jobs that are DELAYED are pointed to the new main digest.
DelayedOfMain(x) == {j \in WithStatus({"delayed"}) : mergedInto[j] = cc[x].main}

\* The jobs that are merged into the cancelled main digest.
MergedOfMain(x) == {j \in WithStatus({"merged"}) : mergedInto[j] = cc[x].main}

\* They follow the new main digest, all but those whose merge is still being written.
Repoint(x) ==
    /\ CancelAt(x, "repoint")
    /\ mergedInto' = [j \in Jobs |-> IF j \in MergedOfMain(x) THEN cc[x].next ELSE mergedInto[j]]
    /\ cc' = [cc EXCEPT ![x].pc = "done"]
    /\ missed' = missed \cup InFlight(cc[x].main)
    /\ UNCHANGED <<status, events, waiting, lock, wk, delivered, silenced, faults>>

CancelStep(x) ==
    \/ CancelFind(x)
    \/ CancelFindPending(x)
    \/ CancelWrite(x)
    \/ FindNextMain(x)
    \/ NoNextMain(x)
    \/ Promote(x)
    \/ PromoteChild(x)
    \/ Repoint(x)
=============================================================================
