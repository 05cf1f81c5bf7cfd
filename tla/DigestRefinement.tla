-------------------------- MODULE DigestRefinement --------------------------
(***************************************************************************)
(* JobEngine implements DigestWindow, for workflows that start with a      *)
(* trigger and a digest step: the messages are those of the last step.     *)
(***************************************************************************)
EXTENDS JobEngine

DigestJob(n) == <<n, 2>>

\* Slot w merges the digest job of n; it has still to write MERGED to that job itself.
Merges(w, n) == wk[w].pc = "merge" /\ wk[w].add = DigestJob(n)

Joins(w, n) == Merges(w, n) /\ 2 \in wk[w].todo

\* The notification whose digest collects that of n: its own once the digest has been
\* scheduled or skipped; that of the digest found under the lock from then on, also
\* while the merge is being written.
CollectedBy(n) ==
    {m \in Notifs :
        \/ m = n /\ DigestJob(n) \in WithStatus({"delayed", "running", "completed", "skipped"})
        \/ DigestJob(n) \in Followers(DigestJob(m))
        \/ \E w \in Workers : Merges(w, n) /\ wk[w].hit = DigestJob(m)}

Window == INSTANCE DigestWindow WITH
    Events <- Notifs,
    MayGoAlone <- Backoff,
    digest <- [n \in Notifs |-> CollectedBy(n)],
    joining <- {n \in Notifs : \E w \in Workers : Joins(w, n)},
    open <- [g \in Groups |-> {d[1] : d \in OpenDigests(g)}],
    missed <- {n \in Notifs : DigestJob(n) \in missed},
    sent <- delivered[NumSteps]

\* The workers that share the queue, the database and the lock behave as one digest
\* window per group: an event belongs to the digest that is open when its slot gets the
\* lock, and leaves in one message with all others that have arrived in this digest when
\* it is collected; one whose MERGED is still being written then is missed, and no other.
\* (Without cancel calls and faults.)
ImplementsDigestWindow == Window!Spec
=============================================================================
