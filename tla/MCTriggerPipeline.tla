------------------------- MODULE MCTriggerPipeline -------------------------
(***************************************************************************)
(* Small instances of TriggerPipeline for TLC.                             *)
(***************************************************************************)
EXTENDS TriggerPipeline, TLC

CONSTANTS t1, t2, s1, s2, s3, x1, x2, k1, k2, k3

\* Topics that overlap; k3 does not exist.
TwoTopics == (k1 :> {s1, s2}) @@ (k2 :> {s2, s3})

\* s1 is named and a member; s3, a member of k2, acts.
Multicast == [tx |-> x1, broadcast |-> FALSE, singles |-> {s1}, topics |-> {k1, k2}, actor |-> {s3}]

\* One is named and one of the topics is missing.
Missing == [tx |-> x1, broadcast |-> FALSE, singles |-> {s3}, topics |-> {k1, k3}, actor |-> {}]

\* The actor is a new subscriber.
Broadcast == [tx |-> x2, broadcast |-> TRUE, singles |-> {}, topics |-> {}, actor |-> {s3}]

AllKinds == {Multicast, Missing, Broadcast}

OneKind == {Multicast}
=============================================================================
