---------------------------- MODULE DigestWindow ----------------------------
(***************************************************************************)
(* What the digest step promises to whoever triggers a workflow: the       *)
(* events of a group are collected in one open digest at a time, and once  *)
(* a digest is closed its events leave together, once.                     *)
(*                                                                         *)
(* What it does not promise: an event joins a digest in two steps, and one *)
(* that is still on its way in when the closed digest is collected is      *)
(* missed and never leaves.                                                *)
(*                                                                         *)
(* A digest is named by the event that opened it.                          *)
(***************************************************************************)
EXTENDS Naturals

CONSTANTS
    Events,
    Groups,
    GroupOf,     \* the group of an event
    MayGoAlone   \* TRUE when an event need not wait for others

VARIABLES
    digest,   \* the digest of every event, a set of at most one
    joining,  \* the events on their way into their digest
    open,     \* the open digest of every group, a set of at most one
    missed,   \* the events that their digest was collected without
    sent      \* number of messages that carried an event

vars == <<digest, joining, open, missed, sent>>

Init ==
    /\ digest = [e \in Events |-> {}]
    /\ joining = {}
    /\ open = [g \in Groups |-> {}]
    /\ missed = {}
    /\ sent = [e \in Events |-> 0]

\* The events that belong to digest d.
Members(d) == {e \in Events : d \in digest[e]}

Open(e) ==
    /\ digest[e] = {}
    /\ open[GroupOf[e]] = {}
    /\ digest' = [digest EXCEPT ![e] = {e}]
    /\ open' = [open EXCEPT ![GroupOf[e]] = {e}]
    /\ UNCHANGED <<joining, missed, sent>>

Join(e) ==
    /\ digest[e] = {}
    /\ open[GroupOf[e]] # {}
    /\ digest' = [digest EXCEPT ![e] = open[GroupOf[e]]]
    /\ joining' = joining \cup {e}
    /\ UNCHANGED <<open, missed, sent>>

\* An event has arrived in its digest, whatever has become of the digest.
Settle(e) ==
    /\ e \in joining
    /\ joining' = joining \ {e}
    /\ UNCHANGED <<digest, open, missed, sent>>

\* An event that goes on without a digest (a back-off digest that is skipped).
Alone(e) ==
    /\ MayGoAlone
    /\ digest[e] = {}
    /\ digest' = [digest EXCEPT ![e] = {e}]
    /\ UNCHANGED <<joining, open, missed, sent>>

Close(g) ==
    /\ open[g] # {}
    /\ open' = [open EXCEPT ![g] = {}]
    /\ UNCHANGED <<digest, joining, missed, sent>>

\* A closed digest collects its events, and misses those on their way in.
Collect(d) ==
    /\ d \in digest[d]
    /\ d \notin open[GroupOf[d]]
    /\ sent[d] = 0
    /\ missed' = missed \cup (Members(d) \cap joining)
    /\ UNCHANGED <<digest, joining, open, sent>>

\* The message of digest d, with every event that it has collected.
Send(d) ==
    /\ d \in digest[d]
    /\ d \notin open[GroupOf[d]]
    /\ Members(d) \cap joining \subseteq missed
    /\ sent[d] = 0
    /\ sent' = [e \in Events |-> IF e \in Members(d) \ missed THEN sent[e] + 1 ELSE sent[e]]
    /\ UNCHANGED <<digest, joining, open, missed>>

Next ==
    \/ \E e \in Events : Open(e) \/ Join(e) \/ Settle(e) \/ Alone(e) \/ Collect(e) \/ Send(e)
    \/ \E g \in Groups : Close(g)

Spec == Init /\ [][Next]_vars
=============================================================================
