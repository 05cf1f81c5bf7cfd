----------------------------- MODULE MCJobEngine -----------------------------
(***************************************************************************)
(* Small instances of JobEngine for TLC.                                   *)
(***************************************************************************)
EXTENDS DigestRefinement, TLC

CONSTANTS w1, w2, t1, t2, t3, g1, g2

\* Two and three notifications, named by their creation time.
Two == {1, 2}
Three == {1, 2, 3}
CreatedInOrder == [n \in Notifs |-> n]

\* One transaction per notification, and one for notifications 1 and 2.
OwnTransaction == [n \in Notifs |-> CASE n = 1 -> t1 [] n = 2 -> t2 [] OTHER -> t3]

OneGroup == [n \in Notifs |-> g1]

\* CreateNotificationJobs puts a TRIGGER step before a workflow with a digest.
DigestFlow == <<"trigger", "digest", "channel">>
DelayFlow == <<"channel", "channel", "delay", "channel">>

WorkerSymmetry == Permutations(Workers)
=============================================================================
