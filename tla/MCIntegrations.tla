--------------------------- MODULE MCIntegrations ---------------------------
(***************************************************************************)
(* Small instances of Integrations for TLC.                                *)
(***************************************************************************)
EXTENDS Integrations, TLC

CONSTANTS i1, i2, i3, e1, e2

Entry(status, active, primary, priority) ==
    [status |-> status, env |-> e1, active |-> active, primary |-> primary,
     priority |-> priority, conditions |-> FALSE]

\* In order: a primary integration, another active or an inactive one, and one to come.
\* Not in order, after choices that overlapped: two primary ones and two at the top.
Stores ==
    {(i1 :> Entry("present", TRUE, TRUE, 2)) @@ (i2 :> Entry("present", TRUE, FALSE, 1))
        @@ (i3 :> Entry("none", FALSE, FALSE, 0)),
     (i1 :> Entry("present", TRUE, TRUE, 1)) @@ (i2 :> Entry("present", FALSE, FALSE, 0))
        @@ (i3 :> Entry("none", FALSE, FALSE, 0)),
     (i1 :> Entry("present", TRUE, TRUE, 2)) @@ (i2 :> Entry("present", TRUE, TRUE, 3))
        @@ (i3 :> Entry("present", TRUE, FALSE, 3))}
=============================================================================
