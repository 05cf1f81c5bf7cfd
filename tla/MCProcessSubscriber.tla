------------------------- MODULE MCProcessSubscriber -------------------------
(***************************************************************************)
(* Small instances of ProcessSubscriber for TLC.                           *)
(***************************************************************************)
EXTENDS ProcessSubscriber

CONSTANTS p1, p2, p3, r1, e1, e2, l1

Doc(email, locale) == [f \in Fields |-> IF f = "email" THEN email ELSE locale]

\* Triggers that give both fields or only the locale, and the other calls.
MixedCalls ==
    {[kind |-> "process", gives |-> Doc(e1, l1)],
     [kind |-> "process", gives |-> Doc(Unset, l1)],
     [kind |-> "create",  gives |-> Doc(e2, Unset)],
     [kind |-> "update",  gives |-> Doc(Unset, l1)],
     [kind |-> "remove",  gives |-> Doc(Unset, Unset)],
     [kind |-> "bulk",    gives |-> Doc(e1, Unset)]}

\* Triggers of a subscriber that is not there yet.
TwoTriggers ==
    {[kind |-> "process", gives |-> Doc(e1, Unset)],
     [kind |-> "process", gives |-> Doc(e2, Unset)]}

Nobody == {Null}

NoneOrOne == {Null, Doc(e2, Unset)}
=============================================================================
