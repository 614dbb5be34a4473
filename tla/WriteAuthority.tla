--------------------------- MODULE WriteAuthority ---------------------------
(***************************************************************************)
(* What leader election promises the rest of the supervisor: authority to  *)
(* write is granted to one Pod at a time, and never while a write of       *)
(* another Pod is on its way.  A write may be sent under authority or      *)
(* outlive it, but it never overlaps the authority of another.             *)
(***************************************************************************)
CONSTANTS Pods, None

VARIABLES
    owner,    \* the Pod that has authority to write, or None
    writer    \* the Pod with a write on its way, or None

vars == <<owner, writer>>

Init == owner = None /\ writer = None

Grant(p) ==
    /\ owner = None /\ writer \in {None, p}
    /\ owner' = p /\ UNCHANGED writer

Withdraw == owner # None /\ owner' = None /\ UNCHANGED writer

Begin(p) ==
    /\ writer = None /\ owner \in {None, p}
    /\ writer' = p /\ UNCHANGED owner

End == writer # None /\ writer' = None /\ UNCHANGED owner

\* The Pod dies with a write on its way.
Die == writer # None /\ owner \in {None, writer} /\ owner' = None /\ writer' = None

Next == Withdraw \/ End \/ Die \/ \E p \in Pods : Grant(p) \/ Begin(p)
Spec == Init /\ [][Next]_vars
=============================================================================
