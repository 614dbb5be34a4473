---------------------------- MODULE GuardedPasses ----------------------------
(***************************************************************************)
(* The passes of the reconcile loop in the Pods of Leadership.  Supervisor *)
(* models one supervisor, whose writes follow from what its pass has       *)
(* listed.  Several Pods may believe to lead, and a Pod that stalls in a   *)
(* pass goes on with it later: this module says why they amount to one.    *)
(*                                                                         *)
(* Every write of a pass is a guarded request of Leadership.  Reads are    *)
(* not guarded, and neither is the beginning of a pass: the manager starts *)
(* the loop when its elector first acquires the Lease and stops it with    *)
(* the process (runtime.go, Run), which ends when a renewal has failed for *)
(* RenewDeadline.  What a pass reads and writes is in Supervisor.          *)
(***************************************************************************)
EXTENDS Leadership

CONSTANT RenewDeadline   \* 240 s

\* A process that finds its Lease taken ends before it could take it back.
ASSUME RenewAssumption == RenewDeadline \in Nat /\ RenewDeadline <= LeaseDuration

VARIABLES
    term,   \* elector: has it led, does it renew, and since when
    pass    \* the pass, and history: whether another Pod wrote since it listed

passVars == <<term, pass>>
leaderVars == <<now, lease, written, patches, seen, lock, call, gate, write>>
guardedVars == <<leaderVars, passVars>>

NoTerm == [led |-> FALSE, renewing |-> FALSE, since |-> 0]
GuardedInit == Init /\ term = [p \in Pods |-> NoTerm] /\ pass = [p \in Pods |-> "none"]

-----------------------------------------------------------------------------
(* The process (client-go, LeaderElector.Run: acquire once, then renew).   *)
InTimeAlways(p) == TRUE
InTime(p) == term[p].renewing => now < term[p].since + RenewDeadline

\* One try to acquire the Lease, or to renew it.
Tries(p) ==
    /\ InTime(p) /\ (Renew(p) \/ Attempt(p) \/ GetFails(p))
    /\ term' = IF term[p].led /\ ~term[p].renewing
               THEN [term EXCEPT ![p].renewing = TRUE, ![p].since = now] ELSE term
    /\ UNCHANGED pass

\* It succeeds: the process leads, and the next renewal has its own deadline.
Learns(p) == [led |-> TRUE, renewing |-> FALSE, since |-> 0]
TryEnds(p) ==
    /\ \/ /\ Finish(p)
          /\ term' = IF call[p].result = "ok" THEN [term EXCEPT ![p] = Learns(p)] ELSE term
       \/ GiveUp(p) /\ UNCHANGED term
    /\ UNCHANGED pass

\* The process ends, for any reason or because it could not renew, and with it
\* its pass.
ProcessEnds(p) ==
    /\ Restart(p)
    /\ term' = [term EXCEPT ![p] = NoTerm] /\ pass' = [pass EXCEPT ![p] = "none"]

-----------------------------------------------------------------------------
(* The pass (namespaceReconciler.Reconcile).                               *)
ListWithoutLease(p) == pass[p] = "none"
MayList(p) == pass[p] = "none" /\ term[p].led
List(p) ==
    /\ MayList(p)
    /\ pass' = [pass EXCEPT ![p] = "current"]
    /\ UNCHANGED <<leaderVars, term>>

\* The pass calls Apply, Create, Delete or Status.
Call(p) ==
    /\ pass[p] # "none" /\ Check(p)
    /\ UNCHANGED passVars

\* The API server carries the request out, while its sender waits for it.
Overtaken(p) ==
    [q \in Pods |-> IF q # p /\ pass[q] # "none" THEN "overtaken" ELSE pass[q]]
TakeEffect(p) ==
    /\ write[p].stage = "sent"
    /\ pass' = Overtaken(p)
    /\ UNCHANGED <<leaderVars, term>>

CallGoesOn(p) == (RoundTrip(p) \/ Return(p)) /\ UNCHANGED passVars

PassEnds(p) ==
    /\ pass[p] # "none" /\ write[p] = NoWrite
    /\ pass' = [pass EXCEPT ![p] = "none"]
    /\ UNCHANGED <<leaderVars, term>>

Outside == ((\E m \in patches : Receive(m)) \/ Tick) /\ UNCHANGED passVars

PassStep(p) == List(p) \/ Call(p) \/ TakeEffect(p) \/ CallGoesOn(p) \/ PassEnds(p)
GuardedNext ==
    \/ \E p \in Pods : Tries(p) \/ TryEnds(p) \/ ProcessEnds(p) \/ PassStep(p)
    \/ Outside
GuardedSpec == GuardedInit /\ [][GuardedNext]_guardedVars

-----------------------------------------------------------------------------
(* Correctness.                                                            *)

\* Every variable keeps its type.
GuardedTypeOK ==
    /\ TypeOK
    /\ term \in [Pods -> [led : BOOLEAN, renewing : BOOLEAN, since : Nat]]
    /\ pass \in [Pods -> {"none", "current", "overtaken"}]

\* A pass that has a write on its way has listed since any other Pod last wrote
\* (runtime.go, Run, and leadership.go, RoundTrip, together): what it decided
\* from is nobody else's to change, as if there were one supervisor.
WritesAreCurrent == \A p \in Pods : write[p].stage = "sent" => pass[p] = "current"

\* A process that has led and lost the Lease does not get it back (RenewDeadline
\* is shorter than the Lease): a pass that stalled is not resumed in a new term.
LostForGood ==
    [][\A p \in Pods :
          (term[p].led /\ lease.holder # p) => lease'.holder # p]_guardedVars
=============================================================================
