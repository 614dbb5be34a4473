----------------------------- MODULE Leadership -----------------------------
(***************************************************************************)
(* Which supervisor Pod of a namespace may write: the Lease named          *)
(* pig-supervisor, client-go's elector as runtime.go configures it, the    *)
(* PatchLeaseLock and the WriteGate of leadership.go, and one guarded      *)
(* write at a time (MaxConcurrentReconciles is 1).                         *)
(*                                                                         *)
(* Time is one discrete clock read by all: the Pods' monotonic clocks run  *)
(* at the same rate, which is what client-go assumes too; nobody reads     *)
(* another node's timestamps.  A Pod may stop between any two steps for as *)
(* long as it likes.  Lease patches may be delayed, lost, or take effect   *)
(* after their sender gave up.  Nobody deletes the Lease.                  *)
(*                                                                         *)
(* An API server that has accepted a request may still carry it out after  *)
(* the client stopped waiting; leadership.go excludes that from what the   *)
(* gate promises, and so does this module.                                 *)
(*                                                                         *)
(* Mutants are named as in Supervisor.                                     *)
(***************************************************************************)
EXTENDS Integers, FiniteSets

CONSTANTS
    Pods,           \* supervisor Pods, by POD_UID
    None,
    LeaseDuration,  \* 300 s
    WriteWindow,    \* 270 s, of which the reserve is LeaseDuration - WriteWindow
    Timeout,        \* 15 s, rest.Config.Timeout: a call is given up after it
    MaxTime,        \* bound: the clock stops here
    MaxVersion,     \* bound: versions of the Lease
    MaxPatches      \* bound: Lease patches under way at once

ASSUME PodAssumption == None \notin Pods
ASSUME TimeAssumption ==
    /\ LeaseDuration \in Nat /\ WriteWindow \in Nat \ {0} /\ Timeout \in Nat \ {0}
    /\ MaxTime \in Nat /\ MaxVersion \in Nat /\ MaxPatches \in Nat
\* "The reserve exceeds the API timeout."
ASSUME ReserveAssumption == WriteWindow + Timeout <= LeaseDuration

VARIABLES
    now,      \* the clock
    lease,    \* the stored Lease: its holder, None before it is created, and version
    written,  \* history: when that version was written
    patches,  \* Lease patches the API server may still receive
    seen,     \* elector: the last record observed, and when it was first observed
    lock,     \* PatchLeaseLock.lease: the resourceVersion the next patch names
    call,     \* elector: the Lease patch it waits for
    gate,     \* WriteGate.deadline
    write     \* the guarded request in progress

electorVars == <<seen, lock, call>>
vars == <<now, lease, written, patches, electorVars, gate, write>>

Unseen == [holder |-> None, version |-> 0, at |-> 0]
NoCall == [result |-> "none", version |-> 0, started |-> 0]
NoWrite == [stage |-> "none", limit |-> 0, left |-> 0]
Patches == [pod : Pods, version : Nat, started : Nat]

Init ==
    /\ now = 0
    /\ lease = [holder |-> None, version |-> 0] /\ written = 0
    /\ patches = {}
    /\ seen = [p \in Pods |-> Unseen] /\ lock = [p \in Pods |-> 0]
    /\ call = [p \in Pods |-> NoCall]
    /\ gate = [p \in Pods |-> 0]
    /\ write = [p \in Pods |-> NoWrite]

-----------------------------------------------------------------------------
(* The gate.                                                               *)
remaining(p) == gate[p] - now
Open(p) == remaining(p) > 0
renew(p, started) == gate' = [gate EXCEPT ![p] = started + WriteWindow]
Revoke(p) == gate' = [gate EXCEPT ![p] = 0]

(* The elector (client-go, LeaderElector.tryAcquireOrRenew).               *)
ExpiredAtOnce(record) == TRUE
Expired(record) == record.at + LeaseDuration <= now

\* Send the RV-guarded patch.  started is sampled before the call.
Send(p, version) ==
    /\ Cardinality(patches) < MaxPatches
    /\ call' = [call EXCEPT ![p] =
                  [result |-> "pending", version |-> version, started |-> now]]
    /\ patches' = patches \cup {[pod |-> p, version |-> version, started |-> now]}

\* The leader's fast path: it trusts the record it wrote or saw last.
Renew(p) ==
    /\ call[p] = NoCall
    /\ seen[p].holder = p /\ ~Expired(seen[p])
    /\ Send(p, lock[p])
    /\ UNCHANGED <<now, lease, written, seen, lock, gate, write>>

\* The slow path: Get, note when the record was first seen, and take it when
\* it is one's own, has not changed for a Lease duration, or does not exist.
\* Get closes the gate when somebody else holds the Lease.
Attempt(p) ==
    LET record == IF seen[p].version = lease.version THEN seen[p]
                  ELSE [holder |-> lease.holder, version |-> lease.version, at |-> now]
    IN
    /\ call[p] = NoCall
    /\ seen' = [seen EXCEPT ![p] = record]
    /\ lock' = [lock EXCEPT ![p] = lease.version]
    /\ IF lease.holder = p THEN UNCHANGED gate ELSE Revoke(p)
    /\ IF lease.holder \in {None, p} \/ Expired(record)
       THEN Send(p, lease.version) ELSE UNCHANGED <<call, patches>>
    /\ UNCHANGED <<now, lease, written, write>>

\* Get fails: the gate closes.
GetFails(p) ==
    /\ call[p] = NoCall
    /\ Revoke(p)
    /\ UNCHANGED <<now, lease, written, patches, electorVars, write>>

(* The API server applies a patch that names the current version, and      *)
(* answers the sender if it still waits.                                   *)
VersionHoldsAny(m) == TRUE
VersionHolds(m) == m.version = lease.version

Waits(m) == call[m.pod] = [result |-> "pending", version |-> m.version, started |-> m.started]
Receive(m) ==
    /\ patches' = patches \ {m}
    /\ IF VersionHolds(m)
       THEN /\ lease.version < MaxVersion
            /\ lease' = [holder |-> m.pod, version |-> lease.version + 1]
            /\ written' = now
       ELSE UNCHANGED <<lease, written>>
    /\ call' = IF Waits(m)
               THEN [call EXCEPT ![m.pod].result = IF VersionHolds(m) THEN "ok" ELSE "conflict"]
               ELSE call
    /\ UNCHANGED <<now, seen, lock, gate, write>>

(* PatchLeaseLock.finish.                                                  *)
FinishedAt(p) == now
FinishStart(p) == call[p].started
Finish(p) ==
    /\ call[p].result \in {"ok", "conflict"}
    /\ call' = [call EXCEPT ![p] = NoCall]
    /\ IF call[p].result = "ok"
       THEN /\ renew(p, FinishStart(p))
            /\ lock' = [lock EXCEPT ![p] = call[p].version + 1]
            /\ seen' = [seen EXCEPT ![p] =
                          [holder |-> p, version |-> call[p].version + 1, at |-> now]]
       ELSE Revoke(p) /\ UNCHANGED <<lock, seen>>
    /\ UNCHANGED <<now, lease, written, patches, write>>

\* The call fails or times out; the patch may still reach the server.
GiveUp(p) ==
    /\ call[p] # NoCall
    /\ call' = [call EXCEPT ![p] = NoCall]
    /\ Revoke(p)
    /\ UNCHANGED <<now, lease, written, patches, seen, lock, write>>

\* The Pod's container dies, also when the renew deadline stops the manager,
\* and starts again under the same POD_UID.
Restart(p) ==
    /\ seen' = [seen EXCEPT ![p] = Unseen] /\ lock' = [lock EXCEPT ![p] = 0]
    /\ call' = [call EXCEPT ![p] = NoCall]
    /\ Revoke(p)
    /\ write' = [write EXCEPT ![p] = NoWrite]
    /\ UNCHANGED <<now, lease, written, patches>>

-----------------------------------------------------------------------------
(* guardedTransport.RoundTrip under an http.Client whose timeout started   *)
(* when the call did: the gate is read, and later the request goes out     *)
(* with a context that ends after what was left of the window.             *)
EarliestOf(a, b) == IF a < b THEN a ELSE b

MayWriteAlways(p) == TRUE
MayWrite(p) == Open(p)
Check(p) ==
    /\ write[p] = NoWrite /\ MayWrite(p)
    /\ write' = [write EXCEPT ![p] =
                   [stage |-> "checked", limit |-> now + Timeout, left |-> remaining(p)]]
    /\ UNCHANGED <<now, lease, written, patches, electorVars, gate>>

DeadlineUncapped(p) == now + write[p].left
Deadline(p) == EarliestOf(write[p].limit, now + write[p].left)
RoundTrip(p) ==
    /\ write[p].stage = "checked" /\ now < Deadline(p)
    /\ write' = [write EXCEPT ![p] = [stage |-> "sent", limit |-> Deadline(p), left |-> 0]]
    /\ UNCHANGED <<now, lease, written, patches, electorVars, gate>>

Return(p) ==
    /\ write[p] # NoWrite
    /\ write' = [write EXCEPT ![p] = NoWrite]
    /\ UNCHANGED <<now, lease, written, patches, electorVars, gate>>

\* A request that is out ends by its context's deadline.
Tick ==
    /\ now < MaxTime
    /\ \A p \in Pods : write[p].stage = "sent" => now + 1 < write[p].limit
    /\ now' = now + 1
    /\ UNCHANGED <<lease, written, patches, electorVars, gate, write>>

PodStep(p) ==
    \/ Renew(p) \/ Attempt(p) \/ GetFails(p) \/ Finish(p) \/ GiveUp(p) \/ Restart(p)
    \/ Check(p) \/ RoundTrip(p) \/ Return(p)
Next ==
    \/ \E p \in Pods : PodStep(p)
    \/ \E m \in patches : Receive(m)
    \/ Tick

Spec == Init /\ [][Next]_vars

-----------------------------------------------------------------------------
(* Correctness.                                                            *)

\* Every variable keeps its type.
TypeOK ==
    /\ now \in Nat /\ written \in Nat
    /\ lease \in [holder : Pods \cup {None}, version : Nat]
    /\ patches \subseteq Patches
    /\ seen \in [Pods -> [holder : Pods \cup {None}, version : Nat, at : Nat]]
    /\ lock \in [Pods -> Nat]
    /\ call \in [Pods -> [result : {"none", "pending", "ok", "conflict"},
                          version : Nat, started : Nat]]
    /\ gate \in [Pods -> Nat]
    /\ write \in [Pods -> [stage : {"none", "checked", "sent"}, limit : Nat, left : Nat]]

\* At most one Pod's gate is open, whatever is delayed, lost or restarted
\* (writeWindow is shorter than LeaseDuration and starts before the patch).
OneGate == \A p, q \in Pods : Open(p) /\ Open(q) => p = q

\* While a Pod's gate is open no other Pod has a write on its way, even one
\* that was checked before its own gate closed and sent after ("the reserve
\* exceeds the API timeout").
WritesEndFirst == \A p, q \in Pods : write[p].stage = "sent" /\ Open(q) => p = q

\* The Lease changes hands only after a full Lease duration without a renewal,
\* counted from when the renewal was stored (CONTRACT.md, "Ownership").
TakeoverWaits ==
    [][(lease'.holder # lease.holder /\ lease.holder # None)
         => written + LeaseDuration <= now]_vars

\* The Pod whose gate is open, and the Pod with a write on its way.
Owner == IF \E p \in Pods : Open(p) THEN CHOOSE p \in Pods : Open(p) ELSE None
Writer == IF \E p \in Pods : write[p].stage = "sent"
          THEN CHOOSE p \in Pods : write[p].stage = "sent" ELSE None

\* The Lease, the elector and the gate together give exclusive authority to
\* write, as WriteAuthority specifies it.
Authority == INSTANCE WriteAuthority WITH owner <- Owner, writer <- Writer
ImplementsAuthority == Authority!Spec
=============================================================================
